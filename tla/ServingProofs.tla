----------------------------- MODULE ServingProofs -----------------------------
(***************************************************************************)
(* The event stream, the world controller, the stdio server and the        *)
(* benchmark, each for every bound on what it is given: the stream skips   *)
(* nothing and keeps the order of the file, whatever is appended meanwhile;*)
(* the server answers line by line; switches and reads exclude each other; *)
(* each verdict is earned by its own scenario.                             *)
(***************************************************************************)
EXTENDS MCServing, PolicyLemmas

(* The event stream.  A batch is over at the end of the file, which lies   *)
(* behind the size measured before; so all up to that size has been sent.  *)
BatchInOrder ==
  /\ start <= offset /\ offset <= lines
  /\ place \in {"measured", "reading"} => offset < size /\ size <= lines
  /\ place = "reading" =>
       /\ offset <= pos /\ pos <= lines
       /\ \A n \in offset + 1 .. pos : \E i \in DOMAIN sent : sent[i] = n
       /\ sent # << >> => pos <= sent[Len(sent)]
  /\ sent # << >> => offset <= sent[Len(sent)]
  /\ place = "connecting" => sent = << >>

StreamInv == StreamTypeOK /\ NothingSkipped /\ InFileOrder /\ BatchInOrder

LEMMA StreamStarts == StreamInit => StreamInv
BY MaxLinesAssumption
   DEF StreamInit, StreamInv, StreamTypeOK, Places, NothingSkipped, InFileOrder, BatchInOrder

(* The next line of the batch.                                             *)
LEMMA SendLinePreserves == StreamInv /\ SendLine => StreamInv'
<1> SUFFICES ASSUME StreamInv, SendLine PROVE StreamInv'
    OBVIOUS
<1> USE MaxLinesAssumption DEF StreamInv, SendLine
<1>1. /\ sent \in Seq(1..MaxLines) /\ pos \in Nat /\ lines \in Nat /\ offset \in Nat
      /\ start \in Nat /\ pos + 1 \in 1..MaxLines /\ Len(sent) \in Nat
  BY DEF StreamTypeOK
<1>2. /\ Len(sent') = Len(sent) + 1
      /\ \A i \in DOMAIN sent : i \in DOMAIN sent' /\ sent'[i] = sent[i]
      /\ \A i \in DOMAIN sent' : i \in DOMAIN sent \/ i = Len(sent) + 1
      /\ Len(sent) + 1 \in DOMAIN sent'
      /\ sent'[Len(sent) + 1] = pos + 1
      /\ sent' # << >>
  BY <1>1
<1>3. StreamTypeOK'
  BY <1>1 DEF StreamTypeOK
<1>4. NothingSkipped'
  BY <1>2 DEF NothingSkipped
<1>5. InFileOrder'
  <2>1. \A i \in DOMAIN sent' : sent'[i] \in start' + 1 .. lines'
    BY <1>1, <1>2 DEF InFileOrder, BatchInOrder
  <2>2. ASSUME NEW i \in DOMAIN sent', i > 1 PROVE sent'[i] <= sent'[i - 1] + 1
    <3>1. CASE i \in DOMAIN sent
      <4>1. i - 1 \in DOMAIN sent
        BY <1>1, <2>2, <3>1
      <4> QED BY <1>2, <2>2, <3>1, <4>1 DEF InFileOrder
    <3>2. CASE i = Len(sent) + 1
      <4>1. Len(sent) \in DOMAIN sent /\ sent # << >> /\ i - 1 = Len(sent)
        BY <1>1, <2>2, <3>2
      <4>2. pos <= sent[Len(sent)] /\ sent[Len(sent)] \in Nat
        BY <1>1, <4>1 DEF BatchInOrder, StreamTypeOK
      <4> QED BY <1>1, <1>2, <3>2, <4>1, <4>2
    <3> QED BY <1>2, <3>1, <3>2
  <2> QED BY <2>1, <2>2 DEF InFileOrder
<1>6. BatchInOrder'
  <2>1. ASSUME NEW n \in offset + 1 .. pos + 1 PROVE \E i \in DOMAIN sent' : sent'[i] = n
    <3>1. CASE n = pos + 1
      BY <1>2, <3>1
    <3>2. CASE n # pos + 1
      <4>1. n \in offset + 1 .. pos
        BY <1>1, <2>1, <3>2
      <4> QED BY <1>2, <4>1 DEF BatchInOrder
    <3> QED BY <3>1, <3>2
  <2>2. sent'[Len(sent')] = pos + 1 /\ offset <= pos + 1
    BY <1>1, <1>2 DEF BatchInOrder
  <2>3. /\ start <= offset /\ offset <= lines /\ offset < size /\ size <= lines
        /\ offset <= pos + 1 /\ pos + 1 <= lines /\ place = "reading"
    BY <1>1, <2>2 DEF BatchInOrder
  <2>4. UNCHANGED <<lines, place, start, offset, size>> /\ pos' = pos + 1
    OBVIOUS
  <2> HIDE DEF StreamInv, SendLine
  <2> QED BY <2>1, <2>2, <2>3, <2>4, <1>2 DEF BatchInOrder
<1> QED BY <1>3, <1>4, <1>5, <1>6

(* The end of the batch: the offset moves to the size measured before it.  *)
LEMMA EndOfFilePreserves == StreamInv /\ EndOfFile => StreamInv'
<1> SUFFICES ASSUME StreamInv, EndOfFile PROVE StreamInv'
    OBVIOUS
<1> USE MaxLinesAssumption DEF StreamInv, EndOfFile
<1>1. /\ {start, offset, size, pos, lines} \subseteq Nat
      /\ start <= offset /\ offset < size /\ size <= lines /\ pos = lines
  BY DEF StreamTypeOK, BatchInOrder
<1>2. StreamTypeOK' /\ InFileOrder'
  BY DEF StreamTypeOK, InFileOrder, Places
<1>3. ASSUME NEW n \in start + 1 .. size PROVE \E i \in DOMAIN sent : sent[i] = n
  <2>1. n \in start + 1 .. offset \/ n \in offset + 1 .. pos
    BY <1>1, <1>3
  <2> QED BY <2>1 DEF NothingSkipped, BatchInOrder
<1>4. NothingSkipped'
  BY <1>3 DEF NothingSkipped
<1>5. ASSUME sent # << >> PROVE size <= sent[Len(sent)]
  <2>1. sent[Len(sent)] \in Nat /\ pos <= sent[Len(sent)]
    BY <1>5 DEF StreamTypeOK, BatchInOrder
  <2> QED BY <1>1, <2>1
<1>6. BatchInOrder'
  BY <1>1, <1>5 DEF BatchInOrder
<1> QED BY <1>2, <1>4, <1>6

LEMMA StreamInductive == StreamInv /\ [StreamNext]_streamVars => StreamInv'
<1> SUFFICES ASSUME StreamInv, [StreamNext]_streamVars PROVE StreamInv'
    OBVIOUS
<1> USE MaxLinesAssumption
<1>1. CASE AppendLine
  BY <1>1 DEF AppendLine, StreamInv, StreamTypeOK, Places, NothingSkipped, InFileOrder,
     BatchInOrder
<1>2. CASE Connect
  BY <1>2 DEF Connect, StreamInv, StreamTypeOK, Places, NothingSkipped, InFileOrder,
     BatchInOrder
<1>3. CASE Measure
  BY <1>3 DEF Measure, StreamInv, StreamTypeOK, Places, NothingSkipped, InFileOrder,
     BatchInOrder
<1>4. CASE OpenAndSeek
  BY <1>4 DEF OpenAndSeek, StreamInv, StreamTypeOK, Places, NothingSkipped, InFileOrder,
     BatchInOrder
<1>5. CASE SendLine
  BY <1>5, SendLinePreserves
<1>6. CASE EndOfFile
  BY <1>6, EndOfFilePreserves
<1>7. CASE Disconnect
  BY <1>7 DEF Disconnect, StreamInv, StreamTypeOK, Places, NothingSkipped, InFileOrder,
     BatchInOrder
<1>8. CASE Reconnect
  BY <1>8 DEF Reconnect, StreamInv, StreamTypeOK, Places, NothingSkipped, InFileOrder,
     BatchInOrder
<1>9. CASE UNCHANGED streamVars
  BY <1>9 DEF streamVars, StreamInv, StreamTypeOK, Places, NothingSkipped, InFileOrder,
     BatchInOrder
<1> QED
  BY <1>1, <1>2, <1>3, <1>4, <1>5, <1>6, <1>7, <1>8, <1>9 DEF StreamNext, StreamStep

(* However many lines there are and whenever they are appended: a batch    *)
(* that is over has left no gap behind it, what a client is sent is new    *)
(* and in the file, and after a line comes the next one or one that was    *)
(* sent before.                                                            *)
THEOREM StreamIsFaithful == StreamSpec => []StreamFaithful
<1>1. StreamInv => StreamFaithful
  BY DEF StreamInv, StreamFaithful
<1>2. StreamSpec => []StreamInv
  BY StreamStarts, StreamInductive, PTL DEF StreamSpec
<1> QED BY <1>1, <1>2, PTL

-----------------------------------------------------------------------------
(* The stdio server.  Inside a call the line it came with is the last one  *)
(* read, and has no reply yet.                                             *)
AtOneLine ==
  /\ \A i \in DOMAIN replies : replies[i].line <= read
  /\ handling => /\ server = "runs" /\ read >= 1 /\ Owed(read)
                 /\ \A i \in DOMAIN replies : replies[i].line < read

StdioInv == StdioTypeOK /\ OneReplyInOrder /\ EffectsAnswered /\ AtOneLine

LEMMA StdioStarts == StdioInit => StdioInv
<1> SUFFICES ASSUME StdioInit PROVE StdioInv
    OBVIOUS
<1> USE MaxInputAssumption DEF StdioInit
<1>1. StdioTypeOK
  <2>1. Len(input) = 0 /\ read \in 0..Len(input) /\ Len(input) <= MaxInput
    OBVIOUS
  <2>2. input \in Seq(InputLines) /\ replies \in Seq(StdioReplies)
    OBVIOUS
  <2>3. eof \in BOOLEAN /\ handling \in BOOLEAN /\ server \in {"runs", "ended", "raised"}
    OBVIOUS
  <2>4. effects \subseteq 1..read
    OBVIOUS
  <2> QED BY <2>1, <2>2, <2>3, <2>4 DEF StdioTypeOK
<1>2. DOMAIN replies = {}
  OBVIOUS
<1>3. OneReplyInOrder
  BY <1>2 DEF OneReplyInOrder
<1>4. EffectsAnswered
  BY <1>2 DEF EffectsAnswered
<1>5. AtOneLine
  BY <1>2 DEF AtOneLine
<1> QED BY <1>1, <1>3, <1>4, <1>5 DEF StdioInv

LEMMA RepliesTyped == StdioTypeOK => \A i \in DOMAIN replies : replies[i].line \in 1..MaxInput
<1> SUFFICES ASSUME StdioTypeOK, NEW i \in DOMAIN replies PROVE replies[i].line \in 1..MaxInput
    OBVIOUS
<1>1. replies \in Seq(StdioReplies)
  BY DEF StdioTypeOK
<1>2. replies[i] \in StdioReplies
  BY <1>1
<1> QED BY <1>2 DEF StdioReplies

(* A reply to a line that has none, as the last thing done for it.         *)
LEMMA ReplyPreserves ==
  ASSUME StdioInv, server = "runs", NEW n \in 1..MaxInput, n = read', n <= Len(input),
         read <= n, n <= read + 1, handling => n = read, ~handling => n = read + 1,
         Owed(n), \A i \in DOMAIN replies : replies[i].line < n,
         NEW content \in Content, n \in effects => content = "result",
         replies' = ReplyTo(n, content), handling' = FALSE,
         UNCHANGED <<input, eof, server, effects>>
  PROVE  StdioInv'
<1> DEFINE new == [line |-> n, id |-> input[n].id, content |-> content]
<1>1. /\ input \in Seq(InputLines) /\ replies \in Seq(StdioReplies) /\ read \in Nat
      /\ effects \subseteq 1..read /\ Len(input) \in Nat /\ Len(replies) \in Nat
  BY DEF StdioInv, StdioTypeOK
<1>2. new \in StdioReplies
  <2>1. input[n] \in InputLines
    BY <1>1
  <2>2. input[n].id \in BOOLEAN
    BY <2>1 DEF InputLines
  <2> QED BY <2>2 DEF StdioReplies
<1>3. replies' = Append(replies, new)
  BY DEF ReplyTo
<1> HIDE DEF new
<1>4. /\ replies' \in Seq(StdioReplies)
      /\ Len(replies') = Len(replies) + 1
      /\ \A i \in DOMAIN replies : i \in DOMAIN replies' /\ replies'[i] = replies[i]
      /\ \A i \in DOMAIN replies' : i \in DOMAIN replies \/ i = Len(replies) + 1
      /\ Len(replies) + 1 \in DOMAIN replies'
      /\ replies'[Len(replies) + 1] = new
  BY <1>1, <1>2, <1>3
<1>5. new.line = n /\ new.id = input[n].id /\ new.content = content
  BY DEF new
<1>6. StdioTypeOK'
  <2>1. read' \in 0..Len(input') /\ effects' \subseteq 1..read'
    BY <1>1
  <2> QED BY <1>4, <2>1 DEF StdioInv, StdioTypeOK
<1>7. \A m : Owed(m)' <=> Owed(m)
  BY DEF Owed
<1>8. OneReplyInOrder'
  <2>1. ASSUME NEW i \in DOMAIN replies', NEW j \in DOMAIN replies', i < j
        PROVE  replies'[i].line < replies'[j].line
    <3>1. i \in DOMAIN replies
      BY <1>1, <1>4, <2>1
    <3>2. CASE j \in DOMAIN replies
      BY <1>4, <2>1, <3>1, <3>2 DEF StdioInv, OneReplyInOrder
    <3>3. CASE j = Len(replies) + 1
      BY <1>4, <1>5, <3>1, <3>3
    <3> QED BY <1>4, <3>2, <3>3
  <2>2. ASSUME NEW i \in DOMAIN replies'
        PROVE  (Owed(replies[i].line) /\ replies[i].id = input[replies[i].line].id)'
    <3>1. CASE i \in DOMAIN replies
      BY <1>4, <1>7, <3>1 DEF StdioInv, OneReplyInOrder
    <3>2. CASE i = Len(replies) + 1
      BY <1>4, <1>5, <1>7, <3>2
    <3> QED BY <1>4, <3>1, <3>2
  <2>3. ASSUME NEW m \in 1..read', Owed(m)'
        PROVE  \E i \in DOMAIN replies' : replies'[i].line = m
    <3>1. CASE m = n
      BY <1>4, <1>5, <3>1
    <3>2. CASE m # n
      <4>1. m \in 1..read /\ (m = read => ~handling)
        BY <1>1, <2>3, <3>2
      <4>2. \E i \in DOMAIN replies : replies[i].line = m
        BY <1>7, <2>3, <4>1 DEF StdioInv, OneReplyInOrder
      <4> QED BY <1>4, <4>2
    <3> QED BY <3>1, <3>2
  <2> QED BY <2>1, <2>2, <2>3 DEF OneReplyInOrder
<1>9. EffectsAnswered'
  <2>1. ASSUME NEW m \in effects, NEW i \in DOMAIN replies', replies'[i].line = m
        PROVE  replies'[i].content = "result"
    <3>1. CASE i \in DOMAIN replies
      BY <1>4, <2>1, <3>1 DEF StdioInv, EffectsAnswered
    <3>2. CASE i = Len(replies) + 1
      BY <1>4, <1>5, <2>1, <3>2
    <3> QED BY <1>4, <3>1, <3>2
  <2>2. ASSUME NEW m \in effects
        PROVE  \E i \in DOMAIN replies' : replies'[i].line = m
    <3>1. CASE m = n
      BY <1>4, <1>5, <3>1
    <3>2. CASE m # n
      <4>1. m \in 1..read /\ (m = read => ~handling)
        BY <1>1, <2>2, <3>2
      <4>2. \E i \in DOMAIN replies : replies[i].line = m
        BY <2>2, <4>1 DEF StdioInv, EffectsAnswered
      <4> QED BY <1>4, <4>2
    <3> QED BY <3>1, <3>2
  <2> QED BY <2>1, <2>2 DEF EffectsAnswered
<1>10. AtOneLine'
  <2>1. ASSUME NEW i \in DOMAIN replies' PROVE replies'[i].line <= read'
    <3>1. CASE i \in DOMAIN replies
      <4>1. replies[i].line <= read /\ replies[i].line \in Nat
        BY <3>1, RepliesTyped DEF StdioInv, AtOneLine
      <4> QED BY <1>1, <1>4, <3>1, <4>1
    <3>2. CASE i = Len(replies) + 1
      BY <1>4, <1>5, <3>2
    <3> QED BY <1>4, <3>1, <3>2
  <2> QED BY <2>1 DEF AtOneLine
<1> QED BY <1>6, <1>8, <1>9, <1>10 DEF StdioInv

LEMMA StdioInductive == StdioInv /\ [StdioNext]_stdioVars => StdioInv'
<1> SUFFICES ASSUME StdioInv, [StdioNext]_stdioVars PROVE StdioInv'
    OBVIOUS
<1> USE MaxInputAssumption
<1>0. /\ input \in Seq(InputLines) /\ Len(input) <= MaxInput /\ read \in 0..Len(input)
      /\ replies \in Seq(StdioReplies) /\ effects \subseteq 1..read /\ Len(input) \in Nat
  BY DEF StdioInv, StdioTypeOK
<1>1. CASE \E line \in InputLines : ClientWrites(line)
  <2>1. PICK line \in InputLines : ClientWrites(line)
    BY <1>1
  <2>2. /\ input' \in Seq(InputLines) /\ Len(input') = Len(input) + 1
        /\ Len(input') <= MaxInput
        /\ \A n \in 1..read : input'[n] = input[n]
    BY <1>0, <2>1 DEF ClientWrites
  <2>3. \A n \in 1..read : Owed(n)' <=> Owed(n)
    BY <2>2 DEF Owed
  <2>4. \A i \in DOMAIN replies : replies[i].line \in 1..read
    BY <1>0, RepliesTyped DEF StdioInv, AtOneLine
  <2>5. UNCHANGED <<eof, read, handling, server, replies, effects>>
    BY <2>1 DEF ClientWrites
  <2>6. StdioTypeOK'
    BY <1>0, <2>2, <2>5 DEF StdioInv, StdioTypeOK
  <2>7. OneReplyInOrder'
    BY <2>2, <2>3, <2>4, <2>5 DEF StdioInv, OneReplyInOrder
  <2>8. EffectsAnswered'
    BY <2>5 DEF StdioInv, EffectsAnswered
  <2>9. AtOneLine'
    BY <1>0, <2>3, <2>5 DEF StdioInv, AtOneLine
  <2> QED BY <2>6, <2>7, <2>8, <2>9 DEF StdioInv
<1>2. CASE ClientCloses \/ InputEnds
  <2>1. /\ UNCHANGED <<input, read, handling, replies, effects>>
        /\ eof' \in BOOLEAN
        /\ server' = server \/ (server = "runs" /\ ~handling /\ server' = "ended")
    BY <1>2 DEF ClientCloses, InputEnds, StdioInv, StdioTypeOK
  <2>2. StdioTypeOK'
    BY <2>1 DEF StdioInv, StdioTypeOK
  <2>3. OneReplyInOrder'
    BY <2>1 DEF StdioInv, OneReplyInOrder, Owed
  <2>4. EffectsAnswered'
    BY <2>1 DEF StdioInv, EffectsAnswered
  <2>5. AtOneLine'
    BY <2>1 DEF StdioInv, AtOneLine, Owed
  <2> QED BY <2>2, <2>3, <2>4, <2>5 DEF StdioInv
<1>3. CASE SkipLine \/ LineRaises
  <2>1. /\ read' = read + 1 /\ read < Len(input) /\ server = "runs" /\ ~handling
        /\ UNCHANGED <<input, eof, handling, replies, effects>>
        /\ server' \in {"runs", "raised"}
        /\ ~Owed(read + 1) \/ server' = "raised"
    BY <1>3 DEF SkipLine, LineRaises, AtLine, Skipped, NextLine, Owed
  <2>2. StdioTypeOK'
    BY <1>0, <2>1 DEF StdioInv, StdioTypeOK
  <2>3. OneReplyInOrder'
    <3>1. ASSUME NEW n \in 1..read', Owed(n)
          PROVE  (\E i \in DOMAIN replies : replies[i].line = n) \/ (n = read' /\ server' = "raised")
      BY <1>0, <2>1, <3>1 DEF StdioInv, OneReplyInOrder
    <3> QED BY <2>1, <3>1 DEF StdioInv, OneReplyInOrder, Owed
  <2>4. EffectsAnswered'
    BY <1>0, <2>1 DEF StdioInv, EffectsAnswered
  <2>5. AtOneLine'
    <3>1. \A i \in DOMAIN replies : replies[i].line \in Nat /\ replies[i].line <= read
      BY <1>0, RepliesTyped DEF StdioInv, AtOneLine
    <3> QED BY <1>0, <2>1, <3>1 DEF AtOneLine
  <2> QED BY <2>2, <2>3, <2>4, <2>5 DEF StdioInv
<1>4. CASE AnswerLine
  <2> DEFINE content == IF NextLine.method = "other" THEN "notFound" ELSE "result"
  <2>1. /\ read' = read + 1 /\ read < Len(input) /\ server = "runs" /\ handling = FALSE
        /\ replies' = ReplyTo(read + 1, content)
        /\ UNCHANGED <<input, eof, handling, server, effects>>
    BY <1>4 DEF AnswerLine, AtLine, StdioInv, StdioTypeOK
  <2>2. Owed(read + 1)
    BY <1>4 DEF AnswerLine, NextLine, Owed
  <2>3. \A i \in DOMAIN replies : replies[i].line < read + 1
    BY <1>0, RepliesTyped DEF StdioInv, AtOneLine
  <2>4. content \in Content
    BY DEF Content
  <2> HIDE DEF content
  <2>5. read + 1 \in 1..MaxInput /\ read + 1 \notin effects
    BY <1>0, <2>1
  <2>6. PICK n \in 1..MaxInput : n = read + 1
    BY <2>5
  <2>7. PICK c \in Content : c = content
    BY <2>4
  <2>8. /\ n = read' /\ n <= Len(input) /\ read <= n /\ n <= read + 1 /\ server = "runs"
        /\ handling => n = read
        /\ ~handling => n = read + 1
        /\ Owed(n)
        /\ \A i \in DOMAIN replies : replies[i].line < n
        /\ n \in effects => c = "result"
        /\ replies' = ReplyTo(n, c) /\ handling' = FALSE
        /\ UNCHANGED <<input, eof, server, effects>>
    BY <1>0, <2>1, <2>2, <2>3, <2>5, <2>6, <2>7
  <2> QED BY <2>8, ReplyPreserves
<1>5. CASE BeginToolCall
  <2>1. /\ read' = read + 1 /\ read < Len(input) /\ server = "runs" /\ ~handling
        /\ handling' = TRUE
        /\ UNCHANGED <<input, eof, server, replies, effects>>
        /\ Owed(read + 1)
    BY <1>5 DEF BeginToolCall, AtLine, NextLine, Owed
  <2>2. StdioTypeOK'
    BY <1>0, <2>1 DEF StdioInv, StdioTypeOK
  <2>3. OneReplyInOrder'
    <3>1. ASSUME NEW n \in 1..read', Owed(n)
          PROVE  (\E i \in DOMAIN replies : replies[i].line = n) \/ n = read'
      BY <1>0, <2>1, <3>1 DEF StdioInv, OneReplyInOrder
    <3> QED BY <2>1, <3>1 DEF StdioInv, OneReplyInOrder, Owed
  <2>4. EffectsAnswered'
    BY <1>0, <2>1 DEF StdioInv, EffectsAnswered
  <2>5. AtOneLine'
    <3>1. \A i \in DOMAIN replies : replies[i].line \in Nat /\ replies[i].line <= read
      BY <1>0, RepliesTyped DEF StdioInv, AtOneLine
    <3> QED BY <1>0, <2>1, <3>1 DEF AtOneLine, Owed
  <2> QED BY <2>2, <2>3, <2>4, <2>5 DEF StdioInv
<1>6. CASE EnterToolHandler
  <2>1. /\ handling /\ effects' = effects \cup {read}
        /\ UNCHANGED <<input, eof, read, handling, server, replies>>
    BY <1>6 DEF EnterToolHandler
  <2>2. StdioTypeOK' /\ OneReplyInOrder' /\ AtOneLine'
    BY <1>0, <2>1 DEF StdioInv, StdioTypeOK, OneReplyInOrder, AtOneLine, Owed
  <2>3. \A i \in DOMAIN replies : replies[i].line < read
    BY <2>1 DEF StdioInv, AtOneLine
  <2>4. EffectsAnswered'
    <3>1. ASSUME NEW n \in effects'
          PROVE  /\ \A i \in DOMAIN replies : replies[i].line = n => replies[i].content = "result"
                 /\ (\E i \in DOMAIN replies : replies[i].line = n) \/ n = read
      <4>1. CASE n = read
        BY <1>0, <2>3, <4>1
      <4>2. CASE n \in effects
        BY <4>2 DEF StdioInv, EffectsAnswered
      <4> QED BY <2>1, <3>1, <4>1, <4>2
    <3> QED BY <2>1, <3>1 DEF EffectsAnswered
  <2> QED BY <2>2, <2>4 DEF StdioInv
<1>7. CASE ToolCallAllowed \/ ToolCallRefused
  <2>1. PICK content \in {"result", "isError"} :
          /\ replies' = ReplyTo(read, content)
          /\ read \in effects => content = "result"
    BY <1>7 DEF ToolCallAllowed, ToolCallRefused
  <2>2. handling /\ handling' = FALSE /\ UNCHANGED <<input, eof, read, server, effects>>
    BY <1>7 DEF ToolCallAllowed, ToolCallRefused
  <2>3. /\ server = "runs" /\ read >= 1 /\ Owed(read)
        /\ \A i \in DOMAIN replies : replies[i].line < read
    BY <2>2 DEF StdioInv, AtOneLine
  <2>4. content \in Content /\ read \in 1..MaxInput
    BY <1>0, <2>3 DEF Content
  <2>5. PICK n \in 1..MaxInput : n = read
    BY <2>4
  <2>6. /\ n = read' /\ n <= Len(input) /\ read <= n /\ n <= read + 1 /\ server = "runs"
        /\ handling => n = read
        /\ ~handling => n = read + 1
        /\ Owed(n)
        /\ \A i \in DOMAIN replies : replies[i].line < n
        /\ n \in effects => content = "result"
        /\ replies' = ReplyTo(n, content) /\ handling' = FALSE
        /\ UNCHANGED <<input, eof, server, effects>>
    BY <1>0, <2>1, <2>2, <2>3, <2>5
  <2> QED BY <2>4, <2>6, ReplyPreserves
<1>8. CASE ToolCallRaises
  BY <1>8 DEF ToolCallRaises, StdioInv, StdioTypeOK, OneReplyInOrder, EffectsAnswered,
     AtOneLine, Owed
<1>9. CASE UNCHANGED stdioVars
  BY <1>9 DEF stdioVars, StdioInv, StdioTypeOK, OneReplyInOrder, EffectsAnswered,
     AtOneLine, Owed
<1> QED
  BY <1>1, <1>2, <1>3, <1>4, <1>5, <1>6, <1>7, <1>8, <1>9 DEF StdioNext

(* However many lines a client writes, and wherever the server dies: one   *)
(* reply for each line that is owed one, in order, and none that denies    *)
(* what a tool did.                                                        *)
THEOREM ServerAnswersInStep == StdioSpec => []AnswersInStep
<1>1. StdioInv => AnswersInStep
  BY DEF StdioInv, AnswersInStep
<1>2. StdioSpec => []StdioInv
  BY StdioStarts, StdioInductive, PTL DEF StdioSpec
<1> QED BY <1>1, <1>2, PTL

-----------------------------------------------------------------------------
(* The world controller.  The lock is held by the one switcher that is     *)
(* between its steps, and what that one has read is the end of the history.*)
Critical == {"locked", "installed", "named"}

Last == history[Len(history)]

ThreadsTyped ==
  /\ history \in Seq(Worlds) /\ Len(history) >= 1
  /\ pc \in [Threads -> {"idle", "compiled", "read", "resolved"} \cup Critical]
  /\ switch \in [Switchers -> [target : Worlds \cup {None}, from : Worlds \cup {None},
                               oldAllowlist : SUBSET Tools]]
  /\ seen \in [Callers -> [world : Worlds \cup {None}, worldAt : Nat,
                           id : Worlds \cup {None}, idAt : Nat]]
  /\ world \in Worlds /\ worldId \in Worlds

Exclusion ==
  /\ \A t \in Switchers : pc[t] \in Critical => lock = t
  /\ lock # Free => lock \in Switchers /\ pc[lock] \in Critical
  /\ \A t \in Switchers : pc[t] # "idle" => switch[t].target \in Worlds

HalfInstalled ==
  /\ ConsistentWhenFree
  /\ \A t \in Switchers : pc[t] \in Critical =>
       /\ switch[t].from = Last
       /\ switch[t].oldAllowlist = Allowlist[Last]
       /\ world = IF pc[t] = "locked" THEN Last ELSE switch[t].target
       /\ worldId = IF pc[t] = "named" THEN switch[t].target ELSE Last

DiffsPlaced ==
  /\ DiffsFollowHistory
  /\ \A d \in diffs : d.at \in 2..Len(history)
  /\ \A i \in 2..Len(history) : \E d \in diffs : d.at = i /\ \A e \in diffs : e.at = i => e = d

ReadsInHistory ==
  \A c \in Callers : pc[c] \in {"read", "resolved"} =>
    /\ seen[c].worldAt \in 1..Len(history)
    /\ seen[c].world = history[seen[c].worldAt]
    /\ pc[c] = "resolved" => /\ seen[c].idAt \in 1..Len(history)
                             /\ seen[c].worldAt <= seen[c].idAt
                             /\ seen[c].id = history[seen[c].idAt]

ControllerInv ==
  ThreadsTyped /\ Exclusion /\ HalfInstalled /\ DiffsPlaced /\ ReadsInHistory

LEMMA ControllerStarts == ControllerInit => ControllerInv
<1> SUFFICES ASSUME ControllerInit PROVE ControllerInv
    OBVIOUS
<1> USE ControllerAssumption DEF ControllerInit
<1>1. history \in Seq(Worlds) /\ Len(history) = 1 /\ Last = InitialWorld
  BY DEF Last
<1>2. ThreadsTyped
  BY <1>1 DEF ThreadsTyped, Critical, NoSwitch, NothingSeen
<1>3. \A t \in Threads : pc[t] = "idle"
  OBVIOUS
<1>4. Exclusion
  BY <1>3 DEF Exclusion, Critical, Threads
<1>5. HalfInstalled
  BY <1>1, <1>3 DEF HalfInstalled, ConsistentWhenFree, Critical, Threads, Last
<1>6. DiffsPlaced
  BY <1>1 DEF DiffsPlaced, DiffsFollowHistory
<1>7. ReadsInHistory
  BY <1>3 DEF ReadsInHistory, Threads
<1> QED BY <1>2, <1>4, <1>5, <1>6, <1>7 DEF ControllerInv

(* A step that leaves world, id, history and diffs alone, of a thread that *)
(* is outside the critical section before and after it.                    *)
LEMMA OutsidePreserves ==
  ASSUME ControllerInv, ThreadsTyped', NEW t \in Threads,
         UNCHANGED <<lock, world, worldId, history, diffs>>,
         \A u \in Threads \ {t} : pc'[u] = pc[u],
         \A u \in Switchers \ {t} : switch'[u] = switch[u],
         \A u \in Callers \ {t} : seen'[u] = seen[u],
         pc[t] \notin Critical, pc'[t] \notin Critical,
         t \in Switchers => switch'[t].target \in Worlds \/ pc'[t] = "idle"
  PROVE  Exclusion' /\ HalfInstalled' /\ DiffsPlaced'
<1> USE ControllerAssumption DEF ControllerInv
<1>1. \A u \in Switchers : u \in Threads
  BY DEF Threads
<1>2. Exclusion'
  BY <1>1 DEF Exclusion
<1>3. Last' = Last
  BY DEF Last
<1>4. HalfInstalled'
  BY <1>1, <1>3 DEF HalfInstalled, ConsistentWhenFree, Last
<1>5. DiffsPlaced'
  BY DEF DiffsPlaced, DiffsFollowHistory
<1> QED BY <1>2, <1>4, <1>5

(* A step of a switcher up to its return; the callers do not see it.       *)
LEMMA SwitchKeepsReads ==
  ASSUME ControllerInv, NEW t \in Switchers, UNCHANGED <<history, seen>>,
         \A c \in Callers : pc'[c] = pc[c]
  PROVE  ReadsInHistory'
BY DEF ControllerInv, ReadsInHistory

LEMMA CompilePreserves ==
  ASSUME ControllerInv, NEW t \in Switchers, NEW w \in Worlds, Compile(t, w)
  PROVE  ControllerInv'
<1> USE ControllerAssumption DEF Compile, Goto
<1>1. t \in Threads /\ t \notin Callers
  BY DEF Threads
<1>2. ThreadsTyped'
  BY <1>1 DEF ControllerInv, ThreadsTyped
<1>3. pc[t] = "idle" /\ pc'[t] = "compiled" /\ switch'[t].target = w
  BY <1>1 DEF ControllerInv, ThreadsTyped
<1>4. /\ \A u \in Threads \ {t} : pc'[u] = pc[u]
      /\ \A u \in Switchers \ {t} : switch'[u] = switch[u]
  BY DEF ControllerInv, ThreadsTyped
<1>5. Exclusion' /\ HalfInstalled' /\ DiffsPlaced'
  BY <1>1, <1>2, <1>3, <1>4, OutsidePreserves DEF Critical
<1>6. ReadsInHistory'
  BY <1>1, <1>4, SwitchKeepsReads DEF Threads
<1> QED BY <1>2, <1>5, <1>6 DEF ControllerInv

LEMMA AcquirePreserves ==
  ASSUME ControllerInv, NEW t \in Switchers, Acquire(t)
  PROVE  ControllerInv'
<1> USE ControllerAssumption DEF Acquire, Goto
<1>1. t \in Threads /\ t \notin Callers /\ t # Free
  BY DEF Threads
<1>2. ThreadsTyped'
  BY <1>1 DEF ControllerInv, ThreadsTyped, Critical
<1>3. /\ pc[t] = "compiled" /\ pc'[t] = "locked" /\ lock = Free /\ lock' = t
      /\ switch'[t] = [switch[t] EXCEPT !.from = worldId, !.oldAllowlist = Allowlist[world]]
  BY <1>1 DEF ControllerInv, ThreadsTyped
<1>4. /\ \A u \in Threads \ {t} : pc'[u] = pc[u]
      /\ \A u \in Switchers \ {t} : switch'[u] = switch[u]
  BY DEF ControllerInv, ThreadsTyped
<1>5. /\ switch'[t].target = switch[t].target /\ switch'[t].from = worldId
      /\ switch'[t].oldAllowlist = Allowlist[world]
  BY <1>3 DEF ControllerInv, ThreadsTyped
<1>6. \A u \in Switchers \ {t} : pc'[u] \notin Critical
  BY <1>1, <1>3, <1>4 DEF ControllerInv, Exclusion, Threads
<1>7. Exclusion'
  BY <1>1, <1>3, <1>4, <1>5, <1>6 DEF ControllerInv, Exclusion, Threads, Critical
<1>8. Last' = Last /\ world = Last /\ worldId = Last
  BY <1>3 DEF ControllerInv, HalfInstalled, ConsistentWhenFree, Last
<1>9. HalfInstalled'
  BY <1>1, <1>3, <1>5, <1>6, <1>8 DEF HalfInstalled, ConsistentWhenFree
<1>10. DiffsPlaced'
  BY DEF ControllerInv, DiffsPlaced, DiffsFollowHistory
<1>11. ReadsInHistory'
  BY <1>1, <1>4, SwitchKeepsReads DEF Threads
<1> QED BY <1>2, <1>7, <1>9, <1>10, <1>11 DEF ControllerInv

(* The two assignments under the lock.                                     *)
LEMMA InstallPreserves ==
  ASSUME ControllerInv, NEW t \in Switchers, InstallWorld(t) \/ InstallId(t)
  PROVE  ControllerInv'
<1> USE ControllerAssumption
<1>1. t \in Threads /\ t \notin Callers
  BY DEF Threads
<1>2. /\ pc[t] \in {"locked", "installed"}
      /\ pc' = [pc EXCEPT ![t] = IF pc[t] = "locked" THEN "installed" ELSE "named"]
      /\ world' = IF pc[t] = "locked" THEN switch[t].target ELSE world
      /\ worldId' = IF pc[t] = "locked" THEN worldId ELSE switch[t].target
      /\ UNCHANGED <<lock, history, switch, seen, diffs>>
  BY DEF InstallWorld, InstallId, Goto
<1>3. switch[t].target \in Worlds
  BY <1>2 DEF ControllerInv, Exclusion
<1>4. ThreadsTyped'
  BY <1>1, <1>2, <1>3 DEF ControllerInv, ThreadsTyped, Critical
<1>5. /\ pc'[t] = IF pc[t] = "locked" THEN "installed" ELSE "named"
      /\ \A u \in Threads \ {t} : pc'[u] = pc[u]
  BY <1>1, <1>2 DEF ControllerInv, ThreadsTyped
<1>6. lock = t /\ lock' = t /\ t # Free
  BY <1>2 DEF ControllerInv, Exclusion, Critical
<1>7. \A u \in Switchers \ {t} : pc'[u] \notin Critical
  BY <1>1, <1>5, <1>6 DEF ControllerInv, Exclusion, Threads
<1>8. Exclusion'
  BY <1>1, <1>2, <1>3, <1>5, <1>6, <1>7 DEF ControllerInv, Exclusion, Threads, Critical
<1>9. Last' = Last
  BY <1>2 DEF Last
<1>10. HalfInstalled'
  BY <1>1, <1>2, <1>5, <1>6, <1>7, <1>9
     DEF ControllerInv, HalfInstalled, ConsistentWhenFree, Critical
<1>11. DiffsPlaced'
  BY <1>2 DEF ControllerInv, DiffsPlaced, DiffsFollowHistory
<1>12. ReadsInHistory'
  BY <1>1, <1>2, <1>5, SwitchKeepsReads DEF Threads
<1> QED BY <1>4, <1>8, <1>10, <1>11, <1>12 DEF ControllerInv

(* The end of a switch: world, id and history agree again, and its diff is *)
(* the one of the new position.                                            *)
LEMMA ReturnPreserves ==
  ASSUME ControllerInv, NEW t \in Switchers, Return(t)
  PROVE  ControllerInv'
<1> USE ControllerAssumption
<1> DEFINE target == switch[t].target
           n == Len(history)
           diff == [at |-> n + 1, from |-> switch[t].from, to |-> target,
                    appeared |-> Allowlist[target] \ switch[t].oldAllowlist,
                    vanished |-> switch[t].oldAllowlist \ Allowlist[target]]
<1>1. t \in Threads /\ t \notin Callers
  BY DEF Threads
<1>2. /\ pc[t] = "named" /\ pc' = [pc EXCEPT ![t] = "idle"]
      /\ history' = Append(history, target) /\ lock' = Free
      /\ diffs' = diffs \cup {diff}
      /\ switch' = [switch EXCEPT ![t] = NoSwitch]
      /\ UNCHANGED <<world, worldId, seen>>
  BY DEF Return, ReturnWith, Goto
<1>3. target \in Worlds
  BY <1>2 DEF ControllerInv, Exclusion
<1>4. /\ Len(history') = n + 1 /\ n \in Nat /\ n >= 1
      /\ history' \in Seq(Worlds)
      /\ \A i \in 1..n : history'[i] = history[i]
      /\ history'[n + 1] = target
      /\ Last' = target /\ Last = history[n]
  BY <1>2, <1>3 DEF ControllerInv, ThreadsTyped, Last
<1>5. ThreadsTyped'
  BY <1>1, <1>2, <1>4 DEF ControllerInv, ThreadsTyped, NoSwitch
<1>6. /\ pc'[t] = "idle"
      /\ \A u \in Threads \ {t} : pc'[u] = pc[u]
      /\ \A u \in Switchers \ {t} : switch'[u] = switch[u]
  BY <1>1, <1>2 DEF ControllerInv, ThreadsTyped
<1>7. lock = t /\ t # Free
  BY <1>2 DEF ControllerInv, Exclusion, Critical
<1>8. \A u \in Switchers : pc'[u] \notin Critical
  BY <1>1, <1>6, <1>7 DEF ControllerInv, Exclusion, Threads, Critical
<1>9. Exclusion'
  BY <1>1, <1>2, <1>6, <1>8 DEF ControllerInv, Exclusion, Threads
<1>10. world = target /\ worldId = target
  BY <1>2 DEF ControllerInv, HalfInstalled, Critical
<1>11. HalfInstalled'
  BY <1>2, <1>4, <1>8, <1>10 DEF HalfInstalled, ConsistentWhenFree, Last
<1>12. switch[t].from = history[n] /\ switch[t].oldAllowlist = Allowlist[history[n]]
  BY <1>2, <1>4 DEF ControllerInv, HalfInstalled, Critical
<1>13. /\ diff.at = n + 1 /\ diff.from = history[n] /\ diff.to = target
       /\ diff.appeared = Allowlist[target] \ Allowlist[history[n]]
       /\ diff.vanished = Allowlist[history[n]] \ Allowlist[target]
  BY <1>12
<1> HIDE DEF target, n, diff
<1>14. DiffsPlaced'
  <2>1. \A d \in diffs : d.at \in 2..n
    BY DEF ControllerInv, DiffsPlaced, n
  <2>2. ASSUME NEW d \in diffs'
        PROVE  /\ d.from = history'[d.at - 1] /\ d.to = history'[d.at]
               /\ d.appeared = Allowlist[d.to] \ Allowlist[d.from]
               /\ d.vanished = Allowlist[d.from] \ Allowlist[d.to]
    <3>1. CASE d \in diffs
      <4>1. d.at \in 1..n /\ d.at - 1 \in 1..n
        BY <1>4, <2>1, <3>1
      <4> QED BY <1>4, <3>1, <4>1 DEF ControllerInv, DiffsPlaced, DiffsFollowHistory
    <3>2. CASE d = diff
      <4>1. d.at - 1 = n /\ n \in 1..n
        BY <1>4, <1>13, <3>2
      <4> QED BY <1>4, <1>13, <3>2, <4>1
    <3> QED BY <1>2, <3>1, <3>2
  <2>3. \A d \in diffs' : d.at \in 2..Len(history')
    BY <1>2, <1>4, <1>13, <2>1
  <2>4. ASSUME NEW i \in 2..Len(history')
        PROVE  \E d \in diffs' : d.at = i /\ \A e \in diffs' : e.at = i => e = d
    <3>1. CASE i = n + 1
      BY <1>2, <1>4, <1>13, <2>1, <3>1
    <3>2. CASE i \in 2..n
      BY <1>2, <1>4, <1>13, <3>2 DEF ControllerInv, DiffsPlaced, n
    <3> QED BY <1>4, <2>4, <3>1, <3>2
  <2> QED BY <2>2, <2>3, <2>4 DEF DiffsPlaced, DiffsFollowHistory
<1>15. ReadsInHistory'
  BY <1>1, <1>2, <1>4, <1>6 DEF ControllerInv, ReadsInHistory, Threads, n
<1> QED BY <1>5, <1>9, <1>11, <1>14, <1>15 DEF ControllerInv

(* The callers' steps: a read happens while the lock is free, so it sees   *)
(* the end of the history as it is then.                                   *)
LEMMA CallerPreserves ==
  ASSUME ControllerInv, NEW c \in Callers, ReadWorld(c) \/ ReadId(c) \/ CallEnds(c)
  PROVE  ControllerInv'
<1> USE ControllerAssumption
<1>1. c \in Threads /\ c \notin Switchers
  BY DEF Threads
<1>2. UNCHANGED <<lock, world, worldId, history, switch, diffs>>
  BY DEF ReadWorld, ReadId, CallEnds
<1>3. /\ Len(history) \in Nat /\ Len(history) >= 1
      /\ seen[c].world \in Worlds \cup {None} /\ seen[c].worldAt \in Nat
  BY DEF ControllerInv, ThreadsTyped
<1>4. lock = Free => world = Last /\ worldId = Last
  BY DEF ControllerInv, HalfInstalled, ConsistentWhenFree, Last
<1>5. ThreadsTyped'
  <2> DEFINE Reads == [world : Worlds \cup {None}, worldAt : Nat, id : Worlds \cup {None},
                       idAt : Nat]
  <2>1. seen \in [Callers -> Reads] /\ world \in Worlds /\ worldId \in Worlds
    BY DEF ControllerInv, ThreadsTyped
  <2>2. CASE ReadWorld(c)
    BY <1>3, <2>1, <2>2 DEF ReadWorld, Goto, NothingSeen, ControllerInv, ThreadsTyped
  <2>3. CASE ReadId(c)
    <3>1. seen' \in [Callers -> Reads]
      BY <1>3, <2>1, <2>3 DEF ReadId
    <3> QED BY <2>3, <3>1 DEF ReadId, Goto, ControllerInv, ThreadsTyped
  <2>4. CASE CallEnds(c)
    BY <2>1, <2>4 DEF CallEnds, Goto, NothingSeen, ControllerInv, ThreadsTyped
  <2> QED BY <2>2, <2>3, <2>4
<1>6. /\ \A u \in Threads \ {c} : pc'[u] = pc[u]
      /\ \A u \in Callers \ {c} : seen'[u] = seen[u]
      /\ pc[c] \in {"idle", "read", "resolved"} /\ pc'[c] \in {"idle", "read", "resolved"}
  BY <1>1 DEF ReadWorld, ReadId, CallEnds, Goto, ControllerInv, ThreadsTyped
<1>7. Exclusion' /\ HalfInstalled' /\ DiffsPlaced'
  BY <1>1, <1>2, <1>5, <1>6, OutsidePreserves DEF Critical
<1>8. ASSUME pc'[c] \in {"read", "resolved"}
      PROVE  /\ seen'[c].worldAt \in 1..Len(history)
             /\ seen'[c].world = history[seen'[c].worldAt]
             /\ pc'[c] = "resolved" => /\ seen'[c].idAt \in 1..Len(history)
                                       /\ seen'[c].worldAt <= seen'[c].idAt
                                       /\ seen'[c].id = history[seen'[c].idAt]
  <2>1. CASE ReadWorld(c)
    <3>1. pc'[c] = "read" /\ seen'[c].world = world /\ seen'[c].worldAt = Len(history)
      BY <1>1, <2>1 DEF ReadWorld, Goto, NothingSeen, ControllerInv, ThreadsTyped
    <3> QED BY <1>3, <1>4, <2>1, <3>1 DEF ReadWorld, Last
  <2>2. CASE ReadId(c)
    <3>1. /\ pc[c] = "read" /\ seen'[c].world = seen[c].world
          /\ seen'[c].worldAt = seen[c].worldAt
          /\ seen'[c].id = worldId /\ seen'[c].idAt = Len(history)
      BY <1>1, <2>2 DEF ReadId, Goto, ControllerInv, ThreadsTyped
    <3>2. seen[c].worldAt \in 1..Len(history) /\ seen[c].world = history[seen[c].worldAt]
      BY <3>1 DEF ControllerInv, ReadsInHistory
    <3> QED BY <1>3, <1>4, <2>2, <3>1, <3>2 DEF ReadId, Last
  <2>3. CASE CallEnds(c)
    BY <1>1, <1>8, <2>3 DEF CallEnds, Goto, ControllerInv, ThreadsTyped
  <2> QED BY <2>1, <2>2, <2>3
<1>9. ReadsInHistory'
  BY <1>1, <1>2, <1>6, <1>8 DEF ControllerInv, ReadsInHistory, Threads
<1> QED BY <1>5, <1>7, <1>9 DEF ControllerInv

LEMMA ControllerInductive == ControllerInv /\ [ControllerNext]_controllerVars => ControllerInv'
<1> SUFFICES ASSUME ControllerInv, [ControllerNext]_controllerVars PROVE ControllerInv'
    OBVIOUS
<1>1. ASSUME NEW t \in Switchers, SwitchStep(t) PROVE ControllerInv'
  BY <1>1, AcquirePreserves, InstallPreserves, ReturnPreserves DEF SwitchStep
<1>2. ASSUME NEW t \in Switchers, NEW w \in Worlds, Compile(t, w) PROVE ControllerInv'
  BY <1>2, CompilePreserves
<1>3. ASSUME NEW c \in Callers, ReadWorld(c) \/ CallStep(c) PROVE ControllerInv'
  BY <1>3, CallerPreserves DEF CallStep
<1>4. CASE UNCHANGED controllerVars
  BY <1>4 DEF controllerVars, ControllerInv, ThreadsTyped, Exclusion, HalfInstalled,
     ConsistentWhenFree, DiffsPlaced, DiffsFollowHistory, ReadsInHistory, Last
<1> QED BY <1>1, <1>2, <1>3, <1>4 DEF ControllerNext

(* However many threads switch and read, and wherever they are preempted:  *)
(* what is read through the lock is one installed world, the diffs follow  *)
(* the history one by one, and a pair that is torn is torn forward.        *)
THEOREM SwitchesAlwaysChainUp == ControllerSpec => []SwitchesChainUp
<1>1. ControllerInv => SwitchesChainUp
  BY DEF ControllerInv, HalfInstalled, DiffsPlaced, ReadsInHistory, SwitchesChainUp,
     OneDiffPerSwitch, TornOnlyForward
<1>2. ControllerSpec => []ControllerInv
  BY ControllerStarts, ControllerInductive, PTL DEF ControllerSpec
<1> QED BY <1>1, <1>2, PTL

-----------------------------------------------------------------------------
(* The benchmark.  What the runs of scenario k have to give, its own file  *)
(* being all that they depend on.                                          *)
ProtectedOf(k) ==
  [i \in DOMAIN files[k].steps |->
     ProxyAnswer(files[k].steps[i], files[k].channel \in TaintedOnes,
                 PoisonOf(files[k])).decision]

StepsOf(k) == Len(files[k].steps)

Line(k, mode, decision) == [scenario |-> k, mode |-> mode, decision |-> decision]

(* The lines of k's baseline run come after the first m of the trace, and  *)
(* those of its protected run.                                             *)
BaselineAt(k, m) ==
  /\ m + StepsOf(k) <= Len(trace)
  /\ \A i \in 1..StepsOf(k) : trace[m + i] = Line(k, "baseline", Baseline(files[k])[i])

ProtectedAt(k, m) ==
  /\ m + 2 * StepsOf(k) <= Len(trace)
  /\ \A i \in 1..StepsOf(k) :
       trace[m + StepsOf(k) + i] = Line(k, "protected", ProtectedOf(k)[i])

OnlyWithin(k, m, n) == \A j \in DOMAIN trace : trace[j].scenario = k => j \in m+1..n

Traced(k) ==
  \E m \in Nat : BaselineAt(k, m) /\ ProtectedAt(k, m) /\ OnlyWithin(k, m, m + 2 * StepsOf(k))

HalfTraced(k) ==
  \E m \in Nat : /\ BaselineAt(k, m) /\ OnlyWithin(k, m, m + StepsOf(k))
                 /\ Len(trace) = m + StepsOf(k)

(* A run under way has nothing but its own scenario behind it.             *)
RunsAreOwn ==
  mcPhase \in {"protected", "compare"} =>
    /\ baselineRun = Baseline(files[at])
    /\ poisoned = PoisonOf(files[at])
    /\ \A i \in DOMAIN protectedRun : protectedRun[i] = ProtectedOf(at)[i]
    /\ mcPhase = "compare" => Len(protectedRun) = StepsOf(at)

TraceIsLaidOut ==
  /\ \A j \in DOMAIN trace : trace[j].scenario <= at
  /\ mcPhase \in {"loading", "baseline", "done"} =>
       \A j \in DOMAIN trace : trace[j].scenario < at
  /\ \A k \in 1..at-1 : Traced(k)
  /\ mcPhase = "protected" => HalfTraced(at)
  /\ mcPhase = "compare" => Traced(at)

ExitEarned ==
  exitCode = 0 =>
    mcPhase = "done" /\ at > Len(files) /\ \A k \in DOMAIN verdicts : verdicts[k].pass

McInv == McTypeOK /\ RunsAreOwn /\ TraceIsLaidOut /\ VerdictsIndependent /\ ExitEarned

LEMMA StepsTyped ==
  ASSUME NEW f \in Scenarios
  PROVE  f.steps \in Seq(McTools) /\ Len(f.steps) \in Nat /\ DOMAIN f.steps = 1..Len(f.steps)
<1>1. ASSUME NEW t \in ExternalTools PROVE Generated(t).steps \in Seq(McTools)
  <2>1. Generated(t).steps = <<"read_file", t>>
    BY DEF Generated
  <2>2. PICK a \in McTools, b \in McTools : a = "read_file" /\ b = t
    BY AttacksAssumption DEF AttacksAssumption, ExternalTools
  <2>3. <<a, b>> \in Seq(McTools)
    OBVIOUS
  <2> QED BY <2>1, <2>2, <2>3, Zenon
<1>2. f.steps \in Seq(McTools)
  <2>1. CASE f \in AttackFiles
    BY <2>1, AttacksAssumption DEF AttacksAssumption
  <2>2. CASE \E t \in ExternalTools : f = Generated(t)
    BY <1>1, <2>2, Zenon
  <2> QED BY <2>1, <2>2 DEF Scenarios
<1> QED BY <1>2

LEMMA ProxyDecides ==
  ASSUME NEW tool, NEW taint, NEW tampered
  PROVE  ProxyAnswer(tool, taint, tampered).decision \in Decisions
<1>1. PICK r \in PolicyResults : r = ProxyAnswer(tool, taint, tampered)
  BY DecideType DEF ProxyAnswer
<1>2. \A q \in PolicyResults : q.decision \in Decisions
  BY DEF PolicyResults, Decisions, Result, NotAllowlisted, CapabilityNotAllowed,
         DescriptorDrift, TaintedExternal, ApprovalRequired, DefaultAllow
<1> QED BY <1>1, <1>2

LEMMA RunsTyped ==
  ASSUME McTypeOK, NEW k \in DOMAIN files
  PROVE  /\ Baseline(files[k]) \in Seq(Decisions) /\ Len(Baseline(files[k])) = StepsOf(k)
         /\ DOMAIN ProtectedOf(k) = 1..StepsOf(k)
         /\ DOMAIN Baseline(files[k]) = 1..StepsOf(k)
         /\ StepsOf(k) \in Nat
         /\ \A i \in 1..StepsOf(k) : ProtectedOf(k)[i] \in Decisions
<1>1. files[k] \in Scenarios
  BY DEF McTypeOK
<1>2. DOMAIN files[k].steps = 1..StepsOf(k) /\ StepsOf(k) \in Nat
  BY <1>1, StepsTyped DEF StepsOf
<1>3. Baseline(files[k]) \in [1..StepsOf(k) -> Decisions]
  BY <1>2 DEF Baseline, Decisions
<1>4. \A i \in 1..StepsOf(k) : ProtectedOf(k)[i] \in Decisions
  BY <1>2, ProxyDecides DEF ProtectedOf
<1>5. DOMAIN ProtectedOf(k) = 1..StepsOf(k)
  BY <1>2 DEF ProtectedOf
<1>6. Baseline(files[k]) \in Seq(Decisions) /\ Len(Baseline(files[k])) = StepsOf(k)
  BY <1>2, <1>3
<1> QED BY <1>2, <1>3, <1>4, <1>5, <1>6

(* A run's lines, appended.                                                *)
TraceLines == [scenario : Nat, mode : {"baseline", "protected"}, decision : Decisions]

LEMMA LinesTyped ==
  ASSUME McTypeOK, NEW mode \in {"baseline", "protected"}, NEW run \in Seq(Decisions)
  PROVE  /\ TraceOf(mode, run) \in Seq(TraceLines)
         /\ Len(TraceOf(mode, run)) = Len(run)
         /\ \A i \in 1..Len(run) : TraceOf(mode, run)[i] = Line(at, mode, run[i])
<1>1. at \in Nat
  BY DEF McTypeOK
<1>2. TraceOf(mode, run) \in [1..Len(run) -> TraceLines]
  BY <1>1 DEF TraceOf, TraceLines
<1>3. Len(run) \in Nat
  OBVIOUS
<1> QED BY <1>2, <1>3 DEF TraceOf, Line

LEMMA TraceGrows ==
  ASSUME McTypeOK, NEW mode \in {"baseline", "protected"}, NEW run \in Seq(Decisions),
         trace' = trace \o TraceOf(mode, run)
  PROVE  /\ trace' \in Seq(TraceLines)
         /\ Len(trace) \in Nat /\ Len(run) \in Nat
         /\ Len(trace') = Len(trace) + Len(run)
         /\ DOMAIN trace = 1..Len(trace) /\ DOMAIN trace' = 1..Len(trace')
         /\ \A j \in 1..Len(trace) : trace'[j] = trace[j]
         /\ \A i \in 1..Len(run) : trace'[Len(trace) + i] = Line(at, mode, run[i])
<1>1. trace \in Seq(TraceLines)
  BY DEF McTypeOK, TraceLines
<1>2. PICK more \in Seq(TraceLines) :
        /\ more = TraceOf(mode, run)
        /\ Len(more) = Len(run)
        /\ \A i \in 1..Len(run) : more[i] = Line(at, mode, run[i])
  BY LinesTyped
<1>3. PICK before \in Seq(TraceLines) : before = trace
  BY <1>1
<1>4. /\ before \o more \in Seq(TraceLines)
      /\ Len(before) \in Nat /\ Len(more) \in Nat
      /\ Len(before \o more) = Len(before) + Len(more)
      /\ DOMAIN before = 1..Len(before) /\ DOMAIN (before \o more) = 1..Len(before) + Len(more)
      /\ \A j \in 1..Len(before) : (before \o more)[j] = before[j]
      /\ \A i \in 1..Len(more) : (before \o more)[Len(before) + i] = more[i]
  OBVIOUS
<1> QED BY <1>2, <1>3, <1>4

LEMMA NewLinesAreOwn ==
  ASSUME McTypeOK, NEW mode \in {"baseline", "protected"}, NEW run \in Seq(Decisions),
         trace' = trace \o TraceOf(mode, run), NEW j \in DOMAIN trace'
  PROVE  IF j \in DOMAIN trace THEN trace'[j] = trace[j]
         ELSE trace'[j].scenario = at /\ j \in Len(trace) + 1 .. Len(trace) + Len(run)
<1>1. PICK a \in Nat, b \in Nat : a = Len(trace) /\ b = Len(run)
  BY TraceGrows
<1>2. CASE j \in 1..a
  BY <1>1, <1>2, TraceGrows
<1>3. CASE j \notin 1..a
  <2>1. j \in 1 .. a + b
    BY <1>1, TraceGrows
  <2>2. j - a \in 1..b /\ j = a + (j - a)
    BY <1>3, <2>1
  <2>3. PICK i \in 1..b : j = a + i
    BY <2>2
  <2>4. trace'[j] = Line(at, mode, run[i])
    BY <1>1, <2>3, TraceGrows
  <2> QED BY <1>1, <1>3, <2>1, <2>4, TraceGrows DEF Line
<1> QED BY <1>2, <1>3

(* What was laid out stays where it is when another scenario's lines come. *)
LEMMA TracedStays ==
  ASSUME McTypeOK, NEW mode \in {"baseline", "protected"}, NEW run \in Seq(Decisions),
         trace' = trace \o TraceOf(mode, run), files' = files,
         NEW k \in DOMAIN files, k < at, Traced(k)
  PROVE  Traced(k)'
<1>1. PICK m \in Nat : BaselineAt(k, m) /\ ProtectedAt(k, m) /\ OnlyWithin(k, m, m + 2 * StepsOf(k))
  BY DEF Traced
<1>2. StepsOf(k) \in Nat /\ StepsOf(k)' = StepsOf(k) /\ ProtectedOf(k)' = ProtectedOf(k)
  BY RunsTyped DEF StepsOf, ProtectedOf
<1>3. k \in Nat /\ at \in Nat
  BY DEF McTypeOK
<1>4. BaselineAt(k, m)'
  BY <1>1, <1>2, TraceGrows DEF BaselineAt
<1>5. ProtectedAt(k, m)'
  BY <1>1, <1>2, TraceGrows DEF ProtectedAt
<1>6. OnlyWithin(k, m, m + 2 * StepsOf(k))'
  <2> SUFFICES ASSUME NEW j \in DOMAIN trace', trace'[j].scenario = k
               PROVE  j \in m + 1 .. m + 2 * StepsOf(k)
    BY <1>2 DEF OnlyWithin
  <2>1. CASE j \in DOMAIN trace
    BY <1>1, <2>1, TraceGrows DEF OnlyWithin
  <2>2. CASE j \notin DOMAIN trace
    <3>1. trace'[j].scenario = at
      BY <2>2, NewLinesAreOwn
    <3> QED BY <1>3, <3>1
  <2> QED BY <2>1, <2>2
<1> QED BY <1>1, <1>4, <1>5, <1>6 DEF Traced

LEMMA LayoutIsOfTrace ==
  ASSUME files' = files, trace' = trace
  PROVE  /\ \A k : (Traced(k))' <=> Traced(k)
         /\ \A k : (HalfTraced(k))' <=> HalfTraced(k)
BY DEF Traced, HalfTraced, BaselineAt, ProtectedAt, OnlyWithin, StepsOf, ProtectedOf

LEMMA McStarts == McInit => McInv
<1> SUFFICES ASSUME McInit PROVE McInv
  OBVIOUS
<1>1. files \in Seq(Scenarios)
  BY AttacksAssumption DEF AttacksAssumption, McInit
<1>2. trace = << >> /\ DOMAIN trace = {} /\ verdicts = << >> /\ DOMAIN verdicts = {}
  BY DEF McInit
<1>3. McTypeOK
  BY <1>1 DEF McInit, McTypeOK, NoExit
<1>4. RunsAreOwn /\ VerdictsIndependent /\ ExitEarned
  BY <1>2 DEF McInit, RunsAreOwn, VerdictsIndependent, ExitEarned, NoExit
<1>5. TraceIsLaidOut
  BY <1>2 DEF McInit, TraceIsLaidOut
<1> QED BY <1>3, <1>4, <1>5 DEF McInv

(* Loading, and a run that raises, leave nothing but a phase behind.       *)
LEMMA LoadAllPreserves == McInv /\ LoadAll => McInv'
<1> SUFFICES ASSUME McInv, LoadAll PROVE McInv'
  OBVIOUS
<1> USE DEF McInv, LoadAll
<1>1. McTypeOK'
  BY DEF McTypeOK
<1>2. RunsAreOwn' /\ VerdictsIndependent' /\ ExitEarned'
  BY DEF RunsAreOwn, VerdictsIndependent, ExitEarned
<1>3. TraceIsLaidOut'
  BY LayoutIsOfTrace DEF TraceIsLaidOut
<1> QED BY <1>1, <1>2, <1>3

LEMMA FailingPreserves == McInv /\ (LoadRaises \/ ProtectedRaises) => McInv'
<1> SUFFICES ASSUME McInv, LoadRaises \/ ProtectedRaises PROVE McInv'
  OBVIOUS
<1>1. /\ mcPhase' = "failed" /\ exitCode' = 1
      /\ UNCHANGED <<files, at, poisoned, baselineRun, protectedRun, verdicts, trace>>
  BY DEF LoadRaises, ProtectedRaises
<1> USE <1>1 DEF McInv
<1>2. McTypeOK'
  BY DEF McTypeOK, NoExit
<1>3. RunsAreOwn' /\ VerdictsIndependent' /\ ExitEarned'
  BY DEF RunsAreOwn, VerdictsIndependent, ExitEarned
<1>4. TraceIsLaidOut'
  BY LayoutIsOfTrace DEF TraceIsLaidOut
<1> QED BY <1>2, <1>3, <1>4

(* The baseline's lines begin a block of the trace.                        *)
LEMMA RunBaselinePreserves == McInv /\ RunBaseline => McInv'
<1> SUFFICES ASSUME McInv, RunBaseline PROVE McInv'
  OBVIOUS
<1> USE DEF McInv
<1>1. /\ at \in Nat /\ at \in DOMAIN files /\ Len(files) \in Nat /\ files[at] \in Scenarios
      /\ files' = files /\ at' = at /\ mcPhase = "baseline" /\ mcPhase' = "protected"
      /\ UNCHANGED <<verdicts, exitCode>>
  BY DEF RunBaseline, McTypeOK
<1>2. /\ Baseline(files[at]) \in Seq(Decisions) /\ Len(Baseline(files[at])) = StepsOf(at)
      /\ StepsOf(at) \in Nat /\ StepsOf(at)' = StepsOf(at)
      /\ baselineRun' = Baseline(files[at])
      /\ trace' = trace \o TraceOf("baseline", Baseline(files[at]))
      /\ poisoned' = PoisonOf(files[at]) /\ protectedRun' = << >>
  BY <1>1, RunsTyped DEF RunBaseline, Scenario, StepsOf
<1>3. McTypeOK'
  <2>1. trace' \in Seq(TraceLines)
    BY <1>2, TraceGrows
  <2>2. poisoned' \subseteq McTools
    BY <1>2, AttacksAssumption DEF PoisonOf, AttacksAssumption
  <2>3. Len(protectedRun') <= Len(files[at].steps) /\ protectedRun' \in Seq(Decisions)
    BY <1>2 DEF StepsOf
  <2> QED BY <1>1, <1>2, <2>1, <2>2, <2>3 DEF McTypeOK, TraceLines
<1>4. RunsAreOwn'
  BY <1>1, <1>2 DEF RunsAreOwn
<1>5. VerdictsIndependent' /\ ExitEarned'
  BY <1>1 DEF VerdictsIndependent, ExitEarned
<1>6. TraceIsLaidOut'
  <2>1. \A j \in DOMAIN trace' : trace'[j].scenario <= at
    <3> SUFFICES ASSUME NEW j \in DOMAIN trace' PROVE trace'[j].scenario <= at
      OBVIOUS
    <3>1. CASE j \in DOMAIN trace
      BY <1>1, <1>2, <3>1, NewLinesAreOwn DEF TraceIsLaidOut
    <3>2. CASE j \notin DOMAIN trace
      <4>1. trace'[j].scenario = at
        BY <1>1, <1>2, <3>2, NewLinesAreOwn
      <4> QED BY <1>1, <4>1
    <3> QED BY <3>1, <3>2
  <2>2. \A k \in 1..at-1 : (Traced(k))'
    <3> SUFFICES ASSUME NEW k \in 1..at-1 PROVE (Traced(k))'
      OBVIOUS
    <3>1. k \in DOMAIN files /\ k < at /\ Traced(k)
      BY <1>1 DEF McTypeOK, TraceIsLaidOut
    <3> QED BY <1>1, <1>2, <3>1, TracedStays
  <2>3. HalfTraced(at)'
    <3>1. PICK m \in Nat : m = Len(trace)
      BY <1>2, TraceGrows
    <3>2. BaselineAt(at, m)'
      <4>1. \A i \in 1..StepsOf(at) :
              trace'[m + i] = Line(at, "baseline", Baseline(files[at])[i])
        BY <1>1, <1>2, <3>1, TraceGrows
      <4>2. Len(trace') = m + StepsOf(at)
        BY <1>1, <1>2, <3>1, TraceGrows
      <4>3. m + StepsOf(at) \in Nat
        BY <1>2
      <4> QED BY <1>1, <1>2, <4>1, <4>2, <4>3 DEF BaselineAt
    <3>3. OnlyWithin(at, m, m + StepsOf(at))'
      <4> SUFFICES ASSUME NEW j \in DOMAIN trace', trace'[j].scenario = at
                   PROVE  j \in m + 1 .. m + StepsOf(at)
        BY <1>1, <1>2 DEF OnlyWithin
      <4>1. j \notin DOMAIN trace
        <5> SUFFICES ASSUME j \in DOMAIN trace PROVE FALSE
          OBVIOUS
        <5>1. trace'[j] = trace[j]
          BY <1>1, <1>2, NewLinesAreOwn
        <5>2. trace[j].scenario < at
          BY <1>1 DEF TraceIsLaidOut
        <5> QED BY <1>1, <5>1, <5>2
      <4>2. j \in Len(trace) + 1 .. Len(trace) + Len(Baseline(files[at]))
        BY <1>1, <1>2, <4>1, NewLinesAreOwn
      <4> QED BY <1>2, <3>1, <4>2
    <3> QED BY <1>1, <1>2, <3>1, <3>2, <3>3, TraceGrows DEF HalfTraced
  <2> QED BY <1>1, <2>1, <2>2, <2>3 DEF TraceIsLaidOut
<1> QED BY <1>3, <1>4, <1>5, <1>6

(* A step of the protected run is answered as if it were alone.            *)
LEMMA ProtectedStepPreserves == McInv /\ ProtectedStep => McInv'
<1> SUFFICES ASSUME McInv, ProtectedStep PROVE McInv'
  OBVIOUS
<1> USE DEF McInv
<1> DEFINE next == ProxyAnswer(NextTool, Tainted, poisoned).decision
<1>1. /\ mcPhase = "protected" /\ at \in DOMAIN files /\ Len(protectedRun) < StepsOf(at)
      /\ UNCHANGED <<files, mcPhase, at, poisoned, baselineRun, verdicts, trace, exitCode>>
      /\ protectedRun \in Seq(Decisions) /\ protectedRun' = Append(protectedRun, next)
  BY DEF ProtectedStep, StepsLeft, McTypeOK, Scenario, StepsOf
<1>2. next \in Decisions
  BY ProxyDecides
<1>3. /\ StepsOf(at) \in Nat /\ Len(protectedRun) \in Nat
      /\ Len(protectedRun) + 1 \in 1..StepsOf(at)
  BY <1>1, RunsTyped
<1>4. next = ProtectedOf(at)[Len(protectedRun) + 1]
  <2>1. DOMAIN files[at].steps = 1..StepsOf(at)
    BY <1>1, StepsTyped DEF McTypeOK, StepsOf
  <2>2. poisoned = PoisonOf(files[at])
    BY <1>1 DEF RunsAreOwn
  <2> QED BY <1>3, <2>1, <2>2 DEF ProtectedOf, NextTool, Tainted, Scenario
<1> HIDE DEF next
<1>5. /\ protectedRun' \in Seq(Decisions) /\ Len(protectedRun') = Len(protectedRun) + 1
      /\ Len(protectedRun') <= StepsOf(at)
      /\ \A i \in DOMAIN protectedRun' :
           \/ i \in DOMAIN protectedRun /\ protectedRun'[i] = protectedRun[i]
           \/ i = Len(protectedRun) + 1 /\ protectedRun'[i] = next
  BY <1>1, <1>2, <1>3
<1>6. McTypeOK'
  BY <1>1, <1>5 DEF McTypeOK, StepsOf
<1>7. RunsAreOwn'
  <2>1. ProtectedOf(at)' = ProtectedOf(at) /\ StepsOf(at)' = StepsOf(at)
    BY <1>1 DEF ProtectedOf, StepsOf
  <2> QED BY <1>1, <1>4, <1>5, <2>1 DEF RunsAreOwn
<1>8. VerdictsIndependent' /\ ExitEarned'
  BY <1>1 DEF VerdictsIndependent, ExitEarned
<1>9. TraceIsLaidOut'
  BY <1>1, LayoutIsOfTrace DEF TraceIsLaidOut
<1> QED BY <1>6, <1>7, <1>8, <1>9

(* The protected run's lines complete the block.                           *)
LEMMA ProtectedEndsPreserves == McInv /\ ProtectedEnds => McInv'
<1> SUFFICES ASSUME McInv, ProtectedEnds PROVE McInv'
  OBVIOUS
<1> USE DEF McInv
<1>1. /\ mcPhase = "protected" /\ mcPhase' = "compare" /\ at \in DOMAIN files /\ at \in Nat
      /\ UNCHANGED <<files, at, poisoned, baselineRun, protectedRun, verdicts, exitCode>>
      /\ protectedRun \in Seq(Decisions) /\ Len(protectedRun) = StepsOf(at)
      /\ trace' = trace \o TraceOf("protected", protectedRun)
  BY DEF ProtectedEnds, McTypeOK, Scenario, StepsOf
<1>2. /\ StepsOf(at) \in Nat /\ StepsOf(at)' = StepsOf(at) /\ ProtectedOf(at)' = ProtectedOf(at)
      /\ Len(trace') = Len(trace) + StepsOf(at)
      /\ \A i \in 1..StepsOf(at) : protectedRun[i] = ProtectedOf(at)[i]
  <2>1. StepsOf(at) \in Nat
    BY <1>1, RunsTyped
  <2>2. StepsOf(at)' = StepsOf(at) /\ ProtectedOf(at)' = ProtectedOf(at)
    BY <1>1 DEF StepsOf, ProtectedOf
  <2>3. Len(trace') = Len(trace) + StepsOf(at)
    BY <1>1, TraceGrows
  <2>4. DOMAIN protectedRun = 1..StepsOf(at)
    BY <1>1
  <2>5. \A i \in 1..StepsOf(at) : protectedRun[i] = ProtectedOf(at)[i]
    BY <1>1, <2>4 DEF RunsAreOwn
  <2> QED BY <2>1, <2>2, <2>3, <2>5
<1>3. McTypeOK'
  <2>1. trace' \in Seq(TraceLines)
    BY <1>1, TraceGrows
  <2> QED BY <1>1, <2>1 DEF McTypeOK, TraceLines
<1>4. RunsAreOwn' /\ VerdictsIndependent' /\ ExitEarned'
  BY <1>1, <1>2 DEF RunsAreOwn, VerdictsIndependent, ExitEarned
<1>5. TraceIsLaidOut'
  <2>1. \A j \in DOMAIN trace' : trace'[j].scenario <= at
    <3> SUFFICES ASSUME NEW j \in DOMAIN trace' PROVE trace'[j].scenario <= at
      OBVIOUS
    <3>1. CASE j \in DOMAIN trace
      BY <1>1, <3>1, NewLinesAreOwn DEF TraceIsLaidOut
    <3>2. CASE j \notin DOMAIN trace
      <4>1. trace'[j].scenario = at
        BY <1>1, <3>2, NewLinesAreOwn
      <4> QED BY <1>1, <4>1
    <3> QED BY <3>1, <3>2
  <2>2. \A k \in 1..at-1 : (Traced(k))'
    <3> SUFFICES ASSUME NEW k \in 1..at-1 PROVE (Traced(k))'
      OBVIOUS
    <3>1. k \in DOMAIN files /\ k < at /\ Traced(k)
      BY <1>1 DEF McTypeOK, TraceIsLaidOut
    <3> QED BY <1>1, <3>1, TracedStays
  <2>3. Traced(at)'
    <3>1. PICK m \in Nat : /\ BaselineAt(at, m) /\ OnlyWithin(at, m, m + StepsOf(at))
                           /\ Len(trace) = m + StepsOf(at)
      BY <1>1 DEF TraceIsLaidOut, HalfTraced
    <3>2. BaselineAt(at, m)'
      <4>1. \A i \in 1..StepsOf(at) :
              trace'[m + i] = Line(at, "baseline", Baseline(files[at])[i])
        <5>1. ASSUME NEW i \in 1..StepsOf(at)
              PROVE  trace'[m + i] = Line(at, "baseline", Baseline(files[at])[i])
          <6>1. m + i \in 1..Len(trace)
            BY <1>2, <3>1
          <6>2. trace'[m + i] = trace[m + i]
            BY <1>1, <6>1, TraceGrows
          <6> QED BY <3>1, <6>2 DEF BaselineAt
        <5> QED BY <5>1
      <4>2. m + StepsOf(at) <= Len(trace')
        BY <1>2, <3>1
      <4> QED BY <1>1, <1>2, <4>1, <4>2 DEF BaselineAt
    <3>3. ProtectedAt(at, m)'
      <4>1. \A i \in 1..StepsOf(at) :
              trace'[m + StepsOf(at) + i] = Line(at, "protected", ProtectedOf(at)[i])
        <5>1. \A i \in 1..StepsOf(at) :
                trace'[Len(trace) + i] = Line(at, "protected", protectedRun[i])
          BY <1>1, TraceGrows
        <5> QED BY <1>2, <3>1, <5>1
      <4>2. Len(trace') = m + 2 * StepsOf(at) /\ m + 2 * StepsOf(at) \in Nat
        BY <1>2, <3>1
      <4> QED BY <1>1, <1>2, <4>1, <4>2 DEF ProtectedAt
    <3>4. OnlyWithin(at, m, m + 2 * StepsOf(at))'
      <4> SUFFICES ASSUME NEW j \in DOMAIN trace', trace'[j].scenario = at
                   PROVE  j \in m + 1 .. m + 2 * StepsOf(at)
        BY <1>1, <1>2 DEF OnlyWithin
      <4>1. CASE j \in DOMAIN trace
        <5>1. trace'[j] = trace[j]
          BY <1>1, <4>1, NewLinesAreOwn
        <5>2. j \in m + 1 .. m + StepsOf(at)
          BY <3>1, <4>1, <5>1 DEF OnlyWithin
        <5> QED BY <1>2, <5>2
      <4>2. CASE j \notin DOMAIN trace
        <5>1. j \in Len(trace) + 1 .. Len(trace) + StepsOf(at)
          BY <1>1, <4>2, NewLinesAreOwn
        <5> QED BY <1>2, <3>1, <5>1
      <4> QED BY <4>1, <4>2
    <3> QED BY <1>1, <1>2, <3>1, <3>2, <3>3, <3>4 DEF Traced
  <2> QED BY <1>1, <2>1, <2>2, <2>3 DEF TraceIsLaidOut
<1> QED BY <1>3, <1>4, <1>5

(* The verdict is taken from what each run gave.                           *)
LEMMA ComparedTyped ==
  ASSUME NEW b, NEW p, DOMAIN b \subseteq Nat
  PROVE  Compared(b, p) \in [pass : BOOLEAN, stopped : SUBSET Nat, attacked : SUBSET Nat]
BY DEF Compared, Verdict

LEMMA OneStopPasses ==
  ASSUME NEW b, NEW p, NEW i \in DOMAIN b, b[i] = "ALLOW", p[i] \in Blocked
  PROVE  Compared(b, p).pass
<1> DEFINE attacked == {j \in DOMAIN b : b[j] = "ALLOW"}
           stopped == {j \in attacked : p[j] \in Blocked}
<1>1. i \in stopped
  OBVIOUS
<1>2. attacked # {} /\ stopped # {}
  BY <1>1
<1>3. Compared(b, p).pass = (attacked # {} /\ stopped # {})
  BY DEF Compared, Verdict
<1> QED BY <1>2, <1>3

LEMMA CompareRunsPreserves == McInv /\ CompareRuns => McInv'
<1> SUFFICES ASSUME McInv, CompareRuns PROVE McInv'
  OBVIOUS
<1> USE DEF McInv
<1> DEFINE new == Compared(baselineRun, protectedRun)
<1>1. /\ mcPhase = "compare" /\ mcPhase' = "baseline" /\ at \in DOMAIN files /\ at \in Nat
      /\ UNCHANGED <<files, poisoned, baselineRun, protectedRun, trace, exitCode>>
      /\ at' = at + 1 /\ verdicts' = Append(verdicts, new)
      /\ verdicts \in Seq([pass : BOOLEAN, stopped : SUBSET Nat, attacked : SUBSET Nat])
      /\ Len(verdicts) = at - 1
  BY DEF CompareRuns, McTypeOK
<1>2. baselineRun = Baseline(files[at]) /\ protectedRun = ProtectedOf(at)
  <2>1. DOMAIN protectedRun = 1..StepsOf(at) /\ DOMAIN ProtectedOf(at) = 1..StepsOf(at)
    BY <1>1, RunsTyped DEF RunsAreOwn, McTypeOK
  <2>2. \A i \in 1..StepsOf(at) : protectedRun[i] = ProtectedOf(at)[i]
    BY <1>1, <2>1 DEF RunsAreOwn
  <2>3. protectedRun = [i \in 1..StepsOf(at) |-> protectedRun[i]]
    BY <2>1 DEF McTypeOK
  <2>4. ProtectedOf(at) = [i \in 1..StepsOf(at) |-> ProtectedOf(at)[i]]
    BY <2>1 DEF ProtectedOf
  <2>5. protectedRun = ProtectedOf(at)
    BY <2>2, <2>3, <2>4
  <2> QED BY <1>1, <2>5 DEF RunsAreOwn
<1>3. new \in [pass : BOOLEAN, stopped : SUBSET Nat, attacked : SUBSET Nat]
  BY <1>1, <1>2, RunsTyped, ComparedTyped
<1>4. new = Compared(Baseline(files[at]), ProtectedOf(at))
  BY <1>2
<1> HIDE DEF new
<1>5. /\ verdicts' \in Seq([pass : BOOLEAN, stopped : SUBSET Nat, attacked : SUBSET Nat])
      /\ Len(verdicts') = at /\ DOMAIN verdicts' = 1..at
      /\ \A k \in DOMAIN verdicts' : IF k = at THEN verdicts'[k] = new
                                      ELSE k \in DOMAIN verdicts /\ verdicts'[k] = verdicts[k]
  BY <1>1, <1>3
<1>6. McTypeOK'
  BY <1>1, <1>5 DEF McTypeOK
<1>7. VerdictsIndependent'
  <2> SUFFICES ASSUME NEW k \in DOMAIN verdicts'
               PROVE  verdicts'[k] = Compared(Baseline(files[k]), ProtectedOf(k))
    BY <1>1 DEF VerdictsIndependent, ProtectedOf
  <2> QED BY <1>4, <1>5 DEF VerdictsIndependent, ProtectedOf
<1>8. RunsAreOwn' /\ ExitEarned'
  BY <1>1 DEF RunsAreOwn, ExitEarned
<1>9. TraceIsLaidOut'
  <2>1. \A k \in 1..at'-1 : Traced(k)
    BY <1>1 DEF TraceIsLaidOut
  <2>2. ASSUME NEW j \in DOMAIN trace
        PROVE  trace[j].scenario < at' /\ trace[j].scenario <= at'
    <3>1. trace[j] \in TraceLines
      <4>1. trace \in Seq(TraceLines)
        BY DEF McTypeOK, TraceLines
      <4> QED BY <4>1
    <3>2. trace[j].scenario \in Nat
      BY <3>1 DEF TraceLines
    <3>3. trace[j].scenario <= at
      BY DEF TraceIsLaidOut
    <3> QED BY <1>1, <3>2, <3>3
  <2> QED BY <1>1, <2>1, <2>2, LayoutIsOfTrace DEF TraceIsLaidOut
<1> QED BY <1>6, <1>7, <1>8, <1>9

LEMMA ExitPreserves == McInv /\ Exit => McInv'
<1> SUFFICES ASSUME McInv, Exit PROVE McInv'
  OBVIOUS
<1> USE DEF McInv, Exit
<1>1. McTypeOK'
  BY DEF McTypeOK, NoExit
<1>2. RunsAreOwn' /\ VerdictsIndependent' /\ ExitEarned'
  BY DEF RunsAreOwn, VerdictsIndependent, ExitEarned
<1>3. TraceIsLaidOut'
  BY LayoutIsOfTrace DEF TraceIsLaidOut
<1> QED BY <1>1, <1>2, <1>3

LEMMA McInductive == McInv /\ [McNext]_mcVars => McInv'
<1> SUFFICES ASSUME McInv, [McNext]_mcVars PROVE McInv'
    OBVIOUS
<1>1. CASE UNCHANGED mcVars
  <2>1. /\ McTypeOK' /\ RunsAreOwn' /\ VerdictsIndependent' /\ ExitEarned'
    BY <1>1 DEF mcVars, McInv, McTypeOK, RunsAreOwn, VerdictsIndependent, ExitEarned,
                ProtectedOf, StepsOf
  <2>2. TraceIsLaidOut'
    BY <1>1, LayoutIsOfTrace DEF mcVars, McInv, TraceIsLaidOut
  <2> QED BY <2>1, <2>2 DEF McInv
<1>2. CASE McNext
  BY <1>2, LoadAllPreserves, FailingPreserves, RunBaselinePreserves,
     ProtectedStepPreserves, ProtectedEndsPreserves, CompareRunsPreserves,
     ExitPreserves DEF McNext
<1> QED BY <1>1, <1>2

LEMMA McInvHolds == McSpec => []McInv
BY McStarts, McInductive, PTL DEF McSpec

(* The benchmark's variables keep their types, the trace above all, for    *)
(* every set of tools and files (mcpzero/demo.py, run_all).                *)
THEOREM BenchmarkTypeCorrect == McSpec => []McTypeOK
<1>1. McInv => McTypeOK
  BY DEF McInv
<1> QED BY <1>1, McInvHolds, PTL

(* A tainted step that reaches for an external tool is stopped: the tool   *)
(* is not exposed, or one of the rules up to the taint rule refuses it.    *)
LEMMA TaintedExternalStopped ==
  ASSUME NEW tool \in McRegistry, McEffect[tool] = "external", NEW taint, taint, NEW tampered
  PROVE  ProxyAnswer(tool, taint, tampered).decision \in Blocked
BY DEF ProxyAnswer, Decide, Blocked, Result, NotAllowlisted, CapabilityNotAllowed,
       DescriptorDrift, TaintedExternal

(* Whatever the scenarios are and whichever of them poisons a descriptor,  *)
(* each verdict is the one its own scenario earns, a tainted reach for an  *)
(* external tool passes, and the code 0 stands for a trace that shows both *)
(* runs of every scenario (mcpzero/demo.py, verdict/engine.py).            *)
THEOREM VerdictsAlwaysTrusted == McSpec => []VerdictsTrusted
<1>1. McInv => TaintedAttacksPass
  <2> SUFFICES ASSUME McInv, NEW k \in DOMAIN verdicts, files[k].channel \in TaintedOnes,
                      NEW i \in DOMAIN files[k].steps,
                      files[k].steps[i] \in ExternalTools \cap BaselineHandlers \cap McRegistry
               PROVE  verdicts[k].pass
    BY DEF TaintedAttacksPass
  <2>1. verdicts[k] = Compared(Baseline(files[k]), ProtectedOf(k))
    BY DEF McInv, VerdictsIndependent, ProtectedOf
  <2>2. i \in DOMAIN Baseline(files[k]) /\ Baseline(files[k])[i] = "ALLOW"
    BY DEF Baseline
  <2>3. ProtectedOf(k)[i] \in Blocked
    <3>1. ProtectedOf(k)[i] = ProxyAnswer(files[k].steps[i], files[k].channel \in TaintedOnes,
                                          PoisonOf(files[k])).decision
      BY DEF ProtectedOf
    <3>2. /\ McEffect[files[k].steps[i]] = "external"
          /\ files[k].steps[i] \in McRegistry
      BY DEF ExternalTools
    <3>3. \A tampered : ProxyAnswer(files[k].steps[i], files[k].channel \in TaintedOnes,
                                   tampered).decision \in Blocked
      BY <3>2, TaintedExternalStopped, Zenon
    <3> QED BY <3>1, <3>3, Zenon
  <2> QED BY <2>1, <2>2, <2>3, OneStopPasses
<1>2. McInv => ZeroMeansAllStopped
  <2> SUFFICES ASSUME McInv, exitCode = 0 PROVE ZeroMeansAllStopped
    BY DEF ZeroMeansAllStopped
  <2>1. /\ at = Len(files) + 1 /\ Len(verdicts) = Len(files) /\ Len(files) \in Nat
        /\ DOMAIN files = 1..Len(files) /\ DOMAIN verdicts = DOMAIN files
        /\ DOMAIN trace = 1..Len(trace) /\ Len(trace) \in Nat
        /\ \A k \in DOMAIN verdicts : verdicts[k].pass
    BY DEF McInv, McTypeOK, ExitEarned
  <2>2. ASSUME NEW k \in DOMAIN files PROVE \E from \in 0..Len(trace) : ToldFrom(k, from)
    <3>1. Traced(k)
      BY <2>1 DEF McInv, TraceIsLaidOut
    <3>2. PICK m \in Nat : /\ BaselineAt(k, m) /\ ProtectedAt(k, m)
                           /\ OnlyWithin(k, m, m + 2 * StepsOf(k))
      BY <3>1 DEF Traced
    <3>3. PICK n \in Nat : n = StepsOf(k)
      BY RunsTyped DEF McInv
    <3>4. m + 2 * n <= Len(trace) /\ m \in 0..Len(trace)
      BY <2>1, <3>2, <3>3 DEF ProtectedAt
    <3>5. ASSUME NEW i \in 1..n
          PROVE  /\ trace[m + i] = Line(k, "baseline", Baseline(files[k])[i])
                 /\ trace[m + n + i] = Line(k, "protected", ProtectedOf(k)[i])
      BY <3>2, <3>3 DEF BaselineAt, ProtectedAt
    <3>6. ASSUME NEW i \in 1..n
          PROVE  /\ trace[m + i].scenario = k /\ trace[m + n + i].scenario = k
                 /\ trace[m + i].mode = "baseline" /\ trace[m + n + i].mode = "protected"
                 /\ trace[m + i].decision = Baseline(files[k])[i]
                 /\ trace[m + n + i].decision = ProtectedOf(k)[i]
      <4>1. /\ trace[m + i] = Line(k, "baseline", Baseline(files[k])[i])
            /\ trace[m + n + i] = Line(k, "protected", ProtectedOf(k)[i])
        BY <3>5
      <4> QED BY <4>1 DEF Line
    <3>7. {j \in DOMAIN trace : trace[j].scenario = k} = m + 1 .. m + 2 * n
      <4>1. ASSUME NEW j \in m + 1 .. m + 2 * n PROVE j \in DOMAIN trace /\ trace[j].scenario = k
        <5>1. CASE j <= m + n
          <6>1. j - m \in 1..n /\ j = m + (j - m)
            BY <5>1
          <6>2. PICK i \in 1..n : j = m + i
            BY <6>1
          <6>3. trace[j].scenario = k
            BY <3>6, <6>2
          <6>4. j \in 1..Len(trace)
            BY <2>1, <3>4
          <6> QED BY <2>1, <6>3, <6>4
        <5>2. CASE ~(j <= m + n)
          <6>1. j - m - n \in 1..n /\ j = m + n + (j - m - n)
            BY <5>2
          <6>2. PICK i \in 1..n : j = m + n + i
            BY <6>1
          <6>3. trace[j].scenario = k
            BY <3>6, <6>2
          <6>4. j \in 1..Len(trace)
            BY <2>1, <3>4
          <6> QED BY <2>1, <6>3, <6>4
        <5> QED BY <5>1, <5>2
      <4> QED BY <3>2, <3>3, <4>1 DEF OnlyWithin
    <3>8. \A i \in 1..n : trace[m + i].mode = "baseline" /\ trace[m + n + i].mode = "protected"
      BY <3>6
    <3>9. verdicts[k] = Compared([i \in 1..n |-> trace[m + i].decision],
                                [i \in 1..n |-> trace[m + n + i].decision])
      <4>1. verdicts[k] = Compared(Baseline(files[k]), ProtectedOf(k))
        BY <2>1 DEF McInv, VerdictsIndependent, ProtectedOf
      <4>2. /\ DOMAIN Baseline(files[k]) = 1..n /\ DOMAIN ProtectedOf(k) = 1..n
        BY <3>3, RunsTyped DEF McInv
      <4>3. /\ \A i \in 1..n : trace[m + i].decision = Baseline(files[k])[i]
            /\ \A i \in 1..n : trace[m + n + i].decision = ProtectedOf(k)[i]
        BY <3>6
      <4>4. Baseline(files[k]) = [i \in 1..n |-> Baseline(files[k])[i]]
        BY <4>2 DEF Baseline
      <4>5. ProtectedOf(k) = [i \in 1..n |-> ProtectedOf(k)[i]]
        BY <4>2 DEF ProtectedOf
      <4>6. /\ [i \in 1..n |-> trace[m + i].decision] = Baseline(files[k])
            /\ [i \in 1..n |-> trace[m + n + i].decision] = ProtectedOf(k)
        BY <4>3, <4>4, <4>5
      <4> QED BY <4>1, <4>6
    <3>10. ToldFrom(k, m)
      BY <3>3, <3>7, <3>8, <3>9 DEF ToldFrom, StepsOf
    <3> QED BY <3>4, <3>10
  <2> QED BY <2>1, <2>2 DEF ZeroMeansAllStopped
<1>3. McInv => VerdictsIndependent
  BY DEF McInv
<1>4. McInv => VerdictsTrusted
  BY <1>1, <1>2, <1>3 DEF VerdictsTrusted
<1> QED BY <1>4, McInvHolds, PTL

-----------------------------------------------------------------------------
(* The four side by side.  One of them moves, the others are parked, and a *)
(* parked program is in a state its invariant allows.                      *)
ServingInv == StreamInv /\ ControllerInv /\ StdioInv /\ McInv

LEMMA ParkedAllowed ==
  /\ streamParked => StreamInv
  /\ stdioParked => StdioInv
  /\ mcParked => McInv
<1>1. streamParked => StreamInv
  BY MaxLinesAssumption
     DEF streamParked, StreamInv, StreamTypeOK, Places, NothingSkipped, InFileOrder, BatchInOrder
<1>2. ASSUME stdioParked PROVE StdioInv
  <2>1. StdioTypeOK
    <3>1. Len(input) = 0 /\ read \in 0..Len(input) /\ Len(input) <= MaxInput
      BY <1>2, MaxInputAssumption DEF stdioParked
    <3>2. input \in Seq(InputLines) /\ replies \in Seq(StdioReplies) /\ effects \subseteq 1..read
      BY <1>2 DEF stdioParked
    <3> QED BY <1>2, <3>1, <3>2 DEF stdioParked, StdioTypeOK
  <2>2. OneReplyInOrder /\ EffectsAnswered /\ AtOneLine
    BY <1>2 DEF stdioParked, OneReplyInOrder, EffectsAnswered, AtOneLine
  <2> QED BY <2>1, <2>2 DEF StdioInv
<1>3. ASSUME mcParked PROVE McInv
  <2>1. /\ DOMAIN trace = {} /\ DOMAIN verdicts = {} /\ Len(files) = 0
    BY <1>3 DEF mcParked
  <2>2. McTypeOK
    BY <1>3 DEF mcParked, McTypeOK, NoExit
  <2>3. RunsAreOwn /\ TraceIsLaidOut /\ VerdictsIndependent /\ ExitEarned
    BY <1>3, <2>1 DEF mcParked, RunsAreOwn, TraceIsLaidOut, VerdictsIndependent, ExitEarned
  <2> QED BY <2>2, <2>3 DEF McInv
<1> QED BY <1>1, <1>2, <1>3

LEMMA ServingStarts == ServingInit => ServingInv
BY ParkedAllowed, StreamStarts, ControllerStarts, StdioStarts, McStarts
   DEF ServingInit, ServingInv

LEMMA ServingInductive == ServingInv /\ [ServingNext]_servingVars => ServingInv'
<1> SUFFICES ASSUME ServingInv, [ServingNext]_servingVars PROVE ServingInv'
    OBVIOUS
<1>1. /\ [StreamNext]_streamVars /\ [ControllerNext]_controllerVars
      /\ [StdioNext]_stdioVars /\ [McNext]_mcVars
  BY DEF ServingNext, servingVars
<1> QED BY <1>1, StreamInductive, ControllerInductive, StdioInductive, McInductive
        DEF ServingInv

(* The types of all four programs, whichever of them runs.                 *)
THEOREM ServingTypeCorrect == ServingSpec => []ServingTypeOK
<1>1. StreamInv => StreamTypeOK
  BY DEF StreamInv
<1>2. ControllerInv => ControllerTypeOK
  <2> SUFFICES ASSUME ControllerInv PROVE ControllerTypeOK
    OBVIOUS
  <2>1. lock \in Threads \cup {Free}
    BY DEF ControllerInv, Exclusion, Threads
  <2>2. /\ \A t \in Switchers : switch[t].target \in Worlds \cup {None}
        /\ \A c \in Callers : seen[c].world \in Worlds \cup {None}
    BY DEF ControllerInv, ThreadsTyped
  <2>3. /\ world \in Worlds /\ worldId \in Worlds /\ history \in Seq(Worlds)
        /\ pc \in [Threads -> {"idle", "compiled", "locked", "installed", "named", "read", "resolved"}]
    BY DEF ControllerInv, ThreadsTyped, Critical
  <2>4. \A d \in diffs : d.at \in 2..Len(history)
    BY DEF ControllerInv, DiffsPlaced
  <2> QED BY <2>1, <2>2, <2>3, <2>4 DEF ControllerTypeOK
<1>3. StdioInv => StdioTypeOK
  BY DEF StdioInv
<1>4. McInv => McTypeOK
  BY DEF McInv
<1>5. ServingInv => ServingTypeOK
  BY <1>1, <1>2, <1>3, <1>4 DEF ServingInv, ServingTypeOK
<1> QED BY <1>5, ServingStarts, ServingInductive, PTL DEF ServingSpec

=============================================================================
