------------------------------- MODULE LogProofs -------------------------------
(***************************************************************************)
(* The log, for every set of worlds, tools and scenarios and any number of *)
(* lines, switches, restarts and torn appends: what is readable stays,     *)
(* what the replays reproduce, what the log tells of the API's world, and  *)
(* what the number of a line stands for.                                   *)
(***************************************************************************)
EXTENDS AuditLog, PolicyLemmas, FiniteSetTheorems, WellFoundedInduction

BusyTyped ==
  \/ busy \in {Idle, [doing |-> "seeding"], [doing |-> "switching"]}
  \/ \E own \in Nat : busy = [doing |-> "scenario", own |-> own]
  \/ \E s \in Scenarios, worlds \in Seq(Worlds) :
       busy = [doing |-> "comparing", scenario |-> s, worlds |-> worlds]

(* Without a newline at its end, the file has a line that was cut short.   *)
TornHasLine == torn => file # << >> /\ tears > 0

(* The active world is the one switched to last.                           *)
ActiveIsLast == switches # << >> /\ active = switches[Len(switches)]

TypeInv == TypeOK /\ BusyTyped /\ TornHasLine /\ ActiveIsLast

(* What an append adds to the file when there is none to continue, and     *)
(* what is left of both otherwise.                                         *)
Garbled == [file EXCEPT ![Len(file)] = Garbage]

LEMMA GarbageTyped == Garbage \in Lines /\ Garbage.kind = "garbage"
BY LogWorldsAssumption DEF Garbage, Lines, Writers

LEMMA GarbledTyped ==
  ASSUME TypeInv, torn
  PROVE  /\ Garbled \in Seq(Lines) /\ Len(Garbled) = Len(file) /\ Len(file) \in Nat \ {0}
         /\ DOMAIN Garbled = DOMAIN file
         /\ \A i \in DOMAIN file : Garbled[i] = IF i = Len(file) THEN Garbage ELSE file[i]
BY GarbageTyped DEF Garbled, TypeInv, TypeOK, TornHasLine

LEMMA WriteAdds ==
  ASSUME TypeInv, NEW line \in Lines, Write(line)
  PROVE  /\ ~torn' /\ tears' = tears /\ complete' = complete + 1
         /\ torn => file' = Garbled
         /\ ~torn => file' = Append(file, line)
         /\ file' \in Seq(Lines)
<1>1. file \in Seq(Lines) /\ torn \in BOOLEAN
  BY DEF TypeInv, TypeOK
<1>2. ~torn' /\ tears' = tears /\ complete' = complete + 1
  BY DEF Write
<1>3. (torn => file' = Garbled) /\ (~torn => file' = Append(file, line))
  BY DEF Write, Garbled
<1> QED BY <1>1, <1>2, <1>3, GarbledTyped

(* A part of a line that reaches the file.                                 *)
Tears(line) ==
  /\ torn' = TRUE /\ tears' = tears + 1 /\ complete' = complete
  /\ torn => file' = Garbled
  /\ ~torn => file' = Append(file, line) \/ file' = Append(file, Garbage)

LEMMA FailureAdds ==
  ASSUME TypeInv, NEW line \in Lines, WriteFails(line)
  PROVE  /\ \/ UNCHANGED <<file, torn, complete, tears>>
            \/ Tears(line)
         /\ file' \in Seq(Lines)
         /\ tears' \in 0..MaxTears
         /\ TornHasLine'
<1>1. file \in Seq(Lines) /\ torn \in BOOLEAN /\ tears \in 0..MaxTears /\ MaxTears \in Nat
  BY LogBoundsAssumption DEF TypeInv, TypeOK
<1>2. CASE UNCHANGED <<file, torn, complete, tears>>
  BY <1>1, <1>2 DEF TypeInv, TornHasLine
<1>3. ASSUME NEW part \in {line, Garbage},
             tears < MaxTears,
             file' = IF torn THEN [file EXCEPT ![Len(file)] = Garbage] ELSE Append(file, part),
             torn' = TRUE,
             tears' = tears + 1,
             complete' = complete
      PROVE  /\ Tears(line)
             /\ file' \in Seq(Lines)
             /\ tears' \in 0..MaxTears
             /\ TornHasLine'
  <2>1. torn => file' = Garbled
    BY <1>3 DEF Garbled
  <2>2. ~torn => file' = Append(file, part)
    BY <1>3
  <2>3. part \in Lines
    BY GarbageTyped
  <2>4. file' \in Seq(Lines) /\ file' # << >>
    <3>1. CASE torn
      BY <2>1, <3>1, GarbledTyped
    <3>2. CASE ~torn
      BY <1>1, <2>2, <2>3, <3>2
    <3> QED BY <3>1, <3>2
  <2>5. tears' \in 0..MaxTears /\ tears' > 0
    BY <1>1, <1>3
  <2>6. Tears(line)
    BY <1>3, <2>1, <2>2 DEF Tears
  <2> QED BY <2>4, <2>5, <2>6 DEF TornHasLine
<1> QED BY <1>2, <1>3 DEF WriteFails

(* What a policy answers is a result, and the lines are lines.             *)
LEMMA AnswerTyped ==
  ASSUME NEW world, NEW registryWorld, NEW tool, NEW taint, NEW mutated
  PROVE  Answer(world, registryWorld, tool, taint, mutated) \in PolicyResults
BY DecideType DEF Answer, AnswerWith

LEMMA LinesTyped ==
  ASSUME NEW by \in Writers, NEW tool \in Tools, NEW taint \in BOOLEAN,
         NEW result \in PolicyResults, NEW world \in Worlds, NEW epoch \in Nat
  PROVE  /\ DecisionLine(by, tool, taint, result, world, epoch) \in Lines
         /\ SwitchLine(world, epoch) \in Lines
BY DEF DecisionLine, SwitchLine, Lines, Writers

LEMMA SeedsTyped == Seeds \in Seq(Lines) /\ Len(Seeds) = SeedLength
<1> DEFINE t == CHOOSE t \in Tools : TRUE
           line == DecisionLine("seed", t, FALSE, Answer(RootWorld, RootWorld, t, FALSE, {}),
                                RootWorld, 0)
<1>1. t \in Tools
  BY LogWorldsAssumption
<1>2. line \in Lines
  BY <1>1, AnswerTyped, LinesTyped, LogWorldsAssumption DEF Writers
<1>3. Seeds = [i \in 1..SeedLength |-> line]
  BY DEF Seeds
<1> HIDE DEF line
<1> QED BY <1>2, <1>3, LogBoundsAssumption

-----------------------------------------------------------------------------
(* What a line may be that is written: a decision or a switch of the API   *)
(* as it is now, or a decision of another executor; and what may be added. *)
RootLineReplays(line) ==
  line.kind = "decision" /\ line.world = RootWorld /\ line.result # DescriptorDrift =>
    ApiReplay(line) = line.result

ApiDecisionLine(line) == line.kind = "decision" /\ line.by = "api"

NewLine(line) ==
  /\ RootLineReplays(line)
  /\ \/ /\ ApiDecisionLine(line) /\ busy = Idle
        /\ line.world = active /\ line.epoch = Len(switches)
     \/ line.kind = "switch" /\ busy.doing = "switching" /\ line.epoch = Len(switches)
     \/ line.kind = "decision" /\ line.by # "api"

AddedLine(line) == NewLine(line) \/ line = Garbage

(* A poisoned registry changes an answer to drift or not at all.           *)
LEMMA PoisonOnlyDrifts ==
  ASSUME NEW world, NEW registryWorld, NEW tool, NEW taint, NEW mutated,
         Answer(world, registryWorld, tool, taint, mutated) # DescriptorDrift
  PROVE  Answer(world, registryWorld, tool, taint, mutated)
           = Answer(world, registryWorld, tool, taint, {})
<1> DEFINE exposed == Catalog(registryWorld) \cap WorldTables[registryWorld].allowlist
           se == IF tool \in exposed THEN SideEffect[tool] ELSE "unknown"
           chain(hashOk) == Decide(WorldTables[world], tool, tool, taint, se, hashOk)
           h1 == tool \in exposed => tool \notin mutated
           h2 == tool \in exposed => tool \notin {}
<1>1. Answer(world, registryWorld, tool, taint, mutated) = chain(h1)
  BY DEF Answer, AnswerWith
<1>2. Answer(world, registryWorld, tool, taint, {}) = chain(h2)
  BY DEF Answer, AnswerWith
<1>3. h2
  OBVIOUS
<1>4. chain(h1) # DescriptorDrift => chain(h1) = chain(h2)
  <2> HIDE DEF h1, h2, se
  <2> QED BY <1>3 DEF Decide
<1> HIDE DEF chain, h1, h2
<1> QED BY <1>1, <1>2, <1>4

LEMMA AnswersReplay ==
  ASSUME NEW by, NEW tool, NEW taint, NEW world, NEW mutated, NEW epoch
  PROVE  /\ RootLineReplays(DecisionLine(by, tool, taint,
              Answer(world, world, tool, taint, mutated), world, epoch))
         /\ RootLineReplays(DecisionLine(by, tool, taint,
              Answer(world, RootWorld, tool, taint, {}), world, epoch))
BY PoisonOnlyDrifts DEF RootLineReplays, DecisionLine, ApiReplay

LEMMA OthersReplay ==
  /\ RootLineReplays(Garbage)
  /\ \A world, epoch : RootLineReplays(SwitchLine(world, epoch))
BY DEF RootLineReplays, Garbage, SwitchLine

(* To the file every step writes a new line, fails to, or seeds it, or it  *)
(* leaves it alone.                                                        *)
Unwritten == UNCHANGED <<file, torn, complete, tears>>

FileStep ==
  \/ \E line \in Lines : NewLine(line) /\ (Write(line) \/ WriteFails(line))
  \/ Unwritten
  \/ SeedWrite

LEMMA ApiLine ==
  ASSUME TypeInv, NEW tool \in Tools, NEW taint \in BOOLEAN, ApiFree
  PROVE  LET line == DecisionLine("api", tool, taint,
                       Answer(active, RootWorld, tool, taint, {}), active, Len(switches))
         IN  line \in Lines /\ NewLine(line)
<1>1. PICK w \in Worlds : w = active
  BY DEF TypeInv, TypeOK
<1>2. PICK n \in Nat : n = Len(switches)
  BY DEF TypeInv, TypeOK
<1> DEFINE line == DecisionLine("api", tool, taint,
                     Answer(w, RootWorld, tool, taint, {}), w, n)
<1>3. line \in Lines
  BY AnswerTyped, LinesTyped DEF Writers
<1>4. RootLineReplays(line)
  BY AnswersReplay
<1>5. ApiDecisionLine(line) /\ line.world = active /\ line.epoch = Len(switches)
  BY <1>1, <1>2 DEF ApiDecisionLine, DecisionLine
<1>6. busy = Idle
  BY DEF ApiFree
<1> HIDE DEF line
<1>7. line \in Lines /\ NewLine(line)
  BY <1>3, <1>4, <1>5, <1>6 DEF NewLine
<1> QED BY <1>1, <1>2, <1>7 DEF line

LEMMA OtherLine ==
  ASSUME NEW by \in {"stdio", "own", "seed"}, NEW tool \in Tools, NEW taint \in BOOLEAN,
         NEW world \in Worlds, NEW mutated
  PROVE  LET line == DecisionLine(by, tool, taint,
                       Answer(world, world, tool, taint, mutated), world, 0)
         IN  line \in Lines /\ NewLine(line)
<1> DEFINE line == DecisionLine(by, tool, taint,
                     Answer(world, world, tool, taint, mutated), world, 0)
<1>1. line \in Lines
  BY AnswerTyped, LinesTyped DEF Writers
<1>2. RootLineReplays(line)
  BY AnswersReplay
<1>3. line.kind = "decision" /\ line.by # "api"
  BY DEF DecisionLine
<1> HIDE DEF line
<1>4. line \in Lines /\ NewLine(line)
  BY <1>1, <1>2, <1>3 DEF NewLine, ApiDecisionLine
<1> QED BY <1>4 DEF line

LEMMA TellLine ==
  ASSUME TypeInv, busy.doing = "switching"
  PROVE  LET line == SwitchLine(active, Len(switches))
         IN  line \in Lines /\ NewLine(line)
<1>1. PICK w \in Worlds : w = active
  BY DEF TypeInv, TypeOK
<1>2. PICK n \in Nat : n = Len(switches)
  BY DEF TypeInv, TypeOK
<1>3. SwitchLine(w, n) \in Lines
  BY DEF SwitchLine, Lines, Writers
<1>4. NewLine(SwitchLine(w, n))
  BY <1>2, OthersReplay DEF NewLine, SwitchLine
<1> QED BY <1>1, <1>2, <1>3, <1>4

LEMMA FileSteps ==
  ASSUME TypeInv, [Next]_vars
  PROVE  FileStep
<1>1. ASSUME NEW tool \in Tools, NEW taint \in BOOLEAN, ApiDecides(tool, taint)
      PROVE  FileStep
  <2>1. PICK line : line = DecisionLine("api", tool, taint,
                             Answer(active, RootWorld, tool, taint, {}), active, Len(switches))
    OBVIOUS
  <2>2. Write(line) \/ WriteFails(line)
    BY <1>1, <2>1 DEF ApiDecides
  <2>3. line \in Lines /\ NewLine(line)
    BY <1>1, <2>1, ApiLine DEF ApiDecides
  <2> QED BY <2>2, <2>3 DEF FileStep
<1>2. ASSUME NEW tool \in Tools, StdioDecides(tool)
      PROVE  FileStep
  <2>1. PICK line : line = DecisionLine("stdio", tool, FALSE,
                             Answer(StdioWorld, StdioWorld, tool, FALSE, {}), StdioWorld, 0)
    OBVIOUS
  <2>2. Write(line) \/ WriteFails(line)
    BY <1>2, <2>1 DEF StdioDecides
  <2>3. line \in Lines /\ NewLine(line)
    BY <2>1, OtherLine, LogWorldsAssumption
  <2> QED BY <2>2, <2>3 DEF FileStep
<1>4. ASSUME NEW world \in Worlds, Install(world) PROVE FileStep
  BY <1>4 DEF Install, Unwritten, FileStep
<1>5. CASE TellSwitch \/ SwitchUntold
  <2>1. PICK line : line = SwitchLine(active, Len(switches))
    OBVIOUS
  <2>2. Write(line) \/ WriteFails(line)
    BY <1>5, <2>1 DEF TellSwitch, SwitchUntold
  <2>3. line \in Lines /\ NewLine(line)
    BY <1>5, <2>1, TellLine DEF TellSwitch, SwitchUntold
  <2> QED BY <2>2, <2>3 DEF FileStep
<1>7. ASSUME NEW s \in Scenarios, RunScenario(s) PROVE FileStep
  <2>1. PICK line : line = DecisionLine("own", s.tool, s.taint,
                             Answer(RootWorld, RootWorld, s.tool, s.taint,
                                    IF s.poisoned THEN {s.tool} ELSE {}), RootWorld, 0)
    OBVIOUS
  <2>2. Write(line) \/ WriteFails(line)
    BY <1>7, <2>1 DEF RunScenario
  <2>3. line \in Lines /\ NewLine(line)
    <3>1. s.tool \in Tools /\ s.taint \in BOOLEAN
      BY ScenariosAssumption
    <3> QED BY <2>1, <3>1, OtherLine, LogWorldsAssumption
  <2> QED BY <2>2, <2>3 DEF FileStep
<1>8. CASE ReportScenario
  BY <1>8 DEF ReportScenario, Unwritten, FileStep
<1>9. ASSUME NEW s \in Scenarios, NEW worlds \in WorldLists, Compare(s, worlds) PROVE FileStep
  BY <1>9 DEF Compare, Unwritten, FileStep
<1>10. CASE CompareNext
  <2>1. PICK s \in Scenarios, worlds \in Seq(Worlds) :
               busy = [doing |-> "comparing", scenario |-> s, worlds |-> worlds]
    BY <1>10 DEF CompareNext, TypeInv, BusyTyped, Idle
  <2>2. PICK w \in Worlds : w = Head(busy.worlds)
    BY <1>10, <2>1 DEF CompareNext
  <2>3. PICK line : line = DecisionLine("own", s.tool, s.taint,
                             Answer(w, w, s.tool, s.taint,
                                    IF s.poisoned THEN {s.tool} ELSE {}), w, 0)
    OBVIOUS
  <2>4. Write(line) \/ WriteFails(line)
    BY <1>10, <2>1, <2>2, <2>3 DEF CompareNext
  <2>5. line \in Lines /\ NewLine(line)
    <3>1. s.tool \in Tools /\ s.taint \in BOOLEAN
      BY ScenariosAssumption
    <3> QED BY <2>3, <3>1, OtherLine
  <2> QED BY <2>4, <2>5 DEF FileStep
<1>11. CASE HandlerEnds
  BY <1>11 DEF HandlerEnds, Unwritten, FileStep
<1>12. CASE SeedWrite
  BY <1>12 DEF FileStep
<1>13. CASE Restart
  BY <1>13 DEF Restart, Unwritten, FileStep
<1>14. CASE UNCHANGED vars
  BY <1>14 DEF vars, Unwritten, FileStep
<1> QED BY <1>1, <1>2, <1>4, <1>5, <1>7, <1>8, <1>9, <1>10, <1>11, <1>12,
           <1>13, <1>14 DEF Next

(* What that does to the lines: only one that was cut short is ever        *)
(* touched again.                                                          *)
LEMMA FileGrows ==
  ASSUME TypeInv, FileStep, ~SeedWrite
  PROVE  \/ file' = file
         \/ \E line \in Lines : AddedLine(line) /\ file' = Append(file, line)
         \/ torn /\ file' = Garbled
<1>1. torn \in BOOLEAN
  BY DEF TypeInv, TypeOK
<1>2. AddedLine(Garbage) /\ Garbage \in Lines
  BY GarbageTyped DEF AddedLine
<1>3. ASSUME NEW line \in Lines, NewLine(line), Write(line)
      PROVE  (torn /\ file' = Garbled) \/ file' = Append(file, line)
  BY <1>1, <1>3, WriteAdds
<1>4. ASSUME NEW line \in Lines, NewLine(line), WriteFails(line)
      PROVE  \/ file' = file
             \/ file' = Append(file, line) \/ file' = Append(file, Garbage)
             \/ torn /\ file' = Garbled
  BY <1>1, <1>4, FailureAdds DEF Tears
<1> QED BY <1>2, <1>3, <1>4 DEF FileStep, AddedLine, Unwritten

-----------------------------------------------------------------------------
(* Types.  The file first, then what the handlers keep in memory.          *)
FileTyped ==
  /\ file \in Seq(Lines)
  /\ torn \in BOOLEAN
  /\ complete \in Nat
  /\ tears \in 0..MaxTears
  /\ TornHasLine

LEMMA FileTypeStays ==
  ASSUME TypeInv, FileStep
  PROVE  FileTyped'
<1>1. FileTyped
  BY DEF TypeInv, TypeOK, FileTyped
<1>2. ASSUME NEW line \in Lines, Write(line) PROVE FileTyped'
  <2>1. ~torn' /\ tears' = tears /\ complete' = complete + 1 /\ file' \in Seq(Lines)
    BY <1>2, WriteAdds
  <2>2. torn' = FALSE
    BY <1>2 DEF Write
  <2>3. TornHasLine'
    BY <2>2 DEF TornHasLine
  <2>4. torn' \in BOOLEAN
    BY <2>2
  <2>5. tears' \in 0..MaxTears /\ complete' \in Nat
    BY <1>1, <2>1 DEF FileTyped
  <2> QED BY <2>1, <2>3, <2>4, <2>5 DEF FileTyped
<1>3. ASSUME NEW line \in Lines, WriteFails(line) PROVE FileTyped'
  <2>1. /\ complete' = complete
        /\ file' \in Seq(Lines)
        /\ tears' \in 0..MaxTears
        /\ TornHasLine'
        /\ torn' = torn \/ torn' = TRUE
    BY <1>3, FailureAdds DEF Tears
  <2> QED BY <1>1, <2>1 DEF FileTyped
<1>5. CASE Unwritten
  BY <1>1, <1>5 DEF Unwritten, FileTyped, TornHasLine
<1>4. CASE SeedWrite
  <2>1. /\ file' = Seeds /\ torn' = FALSE /\ complete' = SeedLength /\ tears' = tears
    BY <1>4 DEF SeedWrite
  <2> QED BY <1>1, <2>1, SeedsTyped, LogBoundsAssumption DEF FileTyped, TornHasLine
<1> QED BY <1>2, <1>3, <1>4, <1>5 DEF FileStep

MemoryTyped ==
  /\ active \in Worlds
  /\ BusyTyped
  /\ reported \in [own : Nat, id : Nat]
  /\ switches \in Seq(Worlds)
  /\ lost \subseteq 1..Len(switches)
  /\ ActiveIsLast

(* A set of positions up to some N has a last one: the first in reverse.   *)
LEMMA GreatestPosition ==
  ASSUME NEW N \in Nat, NEW S \in SUBSET (0..N), S # {}
  PROVE  \E i \in S : \A j \in S : j <= i
<1> DEFINE R == OpToRel(<, Nat)
           T == {N - i : i \in S}
<1>1. IsWellFoundedOn(R, Nat)
  BY NatLessThanWellFounded
<1>2. T \in SUBSET Nat /\ T # {}
  <2>1. \A i \in S : N - i \in Nat
    OBVIOUS
  <2>2. PICK i \in S : TRUE
    OBVIOUS
  <2>3. N - i \in T
    OBVIOUS
  <2>4. ASSUME NEW k \in T PROVE k \in Nat
    <3>1. PICK j \in S : k = N - j
      BY <2>4
    <3> QED BY <2>1, <3>1
  <2> QED BY <2>3, <2>4
<1>3. PICK k \in T : \A l \in T : <<l, k>> \notin R
  <2> HIDE DEF R, T
  <2> QED BY <1>1, <1>2, WFMin, Zenon
<1>4. PICK i \in S : k = N - i
  BY <1>3
<1>5. \A j \in S : ~(N - j < N - i)
  <2> TAKE j \in S
  <2>1. N - j \in T /\ N - j \in Nat /\ N - i \in Nat
    OBVIOUS
  <2> QED BY <2>1, <1>3, <1>4 DEF OpToRel
<1> QED BY <1>5

LEMMA LastTraceTyped ==
  ASSUME TypeInv
  PROVE  LastTrace \in Nat /\ \A j \in Readable : j <= LastTrace
<1>1. PICK n \in Nat : n = Len(file)
  BY DEF TypeInv, TypeOK
<1>2. PICK S : S = Readable
  OBVIOUS
<1>3. S \in SUBSET (0..n)
  BY <1>1, <1>2 DEF Readable, TypeInv, TypeOK
<1>4. CASE S = {}
  BY <1>2, <1>4 DEF LastTrace
<1>5. CASE S # {}
  <2>1. \E i \in S : \A j \in S : j <= i
    BY <1>3, <1>5, GreatestPosition
  <2>2. LastTrace \in S /\ \A j \in S : j <= LastTrace
    BY <1>2, <1>5, <2>1 DEF LastTrace
  <2> QED BY <1>2, <1>3, <2>2
<1> QED BY <1>4, <1>5

LEMMA MemoryTypeStays ==
  ASSUME TypeInv, [Next]_vars
  PROVE  MemoryTyped'
<1>1. MemoryTyped
  BY DEF TypeInv, TypeOK, MemoryTyped
<1>2. FileTyped'
  BY FileSteps, FileTypeStays
<1>3. CASE UNCHANGED <<active, reported, switches, lost>> /\ BusyTyped'
  BY <1>1, <1>3 DEF MemoryTyped, ActiveIsLast
<1>4. CASE UNCHANGED <<active, reported, switches, lost, busy>>
  BY <1>1, <1>4 DEF MemoryTyped, BusyTyped, ActiveIsLast
<1>5. ASSUME NEW tool \in Tools, NEW taint \in BOOLEAN, ApiDecides(tool, taint)
      PROVE  MemoryTyped'
  BY <1>4, <1>5 DEF ApiDecides
<1>6. ASSUME NEW tool \in Tools, StdioDecides(tool)
      PROVE  MemoryTyped'
  BY <1>4, <1>6 DEF StdioDecides
<1>8. ASSUME NEW world \in Worlds, Install(world)
      PROVE  MemoryTyped'
  <2>1. /\ active' = world /\ switches' = Append(switches, world)
        /\ busy' = [doing |-> "switching"] /\ reported' = reported /\ lost' = lost
    BY <1>8 DEF Install
  <2>2. Len(switches') = Len(switches) + 1 /\ switches' \in Seq(Worlds) /\ Len(switches) \in Nat
    BY <1>1, <2>1 DEF MemoryTyped
  <2>3. lost' \subseteq 1..Len(switches')
    BY <1>1, <2>1, <2>2 DEF MemoryTyped
  <2>4. ActiveIsLast'
    BY <1>1, <2>1, <2>2 DEF MemoryTyped, ActiveIsLast
  <2>5. BusyTyped'
    BY <2>1 DEF BusyTyped
  <2> QED BY <1>1, <2>1, <2>2, <2>3, <2>4, <2>5 DEF MemoryTyped
<1>9. CASE TellSwitch
  BY <1>3, <1>9 DEF TellSwitch, BusyTyped, Idle
<1>10. CASE SwitchUntold
  <2>1. /\ active' = active /\ switches' = switches /\ reported' = reported
        /\ busy' = Idle /\ lost' = lost \cup {Len(switches)}
    BY <1>10 DEF SwitchUntold
  <2>2. switches # << >>
    BY <1>1 DEF MemoryTyped, ActiveIsLast
  <2>3. Len(switches) \in 1..Len(switches)
    BY <1>1, <2>2 DEF MemoryTyped
  <2>4. BusyTyped' /\ ActiveIsLast'
    BY <1>1, <2>1 DEF MemoryTyped, BusyTyped, ActiveIsLast
  <2>5. lost' \subseteq 1..Len(switches')
    BY <1>1, <2>1, <2>3 DEF MemoryTyped
  <2> QED BY <1>1, <2>1, <2>4, <2>5 DEF MemoryTyped
<1>11. ASSUME NEW s \in Scenarios, RunScenario(s)
       PROVE  MemoryTyped'
  <2>1. /\ busy' = [doing |-> "scenario", own |-> Len(file')] \/ busy' = Idle
        /\ Len(file') \in Nat
    BY <1>2, <1>11 DEF RunScenario, FileTyped
  <2> QED BY <1>3, <1>11, <2>1 DEF RunScenario, BusyTyped
<1>12. CASE ReportScenario
  <2>1. /\ UNCHANGED <<active, switches, lost>> /\ busy' = Idle
        /\ reported' = [own |-> busy.own, id |-> LastTrace]
    BY <1>12 DEF ReportScenario
  <2>2. busy.own \in Nat
    BY <1>1, <1>12 DEF MemoryTyped, BusyTyped, ReportScenario, Idle
  <2> QED BY <1>1, <2>1, <2>2, LastTraceTyped DEF MemoryTyped, BusyTyped, ActiveIsLast
<1>13. ASSUME NEW s \in Scenarios, NEW worlds \in WorldLists, Compare(s, worlds)
       PROVE  MemoryTyped'
  <2>1. worlds \in Seq(Worlds)
    <3>1. CASE \E w \in Worlds : worlds = <<w>>
      BY <3>1
    <3>2. CASE \E w \in Worlds, x \in Worlds : worlds = <<w, x>>
      BY <3>2
    <3> QED BY <3>1, <3>2 DEF WorldLists
  <2>2. busy' = [doing |-> "comparing", scenario |-> s, worlds |-> worlds]
    BY <1>13 DEF Compare
  <2>3. BusyTyped'
    BY <2>1, <2>2 DEF BusyTyped
  <2> QED BY <1>3, <1>13, <2>3 DEF Compare
<1>14. CASE CompareNext
  <2>1. PICK s \in Scenarios, worlds \in Seq(Worlds) :
               busy = [doing |-> "comparing", scenario |-> s, worlds |-> worlds]
    BY <1>14 DEF CompareNext, TypeInv, BusyTyped, Idle
  <2>2. worlds # << >> /\ (busy' = [busy EXCEPT !.worlds = Tail(@)] \/ busy' = Idle)
    BY <1>14, <2>1 DEF CompareNext
  <2>3. \/ busy' = [doing |-> "comparing", scenario |-> s, worlds |-> Tail(worlds)]
        \/ busy' = Idle
    BY <2>1, <2>2
  <2>4. Tail(worlds) \in Seq(Worlds)
    BY <2>2
  <2>5. BusyTyped'
    BY <2>3, <2>4 DEF BusyTyped
  <2> QED BY <1>3, <1>14, <2>5 DEF CompareNext
<1>15. CASE HandlerEnds
  BY <1>3, <1>15 DEF HandlerEnds, BusyTyped, Idle
<1>16. CASE SeedWrite
  BY <1>3, <1>16 DEF SeedWrite, BusyTyped, Idle
<1>17. CASE Restart
  <2>1. /\ active' = RootWorld /\ switches' = Append(switches, RootWorld)
        /\ busy' \in {[doing |-> "seeding"], Idle} /\ reported' = reported
        /\ lost' \subseteq lost \cup {Len(switches) + 1}
                   \cup (IF busy.doing = "switching" THEN {Len(switches)} ELSE {})
    BY <1>17 DEF Restart
  <2>2. Len(switches') = Len(switches) + 1 /\ switches' \in Seq(Worlds) /\ Len(switches) \in Nat
    BY <1>1, <2>1, LogWorldsAssumption DEF MemoryTyped
  <2>3. switches # << >>
    BY <1>1 DEF MemoryTyped, ActiveIsLast
  <2>4. lost' \subseteq 1..Len(switches')
    BY <1>1, <2>1, <2>2, <2>3 DEF MemoryTyped
  <2>5. ActiveIsLast'
    BY <1>1, <2>1, <2>2, LogWorldsAssumption DEF MemoryTyped, ActiveIsLast
  <2>6. BusyTyped'
    BY <2>1 DEF BusyTyped
  <2> QED BY <1>1, <2>1, <2>2, <2>4, <2>5, <2>6, LogWorldsAssumption DEF MemoryTyped
<1>18. CASE UNCHANGED vars
  BY <1>4, <1>18 DEF vars
<1> QED BY <1>5, <1>6, <1>8, <1>9, <1>10, <1>11, <1>12, <1>13, <1>14, <1>15,
           <1>16, <1>17, <1>18 DEF Next

LEMMA TypeInvInductive ==
  /\ Init => TypeInv
  /\ TypeInv /\ [Next]_vars => TypeInv'
<1>1. ASSUME Init PROVE TypeInv
  <2>1. file \in Seq(Lines) /\ switches \in Seq(Worlds) /\ Len(switches) = 1
    BY <1>1, LogWorldsAssumption DEF Init
  <2>2. torn \in BOOLEAN /\ lost = {} /\ active \in Worlds /\ busy = [doing |-> "seeding"]
    BY <1>1, LogWorldsAssumption DEF Init
  <2>3. complete \in Nat /\ tears \in 0..MaxTears
    BY <1>1, LogBoundsAssumption DEF Init
  <2>4. reported \in [own : Nat, id : Nat]
    BY <1>1 DEF Init, NotReported
  <2>5. TypeOK
    BY <2>1, <2>2, <2>3, <2>4 DEF TypeOK
  <2>6. BusyTyped
    BY <2>2 DEF BusyTyped
  <2>7. TornHasLine /\ ActiveIsLast
    BY <1>1 DEF Init, TornHasLine, ActiveIsLast
  <2> QED BY <2>5, <2>6, <2>7 DEF TypeInv
<1>2. ASSUME TypeInv, [Next]_vars PROVE TypeInv'
  <2>1. FileTyped'
    BY <1>2, FileSteps, FileTypeStays
  <2>2. MemoryTyped'
    BY <1>2, MemoryTypeStays
  <2>3. (busy.doing \in {"nothing", "seeding", "switching", "scenario", "comparing"})'
    BY <2>2 DEF MemoryTyped, BusyTyped, Idle
  <2> QED BY <2>1, <2>2, <2>3 DEF FileTyped, MemoryTyped, TypeInv, TypeOK
<1> QED BY <1>1, <1>2

LEMMA TypeInvHolds == Spec => []TypeInv
BY TypeInvInductive, PTL DEF Spec

(* The variables of the log keep their types, for every bound and whatever *)
(* the two processes, failing appends and restarts do.                     *)
THEOREM LogTypeCorrect == Spec => []TypeOK
<1>1. TypeInv => TypeOK
  BY DEF TypeInv
<1> QED BY <1>1, TypeInvHolds, PTL

-----------------------------------------------------------------------------
(* A readable trace keeps its id and its content under every step but the  *)
(* seeding of a file found empty, and no other trace takes its id: an      *)
(* append touches no line but the last one, and that only when it was cut  *)
(* short, so that it ends as garbage.                                      *)
THEOREM TracesAlwaysStay == Spec => TracesStay
<1> DEFINE Stay == ~SeedWrite =>
                     \A i \in Readable :
                       /\ i \in DOMAIN file'
                       /\ file'[i] = file[i] \/ (torn /\ i = Len(file) /\ file'[i] = Garbage)
<1>1. ASSUME TypeInv, [Next]_vars PROVE Stay
  <2> SUFFICES ASSUME ~SeedWrite, NEW i \in DOMAIN file
               PROVE  /\ i \in DOMAIN file'
                      /\ \/ file'[i] = file[i]
                         \/ torn /\ i = Len(file) /\ file'[i] = Garbage
    BY DEF Readable
  <2>1. file \in Seq(Lines)
    BY <1>1 DEF TypeInv, TypeOK
  <2>2. CASE file' = file \/ \E line \in Lines : file' = Append(file, line)
    BY <2>1, <2>2
  <2>3. CASE torn /\ file' = Garbled
    BY <1>1, <2>3, GarbledTyped
  <2> QED BY <1>1, <2>2, <2>3, FileSteps, FileGrows
<1>2. TypeInv /\ [Next]_vars => [Stay]_vars
  BY <1>1
<1> HIDE DEF Stay
<1>3. Spec => [][Stay]_vars
  BY <1>2, TypeInvHolds, PTL DEF Spec
<1> QED BY <1>3 DEF TracesStay, Stay

-----------------------------------------------------------------------------
(* The replays.                                                            *)
RootLinesReplay == \A i \in DOMAIN file : RootLineReplays(file[i])

LEMMA SeedLine ==
  ASSUME NEW i \in DOMAIN Seeds
  PROVE  RootLineReplays(Seeds[i]) /\ Seeds[i].kind = "decision" /\ Seeds[i].by = "seed"
<1> DEFINE t == CHOOSE t \in Tools : TRUE
           line == DecisionLine("seed", t, FALSE, Answer(RootWorld, RootWorld, t, FALSE, {}),
                                RootWorld, 0)
<1>1. Seeds[i] = line
  BY DEF Seeds
<1>2. RootLineReplays(line)
  BY AnswersReplay
<1>3. line.kind = "decision" /\ line.by = "seed"
  BY DEF DecisionLine
<1> HIDE DEF line
<1> QED BY <1>1, <1>2, <1>3

LEMMA RootLinesInductive ==
  ASSUME TypeInv, RootLinesReplay, [Next]_vars
  PROVE  RootLinesReplay'
<1>1. CASE SeedWrite
  BY <1>1, SeedLine DEF SeedWrite, RootLinesReplay
<1>2. CASE ~SeedWrite
  <2>1. file \in Seq(Lines)
    BY DEF TypeInv, TypeOK
  <2>2. CASE file' = file
    BY <2>2 DEF RootLinesReplay
  <2>3. ASSUME NEW line \in Lines, AddedLine(line), file' = Append(file, line)
        PROVE  RootLinesReplay'
    BY <2>1, <2>3, OthersReplay DEF RootLinesReplay, AddedLine, NewLine
  <2>4. CASE torn /\ file' = Garbled
    <3>1. \A i \in DOMAIN file' : i \in DOMAIN file /\ (file'[i] = Garbage \/ file'[i] = file[i])
      BY <2>4, GarbledTyped
    <3> QED BY <3>1, OthersReplay DEF RootLinesReplay
  <2> QED BY <1>2, <2>2, <2>3, <2>4, FileSteps, FileGrows
<1> QED BY <1>1, <1>2

(* Two chains that differ in the approval set and in what they know of the *)
(* side effect, where the poorer one knows less.                           *)
LEMMA ChainsDifferAtGates ==
  ASSUME NEW line \in Lines, line.kind = "decision", ApiReplay(line) # BundleReplay(line)
  PROVE  /\ BundleReplay(line) = DefaultAllow
         /\ ApiReplay(line) \in {ApprovalRequired, TaintedExternal}
         /\ ApiReplay(line) = TaintedExternal => line.tool \notin MockTools
<1> DEFINE w == WorldTables[RootWorld]
           b == [w EXCEPT !.approvalRequired = {}]
           t == line.tool
           se1 == IF t \in Catalog(RootWorld) \cap w.allowlist THEN SideEffect[t] ELSE "unknown"
           se2 == IF t \in MockTools \cap w.allowlist THEN SideEffect[t] ELSE "unknown"
<1>1. b.allowlist = w.allowlist /\ b.capabilities = w.capabilities /\ b.approvalRequired = {}
  BY LogWorldsAssumption DEF Tables
<1>2. ApiReplay(line) = Decide(w, t, t, line.taint, se1, TRUE)
  BY DEF ApiReplay, Answer, AnswerWith
<1>3. BundleReplay(line) = Decide(b, t, t, line.taint, se2, TRUE)
  BY DEF BundleReplay, AnswerWith
<1>4. se2 = "external" => se1 = "external"
  BY DEF Catalog
<1>5. t \in MockTools /\ t \in w.allowlist => se1 = se2
  BY DEF Catalog
<1> HIDE DEF se1, se2, b, w, t
<1> QED BY <1>1, <1>2, <1>3, <1>4, <1>5, ResultsDistinct DEF Decide, t

(* Whatever worlds and processes wrote the log: what the root world's own  *)
(* policy decided replays to what was recorded, and the replay of a bundle *)
(* differs from that of a trace only where it allows in place of an ask or *)
(* of a taint that met a scoped tool.                                      *)
THEOREM ReplaysAlwaysReproduce == Spec => []ReplaysReproduce
<1>1. Init => RootLinesReplay
  BY DEF Init, RootLinesReplay
<1>2. TypeInv /\ RootLinesReplay /\ [Next]_vars => RootLinesReplay'
  BY RootLinesInductive
<1>3. TypeInv /\ RootLinesReplay => ReplaysReproduce
  <2> SUFFICES ASSUME TypeInv, RootLinesReplay PROVE ReplaysReproduce
    OBVIOUS
  <2>1. RootDecisionsReplay
    BY DEF RootLinesReplay, RootLineReplays, RootDecisionsReplay, Decisions
  <2>2. ReplaysDifferOnlyAtGates
    <3> SUFFICES ASSUME NEW i \in Decisions, ApiReplay(file[i]) # BundleReplay(file[i])
                 PROVE  /\ BundleReplay(file[i]) = DefaultAllow
                        /\ ApiReplay(file[i]) \in {ApprovalRequired, TaintedExternal}
                        /\ ApiReplay(file[i]) = TaintedExternal => file[i].tool \notin MockTools
      BY DEF ReplaysDifferOnlyAtGates
    <3>1. PICK line : line = file[i]
      OBVIOUS
    <3>2. line \in Lines /\ line.kind = "decision"
      BY <3>1 DEF Decisions, TypeInv, TypeOK
    <3> QED BY <3>1, <3>2, ChainsDifferAtGates
  <2> QED BY <2>1, <2>2 DEF ReplaysReproduce
<1> QED BY <1>1, <1>2, <1>3, TypeInvHolds, PTL DEF Spec

-----------------------------------------------------------------------------
(* The API's worlds.  Where its lines stand: a decision belongs to one of  *)
(* the worlds the API was in, and no switch line before it to a later one; *)
(* while the file is about to be seeded there are none of either kind.     *)
TellsOf(lines, k, n) == \E j \in 1..k : lines[j].kind = "switch" /\ lines[j].epoch = n

LinesPlaced ==
  /\ \A i \in DOMAIN file :
       ApiDecisionLine(file[i]) =>
         /\ file[i].epoch \in 1..Len(switches)
         /\ file[i].world = switches[file[i].epoch]
         /\ \A j \in 1..(i - 1) : file[j].kind = "switch" => file[j].epoch <= file[i].epoch
  /\ \A i \in DOMAIN file : file[i].kind = "switch" => file[i].epoch \in 1..Len(switches)
  /\ busy.doing = "seeding" =>
       \A i \in DOMAIN file : ~ApiDecisionLine(file[i]) /\ file[i].kind # "switch"

(* While nothing was torn, every world since the first is told by a line,  *)
(* is one whose line was lost, or is the one being told of; and a decision *)
(* has the lines of its own and all earlier worlds before it.              *)
WorldsTold ==
  tears = 0 =>
    /\ \A n \in 2..Len(switches) :
         \/ n \in lost
         \/ n = Len(switches) /\ busy.doing = "switching"
         \/ TellsOf(file, Len(file), n)
    /\ \A i \in DOMAIN file :
         ApiDecisionLine(file[i]) =>
           \A n \in 2..file[i].epoch : n \in lost \/ TellsOf(file, i - 1, n)

(* What the steps do to the history of worlds.                             *)
LEMMA HistoryGrows ==
  ASSUME TypeInv, [Next]_vars
  PROVE  /\ switches' = switches \/ \E w \in Worlds : switches' = Append(switches, w)
         /\ lost \subseteq lost'
         /\ switches' # switches =>
              Len(switches) + 1 \in lost' \/ busy'.doing = "switching"
         /\ busy.doing = "switching" =>
              \/ switches' = switches /\ busy' = busy
              \/ Len(switches) \in lost'
              \/ TellSwitch
         /\ busy'.doing = "seeding" => busy.doing = "seeding" \/ file' = << >>
<1> DEFINE P == /\ switches' = switches \/ \E w \in Worlds : switches' = Append(switches, w)
                /\ lost \subseteq lost'
                /\ switches' # switches =>
                     Len(switches) + 1 \in lost' \/ busy'.doing = "switching"
                /\ busy.doing = "switching" =>
                     \/ switches' = switches /\ busy' = busy
                     \/ Len(switches) \in lost'
                     \/ TellSwitch
                /\ busy'.doing = "seeding" => busy.doing = "seeding" \/ file' = << >>
<1>1. ASSUME NEW tool \in Tools, NEW taint \in BOOLEAN, ApiDecides(tool, taint) PROVE P
  BY <1>1 DEF ApiDecides
<1>2. ASSUME NEW tool \in Tools, StdioDecides(tool) PROVE P
  BY <1>2 DEF StdioDecides
<1>4. ASSUME NEW world \in Worlds, Install(world) PROVE P
  BY <1>4 DEF Install, ApiFree, Idle
<1>5. CASE TellSwitch
  BY <1>5 DEF TellSwitch, Idle
<1>6. CASE SwitchUntold
  BY <1>6 DEF SwitchUntold, Idle
<1>7. ASSUME NEW s \in Scenarios, RunScenario(s) PROVE P
  BY <1>7 DEF RunScenario, ApiFree, Idle
<1>8. CASE ReportScenario
  BY <1>8 DEF ReportScenario, Idle
<1>9. ASSUME NEW s \in Scenarios, NEW worlds \in WorldLists, Compare(s, worlds) PROVE P
  BY <1>9 DEF Compare, ApiFree, Idle
<1>10. CASE CompareNext
  <2>1. PICK s \in Scenarios, worlds \in Seq(Worlds) :
               busy = [doing |-> "comparing", scenario |-> s, worlds |-> worlds]
    BY <1>10 DEF CompareNext, TypeInv, BusyTyped, Idle
  <2>2. busy'.doing \in {"comparing", "nothing"} /\ busy.doing = "comparing"
    BY <1>10, <2>1 DEF CompareNext, Idle
  <2> QED BY <1>10, <2>2 DEF CompareNext
<1>11. CASE HandlerEnds
  BY <1>11 DEF HandlerEnds, Idle
<1>12. CASE SeedWrite
  BY <1>12 DEF SeedWrite, Idle
<1>13. CASE Restart
  BY <1>13, LogWorldsAssumption DEF Restart, Idle
<1>14. CASE UNCHANGED vars
  BY <1>14 DEF vars
<1> QED BY <1>1, <1>2, <1>4, <1>5, <1>6, <1>7, <1>8, <1>9, <1>10, <1>11, <1>12,
           <1>13, <1>14 DEF Next

LEMMA LinesPlacedInductive ==
  ASSUME TypeInv, LinesPlaced, [Next]_vars
  PROVE  LinesPlaced'
<1>1. /\ file \in Seq(Lines) /\ switches \in Seq(Worlds)
      /\ switches # << >> /\ active = switches[Len(switches)]
  BY DEF TypeInv, TypeOK, ActiveIsLast
<1>2. Len(switches) \in 1..Len(switches)
  BY <1>1
<1>3. \A n \in 1..Len(switches) : n \in 1..Len(switches') /\ switches'[n] = switches[n]
  BY <1>1, HistoryGrows
<1>4. CASE SeedWrite
  <2>1. file' = Seeds /\ busy' = Idle
    BY <1>4 DEF SeedWrite
  <2>2. \A i \in DOMAIN file' : ~ApiDecisionLine(file'[i]) /\ file'[i].kind # "switch"
    BY <2>1, SeedLine DEF ApiDecisionLine
  <2> QED BY <2>2 DEF LinesPlaced
<1>5. ASSUME file' = file PROVE LinesPlaced'
  <2>1. busy'.doing = "seeding" => busy.doing = "seeding" \/ file' = << >>
    BY HistoryGrows
  <2> QED BY <1>3, <1>5, <2>1 DEF LinesPlaced
<1>6. ASSUME NEW line \in Lines, AddedLine(line), file' = Append(file, line)
      PROVE  LinesPlaced'
  <2>1. /\ DOMAIN file' = 1..(Len(file) + 1)
        /\ DOMAIN file = 1..Len(file) /\ Len(file) \in Nat
        /\ \A i \in DOMAIN file : file'[i] = file[i]
        /\ file'[Len(file) + 1] = line
    BY <1>1, <1>6
  <2>2. busy'.doing = "seeding" => busy.doing = "seeding"
    <3>1. file' # << >>
      BY <2>1
    <3> QED BY <3>1, HistoryGrows
  <2>3. ASSUME NEW i \in DOMAIN file', ApiDecisionLine(file'[i])
        PROVE  /\ file'[i].epoch \in 1..Len(switches')
               /\ file'[i].world = switches'[file'[i].epoch]
               /\ \A j \in 1..(i - 1) :
                    file'[j].kind = "switch" => file'[j].epoch <= file'[i].epoch
    <3>1. CASE i \in DOMAIN file
      <4>1. file'[i] = file[i] /\ \A j \in 1..(i - 1) : file'[j] = file[j]
        BY <2>1, <3>1
      <4>2. /\ file[i].epoch \in 1..Len(switches)
            /\ file[i].world = switches[file[i].epoch]
            /\ \A j \in 1..(i - 1) : file[j].kind = "switch" => file[j].epoch <= file[i].epoch
        BY <2>3, <3>1, <4>1 DEF LinesPlaced
      <4> QED BY <1>3, <4>1, <4>2
    <3>2. CASE i = Len(file) + 1
      <4>1. line.world = active /\ line.epoch = Len(switches)
        BY <1>6, <2>1, <2>3, <3>2 DEF AddedLine, NewLine, ApiDecisionLine, Garbage
      <4>2. \A j \in 1..(i - 1) : file'[j] = file[j] /\ j \in DOMAIN file
        BY <2>1, <3>2
      <4>3. \A j \in DOMAIN file : file[j].kind = "switch" => file[j].epoch <= Len(switches)
        BY <1>1 DEF LinesPlaced
      <4> QED BY <1>1, <1>2, <1>3, <2>1, <3>2, <4>1, <4>2, <4>3
    <3> QED BY <2>1, <3>1, <3>2
  <2>4. ASSUME NEW i \in DOMAIN file', file'[i].kind = "switch"
        PROVE  file'[i].epoch \in 1..Len(switches')
    <3>1. CASE i \in DOMAIN file
      BY <1>3, <2>1, <2>4, <3>1 DEF LinesPlaced
    <3>2. CASE i = Len(file) + 1
      <4>1. line.epoch = Len(switches)
        BY <1>6, <2>1, <2>4, <3>2 DEF AddedLine, NewLine, ApiDecisionLine, Garbage
      <4> QED BY <1>2, <1>3, <2>1, <3>2, <4>1
    <3> QED BY <2>1, <3>1, <3>2
  <2>5. ASSUME busy'.doing = "seeding", NEW i \in DOMAIN file'
        PROVE  ~ApiDecisionLine(file'[i]) /\ file'[i].kind # "switch"
    <3>1. CASE i \in DOMAIN file
      BY <2>1, <2>2, <2>5, <3>1 DEF LinesPlaced
    <3>2. CASE i = Len(file) + 1
      BY <1>6, <2>1, <2>2, <2>5, <3>2 DEF AddedLine, NewLine, ApiDecisionLine, Garbage, Idle
    <3> QED BY <2>1, <3>1, <3>2
  <2> QED BY <2>3, <2>4, <2>5 DEF LinesPlaced
<1>7. ASSUME torn, file' = Garbled
      PROVE  LinesPlaced'
  <2>1. /\ DOMAIN file' = DOMAIN file /\ DOMAIN file = 1..Len(file)
        /\ \A i \in DOMAIN file : file'[i] = IF i = Len(file) THEN Garbage ELSE file[i]
        /\ file' # << >>
    BY <1>1, <1>7, GarbledTyped
  <2>2. Garbage.kind = "garbage" /\ ~ApiDecisionLine(Garbage)
    BY DEF Garbage, ApiDecisionLine
  <2>3. busy'.doing = "seeding" => busy.doing = "seeding"
    BY <2>1, HistoryGrows
  <2>4. \A i \in DOMAIN file' :
          ApiDecisionLine(file'[i]) \/ file'[i].kind = "switch" => file'[i] = file[i]
    BY <2>1, <2>2
  <2>5. ASSUME NEW i \in DOMAIN file', ApiDecisionLine(file'[i])
        PROVE  /\ file'[i].epoch \in 1..Len(switches')
               /\ file'[i].world = switches'[file'[i].epoch]
               /\ \A j \in 1..(i - 1) :
                    file'[j].kind = "switch" => file'[j].epoch <= file'[i].epoch
    <3>1. file'[i] = file[i] /\ \A j \in 1..(i - 1) : j \in DOMAIN file'
      BY <2>1, <2>4, <2>5
    <3>2. /\ file[i].epoch \in 1..Len(switches)
          /\ file[i].world = switches[file[i].epoch]
          /\ \A j \in 1..(i - 1) : file[j].kind = "switch" => file[j].epoch <= file[i].epoch
      BY <2>1, <2>5, <3>1 DEF LinesPlaced
    <3> QED BY <1>3, <2>4, <3>1, <3>2
  <2>6. \A i \in DOMAIN file' : file'[i].kind = "switch" => file'[i].epoch \in 1..Len(switches')
    BY <1>3, <2>1, <2>4 DEF LinesPlaced
  <2>7. busy'.doing = "seeding" =>
          \A i \in DOMAIN file' : ~ApiDecisionLine(file'[i]) /\ file'[i].kind # "switch"
    BY <2>1, <2>3, <2>4 DEF LinesPlaced
  <2> QED BY <2>5, <2>6, <2>7 DEF LinesPlaced
<1> QED BY <1>4, <1>5, <1>6, <1>7, FileSteps, FileGrows

LEMMA WorldsToldInductive ==
  ASSUME TypeInv, LinesPlaced, WorldsTold, [Next]_vars
  PROVE  WorldsTold'
<1> SUFFICES ASSUME tears' = 0 PROVE WorldsTold'
  BY DEF WorldsTold
<1>1. /\ file \in Seq(Lines) /\ switches \in Seq(Worlds) /\ torn \in BOOLEAN
      /\ tears \in Nat /\ lost \subseteq 1..Len(switches)
      /\ switches # << >>
  BY LogBoundsAssumption DEF TypeInv, TypeOK, ActiveIsLast
<1>2. tears = 0
  <2>1. ASSUME NEW line \in Lines, Write(line) PROVE tears' = tears
    BY <2>1 DEF Write
  <2>2. ASSUME NEW line \in Lines, WriteFails(line) PROVE tears = 0
    BY <1>1, <2>2 DEF WriteFails
  <2>3. CASE SeedWrite \/ Unwritten
    BY <2>3 DEF SeedWrite, Unwritten
  <2> QED BY <2>1, <2>2, <2>3, FileSteps DEF FileStep
<1>3. torn = FALSE
  BY <1>1, <1>2 DEF TypeInv, TornHasLine
<1>4. /\ \A n \in 2..Len(switches) :
           \/ n \in lost
           \/ n = Len(switches) /\ busy.doing = "switching"
           \/ TellsOf(file, Len(file), n)
      /\ \A i \in DOMAIN file :
           ApiDecisionLine(file[i]) =>
             \A n \in 2..file[i].epoch : n \in lost \/ TellsOf(file, i - 1, n)
  BY <1>2 DEF WorldsTold
<1>5. PICK l0, l1 : l0 = lost /\ l1 = lost'
  OBVIOUS
<1>6. CASE SeedWrite
  <2>1. file' = Seeds /\ busy.doing = "seeding" /\ UNCHANGED <<switches, lost>>
    BY <1>6 DEF SeedWrite
  <2>2. \A i \in DOMAIN file' : ~ApiDecisionLine(file'[i])
    BY <2>1, SeedLine DEF ApiDecisionLine
  <2>3. \A n : ~TellsOf(file, Len(file), n)
    BY <1>1, <2>1 DEF TellsOf, LinesPlaced
  <2>4. \A n \in 2..Len(switches') : n \in lost'
    BY <1>4, <2>1, <2>3
  <2> QED BY <2>2, <2>4 DEF WorldsTold
<1>7. CASE ~SeedWrite
  <2>1. \/ file' = file
        \/ \E line \in Lines : AddedLine(line) /\ file' = Append(file, line)
    BY <1>3, <1>7, FileSteps, FileGrows
  <2>2. /\ DOMAIN file \subseteq DOMAIN file' /\ Len(file) <= Len(file')
        /\ Len(file) \in Nat /\ Len(file') \in Nat
        /\ \A i \in 1..Len(file) : file'[i] = file[i]
    BY <1>1, <2>1
  <2>3. \A n : \A k \in 0..Len(file) : TellsOf(file, k, n) => TellsOf(file', k, n)
    BY <2>2 DEF TellsOf
  <2>4. \A n : TellsOf(file, Len(file), n) => TellsOf(file', Len(file'), n)
    BY <2>2 DEF TellsOf
  <2>5. lost \subseteq lost'
    BY HistoryGrows
  <2>6. ASSUME NEW n \in 2..Len(switches')
        PROVE  \/ n \in lost'
               \/ n = Len(switches') /\ busy'.doing = "switching"
               \/ TellsOf(file', Len(file'), n)
    <3>1. CASE n \in 2..Len(switches) /\ n \in lost
      BY <2>5, <3>1
    <3>2. CASE n \in 2..Len(switches) /\ TellsOf(file, Len(file), n)
      BY <2>4, <3>2
    <3>3. CASE n = Len(switches) /\ busy.doing = "switching"
      <4>1. CASE TellSwitch
        <5>1. Write(SwitchLine(active, Len(switches)))
          BY <4>1 DEF TellSwitch
        <5>2. file' = Append(file, SwitchLine(active, Len(switches)))
          BY <1>3, <5>1 DEF Write
        <5>3. /\ Len(file') = Len(file) + 1
              /\ file'[Len(file) + 1] = SwitchLine(active, Len(switches))
          BY <1>1, <5>2
        <5>4. /\ file'[Len(file) + 1].kind = "switch"
              /\ file'[Len(file) + 1].epoch = n
          BY <3>3, <5>3 DEF SwitchLine
        <5> QED BY <2>2, <5>3, <5>4 DEF TellsOf
      <4>2. CASE switches' = switches /\ busy' = busy
        BY <3>3, <4>2
      <4> QED BY <3>3, <4>1, <4>2, HistoryGrows
    <3>4. CASE n \notin 2..Len(switches)
      <4>1. switches' # switches /\ n = Len(switches) + 1 /\ n = Len(switches')
        BY <1>1, <3>4, HistoryGrows
      <4> QED BY <4>1, HistoryGrows
    <3> QED BY <1>4, <3>1, <3>2, <3>3, <3>4
  <2>7. ASSUME NEW i \in DOMAIN file', ApiDecisionLine(file'[i]), NEW n \in 2..file'[i].epoch
        PROVE  n \in lost' \/ TellsOf(file', i - 1, n)
    <3>1. CASE i \in DOMAIN file
      <4>1. file'[i] = file[i] /\ i - 1 \in 0..Len(file)
        BY <1>1, <2>2, <3>1
      <4> QED BY <1>4, <2>3, <2>5, <2>7, <3>1, <4>1
    <3>2. CASE i \notin DOMAIN file
      <4>1. PICK line \in Lines : AddedLine(line) /\ file' = Append(file, line)
        BY <2>1, <3>2
      <4>2. i = Len(file) + 1 /\ file'[i] = line
        BY <1>1, <3>2, <4>1
      <4>3. busy = Idle /\ line.epoch = Len(switches)
        BY <2>7, <4>1, <4>2 DEF AddedLine, NewLine, ApiDecisionLine, Garbage
      <4>4. n \in lost \/ TellsOf(file, Len(file), n)
        BY <1>4, <4>2, <4>3 DEF Idle
      <4> QED BY <2>2, <2>3, <2>5, <4>2, <4>4
    <3> QED BY <3>1, <3>2
  <2> QED BY <2>6, <2>7 DEF WorldsTold
<1> QED BY <1>6, <1>7

(* The latest world that the log tells of before a line.                   *)
LEMMA ToldIsGreatest ==
  ASSUME TypeInv, LinesPlaced, NEW i \in DOMAIN file, ApiDecisionLine(file[i])
  PROVE  /\ EpochTold(i) \in Nat /\ EpochTold(i) >= 1
         /\ EpochTold(i) <= file[i].epoch
         /\ \A n : TellsOf(file, i - 1, n) => n <= EpochTold(i)
<1> DEFINE told == {file[j].epoch : j \in {k \in 1..(i - 1) : file[k].kind = "switch"}} \cup {1}
<1>1. PICK e : e = file[i].epoch
  OBVIOUS
<1>2. e \in Nat /\ e >= 1
  BY <1>1 DEF LinesPlaced, TypeInv, TypeOK
<1>3. \A j \in 1..(i - 1) : file[j].epoch \in Nat
  <2>1. \A j \in 1..(i - 1) : file[j] \in Lines
    BY DEF TypeInv, TypeOK
  <2> QED BY <2>1 DEF Lines
<1>4. \A j \in 1..(i - 1) : file[j].kind = "switch" => file[j].epoch <= e
  BY <1>1 DEF LinesPlaced
<1>5. PICK S : S = told
  OBVIOUS
<1>6. S \in SUBSET (0..e)
  BY <1>2, <1>3, <1>4, <1>5
<1>7. 1 \in S
  BY <1>5
<1>8. \E n \in S : \A m \in S : m <= n
  BY <1>2, <1>6, <1>7, GreatestPosition
<1>9. EpochTold(i) = CHOOSE n \in S : \A m \in S : m <= n
  BY <1>5 DEF EpochTold
<1>10. PICK t : t = EpochTold(i)
  OBVIOUS
<1>11. t \in S /\ \A m \in S : m <= t
  BY <1>8, <1>9, <1>10
<1>12. \A n : TellsOf(file, i - 1, n) => n \in S
  BY <1>5 DEF TellsOf
<1>13. t \in Nat /\ t >= 1 /\ t <= e
  BY <1>2, <1>6, <1>7, <1>11
<1> QED BY <1>1, <1>10, <1>11, <1>12, <1>13

(* Whatever switches, restarts, failing and torn appends come in between,  *)
(* an API decision is in the world of its time, the log told of no later   *)
(* one before it, and while no append was torn it told of that very one,   *)
(* unless the lines of all worlds since the one told were lost.            *)
THEOREM LogAlwaysExplains == Spec => []LogExplainsWorlds
<1>1. Init => LinesPlaced /\ WorldsTold
  <2> SUFFICES ASSUME Init PROVE LinesPlaced /\ WorldsTold
    OBVIOUS
  <2>1. file = << >> /\ Len(switches) = 1
    BY DEF Init
  <2> QED BY <2>1 DEF LinesPlaced, WorldsTold
<1>2. TypeInv /\ LinesPlaced /\ [Next]_vars => LinesPlaced'
  BY LinesPlacedInductive
<1>3. TypeInv /\ LinesPlaced /\ WorldsTold /\ [Next]_vars => WorldsTold'
  BY WorldsToldInductive
<1>4. TypeInv /\ LinesPlaced /\ WorldsTold => LogExplainsWorlds
  <2> SUFFICES ASSUME TypeInv, LinesPlaced, WorldsTold,
                      NEW i \in Decisions, file[i].by = "api"
               PROVE  /\ file[i].world = switches[file[i].epoch]
                      /\ EpochTold(i) <= file[i].epoch
                      /\ tears = 0 => (EpochTold(i) + 1)..file[i].epoch \subseteq lost
    BY DEF LogExplainsWorlds
  <2>1. i \in DOMAIN file /\ ApiDecisionLine(file[i])
    BY DEF Decisions, ApiDecisionLine
  <2>2. file[i].world = switches[file[i].epoch] /\ file[i].epoch \in Nat
    BY <2>1 DEF LinesPlaced, TypeInv, TypeOK
  <2>3. PICK t : t = EpochTold(i)
    OBVIOUS
  <2>4. t \in Nat /\ t >= 1 /\ t <= file[i].epoch
        /\ \A n : TellsOf(file, i - 1, n) => n <= t
    BY <2>1, <2>3, ToldIsGreatest
  <2>5. ASSUME tears = 0, NEW n \in (t + 1)..file[i].epoch
        PROVE  n \in lost
    <3>1. n \in 2..file[i].epoch /\ ~(n <= t)
      BY <2>2, <2>4
    <3> QED BY <2>1, <2>4, <2>5, <3>1 DEF WorldsTold
  <2> QED BY <2>2, <2>3, <2>4, <2>5
<1> QED BY <1>1, <1>2, <1>3, <1>4, TypeInvHolds, PTL DEF Spec

-----------------------------------------------------------------------------
(* Ids.  What a scenario run reported, or is about to, is a line that is   *)
(* there; if that line is readable the reported one is not before it.      *)
ReportsPlaced ==
  /\ reported.own \in 0..Len(file)
  /\ reported.own \in Readable => reported.id >= reported.own
  /\ busy.doing = "scenario" => busy.own \in 1..Len(file)
  /\ busy.doing = "seeding" => reported.own = 0

LEMMA NoneBecomesReadable ==
  ASSUME TypeInv, FileStep, ~SeedWrite
  PROVE  /\ Len(file) \in Nat /\ Len(file') \in Nat /\ Len(file) <= Len(file')
         /\ \A i \in 1..Len(file) : i \in Readable' => i \in Readable
<1>1. file \in Seq(Lines)
  BY DEF TypeInv, TypeOK
<1>2. CASE file' = file \/ \E line \in Lines : file' = Append(file, line)
  BY <1>1, <1>2 DEF Readable
<1>3. CASE torn /\ file' = Garbled
  BY <1>1, <1>3, GarbledTyped, GarbageTyped DEF Readable
<1> QED BY <1>2, <1>3, FileGrows

LEMMA ReportsPlacedInductive ==
  ASSUME TypeInv, ReportsPlaced, [Next]_vars
  PROVE  ReportsPlaced'
<1>1. FileStep
  BY FileSteps
<1>2. /\ file \in Seq(Lines) /\ reported \in [own : Nat, id : Nat]
  BY DEF TypeInv, TypeOK
<1>3. CASE SeedWrite
  <2>1. busy' = Idle /\ reported' = reported /\ reported.own = 0 /\ file' = Seeds
    BY <1>3 DEF SeedWrite, ReportsPlaced
  <2>2. 0 \notin Readable'
    BY <2>1, SeedsTyped DEF Readable
  <2> QED BY <2>1, <2>2, SeedsTyped, LogBoundsAssumption DEF ReportsPlaced, Idle
<1>4. CASE ~SeedWrite
  <2>1. /\ Len(file) \in Nat /\ Len(file') \in Nat /\ Len(file) <= Len(file')
        /\ \A i \in 1..Len(file) : i \in Readable' => i \in Readable
    BY <1>1, <1>4, NoneBecomesReadable
  <2>2. 0 \notin Readable /\ 0 \notin Readable'
    <3>1. file' \in Seq(Lines)
      BY <1>1, FileTypeStays DEF FileTyped
    <3> QED BY <1>2, <3>1 DEF Readable
  <2>3. ASSUME reported' = reported
        PROVE  /\ reported'.own \in 0..Len(file')
               /\ reported'.own \in Readable' => reported'.id >= reported'.own
    BY <2>1, <2>2, <2>3 DEF ReportsPlaced
  <2>4. ASSUME reported' = reported, busy' = busy
        PROVE  ReportsPlaced'
    BY <2>1, <2>3, <2>4 DEF ReportsPlaced
  <2>5. ASSUME reported' = reported, busy'.doing \notin {"scenario", "seeding"}
        PROVE  ReportsPlaced'
    BY <2>3, <2>5 DEF ReportsPlaced
  <2>6. ASSUME NEW tool \in Tools, NEW taint \in BOOLEAN, ApiDecides(tool, taint)
        PROVE  ReportsPlaced'
    BY <2>4, <2>6 DEF ApiDecides
  <2>7. ASSUME NEW tool \in Tools, StdioDecides(tool) PROVE ReportsPlaced'
    BY <2>4, <2>7 DEF StdioDecides
  <2>9. ASSUME NEW world \in Worlds, Install(world) PROVE ReportsPlaced'
    BY <2>5, <2>9 DEF Install
  <2>10. CASE TellSwitch
    BY <2>5, <2>10 DEF TellSwitch, Idle
  <2>11. CASE SwitchUntold
    BY <2>5, <2>11 DEF SwitchUntold, Idle
  <2>12. ASSUME NEW s \in Scenarios, RunScenario(s) PROVE ReportsPlaced'
    <3>1. CASE busy' = Idle
      BY <2>5, <2>12, <3>1 DEF RunScenario, Idle
    <3>2. ASSUME NEW line, Write(line), busy' = [doing |-> "scenario", own |-> Len(file')]
          PROVE  ReportsPlaced'
      <4>1. Len(file') >= 1
        BY <1>2, <3>2, GarbledTyped DEF Write, Garbled, TypeInv, TypeOK
      <4> QED BY <2>1, <2>3, <2>12, <3>2, <4>1 DEF RunScenario, ReportsPlaced
    <3> QED BY <2>12, <3>1, <3>2 DEF RunScenario
  <2>13. CASE ReportScenario
    <3>1. /\ busy.doing = "scenario" /\ file' = file /\ busy' = Idle
          /\ reported' = [own |-> busy.own, id |-> LastTrace]
      BY <2>13 DEF ReportScenario
    <3>2. busy.own \in 1..Len(file)
      BY <3>1 DEF ReportsPlaced
    <3>3. LastTrace \in Nat /\ \A j \in Readable : j <= LastTrace
      BY LastTraceTyped
    <3>4. reported'.own = busy.own /\ reported'.id = LastTrace
      BY <3>1
    <3>5. busy.own \in Readable' => LastTrace >= busy.own
      BY <2>1, <3>2, <3>3
    <3> QED BY <2>1, <3>1, <3>2, <3>4, <3>5 DEF ReportsPlaced, Idle
  <2>14. ASSUME NEW s \in Scenarios, NEW worlds \in WorldLists, Compare(s, worlds)
         PROVE  ReportsPlaced'
    BY <2>5, <2>14 DEF Compare
  <2>15. CASE CompareNext
    <3>1. PICK s \in Scenarios, worlds \in Seq(Worlds) :
                 busy = [doing |-> "comparing", scenario |-> s, worlds |-> worlds]
      BY <2>15 DEF CompareNext, TypeInv, BusyTyped, Idle
    <3>2. busy'.doing \in {"comparing", "nothing"}
      BY <2>15, <3>1 DEF CompareNext, Idle
    <3> QED BY <2>5, <2>15, <3>2 DEF CompareNext
  <2>16. CASE HandlerEnds
    BY <2>5, <2>16 DEF HandlerEnds, Idle
  <2>17. CASE Restart
    <3>1. reported' = reported /\ file' = file
      BY <2>17 DEF Restart
    <3>2. CASE file = << >>
      <4>1. reported.own = 0 /\ busy'.doing = "seeding"
        BY <2>17, <3>2 DEF Restart, ReportsPlaced
      <4> QED BY <2>3, <3>1, <4>1 DEF ReportsPlaced
    <3>3. CASE file # << >>
      BY <2>5, <2>17, <3>1, <3>3 DEF Restart, Idle
    <3> QED BY <3>2, <3>3
  <2>18. CASE UNCHANGED vars
    BY <2>4, <2>18 DEF vars
  <2> QED BY <1>4, <2>6, <2>7, <2>9, <2>10, <2>11, <2>12, <2>13, <2>14, <2>15, <2>16,
             <2>17, <2>18 DEF Next
<1> QED BY <1>3, <1>4

(* The cost of tears, one append ahead: a file without a newline at its    *)
(* end has yet to lose the line that comes next, and the last one with it  *)
(* if it can still be read.                                                *)
Owed == IF ~torn THEN 0 ELSE IF Len(file) \in Readable THEN 2 ELSE 1

TearsCounted == Cardinality(Readable) + tears >= complete + Owed

LEMMA ReadableFinite ==
  ASSUME TypeInv
  PROVE  IsFiniteSet(Readable) /\ Cardinality(Readable) \in Nat
<1>1. PICK n \in Nat : n = Len(file)
  BY DEF TypeInv, TypeOK
<1>2. PICK S : S = Readable
  OBVIOUS
<1>3. S \in SUBSET (1..n)
  BY <1>1, <1>2 DEF Readable, TypeInv, TypeOK
<1>4. IsFiniteSet(1..n)
  BY FS_Interval
<1>5. IsFiniteSet(S)
  BY <1>3, <1>4, FS_Subset
<1> QED BY <1>2, <1>5, FS_CardinalityType

LEMMA ReadableAfterAppend ==
  ASSUME TypeInv, NEW line \in Lines, file' = Append(file, line)
  PROVE  Cardinality(Readable') = Cardinality(Readable)
                                    + (IF line.kind = "garbage" THEN 0 ELSE 1)
<1>1. PICK n \in Nat : n = Len(file)
  BY DEF TypeInv, TypeOK
<1>2. file \in Seq(Lines)
  BY DEF TypeInv, TypeOK
<1>3. PICK S, T : S = Readable /\ T = Readable'
  OBVIOUS
<1>4. IsFiniteSet(S) /\ Cardinality(S) \in Nat
  BY <1>3, ReadableFinite
<1>5. T = IF line.kind = "garbage" THEN S ELSE S \cup {n + 1}
  BY <1>1, <1>2, <1>3 DEF Readable
<1>6. n + 1 \notin S
  BY <1>1, <1>2, <1>3 DEF Readable
<1>7. Cardinality(S \cup {n + 1}) = Cardinality(S) + 1
  BY <1>4, <1>6, FS_AddElement
<1> QED BY <1>3, <1>4, <1>5, <1>7

LEMMA ReadableAfterGarbling ==
  ASSUME TypeInv, torn, file' = Garbled
  PROVE  /\ Cardinality(Readable') = Cardinality(Readable)
                                       - (IF Len(file) \in Readable THEN 1 ELSE 0)
         /\ Len(file') \notin Readable'
<1>1. PICK n \in Nat : n = Len(file)
  BY DEF TypeInv, TypeOK
<1>2. PICK S, T : S = Readable /\ T = Readable'
  OBVIOUS
<1>3. IsFiniteSet(S) /\ Cardinality(S) \in Nat
  BY <1>2, ReadableFinite
<1>4. T = S \ {n}
  BY <1>1, <1>2, GarbledTyped, GarbageTyped DEF Readable
<1>5. Cardinality(T) = IF n \in S THEN Cardinality(S) - 1 ELSE Cardinality(S)
  BY <1>3, <1>4, FS_RemoveElement
<1>6. Len(file') = n
  BY <1>1, GarbledTyped
<1> QED BY <1>1, <1>2, <1>3, <1>4, <1>5, <1>6

LEMMA TearsCountedInductive ==
  ASSUME TypeInv, TearsCounted, [Next]_vars
  PROVE  TearsCounted'
<1>1. FileStep
  BY FileSteps
<1>2. /\ torn \in BOOLEAN /\ tears \in Nat /\ complete \in Nat /\ Cardinality(Readable) \in Nat
  BY LogBoundsAssumption, ReadableFinite DEF TypeInv, TypeOK
<1>3. ASSUME NEW line \in Lines, file' = Append(file, line)
      PROVE  /\ Cardinality(Readable') = Cardinality(Readable)
                                           + (IF line.kind = "garbage" THEN 0 ELSE 1)
             /\ Len(file') \in Readable' <=> line.kind # "garbage"
  <2>1. file \in Seq(Lines)
    BY DEF TypeInv, TypeOK
  <2>2. Len(file') \in Readable' <=> line.kind # "garbage"
    BY <1>3, <2>1 DEF Readable
  <2> QED BY <1>3, <2>2, ReadableAfterAppend
<1>4. ASSUME NEW line \in Lines, NewLine(line), Write(line) PROVE TearsCounted'
  <2>1. torn' = FALSE /\ tears' = tears /\ complete' = complete + 1 /\ Owed' = 0
    BY <1>4 DEF Write, Owed
  <2>2. CASE torn
    <3>1. Cardinality(Readable') = Cardinality(Readable)
                                     - (IF Len(file) \in Readable THEN 1 ELSE 0)
      BY <1>4, <2>2, WriteAdds, ReadableAfterGarbling
    <3> QED BY <1>2, <2>1, <2>2, <3>1 DEF TearsCounted, Owed
  <2>3. CASE ~torn
    <3>1. file' = Append(file, line)
      BY <1>4, <2>3, WriteAdds
    <3>2. line.kind # "garbage"
      BY <1>4 DEF NewLine, ApiDecisionLine
    <3>3. Cardinality(Readable') = Cardinality(Readable) + 1
      BY <1>3, <3>1, <3>2
    <3> QED BY <1>2, <2>1, <2>3, <3>3 DEF TearsCounted, Owed
  <2> QED BY <1>2, <2>2, <2>3
<1>5. ASSUME NEW line \in Lines, Tears(line) PROVE TearsCounted'
  <2>1. torn' = TRUE /\ tears' = tears + 1 /\ complete' = complete
    BY <1>5 DEF Tears
  <2>2. CASE torn
    <3>1. /\ Cardinality(Readable') = Cardinality(Readable)
                                        - (IF Len(file) \in Readable THEN 1 ELSE 0)
          /\ Len(file') \notin Readable'
      BY <1>5, <2>2, ReadableAfterGarbling DEF Tears
    <3>2. Owed' = 1
      BY <2>1, <3>1 DEF Owed
    <3> QED BY <1>2, <2>1, <2>2, <3>1, <3>2 DEF TearsCounted, Owed
  <2>3. CASE ~torn
    <3>1. PICK part \in Lines : file' = Append(file, part)
      BY <1>5, <2>3, GarbageTyped DEF Tears
    <3>2. Owed' = IF part.kind = "garbage" THEN 1 ELSE 2
      BY <1>3, <2>1, <3>1 DEF Owed
    <3>3. Cardinality(Readable') = Cardinality(Readable) + (IF part.kind = "garbage" THEN 0 ELSE 1)
      BY <1>3, <3>1
    <3> QED BY <1>2, <2>1, <2>3, <3>2, <3>3 DEF TearsCounted, Owed
  <2> QED BY <1>2, <2>2, <2>3
<1>7. CASE Unwritten
  BY <1>7 DEF Unwritten, TearsCounted, Owed, Readable
<1>6. CASE SeedWrite
  <2>1. file' = Seeds /\ torn' = FALSE /\ complete' = SeedLength /\ tears' = tears
    BY <1>6 DEF SeedWrite
  <2>2. Readable' = 1..SeedLength
    BY <2>1, SeedLine, SeedsTyped, LogBoundsAssumption DEF Readable
  <2>3. Cardinality(Readable') = SeedLength
    <3>1. Cardinality(1..SeedLength) = SeedLength
      BY FS_Interval, LogBoundsAssumption
    <3> QED BY <2>2, <3>1
  <2> QED BY <1>2, <2>1, <2>3, LogBoundsAssumption DEF TearsCounted, Owed
<1> QED BY <1>1, <1>4, <1>5, <1>6, <1>7, FailureAdds DEF FileStep, Unwritten

(* The number of a line stands for one trace: however many appends are     *)
(* torn, each costs one more line at most, and who asks for the last trace *)
(* after writing one is never given an older one than his, if his is there.*)
THEOREM IdsAlwaysTell == Spec => []IdsTellTheirLines
<1>1. Init => ReportsPlaced /\ TearsCounted
  <2> SUFFICES ASSUME Init PROVE ReportsPlaced /\ TearsCounted
    OBVIOUS
  <2>1. /\ file = << >> /\ Readable = {} /\ reported.own = 0
        /\ busy.doing = "seeding" /\ torn = FALSE /\ complete = 0 /\ tears = 0
    BY DEF Init, Readable, NotReported
  <2>2. Cardinality(Readable) = 0
    BY <2>1, FS_EmptySet
  <2> QED BY <2>1, <2>2 DEF ReportsPlaced, TearsCounted, Owed
<1>2. TypeInv /\ ReportsPlaced /\ [Next]_vars => ReportsPlaced'
  BY ReportsPlacedInductive
<1>3. TypeInv /\ TearsCounted /\ [Next]_vars => TearsCounted'
  BY TearsCountedInductive
<1>4. TypeInv /\ ReportsPlaced /\ TearsCounted => IdsTellTheirLines
  <2> SUFFICES ASSUME TypeInv, ReportsPlaced, TearsCounted PROVE IdsTellTheirLines
    OBVIOUS
  <2>1. tears \in Nat /\ complete \in Nat /\ Cardinality(Readable) \in Nat
    BY LogBoundsAssumption, ReadableFinite DEF TypeInv, TypeOK
  <2>2. TearCostsOneLine
    BY <2>1 DEF TearsCounted, TearCostsOneLine, Owed
  <2>3. ScenarioReportsNoEarlier
    BY DEF ReportsPlaced, ScenarioReportsNoEarlier
  <2> QED BY <2>2, <2>3 DEF IdsTellTheirLines
<1> QED BY <1>1, <1>2, <1>3, <1>4, TypeInvHolds, PTL DEF Spec

=============================================================================
