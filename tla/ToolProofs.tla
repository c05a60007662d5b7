----------------------------- MODULE ToolProofs -----------------------------
(***************************************************************************)
(* The tools that judge and run the whole: what the recorded trial of a    *)
(* race is worth, in a corpus of any length and however it fails           *)
(* (RaceHarness), on what a published claim rests, for every matrix and    *)
(* every number of builds (ReleaseEvidence), and what is left of a         *)
(* synthetic deployment after whatever calls and mishaps (Playground).     *)
(***************************************************************************)
EXTENDS RaceHarness, ReleaseEvidence, Playground, FiniteSetTheorems, SequenceTheorems,
        WellFoundedInduction, TLAPS

-----------------------------------------------------------------------------
(* A trial of a race.                                                      *)
Stage ==
  {"none", "started", "session", "connected", "waiting", "holding", "acquired", "performing",
   "performed", "gone"}

AnswersOfRaces ==
  {"receipt", "claimed", "not_claimed", "accepted", "conflict", "replayed", "new", "verified",
   "already_used"}

Message == {"session", "waiting", "acquired", "failed", "fatal"} \cup AnswersOfRaces

TrialTypeOK ==
  /\ race \in Races
  /\ stage \in [Contender -> Stage]
  /\ sent \in [Contender -> Seq(Message)]
  /\ proceed \subseteq Contender /\ taken \subseteq Contender
  /\ overlap \in BOOLEAN /\ trouble \in Nat
  /\ recorded \in Seq([overlap : BOOLEAN, taken : SUBSET Contender])

(* A contender has answered when an answer of it is in the pipe or has     *)
(* been received; it has performed when its call began and did not fail.   *)
HasAnswer(messages) == \E i \in 1..Len(messages) : messages[i] \in Answers

Answered(c) ==
  \/ HasAnswer(sent[c])
  \/ step[1] = "result" /\ step[2] = 2 /\ c = 1
  \/ step[1] \in {"pair", "check"}

Performed(c) == stage[c] \in {"performing", "performed"} \/ c \in taken \/ Answered(c)

BeforeProceed ==
  {"enter", "start", "session", "ready", "await", "release", "acquired", "overlap"}

(* Nobody performs before it may, and nobody may before both hold the      *)
(* barrier; if they never held it together while one performed, then the   *)
(* other is gone without an answer.                                        *)
OverlapInv ==
  /\ step[1] \in BeforeProceed => proceed = {}
  /\ proceed # {} \/ step[1] = "proceed" =>
       \A c \in Contender : Holds(c) \/ stage[c] = "gone"
  /\ \A c \in Contender :
       /\ Performed(c) => c \in proceed
       /\ c \in taken \/ Answered(c) => stage[c] \in {"performed", "gone"}
       /\ ~overlap /\ Performed(c) =>
            stage[Other(c)] = "gone" /\ ~Performed(Other(c))
  /\ \A i \in 1..Len(recorded) : recorded[i].overlap

(* As long as nothing went wrong: what a contender has said by its stage,  *)
(* what the coordinator has heard of it by its step, and what is between.  *)
Said(c) ==
  CASE stage[c] \in {"none", "started"} -> 0
    [] stage[c] = "session" -> 1
    [] stage[c] \in {"connected", "waiting", "holding"} -> 2
    [] stage[c] \in {"acquired", "performing"} -> 3
    [] OTHER -> 4

Heard(c) ==
  CASE step[1] \in {"enter", "start", "session"} -> IF c < step[2] THEN 1 ELSE 0
    [] step[1] = "ready" -> IF c < step[2] THEN 2 ELSE 1
    [] step[1] \in {"await", "release"} -> 2
    [] step[1] = "acquired" -> IF c < step[2] THEN 3 ELSE 2
    [] step[1] \in {"overlap", "proceed"} -> 3
    [] step[1] = "result" -> IF c < step[2] THEN 4 ELSE 3
    [] OTHER -> 4

AnswerOf(c) == IF c \in taken THEN race.won ELSE race.lost

SaysInAll(c) == <<"session", "waiting", "acquired", AnswerOf(c)>>

Between(says, from, to) == [i \in 1..(to - from) |-> says[from + i]]

NotStarted(c) ==
  \/ step[1] = "enter"
  \/ step[1] = "start" /\ c >= step[2]
  \/ step[1] = "session" /\ c > step[2]

(* Exactly what was said and not heard is in the pipes; and of the two     *)
(* contenders that have performed, one has taken the row or is about to.   *)
PipeInv ==
  \A c \in Contender :
    Heard(c) <= Said(c) /\ sent[c] = Between(SaysInAll(c), Heard(c), Said(c))

StagesInv ==
  /\ step[1] \notin {"cleanup", "raised"}
  /\ \A c \in Contender :
       /\ stage[c] = "none" <=> NotStarted(c)
       /\ c \in proceed <=>
            \/ step[1] = "proceed" /\ c < step[2]
            \/ step[1] \in {"result", "pair", "check", "next"}
       /\ Said(c) = 4 \/ stage[c] = "performing" => c \in proceed
       /\ c \in taken => Said(c) = 4
       /\ Said(c) = 4 => c \in taken \/ Other(c) \in taken \/ Busy(c)
       /\ ~(c \in taken /\ Other(c) \in taken)
       /\ stage[c] = "performing" => ~Busy(c)

AnswersInv ==
  /\ step[1] = "result" /\ step[2] = 2 => step[3] = AnswerOf(1)
  /\ step[1] \in {"pair", "check"} => step[3] = AnswerOf(1) /\ step[4] = AnswerOf(2)

CalmInv == PipeInv /\ StagesInv /\ AnswersInv

TrialInv == TrialTypeOK /\ OverlapInv /\ (trouble = 0 => CalmInv)

(* The scenarios answer with messages of their own.                        *)
LEMMA AnswersAreMessages ==
  ASSUME race \in Races
  PROVE  /\ Answers \subseteq Message /\ race.won \in Answers /\ race.lost \in Answers
         /\ {"session", "waiting", "acquired", "failed", "fatal"} \cap Answers = {}
BY DEF Races, CommandReceipt, DeliveryClaim, StepClaim,
       WaitSignal, AttemptResult, RouteActivation,
       VerificationSubmission, Race, Answers, Message, AnswersOfRaces

LEMMA TrialInit == RaceInit => TrialInv
<1> SUFFICES ASSUME RaceInit PROVE TrialInv
  OBVIOUS
<1>1. TrialTypeOK
  <2>1. sent \in [Contender -> Seq(Message)]
    <3>1. <<>> \in Seq(Message)
      OBVIOUS
    <3> QED BY <3>1 DEF RaceInit
  <2>2. recorded \in Seq([overlap : BOOLEAN, taken : SUBSET Contender])
    BY DEF RaceInit
  <2> QED BY <2>1, <2>2 DEF RaceInit, TrialTypeOK, Stage
<1>2. OverlapInv
  BY DEF RaceInit, OverlapInv, Contender, Performed, Answered, HasAnswer, BeforeProceed,
         Other
<1>3. CalmInv
  BY DEF RaceInit, CalmInv, PipeInv, StagesInv, AnswersInv, Contender, Said, Heard,
         NotStarted, Between, SaysInAll, Other
<1> QED BY <1>1, <1>2, <1>3 DEF TrialInv

LEMMA SaidIsTyped ==
  ASSUME TrialTypeOK, NEW c \in Contender, NEW message \in Message, Says(c, message)
  PROVE  sent' \in [Contender -> Seq(Message)]
<1>1. sent[c] \in Seq(Message)
  BY DEF TrialTypeOK
<1>2. Append(sent[c], message) \in Seq(Message)
  BY <1>1
<1> QED BY <1>2 DEF TrialTypeOK, Says

LEMMA ReceiveType ==
  ASSUME TrialTypeOK, NEW c \in Contender, NEW expected, NEW next,
         Receive(c, expected, next)
  PROVE  TrialTypeOK'
<1>1. UNCHANGED <<race, stage, proceed, taken, overlap, recorded>>
  BY DEF Receive
<1>2. sent' = sent \/ (sent[c] # <<>> /\ sent' = [sent EXCEPT ![c] = Tail(sent[c])])
  BY DEF Receive
<1>3. sent' \in [Contender -> Seq(Message)]
  <2>1. sent[c] \in Seq(Message)
    BY DEF TrialTypeOK
  <2>2. sent[c] # <<>> => Tail(sent[c]) \in Seq(Message)
    BY <2>1
  <2> QED BY <1>2, <2>2 DEF TrialTypeOK
<1>4. trouble' \in Nat
  BY DEF Receive, Troubles, TrialTypeOK
<1> QED BY <1>1, <1>3, <1>4 DEF TrialTypeOK

LEMMA CoordinatorType ==
  ASSUME TrialTypeOK, Coordinate
  PROVE  TrialTypeOK'
<1> USE DEF TrialTypeOK
<1>1. CASE EnterBarrier
  BY <1>1 DEF EnterBarrier, contenders
<1>2. CASE AwaitWaiters
  BY <1>2 DEF AwaitWaiters, contenders, Troubles
<1>3. CASE ReleaseBarrier
  BY <1>3 DEF ReleaseBarrier, contenders
<1>4. CASE RequireOverlap
  BY <1>4 DEF RequireOverlap, contenders
<1>5. CASE Cleanup
  BY <1>5 DEF Cleanup, Stage
<1>6. CASE Recorded
  <2>1. [overlap |-> overlap, taken |-> taken]
          \in [overlap : BOOLEAN, taken : SUBSET Contender]
    OBVIOUS
  <2> DEFINE trial == [overlap |-> overlap, taken |-> taken]
             T == [overlap : BOOLEAN, taken : SUBSET Contender]
  <2>2. trial \in T /\ recorded \in Seq(T)
    BY <2>1
  <2>3. recorded' = recorded \/ recorded' = Append(recorded, trial)
    BY <1>6 DEF Recorded
  <2> HIDE DEF trial, T
  <2>4. recorded' \in Seq(T)
    BY <2>2, <2>3
  <2> USE DEF T
  <2> QED BY <1>6, <2>4 DEF Recorded, contenders
<1>7. CASE NextSeed
  <2>1. <<>> \in Seq(Message)
    OBVIOUS
  <2>2. sent' \in [Contender -> Seq(Message)]
    BY <1>7, <2>1 DEF NextSeed
  <2> QED BY <1>7, <2>2 DEF NextSeed, Stage
<1>8. ASSUME NEW c \in Contender, StartContender(c) PROVE TrialTypeOK'
  BY <1>8 DEF StartContender, Stage
<1>9. ASSUME NEW c \in Contender, SendProceed(c) PROVE TrialTypeOK'
  BY <1>9 DEF SendProceed
<1>10. ASSUME NEW c \in Contender,
              \/ ReceiveSession(c) \/ ReceiveWaiting(c)
              \/ ReceiveAcquired(c) \/ ReceiveResult(c)
       PROVE  TrialTypeOK'
  BY <1>10, ReceiveType DEF ReceiveSession, ReceiveWaiting, ReceiveAcquired,
                            ReceiveResult
<1> QED BY <1>1, <1>2, <1>3, <1>4, <1>5, <1>6, <1>7, <1>8, <1>9, <1>10 DEF Coordinate

LEMMA ContenderType ==
  ASSUME TrialTypeOK, NEW c \in Contender,
         Contend(c) \/ Raises(c) \/ Dies(c)
  PROVE  TrialTypeOK'
<1>0. race' = race /\ recorded' = recorded
  BY DEF Contend, FoundSession, Connect, RequestLock, GrantLock,
         SayAcquired, Perform, CommitPerformance, Leave, Raises,
         Dies, Contends
<1>1. stage' \in [Contender -> Stage]
  BY DEF Contend, FoundSession, Connect, RequestLock, GrantLock,
         SayAcquired, Perform, CommitPerformance, Leave, Raises,
         Dies, Moves, Stage, TrialTypeOK
<1>2. proceed' = proceed /\ taken' \subseteq Contender
  BY DEF Contend, FoundSession, Connect, RequestLock, GrantLock,
         SayAcquired, Perform, CommitPerformance, Leave, Raises,
         Dies, TrialTypeOK
<1>3. overlap' \in BOOLEAN
  BY DEF Contend, FoundSession, Connect, RequestLock, GrantLock,
         SayAcquired, Perform, CommitPerformance, Leave, Raises,
         Dies, TrialTypeOK
<1>4. trouble' \in Nat
  BY DEF Contend, FoundSession, Connect, RequestLock, GrantLock,
         SayAcquired, Perform, CommitPerformance, Leave, Raises,
         Dies, Troubles, TrialTypeOK
<1>5. sent' \in [Contender -> Seq(Message)]
  <2>1. {"session", "waiting", "acquired", "failed", "fatal", race.won, race.lost} \subseteq Message
    BY AnswersAreMessages DEF TrialTypeOK, Message
  <2>2. sent' = sent \/ \E message \in Message : Says(c, message)
    <3>1. CASE FoundSession(c)
      BY <2>1, <3>1 DEF FoundSession
    <3>2. CASE Connect(c)
      BY <2>1, <3>2 DEF Connect
    <3>3. CASE SayAcquired(c)
      BY <2>1, <3>3 DEF SayAcquired
    <3>4. CASE Perform(c)
      BY <2>1, <3>4 DEF Perform
    <3>5. CASE CommitPerformance(c)
      <4>1. (IF Takes(c) THEN race.won ELSE race.lost) \in Message
        BY <2>1
      <4> QED BY <3>5, <4>1 DEF CommitPerformance
    <3>6. CASE Raises(c)
      <4>1. (IF stage[c] = "performing" THEN "failed" ELSE "fatal") \in Message
        BY <2>1
      <4> QED BY <3>6, <4>1 DEF Raises
    <3>7. CASE RequestLock(c) \/ GrantLock(c) \/ Leave(c) \/ Dies(c)
      BY <3>7 DEF RequestLock, GrantLock, Leave, Dies
    <3> QED BY <3>1, <3>2, <3>3, <3>4, <3>5, <3>6, <3>7 DEF Contend
  <2> QED BY <2>2, SaidIsTyped DEF TrialTypeOK
<1> QED BY <1>0, <1>1, <1>2, <1>3, <1>4, <1>5 DEF TrialTypeOK

LEMMA TrialTypeStep ==
  ASSUME TrialTypeOK, [RaceNext]_(harness)
  PROVE  TrialTypeOK'
<1>1. CASE UNCHANGED harness
  BY <1>1 DEF TrialTypeOK, harness, contenders
<1> QED BY <1>1, CoordinatorType, ContenderType DEF RaceNext

LEMMA AnswersInThePipe ==
  ASSUME race \in Races, NEW messages \in Seq(Message)
  PROVE  /\ ~HasAnswer(<<>>)
         /\ messages # <<>> => (HasAnswer(Tail(messages)) => HasAnswer(messages))
         /\ messages # <<>> /\ Head(messages) \in Answers => HasAnswer(messages)
         /\ \A message \in Message \ Answers :
              HasAnswer(Append(messages, message)) => HasAnswer(messages)
<1> USE DEF HasAnswer
<1> HIDE DEF Message
<1>1. ~HasAnswer(<<>>)
  OBVIOUS
<1>2. messages # <<>> => (HasAnswer(Tail(messages)) => HasAnswer(messages))
  <2> SUFFICES ASSUME messages # <<>>, NEW i \in 1..Len(Tail(messages)),
                      Tail(messages)[i] \in Answers
               PROVE  HasAnswer(messages)
    OBVIOUS
  <2>1. i + 1 \in 1..Len(messages) /\ messages[i + 1] = Tail(messages)[i]
    OBVIOUS
  <2> QED BY <2>1
<1>3. messages # <<>> /\ Head(messages) \in Answers => HasAnswer(messages)
  <2>1. messages # <<>> => 1 \in 1..Len(messages) /\ Head(messages) = messages[1]
    OBVIOUS
  <2> QED BY <2>1
<1>4. ASSUME NEW message \in Message \ Answers, HasAnswer(Append(messages, message))
      PROVE  HasAnswer(messages)
  <2>1. PICK i \in 1..Len(Append(messages, message)) :
               Append(messages, message)[i] \in Answers
    BY <1>4
  <2>2. i # Len(messages) + 1 /\ i \in 1..Len(messages)
    BY <2>1
  <2>3. Append(messages, message)[i] = messages[i]
    BY <2>2
  <2> QED BY <2>1, <2>2, <2>3
<1> QED BY <1>1, <1>2, <1>3, <1>4

(* A step after which nobody has performed who had not.                    *)
LEMMA QuietStep ==
  ASSUME TrialTypeOK, OverlapInv, UNCHANGED <<proceed, taken, overlap, recorded>>,
         \A c \in Contender :
           /\ Answered(c)' => Answered(c)
           /\ stage'[c] \in {"performing", "performed"} => stage'[c] = stage[c]
           /\ proceed # {} =>
                /\ stage[c] \in {"performed", "gone"} => stage'[c] \in {"performed", "gone"}
                /\ stage[c] = "gone" => stage'[c] = "gone",
         proceed # {} \/ step'[1] = "proceed" =>
           \A c \in Contender : (Holds(c) \/ stage[c] = "gone")',
         step'[1] \in BeforeProceed => step[1] \in BeforeProceed
  PROVE  OverlapInv'
<1>1. \A c \in Contender : Performed(c)' => Performed(c)
  BY DEF Performed
<1>2. \A c \in Contender : Other(c) \in Contender
  BY DEF Contender, Other
<1>3. \A c \in Contender : c \in taken' \/ Answered(c)' => Performed(c)
  BY DEF Performed
<1>4. ASSUME NEW c \in Contender
      PROVE  /\ Performed(c)' => c \in proceed'
             /\ c \in taken' \/ Answered(c)' => stage'[c] \in {"performed", "gone"}
             /\ ~overlap' /\ Performed(c)' =>
                  stage'[Other(c)] = "gone" /\ ~Performed(Other(c))'
  BY <1>1, <1>2, <1>3 DEF OverlapInv
<1>5. (step[1] \in BeforeProceed => proceed = {})'
  BY DEF OverlapInv, BeforeProceed
<1>6. (\A i \in 1..Len(recorded) : recorded[i].overlap)'
  BY DEF OverlapInv
<1> QED BY <1>4, <1>5, <1>6 DEF OverlapInv, BeforeProceed, Contender, Other

(* What the coordinator takes from a pipe leaves no answer that was not    *)
(* there, and what does not fit ends the trial.                            *)
LEMMA ReceiveStep ==
  ASSUME TrialTypeOK, NEW c \in Contender, NEW expected, NEW next,
         Receive(c, expected, next)
  PROVE  /\ UNCHANGED <<race, stage, proceed, taken, overlap, recorded>>
         /\ \A d \in Contender : HasAnswer(sent[d])' => HasAnswer(sent[d])
         /\ \/ step' = <<"cleanup", 0>>
            \/ sent[c] # <<>> /\ Head(sent[c]) \in expected /\ next
<1>1. UNCHANGED <<race, stage, proceed, taken, overlap, recorded>>
  BY DEF Receive
<1>2. \/ step' = <<"cleanup", 0>>
      \/ sent[c] # <<>> /\ Head(sent[c]) \in expected /\ next
  BY DEF Receive, Fails, Goes
<1>3. ASSUME NEW d \in Contender, HasAnswer(sent[d])'
      PROVE  HasAnswer(sent[d])
  <2>1. sent[d] \in Seq(Message) /\ race \in Races
    BY DEF TrialTypeOK
  <2>2. sent'[d] = sent[d] \/ (sent[d] # <<>> /\ sent'[d] = Tail(sent[d]))
    BY DEF Receive, TrialTypeOK
  <2>3. HasAnswer(sent'[d])
    BY <1>1, <1>3 DEF HasAnswer, Answers
  <2> QED BY <2>1, <2>2, <2>3, AnswersInThePipe
<1> QED BY <1>1, <1>2, <1>3

LEMMA CoordinatorOverlap ==
  ASSUME TrialTypeOK, OverlapInv, Coordinate
  PROVE  OverlapInv'
<1> USE DEF At, Goes, Fails, GoesOn
<1>1. CASE EnterBarrier
  BY <1>1, QuietStep DEF EnterBarrier, contenders, Answered, HasAnswer,
       Answers, OverlapInv, BeforeProceed, Holds
<1>2. CASE AwaitWaiters
  BY <1>2, QuietStep DEF AwaitWaiters, contenders, Answered, HasAnswer,
       Answers, OverlapInv, BeforeProceed, Holds
<1>3. CASE ReleaseBarrier
  BY <1>3, QuietStep DEF ReleaseBarrier, contenders, Answered, HasAnswer,
       Answers, OverlapInv, BeforeProceed, Holds
<1>4. CASE RequireOverlap
  BY <1>4, QuietStep DEF RequireOverlap, contenders, Answered, HasAnswer,
       Answers, OverlapInv, BeforeProceed, Holds
<1>5. CASE Cleanup
  <2>1. /\ UNCHANGED <<race, sent, proceed, taken, overlap, recorded>>
        /\ \A c \in Contender : stage'[c] = "gone"
        /\ (step[1] = "pair" /\ step'[1] = "check") \/ step'[1] = "raised"
    BY <1>5 DEF Cleanup, Finished
  <2>2. \A c \in Contender : Answered(c)' => Answered(c)
    BY <2>1 DEF Answered, HasAnswer, Answers
  <2> QED BY <2>1, <2>2, QuietStep DEF BeforeProceed, Holds
<1>6. CASE Recorded
  <2>1. UNCHANGED <<race, stage, sent, proceed, taken, overlap>> /\ step[1] = "check"
        /\ step'[1] \in {"next", "raised"}
    BY <1>6 DEF Recorded, contenders
  <2>2. \A c \in Contender : Answered(c)
    BY <2>1 DEF Answered
  <2>3. overlap
    BY <2>2 DEF OverlapInv, Contender, Other, Performed, TrialTypeOK
  <2>4. \A c \in Contender : Performed(c)' => Performed(c)
    BY <2>2 DEF Performed
  <2>5. (\A i \in 1..Len(recorded) : recorded[i].overlap)'
    <3>1. \/ recorded' = recorded
          \/ recorded' = Append(recorded, [overlap |-> overlap, taken |-> taken])
      BY <1>6 DEF Recorded
    <3>2. [overlap |-> overlap, taken |-> taken].overlap
      BY <2>3
    <3> DEFINE T == [overlap : BOOLEAN, taken : SUBSET Contender]
               trial == [overlap |-> overlap, taken |-> taken]
    <3>3. trial.overlap /\ (recorded' = recorded \/ recorded' = Append(recorded, trial))
      BY <3>1, <3>2
    <3>4. trial \in T /\ recorded \in Seq(T) /\ \A i \in 1..Len(recorded) : recorded[i].overlap
      BY DEF TrialTypeOK, OverlapInv
    <3> HIDE DEF trial, T
    <3>5. ASSUME NEW i \in 1..Len(Append(recorded, trial))
          PROVE  Append(recorded, trial)[i].overlap
      <4>1. CASE i = Len(recorded) + 1
        BY <3>3, <3>4, <4>1
      <4>2. CASE i \in 1..Len(recorded)
        BY <3>4, <4>2
      <4> QED BY <3>4, <4>1, <4>2
    <3> QED BY <3>3, <3>4, <3>5
  <2>6. \A c \in Contender :
          /\ Performed(c)' => c \in proceed'
          /\ c \in taken' \/ Answered(c)' => stage'[c] \in {"performed", "gone"}
    BY <2>1, <2>2, <2>4 DEF OverlapInv
  <2> QED BY <2>1, <2>3, <2>5, <2>6 DEF OverlapInv, BeforeProceed, Holds
<1>7. CASE NextSeed
  <2>1. /\ recorded' = recorded /\ race' = race /\ step' = <<"enter", 0>>
        /\ proceed' = {} /\ taken' = {}
        /\ \A c \in Contender : stage'[c] = "none" /\ sent'[c] = <<>>
    BY <1>7 DEF NextSeed
  <2>2. \A c \in Contender : ~Performed(c)' /\ ~Answered(c)'
    BY <2>1 DEF Performed, Answered, HasAnswer
  <2> QED BY <2>1, <2>2 DEF OverlapInv
<1>8. ASSUME NEW c \in Contender, StartContender(c) PROVE OverlapInv'
  <2>1. proceed = {} /\ step[1] = "start" /\ step'[1] = "session"
        /\ UNCHANGED <<race, sent, proceed, taken, overlap, recorded>>
    BY <1>8 DEF StartContender, OverlapInv, BeforeProceed
  <2>2. \A d \in Contender :
          /\ Answered(d)' => Answered(d)
          /\ stage'[d] \in {"performing", "performed"} => stage'[d] = stage[d]
    BY <1>8, <2>1 DEF Answered, HasAnswer, Answers, StartContender, TrialTypeOK
  <2> QED BY <2>1, <2>2, QuietStep DEF BeforeProceed
<1>9. ASSUME NEW c \in Contender, SendProceed(c) PROVE OverlapInv'
  <2>1. /\ UNCHANGED <<race, stage, sent, taken, overlap, recorded>>
        /\ proceed \subseteq proceed' /\ step[1] = "proceed"
        /\ step'[1] \in {"proceed", "cleanup"} \/ step' = <<"result", 1>>
    BY <1>9 DEF SendProceed, TrialTypeOK
  <2>2. \A d \in Contender :
          /\ Answered(d)' => Answered(d)
          /\ (Holds(d) \/ stage[d] = "gone")'
    BY <2>1 DEF Answered, HasAnswer, Answers, OverlapInv, Holds
  <2>3. \A d \in Contender : Performed(d)' => Performed(d)
    BY <2>1, <2>2 DEF Performed
  <2> QED BY <2>1, <2>2, <2>3 DEF OverlapInv, BeforeProceed, Contender, Other
<1>10. ASSUME NEW c \in Contender,
              \/ ReceiveSession(c) \/ ReceiveWaiting(c) \/ ReceiveAcquired(c)
       PROVE  OverlapInv'
  <2>1. /\ UNCHANGED <<race, stage, proceed, taken, overlap, recorded>>
        /\ \A d \in Contender : HasAnswer(sent[d])' => HasAnswer(sent[d])
        /\ step[1] \in BeforeProceed
        /\ step'[1] = "cleanup" \/ step'[1] \in BeforeProceed
    <3>1. CASE ReceiveSession(c)
      <4> DEFINE next == IF c = 1 THEN Goes("start", 2) ELSE Goes("ready", 1)
      <4>1. Receive(c, {"session"}, next) /\ step[1] \in BeforeProceed
        BY <3>1 DEF ReceiveSession, BeforeProceed
      <4>2. next => step'[1] \in BeforeProceed
        BY DEF BeforeProceed
      <4> HIDE DEF next
      <4> QED BY <4>1, <4>2, ReceiveStep
    <3>2. CASE ReceiveWaiting(c)
      <4> DEFINE next == GoesOn("ready", c, "await")
      <4>1. Receive(c, {"waiting"}, next) /\ step[1] \in BeforeProceed
        BY <3>2 DEF ReceiveWaiting, BeforeProceed
      <4>2. next => step'[1] \in BeforeProceed
        BY DEF BeforeProceed
      <4> HIDE DEF next
      <4> QED BY <4>1, <4>2, ReceiveStep
    <3>3. CASE ReceiveAcquired(c)
      <4> DEFINE next == GoesOn("acquired", c, "overlap")
      <4>1. Receive(c, {"acquired"}, next) /\ step[1] \in BeforeProceed
        BY <3>3 DEF ReceiveAcquired, BeforeProceed
      <4>2. next => step'[1] \in BeforeProceed
        BY DEF BeforeProceed
      <4> HIDE DEF next
      <4> QED BY <4>1, <4>2, ReceiveStep
    <3> QED BY <1>10, <3>1, <3>2, <3>3
  <2>2. \A d \in Contender : Answered(d)' => Answered(d)
    BY <2>1 DEF Answered, BeforeProceed
  <2> QED BY <2>1, <2>2, QuietStep DEF OverlapInv, BeforeProceed, Holds
<1>11. ASSUME NEW c \in Contender, ReceiveResult(c) PROVE OverlapInv'
  <2> DEFINE next == step' = IF c = 1 THEN <<"result", 2, Head(sent[1])>>
                             ELSE <<"pair", 0, step[3], Head(sent[2])>>
  <2>1. step[1] = "result" /\ step[2] = c /\ Receive(c, Answers, next)
    BY <1>11 DEF ReceiveResult
  <2>2. \/ step' = <<"cleanup", 0>>
        \/ sent[c] # <<>> /\ Head(sent[c]) \in Answers /\ next
    BY <2>1, ReceiveStep
  <2>3. /\ UNCHANGED <<race, stage, proceed, taken, overlap, recorded>>
        /\ \A d \in Contender : HasAnswer(sent[d])' => HasAnswer(sent[d])
    BY <2>1, ReceiveStep
  <2>4. \A d \in Contender : Answered(d)' => Answered(d)
    <3>1. CASE step' = <<"cleanup", 0>>
      BY <2>3, <3>1 DEF Answered
    <3>2. CASE HasAnswer(sent[c]) /\ next
      BY <2>1, <2>3, <3>2 DEF Answered, Contender
    <3>3. sent[c] # <<>> /\ Head(sent[c]) \in Answers => HasAnswer(sent[c])
      BY AnswersInThePipe DEF TrialTypeOK
    <3> QED BY <2>2, <3>1, <3>2, <3>3
  <2>5. step'[1] \notin BeforeProceed /\ step'[1] # "proceed"
    BY <2>2 DEF BeforeProceed
  <2> QED BY <2>3, <2>4, <2>5, QuietStep DEF OverlapInv, Holds
<1> QED BY <1>1, <1>2, <1>3, <1>4, <1>5, <1>6, <1>7, <1>8, <1>9, <1>10, <1>11 DEF Coordinate

LEMMA SaysStep ==
  ASSUME TrialTypeOK, race' = race, NEW c \in Contender, NEW message \in Message,
         Says(c, message)
  PROVE  \A d \in Contender :
           d # c \/ message \notin Answers => (HasAnswer(sent[d])' => HasAnswer(sent[d]))
<1> SUFFICES ASSUME NEW d \in Contender, d # c \/ message \notin Answers,
                    HasAnswer(sent[d])'
             PROVE  HasAnswer(sent[d])
  OBVIOUS
<1>1. sent[d] \in Seq(Message) /\ race \in Races
  BY DEF TrialTypeOK
<1>2. HasAnswer(sent'[d])
  BY DEF HasAnswer, Answers
<1>3. CASE d # c
  BY <1>2, <1>3 DEF Says, TrialTypeOK
<1>4. CASE d = c /\ message \notin Answers
  <2>1. sent'[d] = Append(sent[d], message)
    BY <1>4 DEF Says, TrialTypeOK
  <2> QED BY <1>1, <1>2, <1>4, <2>1, AnswersInThePipe
<1> QED BY <1>3, <1>4

LEMMA ContenderOverlap ==
  ASSUME TrialTypeOK, OverlapInv, NEW c \in Contender,
         Contend(c) \/ Raises(c) \/ Dies(c)
  PROVE  OverlapInv'
<1>0. race' = race /\ step' = step /\ recorded' = recorded /\ proceed' = proceed
  BY DEF Contend, FoundSession, Connect, RequestLock, GrantLock,
         SayAcquired, Perform, CommitPerformance, Leave, Raises,
         Dies, Contends
<1>1. {"session", "waiting", "acquired", "failed", "fatal"} \subseteq Message \ Answers
  BY AnswersAreMessages DEF TrialTypeOK, Message
<1>2. ASSUME \A d \in Contender : HasAnswer(sent[d])' => HasAnswer(sent[d])
      PROVE  \A d \in Contender : Answered(d)' => Answered(d)
  BY <1>0, <1>2 DEF Answered
<1>3. CASE \/ FoundSession(c) \/ Connect(c) \/ RequestLock(c)
           \/ GrantLock(c) \/ SayAcquired(c) \/ Leave(c) \/ Dies(c)
  <2>1. UNCHANGED <<taken, overlap>>
    BY <1>3 DEF FoundSession, Connect, RequestLock, GrantLock,
                SayAcquired, Leave, Dies
  <2>2. \/ sent' = sent
        \/ \E message \in {"session", "waiting", "acquired"} : Says(c, message)
    BY <1>3 DEF FoundSession, Connect, RequestLock, GrantLock,
                SayAcquired, Leave, Dies
  <2>3. \A d \in Contender : HasAnswer(sent[d])' => HasAnswer(sent[d])
    <3>1. CASE sent' = sent
      BY <1>0, <3>1 DEF HasAnswer, Answers
    <3>2. CASE \E message \in {"session", "waiting", "acquired"} : Says(c, message)
      BY <1>0, <1>1, <3>2, SaysStep
    <3> QED BY <2>2, <3>1, <3>2
  <2>4. \A d \in Contender :
          /\ stage'[d] \in {"performing", "performed"} => stage'[d] = stage[d]
          /\ stage[d] \in {"performed", "gone"} => stage'[d] \in {"performed", "gone"}
          /\ stage[d] = "gone" => stage'[d] = "gone"
          /\ Holds(d) \/ stage[d] = "gone" => (Holds(d) \/ stage[d] = "gone")'
    BY <1>3 DEF FoundSession, Connect, RequestLock, GrantLock,
                SayAcquired, Leave, Dies, Moves, Holds, TrialTypeOK
  <2> QED BY <1>0, <1>2, <2>1, <2>3, <2>4, QuietStep DEF OverlapInv
<1>4. CASE Perform(c)
  <2>1. /\ c \in proceed /\ stage[c] = "acquired" /\ taken' = taken
        /\ overlap' = (overlap \/ (taken = {} /\ ~Busy(c)
                                   /\ \A d \in Contender : Holds(d)))
        /\ stage' = [stage EXCEPT ![c] = "performing"] \/ stage' = [stage EXCEPT ![c] = "performed"]
        /\ sent' = sent \/ (stage'[c] = "performed" /\ Says(c, race.lost))
    BY <1>4 DEF Perform, MayPerform, Moves, TrialTypeOK
  <2>2. \A d \in Contender : d # c => (HasAnswer(sent[d])' => HasAnswer(sent[d]))
    <3>1. race.lost \in Message
      BY AnswersAreMessages DEF TrialTypeOK
    <3>2. CASE sent' = sent
      BY <1>0, <3>2 DEF HasAnswer, Answers
    <3> QED BY <1>0, <2>1, <3>1, <3>2, SaysStep
  <2> DEFINE o == Other(c)
  <2>3. o \in Contender /\ o # c /\ Other(o) = c /\ Contender = {c, o}
    BY DEF Contender, Other
  <2>4. ~Performed(c)
    <3>1. c \notin taken /\ ~Answered(c)
      BY <2>1 DEF OverlapInv
    <3> QED BY <2>1, <3>1 DEF Performed
  <2>5. Performed(o)' => Performed(o)
    BY <1>0, <2>1, <2>2, <2>3 DEF Performed, Answered, TrialTypeOK
  <2>6. ASSUME ~overlap'
        PROVE  stage[o] = "gone" /\ ~Performed(o)
    <3>1. ~overlap /\ ~Performed(o)
      BY <2>1, <2>3, <2>6 DEF OverlapInv
    <3>2. taken = {} /\ ~Busy(c)
      BY <2>3, <2>4, <3>1 DEF Performed, Busy, TrialTypeOK
    <3>3. ~Holds(o)
      BY <2>1, <2>3, <2>6, <3>2 DEF Holds
    <3> QED BY <2>1, <2>3, <3>1, <3>3 DEF OverlapInv
  <2>7. stage'[o] = stage[o] /\ stage'[c] \in {"performing", "performed"}
    BY <2>1, <2>3 DEF TrialTypeOK
  <2>8. Answered(c)' => stage'[c] = "performed"
    <3>1. sent' = sent => ~Answered(c)'
      BY <1>0, <2>4 DEF Performed, Answered, HasAnswer, Answers
    <3> QED BY <2>1, <3>1
  <2>9. Answered(o)' => Answered(o)
    BY <1>0, <2>2, <2>3 DEF Answered
  <2>10. /\ c \in taken' \/ Answered(c)' => stage'[c] \in {"performed", "gone"}
         /\ o \in taken' \/ Answered(o)' => stage'[o] \in {"performed", "gone"}
    BY <2>1, <2>3, <2>4, <2>7, <2>8, <2>9 DEF OverlapInv, Performed
  <2>11. (~overlap /\ Performed(c) => stage[o] = "gone" /\ ~Performed(o))'
    BY <2>5, <2>6, <2>7
  <2>12. (~overlap /\ Performed(o) => stage[c] = "gone" /\ ~Performed(c))'
    BY <2>5, <2>6
  <2>13. \A d \in Contender : Other(d)' = Other(d)
    BY DEF Other
  <2>14. \A d \in Contender : (Holds(d) \/ stage[d] = "gone")'
    BY <2>1, <2>3, <2>7 DEF OverlapInv, Holds
  <2>15. \A d \in Contender : Performed(d)' => d \in proceed'
    BY <1>0, <2>1, <2>3, <2>5 DEF OverlapInv
  <2> QED BY <1>0, <2>1, <2>3, <2>10, <2>11, <2>12, <2>13, <2>14, <2>15
          DEF OverlapInv, BeforeProceed
<1>5. CASE CommitPerformance(c) \/ Raises(c)
  <2>1. /\ overlap' = overlap /\ (c \in taken' => c \in taken \/ stage[c] = "performing")
        /\ \A d \in Contender : d # c => stage'[d] = stage[d] /\ (d \in taken' => d \in taken)
        /\ stage'[c] \in {"performed", "gone"} /\ stage[c] # "gone"
        /\ stage'[c] = "performed" => stage[c] = "performing"
    BY <1>5 DEF CommitPerformance, Raises, Moves, Alive, TrialTypeOK
  <2>2. \A d \in Contender : Answered(d)' => Answered(d) \/ (d = c /\ stage[c] = "performing")
    <3>1. CASE CommitPerformance(c)
      <4> DEFINE message == IF Takes(c) THEN race.won ELSE race.lost
      <4>1. message \in Message
        BY AnswersAreMessages DEF TrialTypeOK
      <4>2. Says(c, message) /\ stage[c] = "performing"
        BY <3>1 DEF CommitPerformance, Moves
      <4> HIDE DEF message
      <4> QED BY <1>0, <4>1, <4>2, SaysStep DEF Answered
    <3>2. CASE Raises(c)
      <4> DEFINE message == IF stage[c] = "performing" THEN "failed" ELSE "fatal"
      <4>1. message \in Message \ Answers
        BY <1>1
      <4>2. Says(c, message)
        BY <3>2 DEF Raises
      <4> HIDE DEF message
      <4> QED BY <1>0, <4>1, <4>2, SaysStep DEF Answered
    <3> QED BY <1>5, <3>1, <3>2
  <2>3. \A d \in Contender : Performed(d)' => Performed(d)
    BY <2>1, <2>2 DEF Performed
  <2>4. \A d \in Contender : d \in taken' \/ Answered(d)' => stage'[d] \in {"performed", "gone"}
    BY <2>1, <2>2 DEF OverlapInv
  <2>5. \A d \in Contender : stage[d] = "gone" => stage'[d] = "gone"
    BY <2>1
  <2>6. \A d \in Contender :
          Holds(d) \/ stage[d] = "gone" => (Holds(d) \/ stage[d] = "gone")'
    BY <2>1 DEF Holds
  <2> QED BY <1>0, <2>1, <2>3, <2>4, <2>5, <2>6
          DEF OverlapInv, BeforeProceed, Contender, Other
<1> QED BY <1>3, <1>4, <1>5 DEF Contend

LEMMA OverlapStep ==
  ASSUME TrialTypeOK, OverlapInv, [RaceNext]_(harness)
  PROVE  OverlapInv'
<1>1. CASE UNCHANGED harness
  BY <1>1, QuietStep DEF harness, contenders, Answered, HasAnswer, Answers,
                         OverlapInv, BeforeProceed, Holds
<1> QED BY <1>1, CoordinatorOverlap, ContenderOverlap DEF RaceNext

LEMMA BetweenFacts ==
  ASSUME NEW says, \E w, x, y, z : says = <<w, x, y, z>>,
         NEW from \in 0..4, NEW to \in 0..4, from <= to
  PROVE  /\ from = to => Between(says, from, to) = <<>>
         /\ from < to =>
              /\ Between(says, from, to) # <<>>
              /\ Head(Between(says, from, to)) = says[from + 1]
              /\ Tail(Between(says, from, to)) = Between(says, from + 1, to)
         /\ to < 4 => Append(Between(says, from, to), says[to + 1]) = Between(says, from, to + 1)
<1> DEFINE T == {says[1], says[2], says[3], says[4]}
<1>1. \A i \in 1..4 : says[i] \in T
  OBVIOUS
<1>2. \A k \in 0..4, l \in 0..4 : k <= l =>
        Between(says, k, l) \in Seq(T) /\ Len(Between(says, k, l)) = l - k
  BY <1>1 DEF Between
<1> HIDE DEF T
<1>3. from = to => Between(says, from, to) = <<>>
  BY <1>2
<1>4. from < to => Between(says, from, to) # <<>> /\ Head(Between(says, from, to)) = says[from + 1]
  BY <1>2 DEF Between
<1>5. from < to => Tail(Between(says, from, to)) = Between(says, from + 1, to)
  BY <1>2 DEF Between
<1>6. to < 4 => Append(Between(says, from, to), says[to + 1]) = Between(says, from, to + 1)
  BY <1>1, <1>2 DEF Between
<1> QED BY <1>3, <1>4, <1>5, <1>6

LEMMA PipeEnds ==
  ASSUME NEW c \in Contender
  PROVE  /\ Said(c) \in 0..4 /\ Heard(c) \in 0..4
         /\ \E w, x, y, z : SaysInAll(c) = <<w, x, y, z>>
         /\ (\E w, x, y, z : SaysInAll(c) = <<w, x, y, z>>)'
BY DEF Said, Heard, SaysInAll

(* As long as nothing goes wrong the coordinator receives what is expected *)
(* of a contender that was started and has more to say.                    *)
LEMMA CalmReceive ==
  ASSUME TrialTypeOK, PipeInv, trouble = 0, trouble' = 0,
         NEW c \in Contender, Heard(c) < 4, stage[c] # "none",
         NEW expected, SaysInAll(c)[Heard(c) + 1] \in expected, NEW next,
         Receive(c, expected, next)
  PROVE  /\ next /\ Head(sent[c]) = SaysInAll(c)[Heard(c) + 1]
         /\ sent' = [sent EXCEPT ![c] = Between(SaysInAll(c), Heard(c) + 1, Said(c))]
         /\ UNCHANGED <<race, stage, proceed, taken>>
         /\ Heard(c) < Said(c)
<1>1. /\ Said(c) \in 0..4 /\ Heard(c) \in 0..4 /\ Heard(c) <= Said(c)
      /\ sent[c] = Between(SaysInAll(c), Heard(c), Said(c))
  BY PipeEnds DEF PipeInv
<1>2. ~Troubles
  BY DEF Troubles
<1>3. Heard(c) < Said(c)
  <2> SUFFICES ASSUME Heard(c) = Said(c) PROVE FALSE
    BY <1>1
  <2>1. sent[c] = <<>>
    BY <1>1, PipeEnds, BetweenFacts
  <2>2. ~Alive(c)
    BY <1>2, <2>1 DEF Receive
  <2>3. stage[c] = "gone"
    BY <2>2 DEF Alive
  <2> QED BY <2>3 DEF Said
<1>4. /\ sent[c] # <<>> /\ Head(sent[c]) = SaysInAll(c)[Heard(c) + 1]
      /\ Tail(sent[c]) = Between(SaysInAll(c), Heard(c) + 1, Said(c))
  <2>1. \E w, x, y, z : SaysInAll(c) = <<w, x, y, z>>
    BY PipeEnds
  <2>2. /\ Between(SaysInAll(c), Heard(c), Said(c)) # <<>>
        /\ Head(Between(SaysInAll(c), Heard(c), Said(c))) = SaysInAll(c)[Heard(c) + 1]
        /\ Tail(Between(SaysInAll(c), Heard(c), Said(c)))
             = Between(SaysInAll(c), Heard(c) + 1, Said(c))
    BY <1>1, <1>3, <2>1, BetweenFacts
  <2> QED BY <1>1, <2>2
<1>5. next /\ sent' = [sent EXCEPT ![c] = Tail(sent[c])]
  BY <1>4 DEF Receive
<1> QED BY <1>3, <1>4, <1>5 DEF Receive

LEMMA HearingStep ==
  ASSUME TrialTypeOK, PipeInv, UNCHANGED <<race, stage, taken>>,
         NEW c \in Contender, Heard(c) < Said(c),
         sent' = [sent EXCEPT ![c] = Between(SaysInAll(c), Heard(c) + 1, Said(c))],
         Heard(c)' = Heard(c) + 1,
         \A d \in Contender : d # c => Heard(d)' = Heard(d)
  PROVE  PipeInv'
<1> SUFFICES ASSUME NEW d \in Contender
             PROVE  /\ Heard(d)' <= Said(d)'
                    /\ sent'[d] = Between(SaysInAll(d)', Heard(d)', Said(d)')
  BY DEF PipeInv, Between
<1>1. Said(d)' = Said(d) /\ SaysInAll(d)' = SaysInAll(d)
  BY DEF Said, SaysInAll, AnswerOf
<1>2. Said(d) \in 0..4 /\ Heard(d) \in 0..4
  BY PipeEnds
<1>3. CASE d = c
  BY <1>1, <1>2, <1>3 DEF TrialTypeOK
<1>4. CASE d # c
  BY <1>1, <1>4 DEF TrialTypeOK, PipeInv
<1> QED BY <1>3, <1>4

LEMMA SayingStep ==
  ASSUME TrialTypeOK, PipeInv, UNCHANGED <<race, step>>,
         NEW c \in Contender, NEW message, Says(c, message),
         Said(c) < 4, Said(c)' = Said(c) + 1, message = (SaysInAll(c)')[Said(c) + 1],
         c \in taken \/ c \in taken' => Said(c) = 3,
         \A d \in Contender : d # c => Said(d)' = Said(d) /\ (d \in taken' <=> d \in taken)
  PROVE  PipeInv'
<1> SUFFICES ASSUME NEW d \in Contender
             PROVE  /\ Heard(d)' <= Said(d)'
                    /\ sent'[d] = Between(SaysInAll(d)', Heard(d)', Said(d)')
  BY DEF PipeInv, Between
<1>1. Heard(d)' = Heard(d)
  BY DEF Heard
<1>2. Said(d) \in 0..4 /\ Heard(d) \in 0..4 /\ Heard(d) <= Said(d)
      /\ sent[d] = Between(SaysInAll(d), Heard(d), Said(d))
  BY PipeEnds DEF PipeInv
<1>3. CASE d = c
  <2>1. Between(SaysInAll(c), Heard(c), Said(c)) = Between(SaysInAll(c)', Heard(c), Said(c))
    BY <1>2, <1>3 DEF SaysInAll, AnswerOf, Between
  <2>2. sent'[c] = Append(Between(SaysInAll(c)', Heard(c), Said(c)), (SaysInAll(c)')[Said(c) + 1])
    BY <1>2, <1>3, <2>1 DEF Says, TrialTypeOK
  <2>3. Append(Between(SaysInAll(c)', Heard(c), Said(c)), (SaysInAll(c)')[Said(c) + 1])
          = Between(SaysInAll(c)', Heard(c), Said(c) + 1)
    BY <1>2, <1>3, PipeEnds, BetweenFacts
  <2> QED BY <1>1, <1>2, <1>3, <2>2, <2>3
<1>4. CASE d # c
  <2>1. Said(d)' = Said(d) /\ SaysInAll(d)' = SaysInAll(d)
    BY <1>4 DEF SaysInAll, AnswerOf
  <2>2. sent'[d] = sent[d]
    BY <1>4 DEF Says, TrialTypeOK
  <2> QED BY <1>1, <1>2, <2>1, <2>2
<1> QED BY <1>3, <1>4

LEMMA SilentStep ==
  ASSUME TrialTypeOK, PipeInv, UNCHANGED <<race, sent, taken>>,
         \A c \in Contender : Said(c)' = Said(c) /\ Heard(c)' = Heard(c)
  PROVE  PipeInv'
<1> SUFFICES ASSUME NEW d \in Contender
             PROVE  /\ Heard(d)' <= Said(d)'
                    /\ sent'[d] = Between(SaysInAll(d)', Heard(d)', Said(d)')
  BY DEF PipeInv, Between
<1>1. SaysInAll(d)' = SaysInAll(d)
  BY DEF SaysInAll, AnswerOf
<1> QED BY <1>1 DEF PipeInv

(* A step of the coordinator that only goes on to its next step.           *)
LEMMA GoingOn ==
  ASSUME TrialTypeOK, CalmInv, UNCHANGED <<race, sent, stage, taken>>, proceed' \subseteq Contender,
         \A c \in Contender :
           /\ Heard(c)' = Heard(c)
           /\ NotStarted(c)' <=> NotStarted(c)
           /\ c \in proceed => c \in proceed'
           /\ c \in proceed' <=>
                (\/ step[1] = "proceed" /\ c < step[2]
                 \/ step[1] \in {"result", "pair", "check", "next"})',
         step'[1] \notin {"cleanup", "raised", "pair", "check"},
         step'[1] = "result" => step'[2] = 1
  PROVE  CalmInv'
<1>1. \A c \in Contender : Said(c)' = Said(c) /\ (Busy(c)' <=> Busy(c))
  BY DEF Said, Busy, Other
<1>2. PipeInv'
  BY <1>1, SilentStep DEF CalmInv
<1>3. StagesInv'
  BY <1>1 DEF CalmInv, StagesInv, Other
<1>4. AnswersInv'
  BY DEF AnswersInv
<1> QED BY <1>2, <1>3, <1>4 DEF CalmInv

(* A step with which the coordinator has heard one message more.           *)
LEMMA Hearing ==
  ASSUME TrialTypeOK, CalmInv, trouble = 0, trouble' = 0,
         NEW c \in Contender, Heard(c) < 4, stage[c] # "none",
         NEW expected, SaysInAll(c)[Heard(c) + 1] \in expected, NEW next,
         Receive(c, expected, next),
         next => /\ Heard(c)' = Heard(c) + 1
                 /\ \A d \in Contender :
                      /\ d # c => Heard(d)' = Heard(d)
                      /\ NotStarted(d)' <=> NotStarted(d)
                      /\ (\/ step[1] = "proceed" /\ d < step[2]
                          \/ step[1] \in {"result", "pair", "check", "next"})'
                         <=> (\/ step[1] = "proceed" /\ d < step[2]
                              \/ step[1] \in {"result", "pair", "check", "next"})
                 /\ step'[1] \notin {"cleanup", "raised"}
  PROVE  /\ PipeInv' /\ StagesInv' /\ next /\ Head(sent[c]) = SaysInAll(c)[Heard(c) + 1]
         /\ \A d \in Contender : AnswerOf(d)' = AnswerOf(d)
<1>1. /\ next /\ Head(sent[c]) = SaysInAll(c)[Heard(c) + 1]
      /\ sent' = [sent EXCEPT ![c] = Between(SaysInAll(c), Heard(c) + 1, Said(c))]
      /\ UNCHANGED <<race, stage, proceed, taken>>
      /\ Heard(c) < Said(c)
  BY CalmReceive DEF CalmInv
<1>2. PipeInv'
  BY <1>1, HearingStep DEF CalmInv
<1>3. \A d \in Contender : Said(d)' = Said(d) /\ (Busy(d)' <=> Busy(d))
  BY <1>1 DEF Said, Busy, Other
<1>4. StagesInv'
  BY <1>1, <1>3 DEF CalmInv, StagesInv, Other
<1>5. \A d \in Contender : AnswerOf(d)' = AnswerOf(d)
  BY <1>1 DEF AnswerOf
<1> QED BY <1>1, <1>2, <1>4, <1>5

LEMMA CoordinatorCalm ==
  ASSUME TrialTypeOK, CalmInv, trouble = 0, trouble' = 0, Coordinate
  PROVE  CalmInv'
<1> USE DEF At, Goes, Fails, GoesOn
<1>0. ~Troubles
  BY DEF Troubles
<1>1. CASE EnterBarrier
  <2>1. UNCHANGED <<race, sent, stage, proceed, taken>>
    BY <1>1 DEF EnterBarrier, contenders
  <2> QED BY <1>1, <2>1, GoingOn
          DEF EnterBarrier, Heard, NotStarted, CalmInv, StagesInv, Contender, TrialTypeOK
<1>2. CASE AwaitWaiters
  <2>1. UNCHANGED <<race, sent, stage, proceed, taken>>
    BY <1>2 DEF AwaitWaiters, contenders
  <2>2. step = <<"await", 1>> /\ \A c \in Contender : Alive(c)
    BY <1>2 DEF AwaitWaiters, Alive, CalmInv, StagesInv, NotStarted, Said
  <2>3. step' = <<"release", 0>>
    BY <1>0, <1>2, <2>2 DEF AwaitWaiters
  <2> QED BY <2>1, <2>2, <2>3, GoingOn
          DEF Heard, NotStarted, CalmInv, StagesInv, TrialTypeOK
<1>3. CASE ReleaseBarrier
  <2>1. UNCHANGED <<race, sent, stage, proceed, taken>>
    BY <1>3 DEF ReleaseBarrier, contenders
  <2> QED BY <1>3, <2>1, GoingOn
          DEF ReleaseBarrier, Heard, NotStarted, CalmInv, StagesInv, Contender, TrialTypeOK
<1>4. CASE RequireOverlap
  <2>1. UNCHANGED <<race, sent, stage, proceed, taken>>
    BY <1>4 DEF RequireOverlap, contenders
  <2>2. step = <<"overlap", 1>>
    BY <1>4 DEF RequireOverlap
  <2>3. \A c \in Contender : Holds(c)
    BY <2>2 DEF CalmInv, PipeInv, StagesInv, Heard, Said, Holds, TrialTypeOK, Stage
  <2>4. step' = <<"proceed", 1>>
    BY <1>4, <2>3 DEF RequireOverlap
  <2> QED BY <2>1, <2>2, <2>4, GoingOn
          DEF Heard, NotStarted, CalmInv, StagesInv, Contender, TrialTypeOK
<1>5. CASE Cleanup
  <2>1. /\ step[1] = "pair" /\ step' = <<"check", 0, step[3], step[4]>>
        /\ UNCHANGED <<race, sent, proceed, taken>>
        /\ \A c \in Contender : stage'[c] = "gone"
    BY <1>5 DEF Cleanup, Finished, CalmInv, StagesInv
  <2>2. \A c \in Contender : Said(c) = 4 /\ Heard(c) = 4 /\ Heard(c)' = 4 /\ Said(c)' = 4
    BY <2>1, PipeEnds DEF Heard, Said, CalmInv, PipeInv
  <2>3. PipeInv'
    BY <2>1, <2>2, SilentStep DEF CalmInv
  <2>4. \A c \in Contender : ~Busy(c) /\ ~Busy(c)'
    BY <2>1, <2>2 DEF Busy, Other, Contender, Said
  <2>5. StagesInv'
    BY <2>1, <2>2, <2>4 DEF CalmInv, StagesInv, NotStarted, Other
  <2>6. AnswersInv'
    BY <2>1 DEF CalmInv, AnswersInv, AnswerOf
  <2> QED BY <2>3, <2>5, <2>6 DEF CalmInv
<1>6. CASE Recorded
  <2>1. UNCHANGED <<race, sent, stage, proceed, taken>> /\ step[1] = "check"
    BY <1>6 DEF Recorded, contenders
  <2>2. step[3] = AnswerOf(1) /\ step[4] = AnswerOf(2)
    BY <2>1 DEF CalmInv, AnswersInv
  <2>3. \A c \in Contender : Said(c) = 4 /\ ~Busy(c)
    BY <2>1, PipeEnds DEF Heard, Said, CalmInv, PipeInv, Busy, Other, Contender
  <2>4. taken = {1} \/ taken = {2}
    <3>1. 1 \in Contender /\ Other(1) = 2 /\ taken \subseteq {1, 2}
      BY DEF Contender, Other, TrialTypeOK
    <3>2. (1 \in taken \/ 2 \in taken) /\ ~(1 \in taken /\ 2 \in taken)
      BY <2>3, <3>1 DEF CalmInv, StagesInv
    <3> QED BY <3>1, <3>2
  <2>5. \E c \in Contender : taken = {c}
    BY <2>4 DEF Contender
  <2>6. {step[3], step[4]} = Answers
    BY <2>2, <2>4 DEF AnswerOf, Answers
  <2>7. step' = <<"next", 0>>
    <3>1. Confirmed(<<step[3], step[4]>>)
      <4> DEFINE answers == <<step[3], step[4]>>
      <4>1. answers[1] = step[3] /\ answers[2] = step[4]
        OBVIOUS
      <4>2. {answers[1], answers[2]} = Answers
        BY <2>6, <4>1
      <4> HIDE DEF answers
      <4>3. Confirmed(answers)
        BY <2>5, <4>2 DEF Confirmed
      <4> QED BY <4>3 DEF answers
    <3> QED BY <1>6, <3>1 DEF Recorded
  <2> QED BY <2>1, <2>7, GoingOn DEF Heard, NotStarted, CalmInv, StagesInv, TrialTypeOK
<1>7. CASE NextSeed
  <2>1. /\ step' = <<"enter", 0>> /\ proceed' = {} /\ taken' = {}
        /\ \A c \in Contender : stage'[c] = "none" /\ sent'[c] = <<>>
    BY <1>7 DEF NextSeed
  <2>2. \A c \in Contender : Heard(c)' = 0 /\ Said(c)' = 0 /\ NotStarted(c)'
    BY <2>1 DEF Heard, Said, NotStarted, Contender
  <2>3. PipeInv'
    BY <2>1, <2>2 DEF PipeInv, Between
  <2>4. StagesInv'
    BY <2>1, <2>2 DEF StagesInv
  <2> QED BY <2>1, <2>3, <2>4 DEF CalmInv, AnswersInv
<1>8. ASSUME NEW c \in Contender, StartContender(c) PROVE CalmInv'
  <2>1. /\ step = <<"start", c>> /\ step' = <<"session", c>>
        /\ UNCHANGED <<race, sent, proceed, taken>>
        /\ stage' = [stage EXCEPT ![c] = "started"]
    BY <1>8 DEF StartContender
  <2>2. stage[c] = "none"
    BY <2>1 DEF CalmInv, StagesInv, NotStarted, Contender
  <2>3. \A d \in Contender : Said(d)' = Said(d) /\ Heard(d)' = Heard(d)
    BY <2>1, <2>2 DEF Said, Heard, TrialTypeOK
  <2>4. PipeInv'
    BY <2>1, <2>3, SilentStep DEF CalmInv
  <2>5. proceed = {} /\ proceed' = {}
    BY <2>1 DEF CalmInv, StagesInv, TrialTypeOK
  <2>6. StagesInv'
    BY <2>1, <2>2, <2>3, <2>5 DEF CalmInv, StagesInv, NotStarted, Contender, Other,
          Busy, TrialTypeOK
  <2> QED BY <2>1, <2>4, <2>6 DEF CalmInv, AnswersInv
<1>9. ASSUME NEW c \in Contender, SendProceed(c) PROVE CalmInv'
  <2>1. UNCHANGED <<race, sent, stage, taken>> /\ step = <<"proceed", c>>
    BY <1>9 DEF SendProceed
  <2>2. Alive(c)
    BY <2>1 DEF Alive, CalmInv, StagesInv, NotStarted, Said, Contender
  <2>3. /\ proceed' = proceed \cup {c}
        /\ step' = IF c = 1 THEN <<"proceed", 2>> ELSE <<"result", 1>>
    BY <1>9, <2>2 DEF SendProceed
  <2> QED BY <2>1, <2>3, GoingOn
          DEF Heard, NotStarted, CalmInv, StagesInv, Contender, TrialTypeOK
<1>10. ASSUME NEW c \in Contender, ReceiveSession(c) PROVE CalmInv'
  <2> DEFINE next == IF c = 1 THEN Goes("start", 2) ELSE Goes("ready", 1)
  <2>1. step = <<"session", c>> /\ Receive(c, {"session"}, next)
    BY <1>10 DEF ReceiveSession
  <2>2. Heard(c) = 0 /\ stage[c] # "none"
    BY <2>1 DEF Heard, CalmInv, StagesInv, NotStarted, Contender
  <2>3. next => /\ Heard(c)' = Heard(c) + 1
                /\ \A d \in Contender :
                     /\ d # c => Heard(d)' = Heard(d)
                     /\ NotStarted(d)' <=> NotStarted(d)
                /\ step'[1] \in {"start", "ready"}
    BY <2>1 DEF Heard, NotStarted, Contender
  <2>4. SaysInAll(c)[Heard(c) + 1] \in {"session"}
    BY <2>2 DEF SaysInAll
  <2> HIDE DEF next
  <2>5. PipeInv' /\ StagesInv' /\ next
    BY <2>1, <2>2, <2>3, <2>4, Hearing
  <2> QED BY <2>3, <2>5 DEF CalmInv, AnswersInv
<1>11. ASSUME NEW c \in Contender, ReceiveWaiting(c) PROVE CalmInv'
  <2> DEFINE next == GoesOn("ready", c, "await")
  <2>1. step = <<"ready", c>> /\ Receive(c, {"waiting"}, next)
    BY <1>11 DEF ReceiveWaiting
  <2>2. Heard(c) = 1 /\ stage[c] # "none"
    BY <2>1 DEF Heard, CalmInv, StagesInv, NotStarted, Contender
  <2>3. next => /\ Heard(c)' = Heard(c) + 1
                /\ \A d \in Contender :
                     /\ d # c => Heard(d)' = Heard(d)
                     /\ NotStarted(d)' <=> NotStarted(d)
                /\ step'[1] \in {"ready", "await"}
    BY <2>1 DEF Heard, NotStarted, Contender
  <2>4. SaysInAll(c)[Heard(c) + 1] \in {"waiting"}
    BY <2>2 DEF SaysInAll
  <2> HIDE DEF next
  <2>5. PipeInv' /\ StagesInv' /\ next
    BY <2>1, <2>2, <2>3, <2>4, Hearing
  <2> QED BY <2>3, <2>5 DEF CalmInv, AnswersInv
<1>12. ASSUME NEW c \in Contender, ReceiveAcquired(c) PROVE CalmInv'
  <2> DEFINE next == GoesOn("acquired", c, "overlap")
  <2>1. step = <<"acquired", c>> /\ Receive(c, {"acquired"}, next)
    BY <1>12 DEF ReceiveAcquired
  <2>2. Heard(c) = 2 /\ stage[c] # "none"
    BY <2>1 DEF Heard, CalmInv, StagesInv, NotStarted, Contender
  <2>3. next => /\ Heard(c)' = Heard(c) + 1
                /\ \A d \in Contender :
                     /\ d # c => Heard(d)' = Heard(d)
                     /\ NotStarted(d)' <=> NotStarted(d)
                /\ step'[1] \in {"acquired", "overlap"}
    BY <2>1 DEF Heard, NotStarted, Contender
  <2>4. SaysInAll(c)[Heard(c) + 1] \in {"acquired"}
    BY <2>2 DEF SaysInAll
  <2> HIDE DEF next
  <2>5. PipeInv' /\ StagesInv' /\ next
    BY <2>1, <2>2, <2>3, <2>4, Hearing
  <2> QED BY <2>3, <2>5 DEF CalmInv, AnswersInv
<1>13. ASSUME NEW c \in Contender, ReceiveResult(c) PROVE CalmInv'
  <2> DEFINE next == step' = IF c = 1 THEN <<"result", 2, Head(sent[1])>>
                             ELSE <<"pair", 0, step[3], Head(sent[2])>>
  <2>1. step[1] = "result" /\ step[2] = c /\ Receive(c, Answers, next)
    BY <1>13 DEF ReceiveResult
  <2>2. Heard(c) = 3 /\ stage[c] # "none"
    BY <2>1 DEF Heard, CalmInv, StagesInv, NotStarted, Contender
  <2>3. next => /\ Heard(c)' = Heard(c) + 1
                /\ \A d \in Contender :
                     /\ d # c => Heard(d)' = Heard(d)
                     /\ NotStarted(d)' <=> NotStarted(d)
                /\ step'[1] \in {"result", "pair"}
    BY <2>1 DEF Heard, NotStarted, Contender
  <2>4. SaysInAll(c)[Heard(c) + 1] \in Answers /\ SaysInAll(c)[Heard(c) + 1] = AnswerOf(c)
    BY <2>2 DEF SaysInAll, AnswerOf, Answers
  <2> HIDE DEF next
  <2>5. /\ PipeInv' /\ StagesInv' /\ next /\ Head(sent[c]) = AnswerOf(c)
        /\ \A d \in Contender : AnswerOf(d)' = AnswerOf(d)
    BY <2>1, <2>2, <2>3, <2>4, Hearing
  <2>6. AnswersInv'
    BY <2>1, <2>5 DEF next, CalmInv, AnswersInv, Contender
  <2> QED BY <2>5, <2>6 DEF CalmInv
<1> QED BY <1>1, <1>2, <1>3, <1>4, <1>5, <1>6, <1>7, <1>8, <1>9, <1>10, <1>11, <1>12, <1>13
        DEF Coordinate

LEMMA ContenderCalm ==
  ASSUME TrialTypeOK, CalmInv, trouble = 0, trouble' = 0,
         NEW c \in Contender, Contend(c) \/ Raises(c) \/ Dies(c)
  PROVE  CalmInv'
<1> DEFINE o == Other(c)
<1>0. race' = race /\ step' = step /\ proceed' = proceed
  BY DEF Contend, FoundSession, Connect, RequestLock, GrantLock,
         SayAcquired, Perform, CommitPerformance, Leave, Raises,
         Dies, Contends
<1>1. ~Raises(c) /\ ~Dies(c)
  BY DEF Raises, Dies, Troubles
<1>2. o \in Contender /\ o # c /\ Other(o) = c /\ Contender = {c, o}
  BY DEF Contender, Other
<1>3. \A d \in Contender : Heard(d)' = Heard(d) /\ (NotStarted(d)' <=> NotStarted(d))
  BY <1>0 DEF Heard, NotStarted
<1>4. CASE FoundSession(c) \/ Connect(c) \/ SayAcquired(c)
  <2>1. /\ taken' = taken /\ stage'[o] = stage[o]
        /\ \/ /\ stage[c] = "started" /\ stage'[c] = "session" /\ Says(c, "session")
           \/ /\ stage[c] = "session" /\ stage'[c] = "connected" /\ Says(c, "waiting")
           \/ /\ stage[c] = "holding" /\ stage'[c] = "acquired" /\ Says(c, "acquired")
    BY <1>2, <1>4 DEF FoundSession, Connect, SayAcquired, Moves, TrialTypeOK
  <2>2. /\ Said(c) \in 0..2 /\ Said(c)' = Said(c) + 1 /\ Said(o)' = Said(o)
        /\ Says(c, (SaysInAll(c)')[Said(c) + 1])
    BY <2>1 DEF Said, SaysInAll
  <2>3. c \notin taken
    BY <2>2 DEF CalmInv, StagesInv
  <2>4. PipeInv'
    BY <1>0, <1>2, <2>1, <2>2, <2>3, SayingStep DEF CalmInv
  <2>5. StagesInv'
    BY <1>0, <1>2, <1>3, <2>1, <2>2, <2>3 DEF CalmInv, StagesInv, Busy, Other, Contender
  <2>6. AnswersInv'
    BY <1>0, <2>1 DEF CalmInv, AnswersInv, AnswerOf
  <2> QED BY <2>4, <2>5, <2>6 DEF CalmInv
<1>5. CASE RequestLock(c) \/ GrantLock(c) \/ Leave(c)
  <2>1. /\ taken' = taken /\ stage'[o] = stage[o] /\ sent' = sent
        /\ \/ stage[c] \in {"connected", "waiting"} /\ stage'[c] \in {"waiting", "holding"}
           \/ stage[c] = "performed" /\ stage'[c] = "gone"
    BY <1>2, <1>5 DEF RequestLock, GrantLock, Leave, Moves, TrialTypeOK
  <2>2. Said(c)' = Said(c) /\ Said(o)' = Said(o)
    BY <2>1 DEF Said
  <2>3. PipeInv'
    BY <1>0, <1>2, <1>3, <2>1, <2>2, SilentStep DEF CalmInv
  <2>4. StagesInv'
    BY <1>0, <1>2, <1>3, <2>1, <2>2 DEF CalmInv, StagesInv, Busy, Other, Contender
  <2>5. AnswersInv'
    BY <1>0, <2>1 DEF CalmInv, AnswersInv, AnswerOf
  <2> QED BY <2>3, <2>4, <2>5 DEF CalmInv
<1>6. CASE Perform(c)
  <2>1. /\ c \in proceed /\ taken' = taken /\ stage'[o] = stage[o] /\ stage[c] = "acquired"
        /\ \/ ~Busy(c) /\ stage'[c] = "performing" /\ sent' = sent
           \/ Busy(c) /\ stage'[c] = "performed" /\ Says(c, race.lost)
    BY <1>2, <1>6 DEF Perform, MayPerform, Moves, TrialTypeOK
  <2>2. c \notin taken /\ Said(c) = 3
    BY <2>1 DEF CalmInv, StagesInv, Said
  <2>3. Said(o)' = Said(o)
    BY <2>1 DEF Said
  <2>4. AnswersInv'
    BY <1>0, <2>1 DEF CalmInv, AnswersInv, AnswerOf
  <2>5. CASE ~Busy(c) /\ stage'[c] = "performing" /\ sent' = sent
    <3>1. Said(c)' = Said(c)
      BY <2>2, <2>5 DEF Said
    <3>2. PipeInv'
      BY <1>0, <1>2, <1>3, <2>1, <2>3, <2>5, <3>1, SilentStep DEF CalmInv
    <3>3. StagesInv'
      BY <1>0, <1>2, <1>3, <2>1, <2>2, <2>3, <2>5, <3>1
      DEF CalmInv, StagesInv, Busy, Other, Contender
    <3> QED BY <2>4, <3>2, <3>3 DEF CalmInv
  <2>6. CASE Busy(c) /\ stage'[c] = "performed" /\ Says(c, race.lost)
    <3>1. Said(c)' = Said(c) + 1 /\ Says(c, (SaysInAll(c)')[Said(c) + 1])
      BY <1>0, <2>1, <2>2, <2>6 DEF Said, SaysInAll, AnswerOf
    <3>2. PipeInv'
      BY <1>0, <1>2, <2>1, <2>2, <2>3, <3>1, SayingStep DEF CalmInv
    <3>3. StagesInv'
      BY <1>0, <1>2, <1>3, <2>1, <2>2, <2>3, <2>6, <3>1
      DEF CalmInv, StagesInv, Busy, Other, Contender
    <3> QED BY <2>4, <3>2, <3>3 DEF CalmInv
  <2> QED BY <2>1, <2>5, <2>6
<1>7. CASE CommitPerformance(c)
  <2>1. /\ stage[c] = "performing" /\ stage'[c] = "performed" /\ stage'[o] = stage[o]
        /\ taken' = IF taken = {} THEN taken \cup {c} ELSE taken
        /\ Says(c, IF taken = {} THEN race.won ELSE race.lost)
    BY <1>2, <1>7 DEF CommitPerformance, Takes, Moves, TrialTypeOK
  <2>2. c \notin taken /\ c \in proceed /\ Said(c) = 3 /\ Said(c)' = 4 /\ Said(o)' = Said(o)
    BY <2>1 DEF CalmInv, StagesInv, Said
  <2>3. (taken' = {c} /\ taken = {}) \/ (taken' = taken /\ taken = {o})
    <3>1. taken \subseteq {c, o}
      BY <1>2 DEF TrialTypeOK
    <3>2. taken = {} \/ taken = {o}
      BY <2>2, <3>1
    <3>3. CASE taken = {}
      <4>1. {} \cup {c} = {c}
        OBVIOUS
      <4>2. taken' = taken \cup {c}
        BY <2>1, <3>3
      <4>3. taken' = {c}
        BY ONLY <3>3, <4>1, <4>2
      <4> QED BY <3>3, <4>3
    <3>4. CASE taken = {o}
      <4>1. taken # {}
        BY <3>4
      <4> QED BY <2>1, <3>4, <4>1
    <3> QED BY <3>2, <3>3, <3>4
  <2>4. Says(c, (SaysInAll(c)')[Said(c) + 1])
    BY <1>0, <1>2, <2>1, <2>2, <2>3 DEF SaysInAll, AnswerOf
  <2>5. PipeInv'
    BY <1>0, <1>2, <2>2, <2>3, <2>4, SayingStep DEF CalmInv
  <2>6. StagesInv'
    BY <1>0, <1>2, <1>3, <2>1, <2>2, <2>3
    DEF CalmInv, StagesInv, Busy, Other, Contender
  <2>7. AnswersInv'
    <3>1. ASSUME NEW d \in Contender, Heard(d) = 4
          PROVE  AnswerOf(d)' = AnswerOf(d)
      BY <1>0, <1>2, <2>2, <2>3, <3>1, PipeEnds DEF CalmInv, PipeInv, AnswerOf
    <3>2. /\ step[1] = "result" /\ step[2] = 2 => Heard(1) = 4
          /\ step[1] \in {"pair", "check"} => Heard(1) = 4 /\ Heard(2) = 4
      BY DEF Heard
    <3> QED BY <1>0, <3>1, <3>2 DEF CalmInv, AnswersInv, Contender
  <2> QED BY <2>5, <2>6, <2>7 DEF CalmInv
<1> QED BY <1>1, <1>4, <1>5, <1>6, <1>7 DEF Contend

LEMMA TroubleStays ==
  ASSUME TrialTypeOK, RaceNext, trouble' = 0
  PROVE  trouble = 0
<1>1. trouble' = trouble \/ trouble' = trouble + 1
  BY DEF RaceNext, Coordinate, EnterBarrier, StartContender,
         ReceiveSession, ReceiveWaiting, ReceiveAcquired,
         ReceiveResult, Receive, AwaitWaiters, ReleaseBarrier,
         RequireOverlap, SendProceed, Cleanup, Recorded,
         NextSeed, Contend, FoundSession, Connect,
         RequestLock, GrantLock, SayAcquired, Perform,
         CommitPerformance, Leave, Raises, Dies, Troubles
<1> QED BY <1>1 DEF TrialTypeOK

LEMMA TrialStep ==
  ASSUME TrialInv, [RaceNext]_(harness)
  PROVE  TrialInv'
<1>1. TrialTypeOK' /\ OverlapInv'
  BY TrialTypeStep, OverlapStep DEF TrialInv
<1>2. CASE RaceNext
  <2>1. ASSUME trouble' = 0 PROVE CalmInv'
    <3>1. TrialTypeOK /\ trouble = 0 /\ CalmInv
      BY <1>2, <2>1, TroubleStays DEF TrialInv
    <3> QED BY <1>2, <2>1, <3>1, CoordinatorCalm, ContenderCalm DEF RaceNext
  <2> QED BY <1>1, <2>1 DEF TrialInv
<1>3. CASE UNCHANGED harness
  <2>1. trouble' = trouble /\ (CalmInv' <=> CalmInv)
    BY <1>3 DEF harness, contenders, CalmInv, PipeInv, StagesInv, AnswersInv, SaysInAll, Said,
                Heard, AnswerOf, Between, NotStarted, Busy, Other
  <2> QED BY <1>1, <2>1 DEF TrialInv
<1> QED BY <1>2, <1>3

(* The evidence of a race, in a corpus of any length: a recorded trial is  *)
(* one whose calls met behind the barrier, and a corpus in which nothing   *)
(* failed is not broken off.                                               *)
THEOREM RecordedTrialsAreSound == RaceSpec => []TrialsAreSound
<1>1. TrialInv /\ [RaceNext]_(harness) => TrialInv'
  BY TrialStep
<1>2. TrialInv => TrialsAreSound
  BY DEF TrialInv, TrialTypeOK, OverlapInv, CalmInv, StagesInv, TrialsAreSound
<1> QED BY <1>1, <1>2, TrialInit, PTL DEF RaceSpec

-----------------------------------------------------------------------------
(* The release evidence: what stands in a file was written with its build  *)
(* pinned, its exit status is that of its tests, and unless the build      *)
(* changed meanwhile, all of it was observed on the build it names.        *)
Observed ==
  {"collect", "corpus", "publish", "publish_races", "installed", "cold", "publish_surface"}

RunnerInv ==
  /\ whole => ran \subseteq {build}
  /\ runner.step \in Observed => ran # {}

EvidenceInv ==
  /\ RunnerInv
  /\ file = [k \in Lane |-> file[k]]
  /\ \A k \in Lane : file[k] # Nothing /\ file[k].whole => file[k].ran = {file[k].build}
  /\ \A k \in Lane : file[k] # Nothing => file[k].build \in Clean
  /\ file["deterministic"] # Nothing =>
       file["deterministic"].exit = ExitCode(file["deterministic"].tests)
  /\ ClaimsAreBacked

(* Nothing is written but by the three publishing steps, each of which     *)
(* pins the build; the report is made of files that pass every check.      *)
LEMMA EvidenceStarts == EvidenceInit => EvidenceInv
BY DEF EvidenceInit, EvidenceInv, RunnerInv, Observed, NoRunner, ClaimsAreBacked, Lane

LEMMA IdleRunner == RunnerEnds => RunnerInv'
BY DEF RunnerEnds, RunnerInv, Observed, NoRunner

LEMMA WrittenIsPinned ==
  ASSUME EvidenceInv, NEW lane \in Lane, NEW a, Written(lane, a),
         BuildPinned, a.build = build, UNCHANGED report, a.whole => a.ran = {a.build},
         lane = "deterministic" => a.exit = ExitCode(a.tests)
  PROVE  EvidenceInv'
<1>1. file' = [file EXCEPT ![lane] = a]
  BY DEF Written
<1>2. a.build \in Clean
  BY DEF BuildPinned, ValidBuild
<1>3. /\ (file = [k \in Lane |-> file[k]])'
      /\ file'[lane] = a /\ \A k \in Lane \ {lane} : file'[k] = file[k]
  BY <1>1 DEF EvidenceInv
<1>4. "deterministic" \in Lane
  BY DEF Lane
<1>5. (file["deterministic"] # Nothing =>
         file["deterministic"].exit = ExitCode(file["deterministic"].tests))'
  BY <1>3, <1>4 DEF EvidenceInv, ExitCode
<1>6. ClaimsAreBacked'
  BY DEF EvidenceInv, ClaimsAreBacked
<1>7. RunnerInv'
  BY IdleRunner DEF Written
<1> QED BY <1>2, <1>3, <1>5, <1>6, <1>7 DEF EvidenceInv

LEMMA ReportIsBacked ==
  ASSUME EvidenceInv, WriteClaimReport
  PROVE  ClaimsAreBacked'
<1> DEFINE tested == file["deterministic"]
<1>1. "deterministic" \in Lane /\ "races" \in Lane /\ "surface" \in Lane
  BY DEF Lane
<1>2. /\ \A k \in Lane : file[k] # Nothing
      /\ StrictRelease(tested) /\ ReleaseMatrix(tested)
      /\ StrictSurface(file["surface"]) /\ ClaimSources(file)
      /\ CommonPin(file) /\ FromWheels(file)
      /\ report' = file
  BY DEF WriteClaimReport, RequiredArtifacts
<1>3. tested.build \in Wheel \cap Clean
  <2>1. tested.build \in Clean
    BY <1>1, <1>2 DEF EvidenceInv
  <2>2. InstallationKind(tested.build) = "wheel"
    BY <1>1, <1>2 DEF FromWheels
  <2> QED BY <2>1, <2>2 DEF InstallationKind
<1>4. \A k \in Lane : file[k].build = tested.build
  BY <1>1, <1>2 DEF CommonPin
<1>5. \A k \in Lane : file[k].whole => file[k].ran = {tested.build}
  BY <1>2, <1>4 DEF EvidenceInv
<1>6. \A c \in Case : \A n \in nodes[c] : tested.tests[n] = "passed"
  <2> SUFFICES ASSUME NEW c \in Case, NEW n \in nodes[c]
               PROVE  tested.tests[n] = "passed"
    OBVIOUS
  <2>1. n \in Node
    BY MatrixAssumption
  <2>2. Status(tested.tests[n]) = "passed"
    BY <1>2 DEF ReleaseMatrix
  <2>3. tested.exit = 0 /\ tested.exit = ExitCode(tested.tests)
    BY <1>1, <1>2 DEF EvidenceInv, StrictRelease
  <2>4. tested.tests[n] \in {"passed", "skipped"}
    BY <2>1, <2>3 DEF ExitCode
  <2> QED BY <2>2, <2>4 DEF Status
<1>7. tested.trial = "agree" /\ file["races"].trial = "agree"
  BY <1>2 DEF StrictRelease, ClaimSources, StandaloneMatrix,
              RaceVerdict
<1>8. file["surface"].passed = AUDITS
  BY <1>2 DEF StrictSurface
<1> QED BY <1>2, <1>3, <1>4, <1>5, <1>6, <1>7, <1>8 DEF ClaimsAreBacked, AUDITS

LEMMA EvidenceRest ==
  ASSUME EvidenceInv, RunnerInv', UNCHANGED <<file, report>>
  PROVE  EvidenceInv'
BY DEF EvidenceInv, ClaimsAreBacked, ExitCode

LEMMA EvidenceRaises ==
  ASSUME EvidenceInv, RunnerRaises, UNCHANGED report
  PROVE  EvidenceInv'
BY EvidenceRest, IdleRunner DEF RunnerRaises

(* A step of a command that goes on, with an observation or after one.     *)
LEMMA EvidenceGoesOn ==
  ASSUME EvidenceInv, UNCHANGED <<build, file, report>>, runner' # NoRunner,
         \/ Observes
         \/ UNCHANGED <<ran, whole>> /\ (runner.step \in Observed \/ runner'.step \notin Observed)
  PROVE  EvidenceInv'
<1>1. RunnerInv
  BY DEF EvidenceInv
<1>2. RunnerInv'
  BY <1>1 DEF RunnerInv, Observes
<1> QED BY <1>2, EvidenceRest

(* What is written tells of the build it names, unless that changed.       *)
LEMMA RanOnTheBuild ==
  ASSUME EvidenceInv, runner.step \in Observed
  PROVE  whole => ran = {build}
BY DEF EvidenceInv, RunnerInv

LEMMA EvidenceStep ==
  ASSUME EvidenceInv, [EvidenceNext]_(evidence)
  PROVE  EvidenceInv'
<1>1. CASE RunDeterministic
  BY <1>1, EvidenceGoesOn DEF RunDeterministic, NoRunner, Observed
<1>2. CASE RunTests
  <2>1. CASE RunnerRaises
    BY <1>2, <2>1, EvidenceRaises DEF RunTests
  <2>2. CASE Observes /\ runner'.step = "collect"
    BY <1>2, <2>2, EvidenceGoesOn DEF RunTests, RunnerRaises, NoRunner
  <2> QED BY <1>2, <2>1, <2>2 DEF RunTests
<1>3. CASE Collect
  <2>1. CASE RunnerRaises
    BY <1>3, <2>1, EvidenceRaises DEF Collect
  <2>2. CASE runner'.step = "corpus" /\ UNCHANGED <<ran, whole, file>>
    BY <1>3, <2>2, EvidenceGoesOn DEF Collect, NoRunner, Observed
  <2> QED BY <1>3, <2>1, <2>2 DEF Collect
<1>4. CASE RunCorpus
  <2>1. CASE RunnerRaises
    BY <1>4, <2>1, EvidenceRaises DEF RunCorpus
  <2>2. CASE Observes /\ UNCHANGED file /\ runner'.step = "publish"
    BY <1>4, <2>2, EvidenceGoesOn DEF RunCorpus, NoRunner
  <2> QED BY <1>4, <2>1, <2>2 DEF RunCorpus
<1>5. CASE Publish
  <2> DEFINE a == [build |-> build, ran |-> ran, whole |-> whole, tests |-> runner.tests,
                   exit |-> ExitCode(runner.tests), trial |-> runner.trial]
  <2>1. CASE RunnerRaises
    BY <1>5, <2>1, EvidenceRaises DEF Publish
  <2>2. CASE BuildPinned /\ Written("deterministic", a)
    <3>1. whole => ran = {build}
      BY <1>5, RanOnTheBuild DEF Publish, Observed
    <3> QED BY <1>5, <2>2, <3>1, WrittenIsPinned DEF Publish, Lane
  <2> QED BY <1>5, <2>1, <2>2 DEF Publish
<1>6. CASE RunRaces
  BY <1>6, EvidenceGoesOn DEF RunRaces, NoRunner
<1>7. CASE PublishRaces
  <2> DEFINE a == [build |-> build, ran |-> ran, whole |-> whole, trial |-> runner.trial]
  <2>1. CASE RunnerRaises
    BY <1>7, <2>1, EvidenceRaises DEF PublishRaces
  <2>2. CASE BuildPinned /\ Written("races", a)
    <3>1. whole => ran = {build}
      BY <1>7, RanOnTheBuild DEF PublishRaces, Observed
    <3> QED BY <1>7, <2>2, <3>1, WrittenIsPinned DEF PublishRaces, Lane
  <2> QED BY <1>7, <2>1, <2>2 DEF PublishRaces
<1>8. CASE RunSurface
  BY <1>8, EvidenceGoesOn DEF RunSurface, NoRunner, Observed
<1>9. CASE AuditRepository \/ AuditInstalledEnvironment \/ AuditColdSchema
  <2>1. /\ Observes /\ UNCHANGED <<build, file, report>>
        /\ runner'.step \in {"installed", "cold", "publish_surface"}
    BY <1>9 DEF AuditRepository, AuditInstalledEnvironment, AuditColdSchema, Audit
  <2> QED BY <2>1, EvidenceGoesOn DEF NoRunner
<1>10. CASE PublishSurface
  <2> DEFINE a == [build |-> build, ran |-> ran, whole |-> whole, passed |-> runner.passed]
  <2>1. CASE RunnerRaises
    BY <1>10, <2>1, EvidenceRaises DEF PublishSurface
  <2>2. CASE BuildPinned /\ Written("surface", a)
    <3>1. whole => ran = {build}
      BY <1>10, RanOnTheBuild DEF PublishSurface, Observed
    <3> QED BY <1>10, <2>2, <3>1, WrittenIsPinned DEF PublishSurface, Lane
  <2> QED BY <1>10, <2>1, <2>2 DEF PublishSurface
<1>11. CASE Expires
  BY <1>11, EvidenceRaises DEF Expires
<1>12. CASE WriteClaimReport
  <2>1. UNCHANGED <<build, runner, ran, whole, file>>
    BY <1>12 DEF WriteClaimReport
  <2>2. ClaimsAreBacked'
    BY <1>12, ReportIsBacked
  <2> QED BY <2>1, <2>2 DEF EvidenceInv, RunnerInv, ExitCode
<1>13. CASE Rebuild
  <2>1. RunnerInv'
    BY <1>13 DEF Rebuild, EvidenceInv, RunnerInv
  <2> QED BY <1>13, <2>1, EvidenceRest DEF Rebuild
<1>14. CASE UNCHANGED evidence
  <2>1. RunnerInv'
    BY <1>14 DEF evidence, EvidenceInv, RunnerInv
  <2> QED BY <1>14, <2>1, EvidenceRest DEF evidence
<1> QED BY <1>1, <1>2, <1>3, <1>4, <1>5, <1>6, <1>7, <1>8, <1>9, <1>10, <1>11, <1>12, <1>13, <1>14
        DEF EvidenceNext, Run

(* A published claim names one clean build installed from wheels; every    *)
(* test of the matrix passed with its teardown, every race was decided and *)
(* every audit passed; and each lane in which the build did not change     *)
(* between the first observation and the pin observed that on the build it *)
(* names: for every matrix of cases, however often a run fails, expires or *)
(* is overtaken by another build.                                          *)
THEOREM PublishedClaimsAreBacked == EvidenceSpec => []ClaimsAreBacked
<1>1. EvidenceInv /\ [EvidenceNext]_(evidence) => EvidenceInv'
  BY EvidenceStep
<1>2. EvidenceInv => ClaimsAreBacked
  BY DEF EvidenceInv
<1> QED BY <1>1, <1>2, EvidenceStarts, PTL DEF EvidenceSpec

-----------------------------------------------------------------------------
(* The playground: what its processes, its container and a demonstration   *)
(* that still has calls to make have to do with each other.                *)
Workers == {"api", "workflow-worker", "delivery-worker"}
Behaviors == {"applied", "not_applied"}
Opening == {"start", "scale", "restart"}

Managed ==
  [role : Workers \cup Behaviors, live : BOOLEAN, owner : {"open", "reaped", "survives"}]

Work ==
  {"none", "submitted", "gathered", "drafted", "approved", "presented", "dispatching", "delivering",
   "uncertain"} \cup Behaviors

Database == [marked : BOOLEAN, foreign : BOOLEAN, work : Work]

Names ==
  {"start", "drain", "submit", "work", "deliver", "expect", "approve", "reset", "provider",
   "provider_stop", "scale", "stop", "database", "database_stop", "terminate", "post", "await",
   "queue", "lock", "unlock", "verify"}

Arguments ==
  Workers \cup Behaviors
    \cup {"presented", "uncertain", "dispatching", "drafted", "delivering", 1, 2}

Call ==
  {<<name>> : name \in Names} \cup {<<name, x>> : name \in Names, x \in Arguments}
    \cup {<<"scale", role, n>> : role \in Workers, n \in 1..3}

IsSequence(s) == \E S : s \in Seq(S)

DeployedTypeOK ==
  /\ plan \in {"calls", "control", "renewal", "experiment"}
  /\ script \in Seq(Call)
  /\ proc \in Seq(Managed)
  /\ running \in Seq(1..Len(proc)) /\ provider \in 0..Len(proc)
  /\ provider # 0 => proc[provider].role \in Behaviors
  /\ container \in {"none", "up", "broken"}
  /\ db \in Database
  /\ secret \in BOOLEAN

(* The call that is being made; an idle one has nothing left to do.        *)
CallInv(o) ==
  /\ o = [kind |-> o.kind, reap |-> o.reap, launch |-> o.launch, ready |-> o.ready,
          failed |-> o.failed]
  /\ o.kind \in {"idle", "start", "stop", "drain", "terminate", "scale"}
  /\ IsSequence(o.reap) /\ o.launch \in Seq(Workers)
  /\ o.failed \in BOOLEAN
  /\ o.kind = "idle" => o.reap = <<>> /\ o.launch = <<>> /\ o.ready = <<>>
  /\ o.launch # <<>> /\ ~o.failed => o.kind \in {"start", "scale"}

Runs(p) == \E i \in 1..Len(running) : running[i] = p

(* Every process that is alive is owned by somebody.                       *)
OwnedInv ==
  /\ \A i, j \in 1..Len(running) : running[i] = running[j] => i = j
  /\ \A i \in 1..Len(running) : proc[running[i]].role \in Workers
  /\ \A p \in 1..Len(proc) : proc[p].live => p = provider \/ Runs(p)
  /\ provider # 0 => ~Runs(provider)
  /\ plan = "calls" => provider = 0
  /\ plan = "renewal" => running = <<>> /\ op.kind = "idle" /\ ~secret

(* What a demonstration opens it closes, if nothing fails.                 *)
Followed(s, names, closer) ==
  \A i \in 1..Len(s) : s[i][1] \in names => \E j \in (i + 1)..Len(s) : s[j] = closer

Avoided(s, names) == \A i \in 1..Len(s) : s[i][1] \notin names

Deployed == {"start", "scale", "restart", "stop", "drain", "terminate"}

WellMade(s) ==
  /\ s \in Seq(Call)
  /\ Followed(s, Opening, <<"stop">>)
  /\ Followed(s, {"provider"}, <<"provider_stop">>)
  /\ Followed(s, {"database"}, <<"database_stop">>)
  /\ IF plan = "renewal" THEN Avoided(s, Deployed)
     ELSE Avoided(s, {"database", "database_stop"})

Pending(call) == \E j \in 1..Len(script) : script[j] = call

Reaps(p) == \E k \in 1..Len(op.reap) : op.reap[k] = p

(* Without a container there are only processes that could not be stopped, *)
(* and the call that goes on meets one of them.                            *)
ContainerInv ==
  /\ op.kind \in {"start", "scale"} => container = "up"
  /\ container = "none" =>
       /\ ~secret
       /\ \A i \in 1..Len(running) : proc[running[i]].owner = "survives"
       /\ running # <<>> /\ ~op.failed =>
            op.kind # "idle" /\ \E i \in 1..Len(running) : Reaps(running[i])

StopInv ==
  op.kind = "stop" =>
    \A i \in 1..Len(running) :
      Reaps(running[i]) \/ (op.failed /\ proc[running[i]].owner = "survives")

(* A demonstration in which nothing failed has still to close what is open.*)
DemonstrationInv ==
  plan # "calls" =>
    /\ op.kind # "idle" => script # <<>>
    /\ op.failed /\ op.kind = "idle" => script = <<>> \/ Closing(script[1])
    /\ ~op.failed =>
       /\ running # <<>> \/ secret => Pending(<<"stop">>)
       /\ container # "none" => Pending(<<"stop">>) \/ Pending(<<"database_stop">>)
       /\ provider # 0 => Pending(<<"provider_stop">>)
       /\ op.kind = "stop" => script[1] = <<"stop">>
       /\ op.kind \in {"start", "scale"} => script[1][1] \in Opening
       /\ op.kind \in Reaping => script[1][1] \in Reaping

DeployedInv ==
  /\ DeployedTypeOK /\ CallInv(op) /\ OwnedInv /\ WellMade(script)
  /\ ContainerInv /\ StopInv /\ DemonstrationInv

-----------------------------------------------------------------------------
(* Scripts.                                                                *)

LEMMA SuffixIsWellMade ==
  ASSUME NEW s, WellMade(s), NEW k \in 1..(Len(s) + 1)
  PROVE  WellMade(SubSeq(s, k, Len(s)))
<1> DEFINE t == SubSeq(s, k, Len(s))
<1>1. s \in Seq(Call)
  BY DEF WellMade
<1>2. /\ t \in Seq(Call) /\ Len(t) = Len(s) - k + 1
      /\ \A i \in 1..Len(t) : t[i] = s[i + k - 1] /\ i + k - 1 \in 1..Len(s)
      /\ \A j \in k..Len(s) : t[j - k + 1] = s[j] /\ j - k + 1 \in 1..Len(t)
  BY <1>1
<1> HIDE DEF t
<1>3. ASSUME NEW names, NEW closer, Followed(s, names, closer) PROVE Followed(t, names, closer)
  <2> SUFFICES ASSUME NEW i \in 1..Len(t), t[i][1] \in names
               PROVE  \E j \in (i + 1)..Len(t) : t[j] = closer
    BY DEF Followed
  <2>0. i + k - 1 \in 1..Len(s) /\ s[i + k - 1][1] \in names /\ i + k - 1 + 1 = i + k
    BY <1>1, <1>2
  <2>1. PICK j \in (i + k)..Len(s) : s[j] = closer
    BY <1>3, <2>0 DEF Followed
  <2>2. j - k + 1 \in (i + 1)..Len(t) /\ t[j - k + 1] = closer
    BY <1>1, <1>2, <2>1
  <2> QED BY <2>2
<1>4. ASSUME NEW names, Avoided(s, names) PROVE Avoided(t, names)
  BY <1>2, <1>4 DEF Avoided
<1>5. WellMade(t)
  BY <1>2, <1>3, <1>4 DEF WellMade
<1> QED BY <1>5 DEF t

LEMMA JoinFollowed ==
  ASSUME NEW s \in Seq(Call), NEW t \in Seq(Call), NEW names, NEW closer, Avoided(t, names),
         Followed(s, names, closer) \/ \E k \in 1..Len(t) : t[k] = closer
  PROVE  Followed(s \o t, names, closer)
<1> DEFINE u == s \o t
<1>1. /\ Len(u) = Len(s) + Len(t) /\ Len(s) \in Nat /\ Len(t) \in Nat
      /\ \A i \in 1..Len(s) : u[i] = s[i]
      /\ \A i \in (Len(s) + 1)..Len(u) : u[i] = t[i - Len(s)] /\ i - Len(s) \in 1..Len(t)
      /\ \A k \in 1..Len(t) : u[k + Len(s)] = t[k]
  OBVIOUS
<1> HIDE DEF u
<1> SUFFICES ASSUME NEW i \in 1..Len(u), u[i][1] \in names
             PROVE  \E j \in (i + 1)..Len(u) : u[j] = closer
  BY DEF Followed, u
<1>2. i \in 1..Len(s) /\ s[i][1] \in names
  <2>1. ASSUME i \notin 1..Len(s) PROVE FALSE
    <3>1. i \in (Len(s) + 1)..Len(u)
      BY <1>1, <2>1
    <3>2. u[i] = t[i - Len(s)] /\ i - Len(s) \in 1..Len(t)
      BY <1>1, <3>1
    <3> QED BY <3>2 DEF Avoided
  <2> QED BY <1>1, <2>1
<1>3. CASE Followed(s, names, closer)
  <2>1. PICK j \in (i + 1)..Len(s) : s[j] = closer
    BY <1>2, <1>3 DEF Followed
  <2>2. j \in (i + 1)..Len(u) /\ u[j] = closer
    BY <1>1, <1>2, <2>1
  <2> QED BY <2>2
<1>4. CASE \E k \in 1..Len(t) : t[k] = closer
  <2>1. PICK k \in 1..Len(t) : t[k] = closer
    BY <1>4
  <2>2. k + Len(s) \in (i + 1)..Len(u) /\ u[k + Len(s)] = closer
    BY <1>1, <1>2, <2>1
  <2> QED BY <2>2
<1> QED BY <1>3, <1>4

LEMMA JoinAvoided ==
  ASSUME NEW s \in Seq(Call), NEW t \in Seq(Call), NEW names, Avoided(s, names), Avoided(t, names)
  PROVE  s \o t \in Seq(Call) /\ Avoided(s \o t, names)
<1>1. /\ Len(s \o t) = Len(s) + Len(t) /\ Len(s) \in Nat /\ Len(t) \in Nat
      /\ \A i \in 1..Len(s) : (s \o t)[i] = s[i]
      /\ \A i \in (Len(s) + 1)..Len(s \o t) :
           (s \o t)[i] = t[i - Len(s)] /\ i - Len(s) \in 1..Len(t)
  OBVIOUS
<1> QED BY <1>1 DEF Avoided

(* The demonstrations: what is followed by what.                           *)
LEMMA FixtureIsPlain ==
  /\ Fixture \in Seq(Call)
  /\ Avoided(Fixture, Deployed \cup {"provider", "database", "database_stop"})
  /\ \A outcome \in Behaviors \cup {"uncertain"} :
       /\ Failure(outcome) \in Seq(Call)
       /\ Avoided(Failure(outcome), Deployed \cup {"provider", "database", "database_stop"})
<1> DEFINE N == Deployed \cup {"provider", "database", "database_stop"}
<1>1. Fixture \in Seq(Call) /\ Avoided(Fixture, N)
  BY DEF Fixture, Call, Names, Arguments, Avoided, Deployed
<1>2. ASSUME NEW outcome \in Behaviors \cup {"uncertain"}
      PROVE  Failure(outcome) \in Seq(Call) /\ Avoided(Failure(outcome), N)
  <2> DEFINE t == <<<<"approve">>, <<"work">>, <<"expect", outcome>>>>
  <2>1. t \in Seq(Call) /\ Avoided(t, N)
    BY DEF Call, Names, Arguments, Behaviors, Avoided, Deployed
  <2> HIDE DEF t
  <2>2. Fixture \o t \in Seq(Call) /\ Avoided(Fixture \o t, N)
    BY <1>1, <2>1, JoinAvoided
  <2> QED BY <2>2 DEF Failure, t
<1> QED BY <1>1, <1>2

LEMMA ExerciseIsWellMade ==
  /\ Exercise \in Seq(Call) /\ Avoided(Exercise, {"database", "database_stop"})
  /\ Followed(Exercise, Opening, <<"stop">>)
  /\ Followed(Exercise, {"provider"}, <<"provider_stop">>)
<1> DEFINE N == {"database", "database_stop"}
           first == <<<<"start">>, <<"drain">>>>
           reset == <<<<"reset">>>>
           opens == <<<<"provider", "not_applied">>>>
           closes == <<<<"provider_stop">>>>
           scales == [i \in 1..3 |-> <<"scale", ROLES[i], 1>>]
           last == <<<<"stop">>>>
           a == first \o Fixture \o reset \o Fixture \o opens \o Failure("not_applied")
           b == a \o closes
           c == b \o reset \o Failure("uncertain") \o scales
<1>1. /\ first \in Seq(Call) /\ Avoided(first, N)
      /\ reset \in Seq(Call) /\ Avoided(reset, N \cup {"provider"})
      /\ opens \in Seq(Call) /\ Avoided(opens, N)
      /\ closes \in Seq(Call) /\ Avoided(closes, N \cup {"provider"})
      /\ last \in Seq(Call) /\ Avoided(last, N \cup {"provider"} \cup Opening)
  BY DEF Call, Names, Arguments, Behaviors, Avoided, Opening
<1>2. scales \in Seq(Call) /\ Avoided(scales, N \cup {"provider"})
  <2>1. \A i \in 1..3 : ROLES[i] \in Workers
    BY DEF ROLES, Workers
  <2> QED BY <2>1 DEF Call, Avoided
<1>3. /\ Fixture \in Seq(Call) /\ Avoided(Fixture, N)
      /\ \A outcome \in {"not_applied", "uncertain"} :
           /\ Failure(outcome) \in Seq(Call)
           /\ Avoided(Failure(outcome), N \cup {"provider"})
  BY FixtureIsPlain DEF Avoided, Behaviors
<1>4. /\ closes[1] = <<"provider_stop">> /\ 1 \in 1..Len(closes)
      /\ last[1] = <<"stop">> /\ 1 \in 1..Len(last)
  OBVIOUS
<1>5. Exercise = c \o last
  BY DEF Exercise
<1> HIDE DEF first, reset, opens, closes, scales, last
<1>6. \A t : Avoided(t, N \cup {"provider"}) => Avoided(t, N) /\ Avoided(t, {"provider"})
  BY DEF Avoided
<1>7. Avoided(last, N) /\ Avoided(last, {"provider"}) /\ Avoided(last, Opening)
  BY <1>1 DEF Avoided
<1>8. a \in Seq(Call) /\ Avoided(a, N)
  <2>1. first \o Fixture \in Seq(Call) /\ Avoided(first \o Fixture, N)
    BY <1>1, <1>3, JoinAvoided
  <2>2. first \o Fixture \o reset \in Seq(Call) /\ Avoided(first \o Fixture \o reset, N)
    BY <1>1, <1>6, <2>1, JoinAvoided
  <2>3. /\ first \o Fixture \o reset \o Fixture \in Seq(Call)
        /\ Avoided(first \o Fixture \o reset \o Fixture, N)
    BY <1>3, <2>2, JoinAvoided
  <2>4. /\ first \o Fixture \o reset \o Fixture \o opens \in Seq(Call)
        /\ Avoided(first \o Fixture \o reset \o Fixture \o opens, N)
    BY <1>1, <2>3, JoinAvoided
  <2> QED BY <1>3, <1>6, <2>4, JoinAvoided
<1> HIDE DEF a
<1>9. b \in Seq(Call) /\ Avoided(b, N) /\ Followed(b, {"provider"}, <<"provider_stop">>)
  BY <1>1, <1>4, <1>6, <1>8, JoinAvoided, JoinFollowed
<1> HIDE DEF b
<1>10. c \in Seq(Call) /\ Avoided(c, N) /\ Followed(c, {"provider"}, <<"provider_stop">>)
  <2> DEFINE d == b \o reset
             e == d \o Failure("uncertain")
  <2>1. d \in Seq(Call) /\ Avoided(d, N) /\ Followed(d, {"provider"}, <<"provider_stop">>)
    BY <1>1, <1>6, <1>9, JoinAvoided, JoinFollowed
  <2>2. c = e \o scales
    OBVIOUS
  <2> HIDE DEF d
  <2>3. e \in Seq(Call) /\ Avoided(e, N) /\ Followed(e, {"provider"}, <<"provider_stop">>)
    BY <1>3, <1>6, <2>1, JoinAvoided, JoinFollowed
  <2> HIDE DEF e, c
  <2> QED BY <1>2, <1>6, <2>2, <2>3, JoinAvoided, JoinFollowed
<1> HIDE DEF c
<1> QED BY <1>1, <1>4, <1>5, <1>7, <1>10, JoinAvoided, JoinFollowed

LEMMA DemonstrationIsWellMade ==
  /\ Demonstration \in Seq(Call) /\ Avoided(Demonstration, Deployed)
  /\ Followed(Demonstration, {"provider"}, <<"provider_stop">>)
  /\ Followed(Demonstration, {"database"}, <<"database_stop">>)
<1> DEFINE first == <<<<"provider", "applied">>, <<"database">>>>
           last == <<<<"database_stop">>, <<"provider_stop">>>>
           a == first \o Failure("applied")
<1>1. /\ first \in Seq(Call) /\ Avoided(first, Deployed)
      /\ last \in Seq(Call) /\ Avoided(last, Deployed)
      /\ Avoided(last, {"provider"}) /\ Avoided(last, {"database"})
  BY DEF Call, Names, Arguments, Behaviors, Avoided, Deployed
<1>2. /\ last[1] = <<"database_stop">> /\ 1 \in 1..Len(last)
      /\ last[2] = <<"provider_stop">> /\ 2 \in 1..Len(last)
  OBVIOUS
<1>3. Failure("applied") \in Seq(Call) /\ Avoided(Failure("applied"), Deployed)
  BY FixtureIsPlain DEF Avoided, Behaviors
<1>4. Demonstration = a \o last
  BY DEF Demonstration
<1> HIDE DEF first, last
<1>5. a \in Seq(Call) /\ Avoided(a, Deployed)
  BY <1>1, <1>3, JoinAvoided
<1> HIDE DEF a
<1> QED BY <1>1, <1>2, <1>4, <1>5, JoinAvoided, JoinFollowed

LEMMA ExperimentIsWellMade ==
  /\ Experiment \in Seq(Call) /\ Avoided(Experiment, {"database", "database_stop"})
  /\ Followed(Experiment, Opening, <<"stop">>)
  /\ Followed(Experiment, {"provider"}, <<"provider_stop">>)
<1> DEFINE N == {"database", "database_stop"}
           first == <<<<"provider", "applied">>, <<"start">>>>
           last == <<<<"verify">>, <<"stop">>, <<"provider_stop">>>>
           a == first \o ApiPool
           b == a \o WorkflowLoss
           c == b \o WorkflowThroughput
           d == c \o DeliveryLoss
<1>1. /\ first \in Seq(Call) /\ Avoided(first, N)
      /\ last \in Seq(Call) /\ Avoided(last, N)
      /\ Avoided(last, {"provider"}) /\ Avoided(last, Opening)
  BY DEF Call, Names, Arguments, Behaviors, Avoided, Opening
<1>2. /\ last[2] = <<"stop">> /\ 2 \in 1..Len(last)
      /\ last[3] = <<"provider_stop">> /\ 3 \in 1..Len(last)
  OBVIOUS
<1>3. \A i \in 1..3 : Grow(i) \in Call /\ Grow(i)[1] = "scale" /\ ROLES[i] \in Workers
  BY DEF Grow, ROLES, burst_capacity, Call, Workers
<1>4. \A name \in Names : <<name>> \in Call /\ \A x \in Arguments : <<name, x>> \in Call
  BY DEF Call
<1>5. /\ ROLES[1] \in Arguments /\ ROLES[2] \in Arguments /\ ROLES[3] \in Arguments
      /\ {"dispatching", "applied", "drafted", "delivering", "presented", 1, 2} \subseteq Arguments
      /\ {"drain", "post", "terminate", "work", "deliver", "approve", "await", "queue", "lock",
          "unlock", "verify", "stop", "start"} \subseteq Names
  BY <1>3 DEF Arguments, Names, Behaviors
<1>6. ApiPool \in Seq(Call) /\ Avoided(ApiPool, N)
  BY <1>3, <1>4, <1>5 DEF ApiPool, Avoided, Call
<1>7. WorkflowLoss \in Seq(Call) /\ Avoided(WorkflowLoss, N)
  BY <1>3, <1>4, <1>5 DEF WorkflowLoss, Avoided, Call
<1>8. WorkflowThroughput \in Seq(Call) /\ Avoided(WorkflowThroughput, N)
  BY <1>3, <1>4, <1>5 DEF WorkflowThroughput, Avoided, Call
<1>9. DeliveryLoss \in Seq(Call) /\ Avoided(DeliveryLoss, N)
  BY <1>3, <1>4, <1>5 DEF DeliveryLoss, Avoided, Call
<1>10. Experiment = d \o last
  BY DEF Experiment
<1> HIDE DEF first, last
<1>11. a \in Seq(Call) /\ Avoided(a, N)
  BY <1>1, <1>6, JoinAvoided
<1> HIDE DEF a
<1>12. b \in Seq(Call) /\ Avoided(b, N)
  BY <1>7, <1>11, JoinAvoided
<1> HIDE DEF b
<1>13. c \in Seq(Call) /\ Avoided(c, N)
  BY <1>8, <1>12, JoinAvoided
<1> HIDE DEF c
<1>14. d \in Seq(Call) /\ Avoided(d, N)
  BY <1>9, <1>13, JoinAvoided
<1> HIDE DEF d
<1> QED BY <1>1, <1>2, <1>10, <1>14, JoinAvoided, JoinFollowed

LEMMA IdleCall == CallInv(NoCall) /\ NoCall.kind = "idle" /\ ~NoCall.failed
<1>1. <<>> \in Seq(Workers)
  OBVIOUS
<1> QED BY <1>1 DEF CallInv, NoCall, IsSequence

LEMMA DeployedInit == PlaygroundInit => DeployedInv
<1> SUFFICES ASSUME PlaygroundInit PROVE DeployedInv
  OBVIOUS
<1>1. plan \in {"calls", "control", "renewal", "experiment"} /\ script = Scripts[plan]
  BY DEF PlaygroundInit, Scripts
<1>2. WellMade(script)
  <2>1. CASE plan = "calls"
    <3>1. script = <<>>
      BY <1>1, <2>1 DEF Scripts
    <3> QED BY <2>1, <3>1 DEF WellMade, Followed, Avoided
  <2>2. CASE plan = "control"
    <3>1. script = Exercise
      BY <1>1, <2>2 DEF Scripts
    <3> QED BY <2>2, <3>1, ExerciseIsWellMade DEF WellMade, Followed, Avoided
  <2>3. CASE plan = "renewal"
    <3>1. script = Demonstration
      BY <1>1, <2>3 DEF Scripts
    <3> QED BY <2>3, <3>1, DemonstrationIsWellMade
            DEF WellMade, Followed, Avoided, Deployed, Opening
  <2>4. CASE plan = "experiment"
    <3>1. script = Experiment
      BY <1>1, <2>4 DEF Scripts
    <3> QED BY <2>4, <3>1, ExperimentIsWellMade DEF WellMade, Followed, Avoided
  <2> QED BY <1>1, <2>1, <2>2, <2>3, <2>4
<1>3. DeployedTypeOK
  <2>1. proc \in Seq(Managed) /\ running \in Seq(1..Len(proc)) /\ Len(proc) = 0
    BY DEF PlaygroundInit
  <2>2. db \in Database
    BY DEF PlaygroundInit, NoDatabase, Database, Work
  <2>3. script \in Seq(Call)
    BY <1>2 DEF WellMade
  <2>4. provider = 0 /\ container = "none" /\ secret \in BOOLEAN
    BY DEF PlaygroundInit
  <2>5. provider \in 0..Len(proc) /\ ~(provider # 0)
    BY <2>1, <2>4
  <2> QED BY <1>1, <2>1, <2>2, <2>3, <2>4, <2>5 DEF DeployedTypeOK
<1>4. CallInv(op) /\ op.kind = "idle" /\ ~op.failed
  BY IdleCall DEF PlaygroundInit
<1>5. OwnedInv /\ ContainerInv /\ StopInv /\ DemonstrationInv
  BY <1>4 DEF PlaygroundInit, OwnedInv, ContainerInv, StopInv, DemonstrationInv, Reaping
<1> QED BY <1>2, <1>3, <1>4, <1>5 DEF DeployedInv

(* What a call that is over leaves of a demonstration.                     *)
LEMMA ReturnedScript ==
  ASSUME DeployedInv, NEW failed \in BOOLEAN, Returned(failed), plan' = plan,
         plan # "calls" => script # <<>>
  PROVE  /\ CallInv(op') /\ op'.kind = "idle" /\ op'.failed = (op.failed \/ failed)
         /\ script' \in Seq(Call) /\ WellMade(script)'
         /\ plan # "calls" /\ op'.failed => script' = <<>> \/ Closing(script'[1])
         /\ plan # "calls" /\ ~op'.failed =>
              \A call : Pending(call) /\ script[1] # call => Pending(call)'
<1>1. WellMade(script) /\ script \in Seq(Call) /\ CallInv(op)
  BY DEF DeployedInv, DeployedTypeOK
<1>2. CallInv(op') /\ op'.kind = "idle" /\ op'.failed = (op.failed \/ failed)
  BY <1>1, IdleCall DEF Returned, NoCall, CallInv
<1>3. ASSUME NEW s, WellMade(s), script' = s PROVE WellMade(script)'
  BY <1>3 DEF WellMade
<1>4. CASE plan = "calls"
  BY <1>1, <1>2, <1>3, <1>4 DEF Returned
<1>5. CASE plan # "calls"
  <2> DEFINE calls == Tail(script)
  <2>1. /\ calls = SubSeq(script, 2, Len(script)) /\ 2 \in 1..(Len(script) + 1)
        /\ \A j \in 2..Len(script) : calls[j - 1] = script[j] /\ j - 1 \in 1..Len(calls)
    BY <1>1, <1>5
  <2>2. WellMade(calls) /\ calls \in Seq(Call)
    BY <1>1, <2>1, SuffixIsWellMade DEF WellMade
  <2>3. CASE op'.failed
    <3>1. LeaveContexts(calls)
      BY <1>5, <2>3 DEF Returned
    <3> HIDE DEF calls
    <3>2. PICK k \in 1..(Len(calls) + 1) :
            /\ k <= Len(calls) => Closing(calls[k])
            /\ script' = SubSeq(calls, k, Len(calls))
      BY <3>1 DEF LeaveContexts
    <3>3. WellMade(SubSeq(calls, k, Len(calls)))
      BY <2>2, SuffixIsWellMade
    <3>4. WellMade(script)' /\ script' \in Seq(Call)
      BY <1>3, <3>2, <3>3 DEF WellMade
    <3>5. script' = <<>> \/ Closing(script'[1])
      <4>1. CASE k <= Len(calls)
        <5>1. script'[1] = calls[k]
          BY <2>2, <3>2, <4>1
        <5> QED BY <3>2, <4>1, <5>1
      <4>2. CASE k > Len(calls)
        BY <2>2, <3>2, <4>2
      <4> QED BY <2>2, <4>1, <4>2
    <3> QED BY <1>2, <2>3, <3>4, <3>5
  <2>4. CASE ~op'.failed
    <3>1. script' = calls
      BY <1>5, <2>4 DEF Returned
    <3>2. WellMade(script)' /\ script' \in Seq(Call)
      BY <1>3, <2>2, <3>1
    <3>3. ASSUME NEW call, Pending(call), script[1] # call PROVE Pending(call)'
      <4>1. PICK j \in 1..Len(script) : script[j] = call
        BY <3>3 DEF Pending
      <4>2. j \in 2..Len(script)
        BY <1>1, <3>3, <4>1
      <4>3. j - 1 \in 1..Len(script') /\ script'[j - 1] = call
        BY <2>1, <3>1, <4>1, <4>2
      <4> QED BY <4>3 DEF Pending
    <3> QED BY <1>2, <2>4, <3>2, <3>3
  <2> QED BY <2>3, <2>4
<1> QED BY <1>4, <1>5

-----------------------------------------------------------------------------
(* Calls.                                                                  *)

(* A call is over that has changed no process and no container.            *)
LEMMA ReturnedInv ==
  ASSUME DeployedInv, NEW failed \in BOOLEAN, Returned(failed),
         UNCHANGED <<plan, proc, services>>, db' \in Database,
         plan # "calls" => script # <<>>,
         op.kind # "idle" => op.kind \in {"start", "scale"} \/ op.reap = <<>>,
         plan # "calls" /\ ~op.failed /\ ~failed => ~Closing(script[1])
  PROVE  DeployedInv'
<1>1. /\ DeployedTypeOK /\ CallInv(op) /\ OwnedInv /\ ContainerInv /\ DemonstrationInv
  BY DEF DeployedInv
<1>2. /\ CallInv(op') /\ op'.kind = "idle" /\ op'.failed = (op.failed \/ failed)
      /\ script' \in Seq(Call) /\ WellMade(script)'
      /\ plan # "calls" /\ op'.failed => script' = <<>> \/ Closing(script'[1])
      /\ plan # "calls" /\ ~op'.failed =>
           \A call : Pending(call) /\ script[1] # call => Pending(call)'
  BY ReturnedScript
<1>3. DeployedTypeOK'
  BY <1>1, <1>2 DEF DeployedTypeOK, services
<1>4. OwnedInv'
  BY <1>1, <1>2 DEF OwnedInv, Runs, services
<1>5. ContainerInv'
  <2>1. ASSUME container = "none", running # <<>> PROVE op'.failed
    <3>1. CASE op.failed
      BY <1>2, <3>1
    <3>2. CASE ~op.failed
      <4>1. op.kind # "idle" /\ \E i \in 1..Len(running) : Reaps(running[i])
        BY <1>1, <2>1, <3>2 DEF ContainerInv
      <4>2. op.reap # <<>> /\ op.kind \notin {"start", "scale"}
        BY <1>1, <2>1, <4>1 DEF Reaps, ContainerInv
      <4> QED BY <4>1, <4>2
    <3> QED BY <1>1, <3>1, <3>2 DEF CallInv
  <2> QED BY <1>1, <1>2, <2>1 DEF ContainerInv, services
<1>6. StopInv'
  BY <1>2 DEF StopInv
<1>7. DemonstrationInv'
  <2> SUFFICES ASSUME plan # "calls" PROVE DemonstrationInv'
    BY DEF DemonstrationInv
  <2>1. CASE op'.failed
    BY <1>2, <2>1 DEF DemonstrationInv
  <2>2. CASE ~op'.failed
    <3>1. ~op.failed /\ ~failed /\ ~Closing(script[1])
      BY <1>1, <1>2, <2>2 DEF CallInv
    <3>2. \A call \in {<<"stop">>, <<"provider_stop">>, <<"database_stop">>} : script[1] # call
      BY <3>1 DEF Closing
    <3>3. \A call \in {<<"stop">>, <<"provider_stop">>, <<"database_stop">>} :
            Pending(call) => Pending(call)'
      BY <1>2, <2>2, <3>2
    <3> QED BY <1>1, <1>2, <2>2, <3>1, <3>3 DEF DemonstrationInv, Reaping, services
  <2> QED BY <2>1, <2>2
<1> QED BY <1>2, <1>3, <1>4, <1>5, <1>6, <1>7 DEF DeployedInv

(* A call has been asked for.                                              *)
LEMMA AskedShape ==
  ASSUME DeployedInv, NEW call, Asked(call)
  PROVE  /\ op.kind = "idle" /\ op.reap = <<>>
         /\ plan = "calls" => call \in Calls
         /\ plan # "calls" => script # <<>> /\ call = script[1] /\ 1 \in 1..Len(script)
         /\ plan # "calls" /\ op.failed => Closing(call)
         /\ container = "none" /\ running # <<>> => op.failed
<1>1. CallInv(op) /\ ContainerInv /\ DemonstrationInv /\ script \in Seq(Call)
  BY DEF DeployedInv, DeployedTypeOK
<1>2. op.kind = "idle" /\ op.reap = <<>>
  BY <1>1 DEF Asked, CallInv
<1>3. plan # "calls" => script # <<>> /\ call = script[1] /\ 1 \in 1..Len(script)
  BY <1>1 DEF Asked
<1>4. plan # "calls" /\ op.failed => Closing(call)
  BY <1>1, <1>2, <1>3 DEF DemonstrationInv
<1>5. container = "none" /\ running # <<>> => op.failed
  BY <1>1, <1>2 DEF ContainerInv
<1> QED BY <1>2, <1>3, <1>4, <1>5 DEF Asked

LEMMA AnsweredInv ==
  ASSUME DeployedInv, NEW call, Asked(call), NEW failed \in BOOLEAN, Returned(failed),
         failed \/ ~Closing(call), UNCHANGED <<plan, proc, services>>, db' \in Database
  PROVE  DeployedInv'
BY AskedShape, ReturnedInv

(* A call has begun.                                                       *)
LEMMA BegunInv ==
  ASSUME DeployedInv, NEW call, Asked(call), NEW kind, NEW reap, NEW launch,
         Begins(kind, reap, launch), UNCHANGED <<plan, proc, services, db>>,
         IsSequence(reap), launch \in Seq(Workers),
         \/ kind = "stop" /\ call = <<"stop">> /\ launch = <<>>
         \/ kind = "scale" /\ call[1] \in Opening /\ container = "up"
         \/ kind \in Reaping /\ call[1] \in Reaping /\ launch = <<>>,
         kind = "stop" => \A i \in 1..Len(running) : \E k \in 1..Len(reap) : reap[k] = running[i],
         plan = "calls" /\ container = "none" /\ running # <<>> =>
           \E i \in 1..Len(running) : \E k \in 1..Len(reap) : reap[k] = running[i]
  PROVE  DeployedInv'
<1>1. /\ DeployedTypeOK /\ CallInv(op) /\ OwnedInv /\ ContainerInv /\ DemonstrationInv
      /\ WellMade(script)
  BY DEF DeployedInv
<1>2. /\ op.kind = "idle"
      /\ plan # "calls" => script # <<>> /\ call = script[1] /\ 1 \in 1..Len(script)
      /\ container = "none" /\ running # <<>> => op.failed
  BY AskedShape
<1>3. plan # "renewal"
  <2>1. call[1] \in Deployed
    BY DEF Deployed, Opening, Reaping
  <2> QED BY <1>1, <1>2, <2>1 DEF WellMade, Avoided
<1>4. op' = [kind |-> kind, reap |-> reap, launch |-> launch, ready |-> <<>>,
             failed |-> plan # "calls" /\ op.failed]
  BY DEF Begins, NoCall
<1>5. CallInv(op')
  BY <1>1, <1>4 DEF CallInv, Reaping
<1>6. DeployedTypeOK' /\ WellMade(script)'
  BY <1>1 DEF DeployedTypeOK, WellMade, Begins, services
<1>7. OwnedInv'
  BY <1>1, <1>3 DEF OwnedInv, Runs, services
<1>8. ContainerInv'
  <2>1. op'.kind \in {"start", "scale"} => container = "up"
    BY <1>4 DEF Reaping
  <2>2. ASSUME container = "none", running # <<>>, ~op'.failed
        PROVE  op'.kind # "idle" /\ \E i \in 1..Len(running) : Reaps(running[i])'
    BY <1>2, <1>4, <2>2 DEF Reaps, Reaping, services
  <2> QED BY <1>1, <2>1, <2>2 DEF ContainerInv, services
<1>9. StopInv'
  BY <1>4 DEF StopInv, Reaps, services
<1>10. DemonstrationInv'
  <2> SUFFICES ASSUME plan # "calls" PROVE DemonstrationInv'
    BY DEF DemonstrationInv
  <2>1. /\ op'.failed = op.failed /\ op'.kind = kind /\ script' = script
        /\ kind \in {"stop", "scale"} \cup Reaping /\ kind # "idle"
    <3>1. op.failed \in BOOLEAN
      BY <1>1 DEF CallInv
    <3>2. op'.failed = (plan # "calls" /\ op.failed) /\ op'.kind = kind /\ script' = script
      BY <1>4 DEF Begins
    <3>3. kind \in {"stop", "scale"} \cup Reaping /\ kind # "idle"
      BY DEF Reaping
    <3> QED BY <3>1, <3>2, <3>3
  <2>2. \A c : Pending(c)' <=> Pending(c)
    BY <2>1 DEF Pending
  <2>3. /\ kind = "stop" => script[1] = <<"stop">>
        /\ kind \in {"start", "scale"} => script[1][1] \in Opening
        /\ kind \in Reaping => script[1][1] \in Reaping
    BY <1>2 DEF Reaping
  <2> QED BY <1>1, <1>2, <2>1, <2>2, <2>3 DEF DemonstrationInv, services
<1> QED BY <1>5, <1>6, <1>7, <1>8, <1>9, <1>10 DEF DeployedInv

-----------------------------------------------------------------------------
(* The record of a process that was reaped, and of one that died.          *)
LEMMA ReapedRecord ==
  ASSUME proc \in Seq(Managed), NEW p \in 1..Len(proc), NEW answer \in {"reaped", "survives"},
         Reaped(p, answer)
  PROVE  proc' = [proc EXCEPT ![p] = [role |-> proc[p].role,
                                      live |-> proc[p].live /\ answer = "survives",
                                      owner |-> answer]]
<1>1. proc[p] \in Managed /\ p \in DOMAIN proc
  OBVIOUS
<1>2. /\ proc[p] = [role |-> proc[p].role, live |-> proc[p].live, owner |-> proc[p].owner]
      /\ proc[p].live \in BOOLEAN
  BY <1>1 DEF Managed
<1> DEFINE answered == [proc[p] EXCEPT !.owner = answer]
           Reported == [proc EXCEPT ![p] = answered]
           row == [role |-> proc[p].role, live |-> proc[p].live /\ answer = "survives",
                   owner |-> answer]
<1>3. answered = [role |-> proc[p].role, live |-> proc[p].live, owner |-> answer]
  BY <1>2
<1>4. Reported[p] = answered
  BY <1>1
<1>5. proc' = [Reported EXCEPT ![p].live = @ /\ answer = "survives"]
  BY DEF Reaped
<1> HIDE DEF answered
<1>6. proc' = [Reported EXCEPT ![p] = [Reported[p] EXCEPT !.live = Reported[p].live
                                                                 /\ answer = "survives"]]
  BY <1>5
<1>7. [answered EXCEPT !.live = answered.live /\ answer = "survives"] = row
  BY <1>2, <1>3
<1>8. proc' = [Reported EXCEPT ![p] = row]
  BY <1>4, <1>6, <1>7
<1> QED BY <1>1, <1>8

LEMMA DeadRecord ==
  ASSUME NEW P \in Seq(Managed), NEW p \in 1..Len(P)
  PROVE  [P EXCEPT ![p].live = FALSE]
           = [P EXCEPT ![p] = [role |-> P[p].role, live |-> FALSE, owner |-> P[p].owner]]
<1> DEFINE dead == FALSE
<1>1. P[p] \in Managed
  OBVIOUS
<1>2. P[p] = [role |-> P[p].role, live |-> P[p].live, owner |-> P[p].owner]
  BY <1>1 DEF Managed
<1>3. ASSUME NEW role, NEW live, NEW owner, NEW x
      PROVE  [[role |-> role, live |-> live, owner |-> owner] EXCEPT !.live = x]
               = [role |-> role, live |-> x, owner |-> owner]
  OBVIOUS
<1> HIDE DEF dead
<1>4. [P[p] EXCEPT !.live = dead] = [role |-> P[p].role, live |-> dead, owner |-> P[p].owner]
  BY <1>2, <1>3
<1> QED BY <1>4 DEF dead

-----------------------------------------------------------------------------
(* The list of the running processes.                                      *)

LEMMA RemovedFirst ==
  ASSUME NEW S, NEW s \in Seq(S), NEW p,
         IsInjective(s)
  PROVE  /\ RemoveFirst(s, p) \in Seq(S) /\ IsInjective(RemoveFirst(s, p))
         /\ ToSet(RemoveFirst(s, p)) = ToSet(s) \ {p}
<1>0. \A i, j \in 1..Len(s) : s[i] = s[j] => i = j
  BY DEF IsInjective
<1>1. CASE ~ \E i \in 1..Len(s) : s[i] = p
  <2>1. RemoveFirst(s, p) = s
    BY <1>1 DEF RemoveFirst
  <2> QED BY <1>1, <2>1 DEF ToSet
<1>2. CASE \E i \in 1..Len(s) : s[i] = p
  <2>1. PICK k \in 1..Len(s) : s[k] = p
    BY <1>2
  <2>2. {i \in 1..Len(s) : s[i] = p} = {k}
    BY <1>0, <2>1
  <2>3. SelectInSeq(s, LAMBDA v : v = p) = k
    BY <2>1, <2>2 DEF SelectInSeq, Min
  <2> DEFINE a == SubSeq(s, 1, k - 1)
             b == SubSeq(s, k + 1, Len(s))
             t == a \o b
  <2>4. RemoveFirst(s, p) = t
    BY <1>2, <2>3 DEF RemoveFirst, RemoveAt
  <2>5. /\ a \in Seq(S) /\ Len(a) = k - 1 /\ b \in Seq(S) /\ Len(b) = Len(s) - k
        /\ \A i \in 1..(k - 1) : a[i] = s[i]
        /\ \A i \in 1..(Len(s) - k) : b[i] = s[i + k]
    BY <2>1
  <2> HIDE DEF a, b
  <2>6. /\ t \in Seq(S) /\ Len(t) = Len(s) - 1
        /\ \A i \in 1..(k - 1) : t[i] = s[i]
        /\ \A i \in k..(Len(s) - 1) : t[i] = s[i + 1]
    <3>1. t \in Seq(S) /\ Len(t) = Len(s) - 1
      <4>1. t \in Seq(S) /\ Len(t) = Len(a) + Len(b)
        BY <2>5, ConcatProperties
      <4>2. Len(s) \in Nat /\ k \in Int /\ (k - 1) + (Len(s) - k) = Len(s) - 1
        BY <2>1
      <4> QED BY <2>5, <4>1, <4>2
    <3>2. \A i \in 1..(k - 1) : t[i] = s[i]
      BY <2>1, <2>5
    <3>3. ASSUME NEW i \in k..(Len(s) - 1) PROVE t[i] = s[i + 1]
      <4>1. t[i] = b[i - (k - 1)] /\ i - (k - 1) \in 1..(Len(s) - k)
        BY <2>1, <2>5
      <4>2. b[i - (k - 1)] = s[i - (k - 1) + k] /\ i - (k - 1) + k = i + 1
        BY <2>1, <2>5, <4>1
      <4> QED BY <4>1, <4>2
    <3> QED BY <3>1, <3>2, <3>3
  <2> HIDE DEF t
  <2>7. ASSUME NEW i \in 1..Len(t)
        PROVE  /\ i < k => t[i] = s[i] /\ i \in 1..Len(s)
               /\ i >= k => t[i] = s[i + 1] /\ i + 1 \in 1..Len(s)
    BY <2>1, <2>6
  <2>8. \A i, j \in 1..Len(t) : t[i] = t[j] => i = j
    BY <1>0, <2>1, <2>6, <2>7
  <2>9. ASSUME NEW q
        PROVE  (\E i \in 1..Len(t) : t[i] = q) <=> q # p /\ \E i \in 1..Len(s) : s[i] = q
    <3>1. ASSUME NEW i \in 1..Len(t), t[i] = q
          PROVE  q # p /\ \E j \in 1..Len(s) : s[j] = q
      BY <1>0, <2>1, <2>6, <2>7, <3>1
    <3>2. ASSUME q # p, NEW j \in 1..Len(s), s[j] = q PROVE \E i \in 1..Len(t) : t[i] = q
      <4>1. CASE j < k
        <5>1. j \in 1..Len(t) /\ j \in 1..(k - 1)
          BY <2>1, <2>6, <4>1
        <5> QED BY <2>6, <3>2, <5>1
      <4>2. CASE j > k
        <5>1. j - 1 \in 1..Len(t) /\ j - 1 \in k..(Len(s) - 1) /\ j - 1 + 1 = j
          BY <2>1, <2>6, <4>2
        <5> QED BY <2>6, <3>2, <5>1
      <4> QED BY <2>1, <3>2, <4>1, <4>2
    <3> QED BY <3>1, <3>2
  <2>10. DOMAIN t = 1..Len(t) /\ DOMAIN s = 1..Len(s)
    BY <2>6
  <2>11. ToSet(t) = ToSet(s) \ {p}
    BY <2>9, <2>10 DEF ToSet
  <2>12. IsInjective(t)
    BY <2>8, <2>10 DEF IsInjective
  <2> QED BY <2>4, <2>6, <2>11, <2>12
<1> QED BY <1>1, <1>2

(* What is selected at some positions of a sequence.                       *)
LEMMA SelectedElements ==
  ASSUME NEW S, NEW s \in Seq(S), NEW positions \in SUBSET (1..Len(s))
  PROVE  /\ IsSequence(ElementsAt(s, positions)) /\ Len(ElementsAt(s, positions)) \in Nat
         /\ positions # {} =>
              /\ 1 \in 1..Len(ElementsAt(s, positions))
              /\ \E i \in positions : ElementsAt(s, positions)[1] = s[i]
         /\ positions = {} => ElementsAt(s, positions) = <<>>
<1> DEFINE Chosen(k) == s[CHOOSE i \in positions : Cardinality({j \in positions : j <= i}) = k]
           t == [k \in 1..Cardinality(positions) |-> Chosen(k)]
<1>1. ElementsAt(s, positions) = t
  BY DEF ElementsAt
<1>2. IsFiniteSet(positions) /\ Cardinality(positions) \in Nat
  <2>1. IsFiniteSet(1..Len(s))
    BY FS_Interval
  <2>2. IsFiniteSet(positions)
    BY <2>1, FS_Subset
  <2> QED BY <2>2, FS_CardinalityType
<1>3. IsSequence(t) /\ Len(t) = Cardinality(positions)
  <2> DEFINE T == {Chosen(k) : k \in 1..Cardinality(positions)}
  <2> HIDE DEF Chosen
  <2>1. t \in [1..Cardinality(positions) -> T]
    OBVIOUS
  <2>2. t \in Seq(T)
    BY <1>2, <2>1
  <2> QED BY <1>2, <2>2 DEF IsSequence
<1>4. ASSUME positions # {}
      PROVE  1 \in 1..Len(t) /\ \E i \in positions : t[1] = s[i]
  <2>1. Cardinality(positions) >= 1
    BY <1>2, <1>4, FS_EmptySet
  <2>2. positions \subseteq Nat
    OBVIOUS
  <2>3. PICK i \in positions : \A y \in positions : ~(<<y, i>> \in OpToRel(<, Nat))
    BY <1>4, <2>2, NatLessThanWellFounded, WFMin
  <2>4. \A y \in positions : ~(y < i)
    BY <2>2, <2>3 DEF OpToRel
  <2>5. {j \in positions : j <= i} = {i}
    <3>1. i \in Nat
      BY <2>2
    <3>2. ASSUME NEW j \in positions PROVE j <= i <=> j = i
      <4>1. j \in Nat /\ ~(j < i)
        BY <2>2, <2>4
      <4> QED BY <3>1, <4>1
    <3> QED BY <3>2
  <2>6. Cardinality({j \in positions : j <= i}) = 1
    BY <2>5, FS_Singleton
  <2>7. (CHOOSE x \in positions : Cardinality({j \in positions : j <= x}) = 1) \in positions
    BY <2>6
  <2>8. t[1] = Chosen(1) /\ 1 \in 1..Len(t)
    BY <1>2, <1>3, <2>1
  <2> QED BY <2>7, <2>8
<1>5. positions = {} => t = <<>>
  BY <1>2, <1>3, FS_EmptySet
<1> HIDE DEF t
<1> QED BY <1>1, <1>2, <1>3, <1>4, <1>5

LEMMA RoleIsSequence ==
  ASSUME DeployedTypeOK, NEW role
  PROVE  /\ IsSequence(OfRole(role)) /\ Len(OfRole(role)) \in Nat
         /\ OfRole(role) # <<>> =>
              /\ 1 \in 1..Len(OfRole(role))
              /\ \E i \in 1..Len(running) : running[i] = OfRole(role)[1]
         /\ \A i \in 1..Len(running) : proc[running[i]].role = role => OfRole(role) # <<>>
<1> DEFINE positions == {i \in DOMAIN running : proc[running[i]].role = role}
<1>1. running \in Seq(1..Len(proc)) /\ positions \in SUBSET (1..Len(running))
  BY DEF DeployedTypeOK
<1>2. OfRole(role) = ElementsAt(running, positions)
  BY DEF OfRole
<1>3. \A i \in 1..Len(running) : proc[running[i]].role = role => i \in positions
  BY <1>1
<1> HIDE DEF positions
<1>4. /\ IsSequence(OfRole(role)) /\ Len(OfRole(role)) \in Nat
      /\ positions # {} =>
           /\ 1 \in 1..Len(OfRole(role))
           /\ \E i \in positions : OfRole(role)[1] = running[i]
      /\ positions = {} => OfRole(role) = <<>>
  BY <1>1, <1>2, SelectedElements
<1>5. positions # {} => OfRole(role) # <<>>
  BY <1>4
<1> QED BY <1>1, <1>3, <1>4, <1>5

LEMMA JoinSequences ==
  ASSUME NEW s, NEW t, IsSequence(s), IsSequence(t)
  PROVE  /\ IsSequence(s \o t) /\ Len(s) \in Nat /\ Len(t) \in Nat
         /\ \A i \in 1..Len(s) : i \in 1..Len(s \o t) /\ (s \o t)[i] = s[i]
         /\ \A i \in 1..Len(t) : i + Len(s) \in 1..Len(s \o t) /\ (s \o t)[i + Len(s)] = t[i]
<1>1. PICK S : s \in Seq(S)
  BY DEF IsSequence
<1>2. PICK T : t \in Seq(T)
  BY DEF IsSequence
<1>3. s \in Seq(S \cup T) /\ t \in Seq(S \cup T)
  BY <1>1, <1>2
<1>4. s \o t \in Seq(S \cup T)
  BY <1>3
<1> QED BY <1>3, <1>4 DEF IsSequence

LEMMA PartIsSequence ==
  ASSUME NEW s, IsSequence(s), NEW a \in Nat \ {0}
  PROVE  /\ IsSequence(SubSeq(s, a, Len(s))) /\ IsSequence(Reverse(SubSeq(s, a, Len(s))))
         /\ s # <<>> => IsSequence(SubSeq(s, 1, 1)) /\ 1 \in 1..Len(SubSeq(s, 1, 1))
              /\ SubSeq(s, 1, 1)[1] = s[1]
<1>1. PICK S : s \in Seq(S)
  BY DEF IsSequence
<1>2. SubSeq(s, a, Len(s)) \in Seq(S)
  BY <1>1
<1>3. ASSUME NEW t \in Seq(S) PROVE Reverse(t) \in Seq(S)
  BY DEF Reverse
<1>4. s # <<>> => SubSeq(s, 1, 1) \in Seq(S) /\ 1 \in 1..Len(SubSeq(s, 1, 1))
                    /\ SubSeq(s, 1, 1)[1] = s[1]
  BY <1>1
<1> QED BY <1>2, <1>3, <1>4 DEF IsSequence

LEMMA ReversedRunning ==
  ASSUME DeployedTypeOK
  PROVE  /\ IsSequence(Reverse(running))
         /\ \A i \in 1..Len(running) :
              \E k \in 1..Len(Reverse(running)) : Reverse(running)[k] = running[i]
<1>1. running \in Seq(1..Len(proc))
  BY DEF DeployedTypeOK
<1>2. Reverse(running) \in Seq(1..Len(proc)) /\ Len(Reverse(running)) = Len(running)
  BY <1>1 DEF Reverse
<1>3. ASSUME NEW i \in 1..Len(running)
      PROVE  \E k \in 1..Len(Reverse(running)) : Reverse(running)[k] = running[i]
  <2>1. Len(running) - i + 1 \in 1..Len(running)
    BY <1>1
  <2>2. Reverse(running)[Len(running) - i + 1] = running[Len(running) - (Len(running) - i + 1) + 1]
    BY <2>1 DEF Reverse
  <2>3. Len(running) - (Len(running) - i + 1) + 1 = i
    BY <1>1
  <2> QED BY <1>2, <2>1, <2>2, <2>3
<1> QED BY <1>2, <1>3 DEF IsSequence

-----------------------------------------------------------------------------
(* Reaping, launching and waiting.                                         *)

LEMMA ReapNextInv == ASSUME DeployedInv, ReapNext PROVE DeployedInv'
<1>0. PICK p : p = Head(op.reap)
  OBVIOUS
<1>1. /\ DeployedTypeOK /\ CallInv(op) /\ OwnedInv /\ ContainerInv /\ StopInv
      /\ DemonstrationInv /\ WellMade(script)
  BY DEF DeployedInv
<1>2. PICK answer \in ReapAnswers(p) :
        /\ Reaped(p, answer)
        /\ running' = IF answer = "reaped" THEN RemoveFirst(running, p) ELSE running
        /\ op' = [op EXCEPT !.reap = Tail(@), !.failed = FailedBy(answer)]
  BY <1>0 DEF ReapNext
<1>3. /\ op.reap # <<>>
      /\ UNCHANGED <<plan, script, provider, container, db, secret>>
      /\ proc' = [proc EXCEPT ![p].owner = answer, ![p].live = @ /\ answer = "survives"]
  BY <1>2 DEF ReapNext, Reaped
<1>4. /\ proc \in Seq(Managed) /\ running \in Seq(1..Len(proc)) /\ provider \in 0..Len(proc)
      /\ op.failed \in BOOLEAN /\ op.kind # "idle" /\ op.launch \in Seq(Workers)
  BY <1>1, <1>3 DEF DeployedTypeOK, CallInv
<1>5. PICK S : op.reap \in Seq(S)
  BY <1>1 DEF CallInv, IsSequence
<1>6. /\ op' = [kind |-> op.kind, reap |-> Tail(op.reap), launch |-> op.launch,
                ready |-> op.ready, failed |-> op.failed \/ answer = "survives"]
  BY <1>1, <1>2 DEF CallInv, FailedBy
<1>7. /\ Tail(op.reap) \in Seq(S) /\ p \in S
      /\ \A q : Reaps(q) => q = p \/ Reaps(q)'
  <2>1. Tail(op.reap) \in Seq(S) /\ p \in S /\ p = op.reap[1]
    BY <1>0, <1>3, <1>5
  <2>2. ASSUME NEW q, NEW k \in 1..Len(op.reap), op.reap[k] = q, q # p
        PROVE  \E l \in 1..Len(Tail(op.reap)) : Tail(op.reap)[l] = q
    <3>1. k # 1
      BY <2>1, <2>2
    <3>2. k - 1 \in 1..Len(Tail(op.reap)) /\ Tail(op.reap)[k - 1] = op.reap[k]
      BY <1>3, <1>5, <3>1
    <3> QED BY <2>2, <3>2
  <2> QED BY <1>6, <2>1, <2>2 DEF Reaps
<1>8. CallInv(op')
  BY <1>1, <1>4, <1>6, <1>7 DEF CallInv, IsSequence
<1>9. CASE p \in 1..Len(proc)
  <2>0. /\ proc[p] \in Managed /\ proc[p].owner \in {"open", "reaped", "survives"}
        /\ proc[p].live \in BOOLEAN /\ proc[p].role \in Workers \cup Behaviors
        /\ proc[p] = [role |-> proc[p].role, live |-> proc[p].live, owner |-> proc[p].owner]
    <3>1. proc[p] \in Managed
      BY <1>4, <1>9
    <3> QED BY <3>1 DEF Managed
  <2>1. /\ answer \in {"reaped", "survives"}
        /\ proc[p].owner # "open" => answer = proc[p].owner
    BY <1>2, <2>0 DEF ReapAnswers
  <2>2. /\ proc' \in Seq(Managed) /\ Len(proc') = Len(proc)
        /\ \A q \in 1..Len(proc) : q # p => proc'[q] = proc[q]
        /\ proc'[p].owner = answer /\ proc'[p].live = (proc[p].live /\ answer = "survives")
        /\ proc'[p].role = proc[p].role
    <3> DEFINE row == [role |-> proc[p].role, live |-> proc[p].live /\ answer = "survives",
                       owner |-> answer]
    <3>0. (proc[p].live /\ answer = "survives") \in BOOLEAN
      OBVIOUS
    <3>1. row \in Managed
      BY <2>0, <2>1, <3>0 DEF Managed
    <3>2. proc' = [proc EXCEPT ![p] = row]
      <4>1. p \in 1..Len(proc) /\ answer \in {"reaped", "survives"} /\ proc \in Seq(Managed)
        BY <1>4, <1>9, <2>1
      <4> QED BY <1>2, <4>1, ReapedRecord
    <3> HIDE DEF row
    <3>3. proc' \in Seq(Managed) /\ Len(proc') = Len(proc) /\ proc'[p] = row
          /\ \A q \in 1..Len(proc) : q # p => proc'[q] = proc[q]
      BY <1>4, <1>9, <3>1, <3>2
    <3> QED BY <3>3 DEF row
  <2>3. /\ running' \in Seq(1..Len(proc))
        /\ \A i, j \in 1..Len(running') : running'[i] = running'[j] => i = j
        /\ answer = "reaped" => \A q : Runs(q)' <=> q # p /\ Runs(q)
        /\ answer # "reaped" => running' = running
    <3>1. \A i, j \in 1..Len(running) : running[i] = running[j] => i = j
      BY <1>1 DEF OwnedInv
    <3>2. CASE answer = "reaped"
      <4>1. running' = RemoveFirst(running, p)
        BY <1>2, <3>2
      <4> DEFINE t == RemoveFirst(running, p)
      <4>2. t \in Seq(1..Len(proc)) /\ IsInjective(t) /\ ToSet(t) = ToSet(running) \ {p}
        <5>1. IsInjective(running)
          BY <1>4, <3>1 DEF IsInjective
        <5> QED BY <1>4, <5>1, RemovedFirst
      <4> HIDE DEF t
      <4>3. running' = t
        BY <4>1 DEF t
      <4>4. \A i, j \in 1..Len(t) : t[i] = t[j] => i = j
        BY <4>2 DEF IsInjective
      <4>5. \A q : q \in ToSet(t) <=> \E i \in 1..Len(t) : t[i] = q
        BY <4>2 DEF ToSet
      <4>6. \A q : q \in ToSet(running) <=> Runs(q)
        <5>1. DOMAIN running = 1..Len(running)
          BY <1>4
        <5> QED BY <5>1, Zenon DEF ToSet, Runs
      <4>7. ASSUME NEW q PROVE Runs(q)' <=> q # p /\ Runs(q)
        <5>1. Runs(q)' <=> \E i \in 1..Len(t) : t[i] = q
          BY <4>3 DEF Runs
        <5> QED BY <4>2, <4>5, <4>6, <5>1
      <4> QED BY <3>2, <4>2, <4>3, <4>4, <4>7
    <3>3. CASE answer # "reaped"
      BY <1>2, <1>4, <3>1, <3>3
    <3> QED BY <3>2, <3>3
  <2>4. /\ \A q : Runs(q)' => Runs(q) /\ q \in 1..Len(proc)
        /\ answer = "reaped" => ~Runs(p)'
        /\ \A q : Runs(q) /\ q # p => Runs(q)'
        /\ \A i \in 1..Len(running') : Runs(running[i])'
    <3>1. \A q : Runs(q) => q \in 1..Len(proc)
      BY <1>4 DEF Runs
    <3>2. \A i \in 1..Len(running') : Runs(running[i])'
      BY DEF Runs
    <3>3. answer = "reaped" => \A q : Runs(q)' <=> q # p /\ Runs(q)
      BY <2>3
    <3>4. answer # "reaped" => \A q : Runs(q)' <=> Runs(q)
      BY <2>3 DEF Runs
    <3>5. \A q : Runs(q)' => Runs(q)
      BY <3>3, <3>4
    <3>6. \A q : Runs(q) /\ q # p => Runs(q)'
      BY <3>3, <3>4
    <3>7. answer = "reaped" => ~Runs(p)'
      BY <3>3
    <3> QED BY <3>1, <3>2, <3>5, <3>6, <3>7
  <2>5. DeployedTypeOK'
    BY <1>1, <1>3, <2>2, <2>3 DEF DeployedTypeOK
  <2>6. OwnedInv'
    <3>1. \A i \in 1..Len(running') : proc'[running'[i]].role \in Workers
      <4> SUFFICES ASSUME NEW i \in 1..Len(running') PROVE proc'[running'[i]].role \in Workers
        OBVIOUS
      <4>1. Runs(running'[i]) /\ running'[i] \in 1..Len(proc)
        BY <2>4
      <4>2. proc[running'[i]].role \in Workers
        BY <1>1, <4>1 DEF OwnedInv, Runs
      <4> QED BY <2>2, <4>1, <4>2
    <3>2. ASSUME NEW q \in 1..Len(proc'), proc'[q].live PROVE q = provider \/ Runs(q)'
      <4>1. proc[q].live /\ (q = p => answer = "survives")
        BY <1>4, <2>2, <3>2
      <4>2. q = provider \/ Runs(q)
        BY <1>1, <2>2, <4>1 DEF OwnedInv
      <4> QED BY <2>1, <2>3, <2>4, <4>1, <4>2 DEF Runs
    <3>3. provider # 0 => ~Runs(provider)'
      <4>1. \A q : Runs(q)' => Runs(q)
        BY <2>4
      <4>2. provider # 0 => ~Runs(provider)
        BY <1>1 DEF OwnedInv
      <4> QED BY <1>3, <4>1, <4>2 DEF Runs
    <3>4. plan # "renewal"
      BY <1>1, <1>4 DEF OwnedInv
    <3> QED BY <1>1, <1>3, <2>3, <3>1, <3>2, <3>3, <3>4 DEF OwnedInv
  <2>7. ContainerInv'
    <3>1. op'.kind = op.kind
      BY <1>6
    <3>2. ASSUME container = "none", NEW i \in 1..Len(running')
          PROVE  proc'[running'[i]].owner = "survives"
      <4>1. Runs(running'[i]) /\ running'[i] \in 1..Len(proc) /\ Runs(running[i])'
        BY <2>4
      <4>2. proc[running'[i]].owner = "survives"
        BY <1>1, <3>2, <4>1 DEF ContainerInv, Runs
      <4> QED BY <2>1, <2>2, <2>4, <4>1, <4>2
    <3>3. ASSUME container = "none", running' # <<>>, ~op'.failed
          PROVE  op'.kind # "idle" /\ \E i \in 1..Len(running') : Reaps(running[i])'
      <4>1. ~op.failed /\ answer # "survives"
        BY <1>4, <1>6, <3>3
      <4>2. PICK j \in 1..Len(running') : TRUE
        BY <2>3, <3>3
      <4>3. Runs(running'[j])
        BY <2>4
      <4>4. running # <<>>
        BY <1>4, <4>3 DEF Runs
      <4>5. PICK i \in 1..Len(running) : Reaps(running[i]) /\ proc[running[i]].owner = "survives"
        BY <1>1, <3>3, <4>1, <4>4 DEF ContainerInv
      <4>6. \E q : Runs(q) /\ Reaps(q) /\ q # p
        BY <2>1, <4>1, <4>5 DEF Runs
      <4>7. PICK q : Runs(q) /\ Reaps(q) /\ q # p
        BY <4>6
      <4>8. Runs(q)' /\ Reaps(q)'
        BY <1>7, <2>4, <4>7
      <4> QED BY <1>4, <3>1, <4>8 DEF Runs, Reaps
    <3> QED BY <1>1, <1>3, <3>1, <3>2, <3>3 DEF ContainerInv
  <2>8. StopInv'
    <3> SUFFICES ASSUME op'.kind = "stop", NEW i \in 1..Len(running'), ~Reaps(running[i])'
                 PROVE  op'.failed /\ proc'[running'[i]].owner = "survives"
      BY DEF StopInv
    <3>1. op.kind = "stop"
      BY <1>6
    <3>2. Runs(running'[i]) /\ running'[i] \in 1..Len(proc) /\ Runs(running[i])'
      BY <2>4
    <3>3. CASE running'[i] = p
      <4>1. answer = "survives"
        <5>1. Runs(p)'
          BY <3>2, <3>3 DEF Runs
        <5> QED BY <2>1, <2>4, <5>1
      <4> QED BY <1>6, <2>2, <3>3, <4>1
    <3>4. CASE running'[i] # p
      <4>1. ~Reaps(running'[i])
        BY <1>7, <3>4
      <4>2. op.failed /\ proc[running'[i]].owner = "survives"
        BY <1>1, <3>1, <3>2, <4>1 DEF StopInv, Runs
      <4> QED BY <1>6, <2>2, <3>2, <3>4, <4>2
    <3> QED BY <3>3, <3>4
  <2>9. DemonstrationInv'
    <3>1. op'.kind = op.kind /\ (op.failed => op'.failed)
      BY <1>4, <1>6
    <3>2. running' # <<>> => running # <<>>
      <4>1. ASSUME running' # <<>> PROVE running # <<>>
        <5>1. PICK j \in 1..Len(running') : TRUE
          BY <2>3, <4>1
        <5>2. Runs(running'[j])
          BY <2>4
        <5> QED BY <1>4, <5>2 DEF Runs
      <4> QED BY <4>1
    <3>3. \A c : Pending(c)' <=> Pending(c)
      BY <1>3 DEF Pending
    <3> QED BY <1>1, <1>3, <1>4, <3>1, <3>2, <3>3 DEF DemonstrationInv
  <2>10. WellMade(script)'
    BY <1>1, <1>3 DEF WellMade
  <2> QED BY <1>8, <2>5, <2>6, <2>7, <2>8, <2>9, <2>10 DEF DeployedInv
<1>10. CASE p \notin 1..Len(proc)
  <2>1. ~Runs(p)
    BY <1>4, <1>10 DEF Runs
  <2>2. proc' = proc
    BY <1>3, <1>4, <1>10
  <2>3. running' = running
    <3>1. RemoveFirst(running, p) = running
      BY <2>1 DEF RemoveFirst, Runs
    <3> QED BY <1>2, <3>1
  <2>4. DeployedTypeOK' /\ WellMade(script)'
    BY <1>1, <1>3, <2>2, <2>3 DEF DeployedTypeOK, WellMade
  <2>5. OwnedInv'
    BY <1>1, <1>3, <1>4, <2>2, <2>3 DEF OwnedInv, Runs
  <2>6. \A i \in 1..Len(running) : running[i] # p
    BY <2>1 DEF Runs
  <2>7. ContainerInv' /\ StopInv'
    <3>1. \A i \in 1..Len(running) : Reaps(running[i]) => Reaps(running[i])'
      BY <1>7, <2>3, <2>6 DEF Reaps
    <3>2. op'.kind = op.kind /\ (op.failed => op'.failed)
      BY <1>4, <1>6
    <3> QED BY <1>1, <1>3, <2>2, <2>3, <3>1, <3>2 DEF ContainerInv, StopInv, Reaps
  <2>8. DemonstrationInv'
    <3>1. op'.kind = op.kind /\ (op.failed => op'.failed)
      BY <1>4, <1>6
    <3>2. \A c : Pending(c)' <=> Pending(c)
      BY <1>3 DEF Pending
    <3> QED BY <1>1, <1>3, <1>4, <2>3, <3>1, <3>2 DEF DemonstrationInv
  <2> QED BY <1>8, <2>4, <2>5, <2>7, <2>8 DEF DeployedInv
<1> QED BY <1>9, <1>10

LEMMA EndsInv == ASSUME DeployedInv, ReapingEnds \/ LaunchEnds PROVE DeployedInv'
<1>1. DeployedTypeOK /\ CallInv(op) /\ DemonstrationInv /\ op.failed \in BOOLEAN
  BY DEF DeployedInv, CallInv
<1>2. /\ op.kind # "idle" /\ op.reap = <<>>
      /\ UNCHANGED <<plan, proc, services, db>> /\ db' \in Database
  BY <1>1 DEF ReapingEnds, LaunchEnds, Reaping, DeployedTypeOK
<1>3. plan # "calls" => script # <<>>
  BY <1>1, <1>2 DEF DemonstrationInv
<1>4. CASE ReapingEnds
  <2>1. plan # "calls" /\ ~op.failed => ~Closing(script[1])
    BY <1>1, <1>4 DEF DemonstrationInv, ReapingEnds, Reaping, Closing
  <2> QED BY <1>1, <1>2, <1>3, <1>4, <2>1, ReturnedInv DEF ReapingEnds
<1>5. CASE LaunchEnds
  <2>1. plan # "calls" /\ ~op.failed => ~Closing(script[1])
    BY <1>1, <1>5 DEF DemonstrationInv, LaunchEnds, Opening, Closing
  <2> QED BY <1>1, <1>2, <1>3, <1>5, <2>1, ReturnedInv DEF LaunchEnds
<1> QED BY <1>4, <1>5

(* What a call that opens something must be followed by.                   *)
LEMMA StillToClose ==
  ASSUME WellMade(script), script # <<>>, NEW names, NEW closer,
         Followed(script, names, closer), script[1][1] \in names
  PROVE  Pending(closer)
<1>1. script \in Seq(Call) /\ 1 \in 1..Len(script)
  BY DEF WellMade
<1>2. PICK j \in (1 + 1)..Len(script) : script[j] = closer
  BY <1>1 DEF Followed
<1>3. j \in 1..Len(script)
  BY <1>1, <1>2
<1> QED BY <1>2, <1>3 DEF Pending

LEMMA LaunchInv == ASSUME DeployedInv, Launch PROVE DeployedInv'
<1>1. /\ DeployedTypeOK /\ CallInv(op) /\ OwnedInv /\ ContainerInv /\ DemonstrationInv
      /\ WellMade(script)
  BY DEF DeployedInv
<1>2. /\ op.reap = <<>> /\ ~op.failed /\ op.launch # <<>>
      /\ secret' = (secret \/ Head(op.launch) = "workflow-worker")
      /\ UNCHANGED <<plan, script, provider, container, db>>
  BY DEF Launch
<1>3. op.kind \in {"start", "scale"} /\ container = "up" /\ secret' \in BOOLEAN /\ plan # "renewal"
  BY <1>1, <1>2 DEF CallInv, ContainerInv, DeployedTypeOK, OwnedInv
<1>4. op.launch \in Seq(Workers) /\ Head(op.launch) \in Workers /\ Tail(op.launch) \in Seq(Workers)
  BY <1>1, <1>2 DEF CallInv
<1>5. plan # "calls" => script # <<>> /\ script[1][1] \in Opening /\ Pending(<<"stop">>)
  BY <1>1, <1>2, <1>3, StillToClose DEF DemonstrationInv, WellMade
<1>6. WellMade(script)' /\ \A c : Pending(c)' <=> Pending(c)
  BY <1>1, <1>2 DEF WellMade, Pending
<1>7. CASE /\ proc' = Launched(Head(op.launch))
           /\ running' = Append(running, Len(proc) + 1)
           /\ op' = [op EXCEPT !.launch = Tail(@), !.ready = Append(@, Len(proc) + 1)]
  <2> DEFINE row == [role |-> Head(op.launch), live |-> TRUE, owner |-> "open"]
  <2>1. row \in Managed /\ row.role \in Workers
    BY <1>4 DEF Managed
  <2>2. proc' = Append(proc, row)
    BY <1>7 DEF Launched
  <2> HIDE DEF row
  <2>3. proc \in Seq(Managed) /\ running \in Seq(1..Len(proc)) /\ provider \in 0..Len(proc)
    BY <1>1 DEF DeployedTypeOK
  <2>4. /\ proc' \in Seq(Managed) /\ Len(proc') = Len(proc) + 1 /\ proc'[Len(proc) + 1] = row
        /\ \A q \in 1..Len(proc) : proc'[q] = proc[q]
    BY <2>1, <2>2, <2>3
  <2>5. /\ running' \in Seq(1..Len(proc')) /\ Len(running') = Len(running) + 1
        /\ running'[Len(running) + 1] = Len(proc) + 1
        /\ \A i \in 1..Len(running) : running'[i] = running[i] /\ running[i] \in 1..Len(proc)
    <3>1. running \in Seq(1..Len(proc')) /\ Len(proc) + 1 \in 1..Len(proc')
      BY <2>3, <2>4
    <3> QED BY <1>7, <2>3, <3>1
  <2>6. /\ op'.kind = op.kind /\ op'.reap = op.reap /\ op'.failed = op.failed
        /\ op'.launch = Tail(op.launch) /\ CallInv(op')
    BY <1>1, <1>3, <1>4, <1>7 DEF CallInv
  <2>7. DeployedTypeOK'
    BY <1>1, <1>2, <1>3, <2>4, <2>5 DEF DeployedTypeOK
  <2>8. OwnedInv'
    <3>0. /\ Len(running) \in Nat /\ Len(proc) \in Nat
          /\ \A i \in 1..Len(running') : i \in 1..Len(running) \/ i = Len(running) + 1
          /\ \A q \in 1..Len(proc') : q \in 1..Len(proc) \/ q = Len(proc) + 1
          /\ \A q \in 0..Len(proc) : q # Len(proc) + 1
      BY <2>3, <2>4, <2>5
    <3>1. \A i, j \in 1..Len(running') : running'[i] = running'[j] => i = j
      <4>1. \A i, j \in 1..Len(running) : running[i] = running[j] => i = j
        BY <1>1 DEF OwnedInv
      <4>2. \A i \in 1..Len(running) : running'[i] = running[i] /\ running'[i] # Len(proc) + 1
        BY <2>5, <3>0
      <4> QED BY <2>5, <3>0, <4>1, <4>2
    <3>2. \A i \in 1..Len(running') : proc'[running'[i]].role \in Workers
      <4>1. \A i \in 1..Len(running) : proc'[running'[i]].role \in Workers
        BY <1>1, <2>4, <2>5 DEF OwnedInv
      <4> QED BY <2>1, <2>4, <2>5, <3>0, <4>1
    <3>3. \A q : Runs(q)' <=> Runs(q) \/ q = Len(proc) + 1
      <4>1. /\ Len(running) + 1 \in 1..Len(running')
            /\ \A i \in 1..Len(running) : i \in 1..Len(running')
        BY <2>5, <3>0
      <4> QED BY <2>5, <3>0, <4>1 DEF Runs
    <3>4. \A q \in 1..Len(proc') : proc'[q].live => q = provider \/ Runs(q)'
      <4>1. \A q \in 1..Len(proc) : proc'[q].live => q = provider \/ Runs(q)
        BY <1>1, <2>4 DEF OwnedInv
      <4> QED BY <3>0, <3>3, <4>1
    <3>5. provider # 0 => ~Runs(provider)'
      <4>1. provider # 0 => ~Runs(provider) /\ provider # Len(proc) + 1
        BY <1>1, <2>3, <3>0 DEF OwnedInv
      <4> QED BY <1>2, <3>3, <4>1 DEF Runs
    <3> QED BY <1>1, <1>2, <1>3, <3>1, <3>2, <3>4, <3>5 DEF OwnedInv
  <2>9. ContainerInv' /\ StopInv'
    BY <1>2, <1>3, <2>6 DEF ContainerInv, StopInv
  <2>10. DemonstrationInv'
    BY <1>1, <1>2, <1>3, <1>5, <1>6, <2>6 DEF DemonstrationInv, Reaping
  <2> QED BY <1>6, <2>6, <2>7, <2>8, <2>9, <2>10 DEF DeployedInv
<1>8. CASE op' = [op EXCEPT !.failed = TRUE] /\ UNCHANGED <<proc, running>>
  <2>1. op'.kind = op.kind /\ op'.failed /\ CallInv(op')
    BY <1>1, <1>8 DEF CallInv
  <2>2. DeployedTypeOK'
    BY <1>1, <1>2, <1>3, <1>8 DEF DeployedTypeOK
  <2>3. OwnedInv'
    BY <1>1, <1>2, <1>3, <1>8 DEF OwnedInv, Runs
  <2>4. ContainerInv' /\ StopInv'
    BY <1>2, <1>3, <2>1 DEF ContainerInv, StopInv
  <2>5. DemonstrationInv'
    BY <1>2, <1>3, <1>5, <2>1 DEF DemonstrationInv
  <2> QED BY <1>6, <2>1, <2>2, <2>3, <2>4, <2>5 DEF DeployedInv
<1> QED BY <1>7, <1>8 DEF Launch

LEMMA WaitReadyInv == ASSUME DeployedInv, WaitReady PROVE DeployedInv'
<1>1. /\ DeployedTypeOK /\ CallInv(op) /\ OwnedInv /\ ContainerInv /\ StopInv /\ DemonstrationInv
      /\ WellMade(script)
  BY DEF DeployedInv
<1>2. /\ ~op.failed /\ op.ready # <<>> /\ op.launch = <<>> /\ op.reap = <<>>
      /\ UNCHANGED <<plan, script, proc, services, db>>
      /\ op' = [op EXCEPT !.ready = Tail(@)] \/ op' = [op EXCEPT !.failed = TRUE]
  BY DEF WaitReady
<1>3. /\ CallInv(op') /\ op'.kind = op.kind /\ op'.reap = op.reap /\ op.kind # "idle"
      /\ op.failed => op'.failed
  BY <1>1, <1>2 DEF CallInv
<1>4. DeployedTypeOK' /\ WellMade(script)'
  BY <1>1, <1>2 DEF DeployedTypeOK, WellMade, services
<1>5. OwnedInv'
  BY <1>1, <1>2, <1>3 DEF OwnedInv, Runs, services
<1>6. ContainerInv' /\ StopInv'
  BY <1>1, <1>2, <1>3 DEF ContainerInv, StopInv, Reaps, services
<1>7. DemonstrationInv'
  <2>1. \A c : Pending(c)' <=> Pending(c)
    BY <1>2 DEF Pending
  <2> QED BY <1>1, <1>2, <1>3, <2>1 DEF DemonstrationInv, services
<1> QED BY <1>3, <1>4, <1>5, <1>6, <1>7 DEF DeployedInv

LEMMA StartFailsInv == ASSUME DeployedInv, StartFails PROVE DeployedInv'
<1>1. /\ DeployedTypeOK /\ CallInv(op) /\ OwnedInv /\ ContainerInv /\ DemonstrationInv
      /\ WellMade(script)
  BY DEF DeployedInv
<1>2. /\ op.kind = "start" /\ op.failed /\ container = "up" /\ plan # "renewal"
      /\ op' = [op EXCEPT !.kind = "stop", !.reap = Reverse(running)]
      /\ UNCHANGED <<plan, script, proc, services, db>>
  BY <1>1 DEF StartFails, ContainerInv, OwnedInv
<1>3. /\ CallInv(op') /\ op'.kind = "stop" /\ op'.reap = Reverse(running) /\ op'.failed
  BY <1>1, <1>2, ReversedRunning DEF CallInv
<1>4. DeployedTypeOK' /\ WellMade(script)'
  BY <1>1, <1>2 DEF DeployedTypeOK, WellMade, services
<1>5. OwnedInv'
  BY <1>1, <1>2, <1>3 DEF OwnedInv, Runs, services
<1>6. ContainerInv'
  BY <1>2, <1>3 DEF ContainerInv, services
<1>7. StopInv'
  BY <1>1, <1>2, <1>3, ReversedRunning DEF StopInv, Reaps, services
<1>8. DemonstrationInv'
  BY <1>1, <1>2, <1>3 DEF DemonstrationInv
<1> QED BY <1>3, <1>4, <1>5, <1>6, <1>7, <1>8 DEF DeployedInv

-----------------------------------------------------------------------------
(* The deployment, its container and the provider.                         *)

(* Some calls are made by demonstrations only.                             *)
LEMMA OnlyDemonstrated ==
  /\ \A role : <<"drain", role>> \notin Calls /\ <<"provider", role>> \notin Calls
  /\ <<"provider_stop">> \notin Calls /\ <<"database">> \notin Calls
  /\ <<"database_stop">> \notin Calls
BY DEF Calls

LEMMA EmptyDatabase == NoDatabase \in Database /\ Marked(NoDatabase) \in Database
<1>1. NoDatabase \in Database
  BY DEF NoDatabase, Database, Work
<1>2. (NoDatabase.work = "none") = TRUE
  BY DEF NoDatabase
<1>3. Marked(NoDatabase) = [marked |-> TRUE, foreign |-> FALSE, work |-> "none"]
  <2>1. Marked(NoDatabase) = [NoDatabase EXCEPT !.marked = (NoDatabase.work = "none")]
    BY DEF Marked
  <2>2. Marked(NoDatabase) = [NoDatabase EXCEPT !.marked = TRUE]
    BY <1>2, <2>1, Zenon
  <2> QED BY <2>2 DEF NoDatabase
<1> QED BY <1>1, <1>3 DEF Database, Work

LEMMA DatabaseIsOfRenewal ==
  ASSUME DeployedInv, NEW call \in {<<"database">>, <<"database_stop">>}, Asked(call)
  PROVE  /\ plan = "renewal" /\ running = <<>> /\ ~secret
         /\ script # <<>> /\ script[1] = call
<1>1. WellMade(script) /\ OwnedInv
  BY DEF DeployedInv
<1>2. plan # "calls" /\ script # <<>> /\ script[1] = call /\ 1 \in 1..Len(script)
  BY AskedShape, OnlyDemonstrated
<1>3. call[1] \in {"database", "database_stop"}
  OBVIOUS
<1>4. plan = "renewal"
  BY <1>1, <1>2, <1>3 DEF WellMade, Avoided
<1> QED BY <1>1, <1>2, <1>4 DEF OwnedInv

LEMMA StartDeploymentInv == ASSUME DeployedInv, StartDeployment PROVE DeployedInv'
<1> DEFINE call == <<"start">>
<1>1. /\ DeployedTypeOK /\ CallInv(op) /\ OwnedInv /\ ContainerInv /\ DemonstrationInv
      /\ WellMade(script)
  BY DEF DeployedInv
<1>2. /\ op.kind = "idle" /\ Asked(call) /\ UNCHANGED <<plan, proc, running, provider, secret>>
      /\ plan # "calls" => script # <<>> /\ call = script[1] /\ 1 \in 1..Len(script)
      /\ plan # "calls" => ~op.failed
  <2>1. Asked(call) /\ UNCHANGED <<plan, proc, running, provider, secret>>
    BY DEF StartDeployment
  <2>2. ~Closing(call)
    BY DEF Closing
  <2> HIDE DEF call
  <2> QED BY <2>1, <2>2, AskedShape
<1>3. CASE container # "none" \/ running # <<>>
  <2>1. Returned(TRUE) /\ UNCHANGED <<plan, proc, services>> /\ db' = db /\ db' \in Database
    BY <1>1, <1>2, <1>3 DEF StartDeployment, services, DeployedTypeOK
  <2> HIDE DEF call
  <2> QED BY <1>2, <2>1, AnsweredInv
<1>4. CASE ~(container # "none" \/ running # <<>>)
  <2>1. PICK failed \in BOOLEAN :
          /\ IF failed THEN ContainerFails ELSE ContainerStarts
          /\ op' = [NoCall EXCEPT !.kind = "start", !.launch = ROLES, !.failed = failed]
    BY <1>4 DEF StartDeployment
  <2>2. container' = "up" /\ db' \in Database /\ script' = script /\ running = <<>> /\ ~secret
    <3>1. container' = "up" /\ script' = script /\ running = <<>> /\ container = "none"
      BY <1>4, <2>1 DEF StartDeployment, ContainerFails, ContainerStarts
    <3>2. db' \in {NoDatabase, Marked(NoDatabase)}
      BY <2>1 DEF ContainerFails, ContainerStarts
    <3> QED BY <1>1, <3>1, <3>2, EmptyDatabase DEF ContainerInv
  <2>3. ROLES \in Seq(Workers)
    BY DEF ROLES, Workers
  <2>4. op' = [kind |-> "start", reap |-> <<>>, launch |-> ROLES, ready |-> <<>>, failed |-> failed]
    BY <2>1 DEF NoCall
  <2>5. CallInv(op') /\ op'.kind = "start"
    <3>1. <<>> \in Seq(Workers)
      OBVIOUS
    <3> QED BY <2>3, <2>4, <3>1 DEF CallInv, IsSequence
  <2>6. plan # "renewal"
    BY <1>1, <1>2 DEF WellMade, Avoided, Deployed
  <2>7. plan # "calls" => Pending(<<"stop">>) /\ script[1][1] \in Opening
    BY <1>1, <1>2, <2>6, StillToClose DEF WellMade, Opening
  <2>8. DeployedTypeOK' /\ WellMade(script)'
    BY <1>1, <1>2, <2>2 DEF DeployedTypeOK, WellMade
  <2>9. OwnedInv'
    BY <1>1, <1>2, <2>6 DEF OwnedInv, Runs
  <2>10. ContainerInv' /\ StopInv'
    BY <2>2, <2>5 DEF ContainerInv, StopInv
  <2>11. DemonstrationInv'
    <3>1. \A c : Pending(c)' <=> Pending(c)
      BY <2>2 DEF Pending
    <3> QED BY <1>1, <1>2, <2>2, <2>5, <2>7, <3>1 DEF DemonstrationInv, Reaping
  <2> QED BY <2>5, <2>8, <2>9, <2>10, <2>11 DEF DeployedInv
<1> QED BY <1>3, <1>4

LEMMA StopInvBegins == ASSUME DeployedInv, Stop PROVE DeployedInv'
<1> DEFINE call == <<"stop">>
<1>1. DeployedTypeOK
  BY DEF DeployedInv
<1>2. /\ Asked(call) /\ Begins("stop", Reverse(running), <<>>)
      /\ UNCHANGED <<plan, proc, services, db>> /\ <<>> \in Seq(Workers)
  BY DEF Stop
<1>3. running # <<>> => 1 \in 1..Len(running)
  BY <1>1 DEF DeployedTypeOK
<1> QED BY <1>1, <1>2, <1>3, BegunInv, ReversedRunning

(* The container of whoever closes it.                                     *)
LEMMA StopContainerInv ==
  ASSUME DeployedInv, NEW failed \in BOOLEAN, StopContainer(failed),
         UNCHANGED <<plan, proc, running, provider>>, secret' \in BOOLEAN, ~secret',
         plan # "calls" => script # <<>>,
         plan # "calls" /\ ~op.failed => script[1] # <<"provider_stop">>,
         \A i \in 1..Len(running) :
           (op.failed \/ failed) /\ proc[running[i]].owner = "survives"
  PROVE  DeployedInv'
<1>1. /\ DeployedTypeOK /\ CallInv(op) /\ OwnedInv /\ ContainerInv /\ DemonstrationInv
      /\ WellMade(script)
  BY DEF DeployedInv
<1>2. PICK how \in BOOLEAN :
        /\ Returned(how) /\ (failed => how)
        /\ \/ container' = "none" /\ db' = NoDatabase
           \/ container' = "broken" /\ how /\ db' = db
  BY DEF StopContainer
<1>3. /\ CallInv(op') /\ op'.kind = "idle" /\ op'.failed = (op.failed \/ how)
      /\ script' \in Seq(Call) /\ WellMade(script)'
      /\ plan # "calls" /\ op'.failed => script' = <<>> \/ Closing(script'[1])
      /\ plan # "calls" /\ ~op'.failed =>
           \A call : Pending(call) /\ script[1] # call => Pending(call)'
  BY <1>2, ReturnedScript
<1>4. db' \in Database
  BY <1>1, <1>2, EmptyDatabase DEF DeployedTypeOK
<1>5. DeployedTypeOK'
  BY <1>1, <1>2, <1>3, <1>4 DEF DeployedTypeOK
<1>6. OwnedInv'
  BY <1>1, <1>3 DEF OwnedInv, Runs
<1>7. running # <<>> => op'.failed
  <2>1. running # <<>> => 1 \in 1..Len(running)
    BY <1>1 DEF DeployedTypeOK
  <2> QED BY <1>2, <1>3, <2>1
<1>8. ContainerInv' /\ StopInv'
  BY <1>3, <1>7 DEF ContainerInv, StopInv
<1>9. DemonstrationInv'
  <2> SUFFICES ASSUME plan # "calls" PROVE DemonstrationInv'
    BY DEF DemonstrationInv
  <2>1. CASE op'.failed
    BY <1>3, <2>1 DEF DemonstrationInv
  <2>2. CASE ~op'.failed
    <3>1. container' = "none" /\ running = <<>> /\ ~op.failed
      BY <1>1, <1>2, <1>3, <1>7, <2>2 DEF CallInv
    <3>2. provider # 0 => Pending(<<"provider_stop">>)'
      BY <1>1, <1>3, <2>2, <3>1 DEF DemonstrationInv
    <3> QED BY <1>3, <2>2, <3>1, <3>2 DEF DemonstrationInv, Reaping
  <2> QED BY <2>1, <2>2
<1> QED BY <1>3, <1>5, <1>6, <1>8, <1>9 DEF DeployedInv

LEMMA StopEndsInv == ASSUME DeployedInv, StopEnds PROVE DeployedInv'
<1>1. CallInv(op) /\ StopInv /\ DemonstrationInv
  BY DEF DeployedInv
<1>2. /\ op.kind = "stop" /\ op.reap = <<>> /\ StopContainer(op.failed) /\ secret' = FALSE
      /\ UNCHANGED <<plan, proc, running, provider>> /\ op.failed \in BOOLEAN
  BY <1>1 DEF StopEnds, CallInv
<1>3. \A i \in 1..Len(running) : op.failed /\ proc[running[i]].owner = "survives"
  BY <1>1, <1>2 DEF StopInv, Reaps
<1>4. plan # "calls" => script # <<>>
  BY <1>1, <1>2 DEF DemonstrationInv
<1>5. plan # "calls" /\ ~op.failed => script[1] # <<"provider_stop">>
  BY <1>1, <1>2 DEF DemonstrationInv
<1> QED BY <1>2, <1>3, <1>4, <1>5, StopContainerInv

LEMMA CloseDatabaseInv == ASSUME DeployedInv, CloseDatabase PROVE DeployedInv'
<1> DEFINE call == <<"database_stop">>
<1>1. /\ Asked(call) /\ StopContainer(FALSE) /\ UNCHANGED <<plan, proc, running, provider, secret>>
  BY DEF CloseDatabase
<1>2. running = <<>> /\ ~secret /\ script # <<>> /\ script[1] = call
  BY <1>1, DatabaseIsOfRenewal
<1>3. op.kind = "idle" /\ secret \in BOOLEAN
  BY <1>1, AskedShape DEF DeployedInv, DeployedTypeOK
<1>4. script[1] # <<"provider_stop">> /\ \A i \in 1..Len(running) : FALSE
  BY <1>2
<1>5. secret' \in BOOLEAN /\ ~secret'
  BY <1>1, <1>2, <1>3
<1> HIDE DEF call
<1> QED BY <1>1, <1>2, <1>4, <1>5, StopContainerInv

LEMMA OpenDatabaseInv == ASSUME DeployedInv, OpenDatabase PROVE DeployedInv'
<1> DEFINE call == <<"database">>
<1>1. /\ DeployedTypeOK /\ CallInv(op) /\ OwnedInv /\ ContainerInv /\ DemonstrationInv
      /\ WellMade(script)
  BY DEF DeployedInv
<1>2. /\ Asked(call) /\ UNCHANGED <<plan, proc, running, provider, secret>>
  BY DEF OpenDatabase
<1>3. plan = "renewal" /\ running = <<>> /\ ~secret /\ script # <<>> /\ script[1] = call
  BY <1>2, DatabaseIsOfRenewal
<1>4. PICK failed \in BOOLEAN : Returned(failed)
  BY DEF OpenDatabase
<1>5. container' = "up" /\ db' \in {NoDatabase, Marked(NoDatabase)}
  BY DEF OpenDatabase, ContainerStarts, ContainerFails
<1>6. /\ CallInv(op') /\ op'.kind = "idle" /\ op'.failed = (op.failed \/ failed)
      /\ script' \in Seq(Call) /\ WellMade(script)'
      /\ plan # "calls" /\ op'.failed => script' = <<>> \/ Closing(script'[1])
      /\ plan # "calls" /\ ~op'.failed =>
           \A c : Pending(c) /\ script[1] # c => Pending(c)'
  BY <1>2, <1>3, <1>4, ReturnedScript
<1>7. db' \in Database
  BY <1>5, EmptyDatabase
<1>8. DeployedTypeOK'
  BY <1>1, <1>2, <1>5, <1>6, <1>7 DEF DeployedTypeOK
<1>9. OwnedInv' /\ ContainerInv' /\ StopInv'
  BY <1>1, <1>2, <1>3, <1>5, <1>6 DEF OwnedInv, Runs, ContainerInv, StopInv
<1>10. DemonstrationInv'
  <2>1. Pending(<<"database_stop">>) /\ script[1] # <<"database_stop">>
    BY <1>1, <1>3, StillToClose DEF WellMade
  <2>2. ASSUME ~op'.failed PROVE ~op.failed /\ Pending(<<"database_stop">>)'
          /\ (provider # 0 => Pending(<<"provider_stop">>)')
    <3>1. ~op.failed
      BY <1>1, <1>6, <2>2 DEF CallInv
    <3>2. script[1] # <<"provider_stop">>
      BY <1>3
    <3> QED BY <1>1, <1>3, <1>6, <2>1, <2>2, <3>1, <3>2 DEF DemonstrationInv
  <2> QED BY <1>2, <1>3, <1>6, <2>2 DEF DemonstrationInv, Reaping
<1> QED BY <1>6, <1>8, <1>9, <1>10 DEF DeployedInv

LEMMA StartProviderInv ==
  ASSUME DeployedInv, NEW behavior \in Behaviors, StartProvider(behavior)
  PROVE  DeployedInv'
<1> DEFINE call == <<"provider", behavior>>
<1>1. /\ DeployedTypeOK /\ CallInv(op) /\ OwnedInv /\ ContainerInv /\ DemonstrationInv
      /\ WellMade(script)
  BY DEF DeployedInv
<1>2. /\ Asked(call) /\ provider = 0 /\ UNCHANGED <<plan, running, container, db, secret>>
  BY DEF StartProvider
<1>3. ~Closing(call) /\ call[1] = "provider"
  BY DEF Closing
<1>4. /\ plan # "calls" /\ script # <<>> /\ script[1] = call /\ ~op.failed
      /\ op.kind = "idle" /\ op.reap = <<>> /\ ~(container = "none" /\ running # <<>>)
  BY <1>2, <1>3, AskedShape, OnlyDemonstrated
<1>5. db' \in Database
  BY <1>1, <1>2 DEF DeployedTypeOK
<1>6. CASE Returned(TRUE) /\ UNCHANGED <<proc, provider>>
  <2>1. UNCHANGED <<plan, proc, services>>
    BY <1>2, <1>6 DEF services
  <2> HIDE DEF call
  <2> QED BY <1>2, <1>5, <1>6, <2>1, AnsweredInv
<1>7. CASE proc' = Launched(behavior) /\ provider' = Len(proc) + 1 /\ Returned(FALSE)
  <2> DEFINE row == [role |-> behavior, live |-> TRUE, owner |-> "open"]
  <2>1. row \in Managed /\ row.role = behavior
    BY DEF Managed, Behaviors
  <2>2. proc' = Append(proc, row)
    BY <1>7 DEF Launched
  <2> HIDE DEF row
  <2>3. proc \in Seq(Managed) /\ running \in Seq(1..Len(proc))
    BY <1>1 DEF DeployedTypeOK
  <2>4. /\ proc' \in Seq(Managed) /\ Len(proc') = Len(proc) + 1 /\ proc'[Len(proc) + 1] = row
        /\ \A q \in 1..Len(proc) : proc'[q] = proc[q]
    BY <2>1, <2>2, <2>3
  <2>5. /\ running \in Seq(1..Len(proc')) /\ provider' \in 1..Len(proc')
        /\ proc'[provider'].role \in Behaviors
        /\ \A i \in 1..Len(running) : proc'[running[i]] = proc[running[i]]
    BY <1>7, <2>1, <2>3, <2>4
  <2>6. /\ CallInv(op') /\ op'.kind = "idle" /\ op'.failed = (op.failed \/ FALSE)
        /\ script' \in Seq(Call) /\ WellMade(script)'
        /\ plan # "calls" /\ ~op'.failed =>
             \A c : Pending(c) /\ script[1] # c => Pending(c)'
    BY <1>2, <1>4, <1>7, ReturnedScript
  <2>7. DeployedTypeOK'
    BY <1>1, <1>2, <1>5, <2>4, <2>5, <2>6 DEF DeployedTypeOK
  <2>8. OwnedInv'
    <3>1. \A q : Runs(q)' <=> Runs(q)
      BY <1>2 DEF Runs
    <3>2. ~Runs(provider')
      BY <1>7, <2>3 DEF Runs
    <3>a. \A q \in 1..Len(proc) : proc[q].live => Runs(q)
      <4>1. \A q \in 1..Len(proc) : proc[q].live => q = provider \/ Runs(q)
        BY <1>1 DEF OwnedInv
      <4>2. \A q \in 1..Len(proc) : q # provider
        BY <1>2
      <4> QED BY <4>1, <4>2
    <3>b. \A q \in 1..Len(proc') : q = provider' \/ q \in 1..Len(proc)
      <4>1. Len(proc) \in Nat
        BY <2>3
      <4>2. provider' = Len(proc) + 1 /\ Len(proc') = Len(proc) + 1
        BY <1>7, <2>4
      <4> QED BY <4>1, <4>2
    <3>3. \A q \in 1..Len(proc') : proc'[q].live => q = provider' \/ Runs(q)
      <4>1. \A q \in 1..Len(proc) : proc'[q] = proc[q]
        BY <2>4
      <4> QED BY <3>a, <3>b, <4>1
    <3> QED BY <1>1, <1>2, <1>4, <2>5, <2>6, <3>1, <3>2, <3>3 DEF OwnedInv
  <2>9. ContainerInv' /\ StopInv'
    BY <1>1, <1>2, <1>4, <2>5, <2>6 DEF ContainerInv, StopInv
  <2>10. DemonstrationInv'
    <3>1. Pending(<<"provider_stop">>)
      BY <1>1, <1>3, <1>4, StillToClose DEF WellMade
    <3>2. \A c \in {<<"stop">>, <<"provider_stop">>, <<"database_stop">>} : script[1] # c
      BY <1>4
    <3>3. \A c \in {<<"stop">>, <<"provider_stop">>, <<"database_stop">>} :
            Pending(c) => Pending(c)'
      BY <1>4, <2>6, <3>2
    <3> QED BY <1>1, <1>2, <1>4, <2>6, <3>1, <3>3 DEF DemonstrationInv, Reaping
  <2> QED BY <2>6, <2>7, <2>8, <2>9, <2>10 DEF DeployedInv
<1> QED BY <1>6, <1>7 DEF StartProvider

LEMMA StopProviderInv == ASSUME DeployedInv, StopProvider PROVE DeployedInv'
<1> DEFINE call == <<"provider_stop">>
<1>1. /\ DeployedTypeOK /\ CallInv(op) /\ OwnedInv /\ ContainerInv /\ DemonstrationInv
      /\ WellMade(script)
  BY DEF DeployedInv
<1>2. Asked(call) /\ UNCHANGED <<plan, running, container, db, secret>>
  BY DEF StopProvider
<1>3. /\ plan # "calls" /\ script # <<>> /\ script[1] = call
      /\ op.kind = "idle" /\ (container = "none" /\ running # <<>> => op.failed)
  BY <1>2, AskedShape, OnlyDemonstrated
<1>4. proc \in Seq(Managed) /\ running \in Seq(1..Len(proc)) /\ provider \in 0..Len(proc)
  BY <1>1 DEF DeployedTypeOK
<1>5. PICK failed \in BOOLEAN :
        /\ Returned(failed)
        /\ proc' \in Seq(Managed) /\ Len(proc') = Len(proc)
        /\ \A q \in 1..Len(proc) : proc'[q].role = proc[q].role
        /\ \A q \in 1..Len(proc) : q # provider => proc'[q] = proc[q]
        /\ \/ provider' = 0 /\ (provider # 0 => ~proc'[provider].live)
           \/ provider' = provider /\ failed
  <2>1. CASE provider = 0
    BY <1>4, <2>1 DEF StopProvider
  <2>2. CASE provider # 0
    <3>1. PICK answer \in ReapAnswers(provider) :
            /\ Reaped(provider, answer)
            /\ provider' = IF answer = "reaped" THEN 0 ELSE provider
            /\ Returned(answer = "survives")
      BY <2>2 DEF StopProvider
    <3>0. /\ provider \in 1..Len(proc) /\ proc[provider] \in Managed
      BY <1>4, <2>2
    <3>5a. /\ proc[provider].owner \in {"open", "reaped", "survives"}
           /\ proc[provider].live \in BOOLEAN /\ proc[provider].role \in Workers \cup Behaviors
           /\ proc[provider] = [role |-> proc[provider].role, live |-> proc[provider].live,
                                owner |-> proc[provider].owner]
      BY <3>0 DEF Managed
    <3>2. provider \in 1..Len(proc) /\ answer \in {"reaped", "survives"}
      BY <3>0, <3>5a, <3>1 DEF ReapAnswers
    <3> DEFINE row == [role |-> proc[provider].role,
                       live |-> proc[provider].live /\ answer = "survives", owner |-> answer]
    <3>3. row \in Managed /\ row.role = proc[provider].role /\ (answer = "reaped" => ~row.live)
      <4>1. (proc[provider].live /\ answer = "survives") \in BOOLEAN
        OBVIOUS
      <4> QED BY <3>2, <3>5a, <4>1 DEF Managed
    <3>4. proc' = [proc EXCEPT ![provider] = row]
      <4>1. PICK p : p = provider
        OBVIOUS
      <4>2. p \in 1..Len(proc) /\ Reaped(p, answer)
        BY <3>1, <3>2, <4>1
      <4> QED BY <1>4, <3>2, <4>1, <4>2, ReapedRecord
    <3> HIDE DEF row
    <3>5. proc' \in Seq(Managed) /\ Len(proc') = Len(proc) /\ proc'[provider] = row
          /\ \A q \in 1..Len(proc) : q # provider => proc'[q] = proc[q]
      BY <1>4, <3>2, <3>3, <3>4
    <3>6. (answer = "survives") \in BOOLEAN
      OBVIOUS
    <3> QED BY <3>1, <3>2, <3>3, <3>5, <3>6
  <2> QED BY <2>1, <2>2
<1>6. /\ CallInv(op') /\ op'.kind = "idle" /\ op'.failed = (op.failed \/ failed)
      /\ script' \in Seq(Call) /\ WellMade(script)'
      /\ plan # "calls" /\ op'.failed => script' = <<>> \/ Closing(script'[1])
      /\ plan # "calls" /\ ~op'.failed =>
           \A c : Pending(c) /\ script[1] # c => Pending(c)'
  BY <1>2, <1>3, <1>5, ReturnedScript
<1>7. \A i \in 1..Len(running) : running[i] \in 1..Len(proc) /\ proc'[running[i]] = proc[running[i]]
  BY <1>1, <1>4, <1>5 DEF OwnedInv, Runs
<1>8. DeployedTypeOK'
  <2>1. running' \in Seq(1..Len(proc')) /\ provider' \in 0..Len(proc')
    BY <1>2, <1>4, <1>5
  <2>2. provider' # 0 => proc'[provider'].role \in Behaviors
    BY <1>1, <1>4, <1>5 DEF DeployedTypeOK
  <2> QED BY <1>1, <1>2, <1>5, <1>6, <2>1, <2>2 DEF DeployedTypeOK
<1>9. OwnedInv'
  <2>1. \A q : Runs(q)' <=> Runs(q)
    BY <1>2 DEF Runs
  <2>2. \A q \in 1..Len(proc') : proc'[q].live => q = provider' \/ Runs(q)
    BY <1>1, <1>4, <1>5 DEF OwnedInv
  <2> QED BY <1>1, <1>2, <1>3, <1>5, <1>6, <1>7, <2>1, <2>2 DEF OwnedInv
<1>10. ContainerInv' /\ StopInv'
  BY <1>1, <1>2, <1>3, <1>6, <1>7 DEF ContainerInv, StopInv
<1>11. DemonstrationInv'
  <2>1. CASE op'.failed
    BY <1>6, <2>1, <1>2, <1>3 DEF DemonstrationInv
  <2>2. CASE ~op'.failed
    <3>1. ~op.failed /\ ~failed /\ provider' = 0
      BY <1>1, <1>5, <1>6, <2>2 DEF CallInv
    <3>2. script[1] # <<"stop">> /\ script[1] # <<"database_stop">>
      BY <1>3
    <3> QED BY <1>1, <1>2, <1>3, <1>6, <2>2, <3>1, <3>2 DEF DemonstrationInv, Reaping
  <2> QED BY <2>1, <2>2
<1> QED BY <1>6, <1>8, <1>9, <1>10, <1>11 DEF DeployedInv

-----------------------------------------------------------------------------
(* The calls for one role, or for all.                                     *)

LEMMA CallsInv ==
  ASSUME DeployedInv, NEW role \in Workers,
         \/ Drain \/ DrainRole(role) \/ Terminate(role) \/ Restart(role)
         \/ \E n \in 0..3 : Scale(role, n)
  PROVE  DeployedInv'
<1>1. /\ DeployedTypeOK /\ CallInv(op) /\ OwnedInv /\ db \in Database
      /\ running \in Seq(1..Len(proc))
  BY DEF DeployedInv, DeployedTypeOK
<1>2. \A r : IsSequence(OfRole(r)) /\ Len(OfRole(r)) \in Nat
  BY <1>1, RoleIsSequence
<1>3. <<>> \in Seq(Workers) /\ <<role>> \in Seq(Workers)
  OBVIOUS
<1>4. CASE Drain
  <2> DEFINE call == <<"drain">>
  <2>1. Asked(call) /\ Begins("drain", Drained, <<>>) /\ UNCHANGED <<plan, proc, services, db>>
    BY <1>4 DEF Drain
  <2>2. IsSequence(Drained)
    BY <1>2, JoinSequences DEF Drained
  <2>3. ASSUME running # <<>>
        PROVE  \E i \in 1..Len(running) : \E k \in 1..Len(Drained) : Drained[k] = running[i]
    <3> DEFINE a == OfRole(ROLES[1])
               b == OfRole(ROLES[2])
               c == OfRole(ROLES[3])
    <3>1. Drained = (a \o b) \o c
      BY DEF Drained
    <3>2. proc[running[1]].role \in {ROLES[1], ROLES[2], ROLES[3]} /\ 1 \in 1..Len(running)
      BY <1>1, <2>3 DEF OwnedInv, Workers, ROLES
    <3>3. IsSequence(a) /\ IsSequence(b) /\ IsSequence(c) /\ IsSequence(a \o b)
      BY <1>2, JoinSequences
    <3>4. PICK r \in {ROLES[1], ROLES[2], ROLES[3]} : OfRole(r) # <<>>
      BY <1>1, <3>2, RoleIsSequence
    <3>5. 1 \in 1..Len(OfRole(r)) /\ \E i \in 1..Len(running) : running[i] = OfRole(r)[1]
      BY <1>1, <3>4, RoleIsSequence
    <3>6. OfRole(r) \in {a, b, c}
      BY <3>4
    <3> HIDE DEF a, b, c
    <3>7. CASE OfRole(r) = a
      <4>1. 1 \in 1..Len(a \o b) /\ (a \o b)[1] = a[1]
        BY <3>3, <3>5, <3>7, JoinSequences
      <4>2. 1 \in 1..Len(Drained) /\ Drained[1] = a[1]
        BY <3>1, <3>3, <4>1, JoinSequences
      <4> QED BY <3>5, <3>7, <4>2
    <3>8. CASE OfRole(r) = b
      <4>1. 1 + Len(a) \in 1..Len(a \o b) /\ (a \o b)[1 + Len(a)] = b[1]
        BY <3>3, <3>5, <3>8, JoinSequences
      <4>2. 1 + Len(a) \in 1..Len(Drained) /\ Drained[1 + Len(a)] = b[1]
        BY <3>1, <3>3, <4>1, JoinSequences
      <4> QED BY <3>5, <3>8, <4>2
    <3>9. CASE OfRole(r) = c
      <4>1. 1 + Len(a \o b) \in 1..Len(Drained) /\ Drained[1 + Len(a \o b)] = c[1]
        BY <3>1, <3>3, <3>5, <3>9, JoinSequences
      <4> QED BY <3>5, <3>9, <4>1
    <3> QED BY <3>6, <3>7, <3>8, <3>9
  <2>4. call[1] \in Reaping /\ "drain" \in Reaping
    BY DEF Reaping
  <2> HIDE DEF call
  <2> QED BY <1>3, <2>1, <2>2, <2>3, <2>4, BegunInv
<1>5. CASE DrainRole(role)
  <2> DEFINE call == <<"drain", role>>
  <2>1. Asked(call) /\ Begins("drain", OfRole(role), <<>>)
        /\ UNCHANGED <<plan, proc, services, db>>
    BY <1>5 DEF DrainRole
  <2>2. call[1] \in Reaping /\ "drain" \in Reaping
    BY DEF Reaping
  <2>3. plan # "calls"
    BY <2>1, AskedShape, OnlyDemonstrated
  <2> HIDE DEF call
  <2> QED BY <1>2, <1>3, <2>1, <2>2, <2>3, BegunInv
<1>6. CASE Terminate(role)
  <2> DEFINE call == <<"terminate", role>>
             first == SubSeq(OfRole(role), 1, 1)
  <2>1. Asked(call) /\ UNCHANGED <<plan, proc, services, db>>
    BY <1>6 DEF Terminate
  <2>2. call[1] \in Reaping /\ "terminate" \in Reaping
    BY DEF Reaping
  <2>3. CASE OfRole(role) = <<>>
    <3>1. Returned(TRUE) /\ db' \in Database
      BY <1>1, <1>6, <2>1, <2>3 DEF Terminate
    <3>2. UNCHANGED <<plan, proc, services>>
      BY <2>1
    <3> HIDE DEF call
    <3> QED BY <2>1, <3>1, <3>2, AnsweredInv
  <2>4. CASE OfRole(role) # <<>>
    <3>1. Begins("terminate", first, <<>>)
      BY <1>6, <2>4 DEF Terminate
    <3>2. IsSequence(first) /\ 1 \in 1..Len(first) /\ first[1] = OfRole(role)[1]
      BY <1>2, <2>4, PartIsSequence
    <3>3. \E i \in 1..Len(running) : \E k \in 1..Len(first) : first[k] = running[i]
      BY <1>1, <2>4, <3>2, RoleIsSequence
    <3> HIDE DEF call, first
    <3> QED BY <1>3, <2>1, <2>2, <3>1, <3>2, <3>3, BegunInv
  <2> QED BY <2>3, <2>4
<1>7. CASE Restart(role)
  <2> DEFINE call == <<"restart", role>>
  <2>1. Asked(call) /\ Begins("scale", OfRole(role), <<role>>)
        /\ container = "up" /\ UNCHANGED <<plan, proc, services, db>>
    BY <1>7 DEF Restart
  <2>2. call[1] \in Opening
    BY DEF Opening
  <2> HIDE DEF call
  <2> QED BY <1>2, <1>3, <2>1, <2>2, BegunInv
<1>8. CASE \E n \in 0..3 : Scale(role, n)
  <2>1. PICK n \in 0..3 : Scale(role, n)
    BY <1>8
  <2> DEFINE call == <<"scale", role, n>>
             current == OfRole(role)
             more == n - Len(current)
             reap == Reverse(SubSeq(current, n + 1, Len(current)))
             launch == [i \in 1..more |-> role]
  <2>2. Asked(call) /\ Begins("scale", reap, launch)
        /\ container = "up" /\ UNCHANGED <<plan, proc, services, db>>
    BY <2>1 DEF Scale
  <2>3. IsSequence(reap)
    <3>1. n + 1 \in Nat \ {0}
      OBVIOUS
    <3> QED BY <1>2, <3>1, PartIsSequence
  <2>4. launch \in Seq(Workers)
    <3>1. more \in Int
      BY <1>2
    <3> HIDE DEF more
    <3>2. CASE more >= 0
      BY <3>1, <3>2
    <3>3. CASE more < 0
      <4>1. 1..more = 1..0
        BY <3>1, <3>3
      <4>2. [i \in 1..0 |-> role] \in Seq(Workers)
        OBVIOUS
      <4> QED BY <4>1, <4>2
    <3> QED BY <3>1, <3>2, <3>3
  <2>5. call[1] \in Opening
    BY DEF Opening
  <2> HIDE DEF call, reap, launch
  <2> QED BY <2>2, <2>3, <2>4, <2>5, BegunInv
<1> QED BY <1>4, <1>5, <1>6, <1>7, <1>8

-----------------------------------------------------------------------------
(* The renewal of a demonstration, and what the processes do by themselves.*)

LEMMA WorkIsKept ==
  ASSUME DeployedTypeOK, NEW work \in Work
  PROVE  /\ WorkDone(work) \in Work /\ Delivered(work) \in Work /\ WorkerDone(work) \in Work
         /\ DeliveryDone(work) \in Work
         /\ work # "none" =>
              /\ WorkDone(work) # "none" /\ Delivered(work) # "none" /\ WorkerDone(work) # "none"
              /\ DeliveryDone(work) # "none"
<1> DEFINE dispatched == Dispatched(IF provider = 0 THEN "uncertain" ELSE proc[provider].role)
<1>1. dispatched \in Behaviors \cup {"uncertain"}
  BY DEF Dispatched, DeployedTypeOK
<1> HIDE DEF dispatched
<1>2. WorkDone(work) \in Work /\ (work # "none" => WorkDone(work) # "none")
  <2>1. WorkDone(work) \in {"gathered", "drafted", dispatched, work}
    BY DEF WorkDone, dispatched
  <2> QED BY <1>1, <2>1 DEF Work, Behaviors
<1>3. WorkDone("approved") = dispatched
  BY DEF WorkDone, dispatched
<1>4. WorkerDone(work) \in {"dispatching", dispatched, WorkDone(work)}
  BY <1>3 DEF WorkerDone
<1>5. /\ Delivered(work) \in {"presented", work}
      /\ DeliveryDone(work) \in {"delivering", "presented", work}
  BY DEF Delivered, DeliveryDone
<1> QED BY <1>1, <1>2, <1>4, <1>5 DEF Work, Behaviors

(* A renewal that is there is not taken back.                              *)
Renewing ==
  \/ SubmitFixture \/ RunWorker \/ RunDelivery \/ Approve
  \/ \E work \in {"presented", "applied", "not_applied", "uncertain"} : Expect(work)
  \/ \E k \in 1..2 : Post(k)
  \/ \E work \in {"dispatching", "applied", "drafted", "delivering", "presented"} : Await(work)
  \/ Queue \/ Verify \/ Lock \/ Unlock

LEMMA RenewingIsCall ==
  ASSUME DeployedTypeOK, Renewing
  PROVE  \E call, changed, failed :
           /\ RenewalCall(call, changed, failed) /\ ~Closing(call)
           /\ changed \in Work /\ failed \in BOOLEAN
           /\ db.work # "none" => changed # "none"
<1> DEFINE Good(call, changed, failed) ==
      /\ RenewalCall(call, changed, failed) /\ ~Closing(call)
      /\ changed \in Work /\ failed \in BOOLEAN
      /\ db.work # "none" => changed # "none"
<1> SUFFICES \E call, changed, failed : Good(call, changed, failed)
  OBVIOUS
<1>1. db.work \in Work /\ "submitted" \in Work /\ "approved" \in Work
  BY DEF DeployedTypeOK, Database, Work
<1>2. /\ WorkDone(db.work) \in Work /\ Delivered(db.work) \in Work
      /\ db.work # "none" => WorkDone(db.work) # "none" /\ Delivered(db.work) # "none"
  BY <1>1, WorkIsKept
<1>3. \A name, x :
        name \notin {"stop", "provider_stop", "database_stop"} =>
          ~Closing(<<name>>) /\ ~Closing(<<name, x>>)
  BY DEF Closing
<1>4. CASE SubmitFixture
  <2>1. Good(<<"submit">>, "submitted", FALSE)
    BY <1>1, <1>3, <1>4 DEF SubmitFixture
  <2> HIDE DEF Good
  <2> QED BY <2>1
<1>5. CASE RunWorker
  <2>1. Good(<<"work">>, WorkDone(db.work), FALSE)
    BY <1>2, <1>3, <1>5 DEF RunWorker
  <2> HIDE DEF Good
  <2> QED BY <2>1
<1>6. CASE RunDelivery
  <2>1. Good(<<"deliver">>, Delivered(db.work), db.work # "drafted")
    BY <1>2, <1>3, <1>6 DEF RunDelivery
  <2> HIDE DEF Good
  <2> QED BY <2>1
<1>7. CASE Approve
  <2>1. Good(<<"approve">>, "approved", db.work # "presented")
    BY <1>1, <1>3, <1>7 DEF Approve
  <2> HIDE DEF Good
  <2> QED BY <2>1
<1>8. CASE \E work \in {"presented", "applied", "not_applied", "uncertain"} : Expect(work)
  <2>1. PICK work : Expect(work)
    BY <1>8
  <2>2. Good(<<"expect", work>>, db.work, db.work # work)
    BY <1>1, <1>3, <2>1 DEF Expect
  <2> HIDE DEF Good
  <2> QED BY <2>2
<1>9. CASE \E k \in 1..2 : Post(k)
  <2>1. PICK k \in 1..2 : Post(k)
    BY <1>9
  <2>2. Good(<<"post", k>>, IF Answering(k) /\ db.work = "none" THEN "submitted" ELSE db.work,
             ~Answering(k))
    BY <1>1, <1>3, <2>1 DEF Post
  <2> HIDE DEF Good
  <2> QED BY <2>2
<1>10. CASE \E work \in {"dispatching", "applied", "drafted", "delivering", "presented"} :
              Await(work)
  <2>1. PICK work : Await(work)
    BY <1>10
  <2>2. Good(<<"await", work>>, db.work, db.work # work)
    BY <1>1, <1>3, <2>1 DEF Await
  <2> HIDE DEF Good
  <2> QED BY <2>2
<1>11. CASE Queue
  <2> DEFINE all == Answering(1) /\ Answering(2)
  <2>1. Good(<<"queue">>, IF all THEN "submitted" ELSE db.work, ~all)
    BY <1>1, <1>3, <1>11 DEF Queue
  <2> HIDE DEF Good
  <2> QED BY <2>1
<1>12. CASE Verify
  <2>1. Good(<<"verify">>, db.work, db.work # "presented")
    BY <1>1, <1>3, <1>12 DEF Verify
  <2> HIDE DEF Good
  <2> QED BY <2>1
<1>13. CASE Lock
  <2>1. Good(<<"lock">>, db.work, FALSE)
    BY <1>1, <1>3, <1>13 DEF Lock
  <2> HIDE DEF Good
  <2> QED BY <2>1
<1>14. CASE Unlock
  <2>1. Good(<<"unlock">>, db.work, FALSE)
    BY <1>1, <1>3, <1>14 DEF Unlock
  <2> HIDE DEF Good
  <2> QED BY <2>1
<1> QED
  BY <1>4, <1>5, <1>6, <1>7, <1>8, <1>9, <1>10, <1>11, <1>12, <1>13, <1>14 DEF Renewing

LEMMA RenewingInv ==
  ASSUME DeployedInv, Renewing
  PROVE  DeployedInv' /\ (db.work # "none" => db'.work # "none")
<1>1. DeployedTypeOK /\ db \in Database
  BY DEF DeployedInv, DeployedTypeOK
<1>2. PICK call, changed, failed :
        /\ RenewalCall(call, changed, failed) /\ ~Closing(call)
        /\ changed \in Work /\ failed \in BOOLEAN
        /\ db.work # "none" => changed # "none"
  BY <1>1, RenewingIsCall
<1>3. /\ Asked(call) /\ Returned(failed) /\ UNCHANGED <<plan, proc, services>>
      /\ db' = [db EXCEPT !.work = changed]
  BY <1>2 DEF RenewalCall
<1>4. db' \in Database /\ db'.work = changed
  BY <1>1, <1>2, <1>3 DEF Database
<1>5. DeployedInv'
  BY <1>2, <1>3, <1>4, AnsweredInv
<1> QED BY <1>2, <1>4, <1>5

LEMMA ResetInv == ASSUME DeployedInv, Reset PROVE DeployedInv'
<1> DEFINE call == <<"reset">>
<1>1. /\ Asked(call) /\ UNCHANGED <<plan, proc, services>> /\ db \in Database
      /\ ~Closing(call)
  BY DEF Reset, DeployedInv, DeployedTypeOK, Closing
<1>2. PICK failed \in BOOLEAN : Returned(failed) /\ db' \in {db, [db EXCEPT !.work = "none"]}
  BY DEF Reset
<1>3. db' \in Database
  BY <1>1, <1>2 DEF Database, Work
<1> HIDE DEF call
<1> QED BY <1>1, <1>2, <1>3, AnsweredInv

(* Nobody calls.                                                           *)
LEMMA BesideInv ==
  ASSUME DeployedInv,
         Intrudes \/ ClientSubmits \/ \E p \in DOMAIN proc : WorkerActs(p) \/ ProcessDies(p)
  PROVE  DeployedInv'
<1>1. /\ DeployedTypeOK /\ CallInv(op) /\ OwnedInv /\ ContainerInv /\ StopInv /\ DemonstrationInv
      /\ WellMade(script) /\ proc \in Seq(Managed) /\ db \in Database
      /\ running \in Seq(1..Len(proc)) /\ provider \in 0..Len(proc)
  BY DEF DeployedInv, DeployedTypeOK
<1>2. CASE db' \in Database /\ UNCHANGED <<plan, script, op, proc, services>>
  <2>1. DeployedTypeOK' /\ WellMade(script)' /\ CallInv(op')
    BY <1>1, <1>2 DEF DeployedTypeOK, WellMade, services
  <2>2. OwnedInv' /\ ContainerInv' /\ StopInv'
    BY <1>1, <1>2 DEF OwnedInv, Runs, ContainerInv, StopInv, Reaps, services
  <2>3. DemonstrationInv'
    BY <1>1, <1>2 DEF DemonstrationInv, Pending, services
  <2> QED BY <2>1, <2>2, <2>3 DEF DeployedInv
<1>3. CASE Intrudes
  <2>1. db' \in Database
    BY <1>1, <1>3 DEF Intrudes, Database
  <2> QED BY <1>2, <1>3, <2>1 DEF Intrudes
<1>4. CASE ClientSubmits
  <2>1. db' \in Database
    BY <1>1, <1>4 DEF ClientSubmits, Database, Work
  <2> QED BY <1>2, <1>4, <2>1 DEF ClientSubmits
<1>5. ASSUME NEW p \in DOMAIN proc, WorkerActs(p) PROVE DeployedInv'
  <2>1. db.work \in Work
    BY <1>1 DEF Database
  <2>2. WorkerDone(db.work) \in Work /\ DeliveryDone(db.work) \in Work
    BY <1>1, <2>1, WorkIsKept
  <2>3. db' \in {[db EXCEPT !.work = WorkerDone(@)], [db EXCEPT !.work = DeliveryDone(@)]}
    BY <1>5 DEF WorkerActs
  <2>4. db' \in Database
    BY <1>1, <2>2, <2>3 DEF Database
  <2> QED BY <1>2, <1>5, <2>4 DEF WorkerActs
<1>6. ASSUME NEW p \in DOMAIN proc, ProcessDies(p) PROVE DeployedInv'
  <2>1. proc' = [proc EXCEPT ![p].live = FALSE] /\ UNCHANGED <<plan, script, op, services, db>>
    BY <1>6 DEF ProcessDies
  <2>2. p \in 1..Len(proc)
    BY <1>1
  <2>3. /\ proc' \in Seq(Managed) /\ Len(proc') = Len(proc)
        /\ \A q \in 1..Len(proc) : /\ proc'[q].role = proc[q].role /\ proc'[q].owner = proc[q].owner
                                   /\ proc'[q].live => proc[q].live
    <3> DEFINE row == [role |-> proc[p].role, live |-> FALSE, owner |-> proc[p].owner]
    <3>0. proc[p] \in Managed
      BY <1>1, <2>2
    <3>1. row \in Managed
      BY <3>0 DEF Managed
    <3>2. proc' = [proc EXCEPT ![p] = row]
      BY <1>1, <2>1, <2>2, DeadRecord
    <3>3. row.role = proc[p].role /\ row.owner = proc[p].owner /\ ~row.live
      OBVIOUS
    <3> HIDE DEF row
    <3> QED BY <1>1, <2>2, <3>1, <3>2, <3>3
  <2>4. DeployedTypeOK' /\ WellMade(script)' /\ CallInv(op')
    <3>1. running' \in Seq(1..Len(proc')) /\ provider' \in 0..Len(proc')
      BY <1>1, <2>1, <2>3 DEF services
    <3>2. provider' # 0 => proc'[provider'].role \in Behaviors
      BY <1>1, <2>1, <2>3 DEF DeployedTypeOK, services
    <3> QED BY <1>1, <2>1, <2>3, <3>1, <3>2 DEF DeployedTypeOK, WellMade, services
  <2>5. \A i \in 1..Len(running) :
          /\ proc'[running[i]].role = proc[running[i]].role
          /\ proc'[running[i]].owner = proc[running[i]].owner
    BY <1>1, <2>3
  <2>6. OwnedInv' /\ ContainerInv' /\ StopInv'
    BY <1>1, <2>1, <2>3, <2>5 DEF OwnedInv, Runs, ContainerInv, StopInv, Reaps, services
  <2>7. DemonstrationInv'
    BY <1>1, <2>1 DEF DemonstrationInv, Pending, services
  <2> QED BY <2>4, <2>6, <2>7 DEF DeployedInv
<1> QED BY <1>3, <1>4, <1>5, <1>6

-----------------------------------------------------------------------------
(* The theorems.                                                           *)

LEMMA DeployedNext == DeployedInv /\ [PlaygroundNext]_playground => DeployedInv'
<1> SUFFICES ASSUME DeployedInv, [PlaygroundNext]_playground PROVE DeployedInv'
  OBVIOUS
<1>1. \A i \in 1..3 : ROLES[i] \in Workers
  BY DEF ROLES, Workers
<1>2. CASE UNCHANGED playground
  BY <1>2 DEF playground, services, DeployedInv, DeployedTypeOK, OwnedInv, Runs, WellMade,
    ContainerInv, Reaps, StopInv, DemonstrationInv, Pending
<1>3. CASE StartDeployment
  BY <1>3, StartDeploymentInv
<1>4. CASE Stop
  BY <1>4, StopInvBegins
<1>5. CASE Drain
  BY <1>5, CallsInv DEF Workers
<1>6. CASE Reset
  BY <1>6, ResetInv
<1>7. CASE \E i \in 1..3 :
             \/ DrainRole(ROLES[i]) \/ Terminate(ROLES[i]) \/ Restart(ROLES[i])
             \/ \E n \in 0..3 : Scale(ROLES[i], n)
  BY <1>1, <1>7, CallsInv
<1>8. CASE ReapNext
  BY <1>8, ReapNextInv
<1>9. CASE ReapingEnds \/ LaunchEnds
  BY <1>9, EndsInv
<1>10. CASE Launch
  BY <1>10, LaunchInv
<1>11. CASE WaitReady
  BY <1>11, WaitReadyInv
<1>12. CASE StartFails
  BY <1>12, StartFailsInv
<1>13. CASE StopEnds
  BY <1>13, StopEndsInv
<1>14. CASE \E behavior \in {"applied", "not_applied"} : StartProvider(behavior)
  BY <1>14, StartProviderInv DEF Behaviors
<1>15. CASE StopProvider
  BY <1>15, StopProviderInv
<1>16. CASE OpenDatabase
  BY <1>16, OpenDatabaseInv
<1>17. CASE CloseDatabase
  BY <1>17, CloseDatabaseInv
<1>18. CASE Renewing
  BY <1>18, RenewingInv
<1>19. CASE Intrudes \/ ClientSubmits \/ \E p \in DOMAIN proc : WorkerActs(p) \/ ProcessDies(p)
  BY <1>19, BesideInv
<1> QED
  BY <1>2, <1>3, <1>4, <1>5, <1>6, <1>7, <1>8, <1>9, <1>10, <1>11, <1>12, <1>13, <1>14, <1>15,
     <1>16, <1>17, <1>18, <1>19 DEF PlaygroundNext, Renewing

LEMMA DeployedAlways == PlaygroundSpec => []DeployedInv
BY DeployedInit, DeployedNext, PTL DEF PlaygroundSpec

(* A stop, or a demonstration, that raises nothing leaves no process alive,*)
(* no container, no provider and no secret.                                *)
THEOREM StoppedDeploymentsAreGone == PlaygroundSpec => []StoppedIsGone
<1>1. DeployedInv => StoppedIsGone
  <2> SUFFICES ASSUME DeployedInv, op.kind = "idle", ~op.failed,
                      \/ plan = "calls" /\ container = "none"
                      \/ plan # "calls" /\ script = <<>>
               PROVE  /\ \A p \in DOMAIN proc : ~Live(p)
                      /\ running = <<>> /\ provider = 0 /\ container = "none" /\ ~secret
    BY DEF StoppedIsGone
  <2>1. DeployedTypeOK /\ OwnedInv /\ ContainerInv /\ DemonstrationInv
    BY DEF DeployedInv
  <2>2. script = <<>> => \A c : ~Pending(c)
    BY DEF Pending
  <2>3. running = <<>> /\ provider = 0 /\ container = "none" /\ ~secret
    BY <2>1, <2>2 DEF OwnedInv, ContainerInv, DemonstrationInv
  <2>4. \A p \in DOMAIN proc : p \in 1..Len(proc)
    BY <2>1 DEF DeployedTypeOK
  <2>5. \A p : ~Runs(p)
    BY <2>3 DEF Runs
  <2>6. \A p \in DOMAIN proc : ~Live(p)
    BY <2>1, <2>3, <2>4, <2>5 DEF OwnedInv, Live
  <2> QED BY <2>3, <2>6
<1> QED BY <1>1, DeployedAlways, PTL

(* Whoever empties the database does it beside no process but the provider.*)
LEMMA AloneWithProvider ==
  ASSUME DeployedInv, running = <<>>
  PROVE  \A p \in DOMAIN proc : Live(p) => p = provider
<1>1. OwnedInv /\ \A p \in DOMAIN proc : p \in 1..Len(proc)
  BY DEF DeployedInv, DeployedTypeOK
<1>2. \A p : ~Runs(p)
  BY DEF Runs
<1> QED BY <1>1, <1>2 DEF OwnedInv, Live

LEMMA TakesStep == DeployedInv /\ PlaygroundNext => TakesFromNobody
<1> SUFFICES ASSUME DeployedInv, PlaygroundNext, db.work # "none", db'.work = "none",
                    container' = "up"
             PROVE  \A p \in DOMAIN proc : Live(p) => p = provider
  BY DEF TakesFromNobody
<1>1. DeployedTypeOK /\ db \in Database /\ db' # db /\ db.work \in Work
  BY DEF DeployedInv, DeployedTypeOK, Database
<1>2. CASE Renewing
  BY <1>2, RenewingInv
<1>3. CASE Reset
  BY <1>1, <1>3, AloneWithProvider DEF Reset, MayReset
<1>4. CASE StartDeployment
  BY <1>1, <1>4, AloneWithProvider DEF StartDeployment
<1>5. CASE OpenDatabase
  <2>1. Asked(<<"database">>)
    BY <1>5 DEF OpenDatabase
  <2> QED BY <2>1, AloneWithProvider, DatabaseIsOfRenewal
<1>6. CASE StopEnds \/ CloseDatabase
  BY <1>1, <1>6 DEF StopEnds, CloseDatabase, StopContainer
<1>7. ASSUME NEW p \in DOMAIN proc, WorkerActs(p) PROVE FALSE
  <2>1. db' \in {[db EXCEPT !.work = WorkerDone(@)], [db EXCEPT !.work = DeliveryDone(@)]}
    BY <1>7 DEF WorkerActs
  <2>2. db'.work \in {WorkerDone(db.work), DeliveryDone(db.work)}
    BY <1>1, <2>1 DEF Database
  <2> QED BY <1>1, <2>2, WorkIsKept
<1>8. CASE ClientSubmits
  BY <1>8 DEF ClientSubmits
<1>9. CASE Intrudes
  BY <1>1, <1>9 DEF Intrudes, Database
<1>10. CASE UNCHANGED db
  BY <1>1, <1>10
<1> QED
  BY <1>2, <1>3, <1>4, <1>5, <1>6, <1>7, <1>8, <1>9, <1>10
  DEF PlaygroundNext, Renewing, Stop, Drain, DrainRole, Terminate, Restart, Scale, ReapNext,
    ReapingEnds, Launch, WaitReady, LaunchEnds, StartFails, StartProvider, StopProvider,
    ProcessDies

(* The database is emptied only when no process of the deployment is alive.*)
THEOREM ResetsAreAlone == PlaygroundSpec => ResetIsAlone
<1>1. DeployedInv /\ [PlaygroundNext]_playground => [TakesFromNobody]_playground
  BY TakesStep
<1> QED BY <1>1, DeployedAlways, PTL DEF PlaygroundSpec, ResetIsAlone

=============================================================================
