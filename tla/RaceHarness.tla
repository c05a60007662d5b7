---------------------------- MODULE RaceHarness ----------------------------
(***************************************************************************)
(* The evidence that openmagic decides a race once: two fresh processes    *)
(* make the same call behind a barrier in PostgreSQL, and what they answer *)
(* is recorded for a seed.                                                 *)
(*                                                                         *)
(* The coordinator, the two contenders and the server interleave.  The     *)
(* raced operations are reduced to what makes them decide: their           *)
(* transaction waits for a lock or skips what is locked, and finds a row   *)
(* taken or takes it.  Kernel, Delivery, CommandSubmission and             *)
(* Verification model the operations themselves.                           *)
(***************************************************************************)
EXTENDS Integers, Sequences

CONSTANTS
  MaxSeeds,     \* bound: the seeds of a corpus
  MaxTrouble    \* bound: crashes, lost connections and timeouts

VARIABLES
  race,       \* the scenario of the corpus
  seed,       \* the trial that is being made
  step,       \* what the coordinator does next, for which contender
  stage,      \* [Contender -> how far its process has come]
  exclusive,  \* the coordinator holds the barrier
  sent,       \* [Contender -> messages to the coordinator not yet received]
  proceed,    \* the contenders that were sent PROCEED
  taken,      \* the contenders whose transactions took a row of this trial
  overlap,    \* both held the barrier when the first began to perform
  recorded,   \* the trials recorded, with their answers
  trouble     \* how often something went wrong

contenders == <<stage, sent, proceed, taken, overlap>>
harness == <<race, seed, step, exclusive, contenders, recorded, trouble>>

Contender == {1, 2}
Other(c) == 3 - c

-----------------------------------------------------------------------------
(* The scenarios: how the loser meets the row, and what the two answers    *)
(* are.                                                                    *)
Race(waits, won, lost) == [waits |-> waits, won |-> won, lost |-> lost]

CommandReceipt == Race(TRUE, "receipt", "receipt")
StepClaim == Race(FALSE, "claimed", "not_claimed")
DeliveryClaim == Race(FALSE, "claimed", "not_claimed")
WaitSignal == Race(TRUE, "accepted", "conflict")
AttemptResult == Race(TRUE, "accepted", "replayed")
RouteActivation == Race(TRUE, "new", "replayed")
VerificationSubmission == Race(TRUE, "verified", "already_used")

Races == {CommandReceipt, DeliveryClaim, StepClaim, WaitSignal, AttemptResult, RouteActivation,
          VerificationSubmission}

Holds(c) == stage[c] \in {"holding", "acquired", "performing", "performed"}

Alive(c) == stage[c] \notin {"none", "gone"}

WaitsForLock(c) == stage[c] = "waiting"

At(name, c) == step = <<name, c>>
Goes(name, c) == step' = <<name, c>>
GoesOn(name, c, next) == IF c = 1 THEN Goes(name, 2) ELSE Goes(next, 1)

(* The body of the trial raises; the scope of the contenders cleans up.    *)
Fails == Goes("cleanup", 0)

Troubles == trouble < MaxTrouble /\ trouble' = trouble + 1

-----------------------------------------------------------------------------
(* run_process_contenders.                                                 *)
EnterBarrier ==
  /\ At("enter", 0)
  /\ exclusive' = TRUE /\ Goes("start", 1)
  /\ UNCHANGED <<race, seed, contenders, recorded, trouble>>

(* start_contender up to the wait for the session of the child.            *)
StartContender(c) ==
  /\ At("start", c)
  /\ stage' = [stage EXCEPT ![c] = "started"] /\ Goes("session", c)
  /\ UNCHANGED <<race, seed, exclusive, sent, proceed, taken, overlap, recorded, trouble>>

(* receive: the next message, or none within the timeout.                  *)
Receive(c, expected, next) ==
  /\ \/ /\ sent[c] # <<>>
        /\ sent' = [sent EXCEPT ![c] = Tail(@)]
        /\ IF Head(sent[c]) \in expected THEN next ELSE Fails
        /\ UNCHANGED trouble
     \/ /\ sent[c] = <<>> /\ ~Alive(c) /\ Fails /\ UNCHANGED <<sent, trouble>>
     \/ /\ sent[c] = <<>> /\ Troubles /\ Fails /\ UNCHANGED sent
  /\ UNCHANGED <<race, seed, exclusive, stage, proceed, taken, overlap, recorded>>

ReceiveSession(c) ==
  At("session", c) /\ Receive(c, {"session"}, IF c = 1 THEN Goes("start", 2) ELSE Goes("ready", 1))

ReceiveWaiting(c) == At("ready", c) /\ Receive(c, {"waiting"}, GoesOn("ready", c, "await"))

BothWait == \A c \in Contender : WaitsForLock(c)

AwaitWaiters ==
  /\ At("await", 1)
  /\ \/ BothWait /\ Goes("release", 0) /\ UNCHANGED trouble
     \/ ~BothWait /\ (\E c \in Contender : ~Alive(c)) /\ Fails /\ UNCHANGED trouble
     \/ ~BothWait /\ Troubles /\ Fails
  /\ UNCHANGED <<race, seed, exclusive, contenders, recorded>>

\* Mutant: the overlap is required before both have said that they hold it.
Mutant_ReleaseBarrier ==
  /\ At("release", 0)
  /\ exclusive' = FALSE /\ Goes("overlap", 1)
  /\ UNCHANGED <<race, seed, contenders, recorded, trouble>>

ReleaseBarrier ==
  /\ At("release", 0)
  /\ exclusive' = FALSE /\ Goes("acquired", 1)
  /\ UNCHANGED <<race, seed, contenders, recorded, trouble>>

ReceiveAcquired(c) == At("acquired", c) /\ Receive(c, {"acquired"}, GoesOn("acquired", c, "overlap"))

RequireOverlap ==
  /\ At("overlap", 1)
  /\ IF \A c \in Contender : Holds(c) THEN Goes("proceed", 1) ELSE Fails
  /\ UNCHANGED <<race, seed, exclusive, contenders, recorded, trouble>>

SendProceed(c) ==
  /\ At("proceed", c)
  /\ IF Alive(c) THEN proceed' = proceed \cup {c} /\ GoesOn("proceed", c, "result")
     ELSE UNCHANGED proceed /\ Fails
  /\ UNCHANGED <<race, seed, exclusive, stage, sent, taken, overlap, recorded, trouble>>

Answers == {race.won, race.lost}

(* The answers of the trial are kept in step.                              *)
ReceiveResult(c) ==
  /\ step[1] = "result" /\ step[2] = c
  /\ Receive(c, Answers,
             step' = IF c = 1 THEN <<"result", 2, Head(sent[1])>>
                     ELSE <<"pair", 0, step[3], Head(sent[2])>>)

(* cleanup: the barrier is released and the children are reaped, after     *)
(* the trial has its pair of results or has failed.                        *)
Finished == step[1] = "pair" \/ At("cleanup", 0)

Cleanup ==
  /\ Finished
  /\ exclusive' = FALSE
  /\ stage' = [c \in Contender |-> "gone"]
  /\ step' = IF step[1] = "pair" THEN <<"check", 0, step[3], step[4]>> ELSE <<"raised", 0>>
  /\ UNCHANGED <<race, seed, sent, proceed, taken, overlap, recorded, trouble>>

(* The checks of a trial: the answers differ as they should, and the       *)
(* constraint holds one row.                                               *)
Confirmed(answers) ==
  (\E c \in Contender : taken = {c}) /\ {answers[1], answers[2]} = Answers

Recorded ==
  /\ step[1] = "check"
  /\ IF Confirmed(<<step[3], step[4]>>)
     THEN recorded' = Append(recorded, [overlap |-> overlap, taken |-> taken]) /\ Goes("next", 0)
     ELSE UNCHANGED recorded /\ Goes("raised", 0)
  /\ UNCHANGED <<race, seed, exclusive, contenders, trouble>>

NextSeed ==
  /\ At("next", 0) /\ seed < MaxSeeds
  /\ seed' = seed + 1 /\ Goes("enter", 0)
  /\ stage' = [c \in Contender |-> "none"] /\ sent' = [c \in Contender |-> <<>>]
  /\ proceed' = {} /\ taken' = {} /\ overlap' = FALSE
  /\ UNCHANGED <<race, exclusive, recorded, trouble>>

-----------------------------------------------------------------------------
(* contend, in the process of a contender.                                 *)
Moves(c, from, to) == stage[c] = from /\ stage' = [stage EXCEPT ![c] = to]

Says(c, message) == sent' = [sent EXCEPT ![c] = Append(@, message)]

Contends == UNCHANGED <<race, seed, step, exclusive, recorded>>

FoundSession(c) ==
  Moves(c, "started", "session") /\ Says(c, "session") /\ Contends
    /\ UNCHANGED <<proceed, taken, overlap, trouble>>

Connect(c) ==
  Moves(c, "session", "connected") /\ Says(c, "waiting") /\ Contends
    /\ UNCHANGED <<proceed, taken, overlap, trouble>>

RequestLock(c) ==
  Moves(c, "connected", "waiting") /\ Contends /\ UNCHANGED <<sent, proceed, taken, overlap, trouble>>

(* pg_advisory_lock_shared returns.                                        *)
GrantLock(c) ==
  ~exclusive /\ Moves(c, "waiting", "holding") /\ Contends
    /\ UNCHANGED <<sent, proceed, taken, overlap, trouble>>

SayAcquired(c) ==
  Moves(c, "holding", "acquired") /\ Says(c, "acquired") /\ Contends
    /\ UNCHANGED <<proceed, taken, overlap, trouble>>

MayPerform(c) == c \in proceed

(* The row of this trial is free.  Those of earlier trials are not met:    *)
(* what was claimed stays claimed until somebody recovers it, and in a     *)
(* corpus nobody does.                                                     *)
Takes(c) == taken = {}

Busy(c) == stage[Other(c)] = "performing"

(* perform: the transaction gets the lock, or skips what is locked.        *)
Perform(c) ==
  /\ MayPerform(c)
  /\ overlap' = (overlap \/ (taken = {} /\ ~Busy(c) /\ \A d \in Contender : Holds(d)))
  /\ \/ ~Busy(c) /\ Moves(c, "acquired", "performing") /\ UNCHANGED sent
     \/ ~race.waits /\ Busy(c) /\ Moves(c, "acquired", "performed") /\ Says(c, race.lost)
  /\ Contends /\ UNCHANGED <<proceed, taken, trouble>>

CommitPerformance(c) ==
  /\ Moves(c, "performing", "performed")
  /\ taken' = IF Takes(c) THEN taken \cup {c} ELSE taken
  /\ Says(c, IF Takes(c) THEN race.won ELSE race.lost)
  /\ Contends /\ UNCHANGED <<proceed, overlap, trouble>>

(* The barrier is left and the pipe is closed.                             *)
Leave(c) ==
  Moves(c, "performed", "gone") /\ Contends /\ UNCHANGED <<sent, proceed, taken, overlap, trouble>>

(* An exception outside the operation, or in it: before its transaction    *)
(* ends, or when only its answer is lost.                                  *)
Raises(c) ==
  /\ Alive(c) /\ stage[c] # "performed" /\ Troubles
  /\ stage' = [stage EXCEPT ![c] = "gone"]
  /\ Says(c, IF stage[c] = "performing" THEN "failed" ELSE "fatal")
  /\ taken' \in {taken, IF stage[c] = "performing" /\ Takes(c) THEN taken \cup {c} ELSE taken}
  /\ Contends /\ UNCHANGED <<proceed, overlap>>

(* The process is killed: nothing is said.                                 *)
Dies(c) ==
  /\ Alive(c) /\ Troubles
  /\ stage' = [stage EXCEPT ![c] = "gone"]
  /\ Contends /\ UNCHANGED <<sent, proceed, taken, overlap>>

RaceInit ==
  /\ race \in Races /\ seed = 1 /\ step = <<"enter", 0>> /\ exclusive = FALSE
  /\ stage = [c \in Contender |-> "none"] /\ sent = [c \in Contender |-> <<>>]
  /\ proceed = {} /\ taken = {} /\ overlap = FALSE
  /\ recorded = <<>> /\ trouble = 0

Coordinate ==
  \/ EnterBarrier \/ AwaitWaiters \/ ReleaseBarrier \/ RequireOverlap
  \/ Cleanup \/ Recorded \/ NextSeed
  \/ \E c \in Contender :
       \/ StartContender(c) \/ ReceiveSession(c) \/ ReceiveWaiting(c) \/ ReceiveAcquired(c)
       \/ SendProceed(c) \/ ReceiveResult(c)

Contend(c) ==
  \/ FoundSession(c) \/ Connect(c) \/ RequestLock(c) \/ GrantLock(c) \/ SayAcquired(c)
  \/ Perform(c) \/ CommitPerformance(c) \/ Leave(c)

RaceNext == Coordinate \/ \E c \in Contender : Contend(c) \/ Raises(c) \/ Dies(c)

RaceSpec == RaceInit /\ [][RaceNext]_harness

-----------------------------------------------------------------------------
(* "Race pair requires an observed overlap barrier" (ProcessRacePair): of  *)
(* the trials that are recorded there is none whose calls could not have   *)
(* met, because one contender had yet to reach the barrier, or had gone,   *)
(* when the first of them was performed.  And the evidence is about        *)
(* openmagic, not about its harness: a corpus in which no process,         *)
(* connection or timeout fails is never broken off.                        *)
TrialsAreSound ==
  /\ \A i \in 1..Len(recorded) : recorded[i].overlap
  /\ step[1] = "raised" => trouble > 0

=============================================================================
