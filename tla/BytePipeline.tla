---------------------------- MODULE BytePipeline ----------------------------
(***************************************************************************)
(* The staged pipeline (transport/src/pipeline.rs): one thread a stage,    *)
(* bounded channels between them, a feeder thread for each call of run,    *)
(* and the caller, who collects.  The stage threads outlive the calls, so  *)
(* what one call leaves in a channel the next one would meet.  A stage     *)
(* closure may panic, which ends its thread and drops its channel ends.    *)
(*                                                                         *)
(* run takes &self, but the type is not Sync (it holds an mpsc Receiver):  *)
(* calls do not overlap.  Items are numbered in the order they are fed.    *)
(***************************************************************************)
EXTENDS Naturals, Sequences

CONSTANTS Stages,      \* number of stages
          Cap,         \* bound of each channel
          MaxBatch, MaxRuns, MaxPanics,
          None

ASSUME PipeAssumption ==
  Stages \in Nat /\ MaxBatch \in Nat /\ None \notin Nat

VARIABLES chan,      \* chan[0] is the head, chan[Stages] the tail
          inhand,    \* [stage -> the item it works on, or None]
          alive,     \* [stage -> whether its thread runs]
          feed,      \* what the feeder has yet to send
          phase,     \* "idle", "collect" or "join"
          batch,     \* the input of the last call
          out,       \* its output so far
          runs, fed, panics

pipeVars == <<chan, inhand, alive, feed, phase, batch, out, runs, fed, panics>>

Stage == 1..Stages

PipeInit ==
  /\ chan = [c \in 0..Stages |-> <<>>]
  /\ inhand = [k \in Stage |-> None] /\ alive = [k \in Stage |-> TRUE]
  /\ feed = <<>> /\ phase = "idle" /\ batch = <<>> /\ out = <<>>
  /\ runs = 0 /\ fed = 0 /\ panics = 0

run(n) ==
  /\ phase = "idle" /\ runs < MaxRuns
  /\ batch' = [i \in 1..n |-> fed + i] /\ feed' = batch' /\ fed' = fed + n
  /\ out' = <<>> /\ phase' = "collect" /\ runs' = runs + 1
  /\ UNCHANGED <<chan, inhand, alive, panics>>

\* The receiving end of a channel is a stage, or the caller for the tail.
Open(c) == c < Stages => alive[c + 1]

FeedSend ==
  /\ feed # <<>> /\ Open(0) /\ Len(chan[0]) < Cap
  /\ chan' = [chan EXCEPT ![0] = Append(@, Head(feed))]
  /\ feed' = Tail(feed)
  /\ UNCHANGED <<inhand, alive, phase, batch, out, runs, fed, panics>>

\* send is an error once the receiver is gone: the feeder stops.
FeedStops ==
  /\ feed # <<>> /\ ~Open(0)
  /\ feed' = <<>>
  /\ UNCHANGED <<chan, inhand, alive, phase, batch, out, runs, fed, panics>>

StageRecv(k) ==
  /\ alive[k] /\ inhand[k] = None /\ chan[k - 1] # <<>>
  /\ inhand' = [inhand EXCEPT ![k] = Head(chan[k - 1])]
  /\ chan' = [chan EXCEPT ![k - 1] = Tail(@)]
  /\ UNCHANGED <<alive, feed, phase, batch, out, runs, fed, panics>>

StageSend(k) ==
  /\ alive[k] /\ inhand[k] # None /\ Open(k) /\ Len(chan[k]) < Cap
  /\ chan' = [chan EXCEPT ![k] = Append(@, inhand[k])]
  /\ inhand' = [inhand EXCEPT ![k] = None]
  /\ UNCHANGED <<alive, feed, phase, batch, out, runs, fed, panics>>

\* The thread ends: its receiver goes, and what was queued for it.
Exit(k) ==
  /\ alive' = [alive EXCEPT ![k] = FALSE]
  /\ inhand' = [inhand EXCEPT ![k] = None]
  /\ chan' = [chan EXCEPT ![k - 1] = <<>>]
  /\ UNCHANGED <<feed, phase, batch, out, runs, fed>>

StageSendFails(k) ==
  /\ alive[k] /\ inhand[k] # None /\ ~Open(k)
  /\ Exit(k) /\ UNCHANGED panics

\* recv is an error when the channel is empty and its sender is gone.  The
\* head's sender is kept for the next call.
Closed(c) == chan[c] = <<>> /\ c > 0 /\ ~alive[c]

StageRecvFails(k) ==
  /\ alive[k] /\ inhand[k] = None /\ Closed(k - 1)
  /\ Exit(k) /\ UNCHANGED panics

Panic(k) ==
  /\ alive[k] /\ inhand[k] # None /\ panics < MaxPanics
  /\ panics' = panics + 1
  /\ Exit(k)

\* Mutant: the caller leaves one item early.
CollectEarly ==
  /\ phase = "collect" /\ chan[Stages] # <<>>
  /\ out' = Append(out, Head(chan[Stages]))
  /\ chan' = [chan EXCEPT ![Stages] = Tail(@)]
  /\ phase' = IF Len(out') + 1 >= Len(batch) THEN "join" ELSE "collect"
  /\ UNCHANGED <<inhand, alive, feed, batch, runs, fed, panics>>

\* Mutant: the caller feeds the whole batch before it collects.
CollectAfterFeed ==
  /\ phase = "collect" /\ chan[Stages] # <<>> /\ feed = <<>>
  /\ out' = Append(out, Head(chan[Stages]))
  /\ chan' = [chan EXCEPT ![Stages] = Tail(@)]
  /\ phase' = IF Len(out') = Len(batch) THEN "join" ELSE "collect"
  /\ UNCHANGED <<inhand, alive, feed, batch, runs, fed, panics>>

Collect ==
  /\ phase = "collect" /\ chan[Stages] # <<>>
  /\ out' = Append(out, Head(chan[Stages]))
  /\ chan' = [chan EXCEPT ![Stages] = Tail(@)]
  /\ phase' = IF Len(out') = Len(batch) THEN "join" ELSE "collect"
  /\ UNCHANGED <<inhand, alive, feed, batch, runs, fed, panics>>

CollectFails ==
  /\ phase = "collect" /\ Closed(Stages)
  /\ phase' = "join"
  /\ UNCHANGED <<chan, inhand, alive, feed, batch, out, runs, fed, panics>>

Join ==
  /\ phase = "join" /\ feed = <<>>
  /\ phase' = "idle"
  /\ UNCHANGED <<chan, inhand, alive, feed, batch, out, runs, fed, panics>>

Caller == Collect \/ CollectFails \/ Join

Feeder == FeedSend \/ FeedStops

StageStep(k) == StageRecv(k) \/ StageSend(k) \/ StageSendFails(k) \/ StageRecvFails(k)

PipeNext ==
  \/ \E n \in 1..MaxBatch : run(n)
  \/ Feeder \/ Caller
  \/ \E k \in Stage : StageStep(k) \/ Panic(k)

\* Every thread that can take a step takes one: they are threads of the OS.
PipeFair ==
  WF_pipeVars(Feeder) /\ WF_pipeVars(Caller) /\ \A k \in Stage : WF_pipeVars(StageStep(k))

PipeSpec == PipeInit /\ [][PipeNext]_pipeVars /\ PipeFair

-----------------------------------------------------------------------------
\* run returns results "in order": what it has collected is the beginning of
\* its own batch, never an item an earlier call left in the channels, and
\* without a panic a call that has returned has returned the whole batch.
OwnBatchInOrder ==
  /\ Len(out) <= Len(batch) /\ \A i \in DOMAIN out : out[i] = batch[i]
  /\ phase = "idle" /\ panics = 0 => out = batch

\* A batch larger than the channels hold "can't deadlock the pipeline": every
\* call of run returns, also when a stage has panicked in it or before it.
RunReturns == phase # "idle" ~> phase = "idle"

-----------------------------------------------------------------------------
(***************************************************************************)
(* The inductive invariant behind OwnBatchInOrder.  Its parameter last     *)
(* gives the number of the last item that was put into each channel.       *)
(***************************************************************************)
PipeTypeOK ==
  /\ chan \in [0..Stages -> Seq(Nat)]
  /\ inhand \in [Stage -> Nat \cup {None}] /\ alive \in [Stage -> BOOLEAN]
  /\ feed \in Seq(Nat) /\ batch \in Seq(Nat) /\ out \in Seq(Nat)
  /\ fed \in Nat /\ panics \in Nat /\ runs \in Nat
  /\ phase \in {"idle", "collect", "join"}

\* A sequence of consecutive items that ends with the n-th.
UpTo(seq, n) == \A i \in 1..Len(seq) : seq[i] + Len(seq) = n + i

Working(k) == IF inhand[k] = None THEN 0 ELSE 1

\* What is behind a stage that runs has not been lost.
InLine(last) ==
  /\ \A c \in 0..Stages : UpTo(chan[c], last[c])
  /\ \A k \in Stage :
       /\ inhand[k] # None => inhand[k] = last[k] + 1
       /\ alive[k] => last[k - 1] = last[k] + Len(chan[k - 1]) + Working(k)
       /\ ~alive[k] => chan[k - 1] = <<>> /\ inhand[k] = None
  /\ UpTo(feed, fed) /\ UpTo(batch, fed)
  /\ Open(0) => last[0] + Len(feed) = fed
  /\ ~Closed(Stages) => last[Stages] + Len(batch) = fed + Len(out) + Len(chan[Stages])

\* run leaves when it has its n items, or when the tail is closed.
CallInv ==
  /\ Len(out) <= Len(batch) /\ \A i \in 1..Len(out) : out[i] = batch[i]
  /\ phase = "collect" => Len(out) < Len(batch)
  /\ phase # "collect" => Len(out) = Len(batch) \/ Closed(Stages)
  /\ phase = "idle" => feed = <<>>
  /\ panics = 0 => \A k \in Stage : alive[k]

PipeInv ==
  /\ PipeTypeOK
  /\ CallInv
  /\ \E last \in [0..Stages -> Nat] : InLine(last)
=============================================================================
