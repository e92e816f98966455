------------------------------ MODULE Loopback ------------------------------
(***************************************************************************)
(* Loopback pairs (transport/src/loopback.rs) under the multipath          *)
(* dispatcher (multipath.rs): one side opens streams over Paths pairs in   *)
(* turn and its threads send through MultipathSinks, each made of one      *)
(* stream of every path; the other side accepts on each pair and receives. *)
(* A pair carries all its streams in one bounded channel a direction.      *)
(* Frames are numbered in the order they are handed to a sink.             *)
(***************************************************************************)
EXTENDS Naturals, Sequences, FiniteSets

CONSTANTS Paths,       \* number of loopback pairs
          ChanCap,     \* bound of a channel
          Sinks,       \* number of MultipathSinks
          LoopThread,  \* threads that send
          SinkOf,      \* the sink each one uses
          MaxFrames    \* bound: frames sent

ASSUME LoopAssumption ==
  Paths \in Nat \ {0} /\ Sinks \in Nat /\ SinkOf \in [LoopThread -> 1..Sinks]

VARIABLES dispatch,    \* MultipathTransport.next
          opened, accepted,  \* LoopbackEndpoint.next of the two ends, by path
          cursor,      \* MultipathSink.next, by sink
          queue,       \* the channels: [tag, frame]
          sending,     \* a thread's frame and the path picked for it, <<>> for none
          handed,      \* frames handed to each path, by sink
          sentOn,      \* the stream each frame was sent on
          gotOn,       \* the stream each frame was received on, 0 before
          frames

loopVars == <<dispatch, opened, accepted, cursor, queue, sending, handed, sentOn, gotOn, frames>>

PathId == 1..Paths

SinkId == 1..Sinks

LoopInit ==
  /\ dispatch = 0
  /\ opened = [p \in PathId |-> 0] /\ accepted = [p \in PathId |-> 0]
  /\ cursor = [s \in SinkId |-> 0]
  /\ queue = [p \in PathId |-> <<>>]
  /\ sending = [t \in LoopThread |-> <<>>]
  /\ handed = [s \in SinkId |-> [p \in PathId |-> 0]]
  /\ sentOn = [f \in 1..MaxFrames |-> 0] /\ gotOn = [f \in 1..MaxFrames |-> 0]
  /\ frames = 0

\* MultipathTransport::pick and open; a stream's id is its endpoint's count.
OpenStream ==
  /\ dispatch < Paths * Sinks
  /\ LET p == (dispatch % Paths) + 1 IN opened' = [opened EXCEPT ![p] = @ + 1]
  /\ dispatch' = dispatch + 1
  /\ UNCHANGED <<accepted, cursor, queue, sending, handed, sentOn, gotOn, frames>>

Accept(p) ==
  /\ accepted[p] < Sinks
  /\ accepted' = [accepted EXCEPT ![p] = @ + 1]
  /\ UNCHANGED <<dispatch, opened, cursor, queue, sending, handed, sentOn, gotOn, frames>>

\* Mutant: the index is read now and moved on by the send.
turn_late(s) == ((frames - Cardinality({t \in LoopThread : sending[t] # <<>>})) % Paths) + 1

turn(s) == (cursor[s] % Paths) + 1

\* MultipathSink::send: fetch_add on the index, then send on that path.
Pick(t) ==
  LET s == SinkOf[t] IN
  /\ sending[t] = <<>> /\ frames < MaxFrames
  /\ \A p \in PathId : opened[p] >= s
  /\ cursor' = [cursor EXCEPT ![s] = @ + 1]
  /\ sending' = [sending EXCEPT ![t] = <<frames + 1, turn(s)>>]
  /\ handed' = [handed EXCEPT ![s][turn(s)] = @ + 1]
  /\ frames' = frames + 1
  /\ UNCHANGED <<dispatch, opened, accepted, queue, sentOn, gotOn>>

\* LoopbackSink::send waits while the channel is full.
Send(t) ==
  LET p == sending[t][2]
      f == sending[t][1]
  IN /\ sending[t] # <<>> /\ Len(queue[p]) < ChanCap
     /\ queue' = [queue EXCEPT ![p] = Append(@, [tag |-> SinkOf[t], frame |-> f])]
     /\ sentOn' = [sentOn EXCEPT ![f] = SinkOf[t]]
     /\ sending' = [sending EXCEPT ![t] = <<>>]
     /\ UNCHANGED <<dispatch, opened, accepted, cursor, handed, gotOn, frames>>

\* recv and try_recv of a stream take the head of the channel, tag and all.
Recv(p, s) ==
  /\ s <= accepted[p] /\ queue[p] # <<>>
  /\ queue' = [queue EXCEPT ![p] = Tail(@)]
  /\ gotOn' = [gotOn EXCEPT ![Head(queue[p]).frame] = s]
  /\ UNCHANGED <<dispatch, opened, accepted, cursor, sending, handed, sentOn, frames>>

Serve(p) == Accept(p) \/ \E s \in SinkId : Recv(p, s)

LoopNext ==
  \/ OpenStream
  \/ \E p \in PathId : Serve(p)
  \/ \E t \in LoopThread : Pick(t) \/ Send(t)

LoopSpec == LoopInit /\ [][LoopNext]_loopVars
-----------------------------------------------------------------------------
\* The frames of a sink are spread over its paths as evenly as they can be,
\* whichever way the calls of its threads interleave: fetch_add gives every
\* call an index of its own.
SpreadEvenly ==
  \A s \in SinkId, p, q \in PathId : handed[s][p] <= handed[s][q] + 1

\* "The transport guarantees delivery and order per stream": a frame is
\* received on the stream it was sent on.
StreamsKeptApart == \A f \in 1..MaxFrames : gotOn[f] # 0 => gotOn[f] = sentOn[f]

\* The inductive invariant behind SpreadEvenly: q rounds are complete, and in
\* the current one the paths up to the cursor have had their frame.
Rounds(s, q) ==
  \A p \in PathId : handed[s][p] = q + (IF p <= cursor[s] % Paths THEN 1 ELSE 0)

LoopInv ==
  /\ cursor \in [SinkId -> Nat] /\ handed \in [SinkId -> [PathId -> Nat]]
  /\ \A s \in SinkId : \E q \in Nat : Rounds(s, q)
=============================================================================
