------------------------------ MODULE Sidecar -------------------------------
(***************************************************************************)
(* The sidecar's two POST endpoints (sidecar/src/lib.rs) around Receiver:  *)
(* /v1/dlr/frame drops the session's cached projection and handles any     *)
(* frame; /v1/dlr/chat/completions handles an APPEND, then projects the    *)
(* session log into the upstream request, extending a cached projection.   *)
(*                                                                         *)
(* The projection cache has a lock of its own, taken for each cache        *)
(* operation only.  Between the lookup, the append, the two reads of the   *)
(* store and the insertion, requests of other threads run.                 *)
(*                                                                         *)
(* A projection's chunks are the message ids they hold.  Every message     *)
(* counts one unit of represented JSON, and every block is a valid chat    *)
(* message.                                                                *)
(***************************************************************************)
EXTENDS Receiver

CONSTANTS
  ChatFrames,     \* the APPENDs posted to the chat endpoint
  Conversation,   \* [Session -> Seq(BlockId)], what the clients talk about
  CacheSessions,  \* PROJECTION_CACHE_SESSIONS
  CacheBytes      \* PROJECTION_CACHE_JSON_BYTES, in messages

ASSUME ChatFramesAssumption == ChatFrames \subseteq {f \in Frame : f.kind = "Append"}

ASSUME CacheAssumption == CacheSessions \in Nat \ {0} /\ CacheBytes \in Nat

VARIABLES
  stage,    \* where a thread is in its endpoint's handler
  job,      \* the decoded frame
  held,     \* chat: the projection in hand, as a set of at most one
  upto,     \* chat: the session length that was read
  entries,  \* ChatProjectionCache.entries
  lru,      \* ChatProjectionCache.lru, oldest first
  bytes,    \* ChatProjectionCache.json_bytes
  posted,   \* history: the upstream requests, with the root ACKed for each
  overlap   \* history: the sessions that had two requests running at once

cacheVars   == <<entries, lru, bytes>>
sidecarVars == <<stage, job, held, upto, cacheVars, posted, overlap>>
scVars      == <<vars, stage, job, held, upto, entries, lru, bytes, posted, overlap>>

-----------------------------------------------------------------------------
(***************************************************************************)
(* ChatProjectionCache.                                                    *)
(***************************************************************************)
Without(q, s) == Select(q, {i \in DOMAIN q : q[i] # s})

Cached(s) == s \in DOMAIN entries

\* get: a projection at the wrong root is not touched.
Lookup(s, root) ==
  IF Cached(s) /\ entries[s].root = root THEN {entries[s]} ELSE {}

\* Mutant: a hit queues the session a second time.
TouchTwice(s) == lru' = Append(lru, s)

touch(s) == lru' = Append(Without(lru, s), s)

Size(projection) == Len(projection.chunks)

Sizes(es) == [s \in DOMAIN es |-> Size(es[s])]

remove(s) ==
  /\ entries' = Restrict(entries, DOMAIN entries \ {s})
  /\ bytes' = IF Cached(s) THEN bytes - Size(entries[s]) ELSE bytes
  /\ lru' = Without(lru, s)

\* insert: remove, evict from the front while a limit is exceeded, add.
insert(s, projection) ==
  LET es == Restrict(entries, DOMAIN entries \ {s})
      q == Without(lru, s)
      Held(k) == bytes - (IF Cached(s) THEN Size(entries[s]) ELSE 0)
                 - SumFunctionOnSet(Sizes(es), {q[i] : i \in 1..k})
      Fits(k) == \/ k = Len(q)
                 \/ /\ Len(q) - k < CacheSessions
                    /\ Held(k) + Size(projection) <= CacheBytes
  IN \E evicted \in 0..Len(q) :
       /\ Fits(evicted) /\ \A j \in 0..(evicted - 1) : ~Fits(j)
       /\ entries' = [r \in {q[i] : i \in (evicted + 1)..Len(q)} \cup {s} |->
                        IF r = s THEN projection ELSE es[r]]
       /\ lru' = Append(SubSeq(q, evicted + 1, Len(q)), s)
       /\ bytes' = Held(evicted) + Size(projection)

-----------------------------------------------------------------------------
SidecarInit ==
  /\ Init
  /\ stage = [t \in Thread |-> "idle"]
  /\ job = [t \in Thread |-> NoFrame]
  /\ held = [t \in Thread |-> {}]
  /\ upto = [t \in Thread |-> 0]
  /\ entries = << >> /\ lru = << >> /\ bytes = 0
  /\ posted = {} /\ overlap = {}

At(t, label) == stage' = [stage EXCEPT ![t] = label]

\* A request enters.  The client may have given up on one that still runs.
Accept(t, f, label) ==
  /\ stage[t] = "idle"
  /\ Len(disk) <= MaxWal
  /\ job' = [job EXCEPT ![t] = f]
  /\ overlap' = overlap \cup ({f.s} \cap {job[u].s : u \in {u \in Thread : stage[u] # "idle"}})
  /\ At(t, label)

(***************************************************************************)
(* handle_frame: the cached projection goes before the frame is handled.   *)
(***************************************************************************)
FrameAccept(t, f) ==
  /\ Accept(t, f, "frame")
  /\ remove(f.s)
  /\ UNCHANGED <<vars, held, upto, posted>>

FrameHandle(t) ==
  /\ stage[t] = "frame"
  /\ Handle(t, job[t])
  /\ At(t, "frameRuns")
  /\ UNCHANGED <<job, held, upto, cacheVars, posted, overlap>>

(***************************************************************************)
(* chat_completions.  A reference validate_chat_append cannot resolve is   *)
(* a 400 that touches nothing.  A ChatSession appends to a root that was   *)
(* ACKed to it.                                                            *)
(***************************************************************************)
ChatAccept(t, f) ==
  /\ f.base = ROOT_ZERO \/ \E a \in exposed : a.s = f.s /\ a.root = f.base
  /\ ~MissingRef(f)
  /\ Accept(t, f, "chat")
  /\ held' = [held EXCEPT ![t] = Lookup(f.s, f.base)]
  /\ IF Lookup(f.s, f.base) # {} THEN touch(f.s) ELSE UNCHANGED lru
  /\ UNCHANGED <<vars, upto, entries, bytes, posted>>

ChatAppend(t) ==
  /\ stage[t] = "chat"
  /\ AppendBegin(t, job[t])
  /\ At(t, "chatRuns")
  /\ UNCHANGED <<job, held, upto, cacheVars, posted, overlap>>

\* The ACK is durable; the projection starts with the session's length.
ChatMeasure(t) ==
  /\ stage[t] = "chatRuns"
  /\ pc[t] = "reply" /\ reply[t].kind = "Ack"
  /\ upto' = [upto EXCEPT ![t] = Len(session_ids(mem, job[t].s))]
  /\ At(t, "project")
  /\ UNCHANGED <<vars, job, held, cacheVars, posted, overlap>>

\* reconstruct and reconstruct_range drop ids without content.
Stored(ids) == Select(ids, {i \in DOMAIN ids : contains(mem, ids[i])})

\* Mutant: the range is taken from the front of the log.
RangeFromFront(s, start, end) == Stored(SubSeq(session_ids(mem, s), 1, end - start))

reconstruct_range(s, start, end) ==
  LET ids == session_ids(mem, s)
  IN Stored(SubSeq(ids, start + 1, IF end < Len(ids) THEN end ELSE Len(ids)))

\* extend_or_reconstruct_projection; an incomplete range is a 400.
ChatProject(t) ==
  LET s == job[t].s
      usable == {p \in held[t] : Size(p) <= upto[t]}
      Additions(p) == reconstruct_range(s, Size(p), upto[t])
      At_root(chunks) == [root |-> reply[t].root, chunks |-> chunks]
  IN /\ stage[t] = "project"
     /\ \/ /\ usable = {}
           /\ held' = [held EXCEPT ![t] = {At_root(Stored(session_ids(mem, s)))}]
           /\ At(t, "cache")
           /\ UNCHANGED reply
        \/ \E p \in usable :
             IF Len(Additions(p)) = upto[t] - Size(p)
             THEN /\ held' = [held EXCEPT ![t] = {At_root(p.chunks \o Additions(p))}]
                  /\ At(t, "cache")
                  /\ UNCHANGED reply
             ELSE /\ reply' = [reply EXCEPT ![t] = Failed]
                  /\ At(t, "chatRuns")
                  /\ UNCHANGED held
     /\ UNCHANGED <<memVars, walVars, pc, req, done, due, miss, histVars,
                    job, upto, cacheVars, posted, overlap>>

ChatCache(t) ==
  /\ stage[t] = "cache"
  /\ \E p \in held[t] :
       /\ insert(job[t].s, p)
       /\ posted' = posted \cup {[s |-> job[t].s, root |-> reply[t].root, messages |-> p.chunks]}
  /\ At(t, "posted")
  /\ UNCHANGED <<vars, job, held, upto, overlap>>

\* The response, after the model answered or the handler gave up.
Finish(t) ==
  /\ \/ stage[t] \in {"frameRuns", "posted"}
     \/ stage[t] = "chatRuns" /\ reply[t].kind # "Ack"
  /\ Respond(t)
  /\ At(t, "idle")
  /\ job' = [job EXCEPT ![t] = NoFrame]
  /\ held' = [held EXCEPT ![t] = {}]
  /\ upto' = [upto EXCEPT ![t] = 0]
  /\ UNCHANGED <<cacheVars, posted, overlap>>

\* A restarted sidecar has an empty cache.
Reboot ==
  /\ Crash \/ Shutdown
  /\ stage' = [t \in Thread |-> "idle"]
  /\ job' = [t \in Thread |-> NoFrame]
  /\ held' = [t \in Thread |-> {}]
  /\ upto' = [t \in Thread |-> 0]
  /\ entries' = << >> /\ lru' = << >> /\ bytes' = 0
  /\ UNCHANGED <<posted, overlap>>

SidecarNext ==
  \/ \E t \in Thread, f \in Frames : FrameAccept(t, f)
  \/ \E t \in Thread, f \in ChatFrames : ChatAccept(t, f)
  \/ \E t \in Thread :
       \/ FrameHandle(t) \/ ChatAppend(t)
       \/ Step(t) /\ UNCHANGED sidecarVars
       \/ ChatMeasure(t) \/ ChatProject(t) \/ ChatCache(t) \/ Finish(t)
  \/ Reboot

SidecarSpec == SidecarInit /\ [][SidecarNext]_scVars

-----------------------------------------------------------------------------
(***************************************************************************)
(* The books of the projection cache balance across hits, invalidations    *)
(* and evictions: every entry is in the LRU queue exactly once, json_bytes *)
(* is the sum over the entries, and both limits hold except for a single   *)
(* projection that is larger than the cache (sidecar/src/lib.rs:470-487).  *)
(***************************************************************************)
CacheAccounts ==
  /\ Range(lru) = DOMAIN entries /\ Len(lru) = Cardinality(DOMAIN entries)
  /\ bytes = SumFunctionOnSet(Sizes(entries), DOMAIN entries)
  /\ Len(lru) <= CacheSessions
  /\ bytes > CacheBytes => Len(lru) = 1

(***************************************************************************)
(* What the model is sent with an ACK of root r are exactly the messages   *)
(* of r, whether the projection was rebuilt, extended or evicted before,   *)
(* in every session whose requests did not overlap.                        *)
(***************************************************************************)
UpstreamMatchesAck == \A u \in posted : u.s \in overlap \/ u.messages = u.root

(***************************************************************************)
(* Where they did, because a client retried a request that still ran, the  *)
(* length and the range are read from a log that another request has       *)
(* changed, and a projection may be cached under an older root.  Even then *)
(* the model is sent a stretch of the conversation from its start, with no *)
(* message twice, out of order or left out (chat_completions,              *)
(* extend_or_reconstruct_projection).  Conversation is a session's history *)
(* as its client has it.                                                   *)
(***************************************************************************)
UpstreamIsHistory ==
  \A u \in posted : \E n \in 0..Len(Conversation[u.s]) :
     u.messages = SubSeq(Conversation[u.s], 1, n)

-----------------------------------------------------------------------------
(***************************************************************************)
(* The inductive invariant behind UpstreamMatchesAck.                      *)
(***************************************************************************)
Projection == [root: Root, chunks: Seq(BlockId)]

Chatting == {"chat", "chatRuns", "project", "cache", "posted"}

SideTypeOK ==
  /\ stage \in [Thread -> Chatting \cup {"idle", "frame", "frameRuns"}]
  /\ job \in [Thread -> {f \in Frame : f.kind = "Resync" => f.base = f.ids}]
  /\ held \in [Thread -> SUBSET Projection]
  /\ upto \in [Thread -> Nat]
  /\ lru \in Seq(Session) /\ Range(lru) \subseteq DOMAIN entries
  /\ \A s \in DOMAIN entries : entries[s] \in Projection

\* How far the endpoint is says whether its frame is with the receiver.
StageInv(t) ==
  /\ stage[t] \in {"idle", "frame", "chat"} => pc[t] = "idle"
  /\ pc[t] # "idle" => req[t] = job[t]
  /\ stage[t] \in Chatting => job[t].kind = "Append"
  /\ stage[t] \in {"project", "cache", "posted"} => pc[t] = "reply" /\ reply[t].kind = "Ack"

\* Two requests of a session run only where overlap has it.
OverlapInv ==
  \A t, u \in Thread :
     (t # u /\ stage[t] # "idle" /\ stage[u] # "idle" /\ job[t].s = job[u].s) => job[t].s \in overlap

\* A request that is alone on its session extends a projection at its base,
\* and the log stays what was ACKed to it until the projection is cached.
ProjectionInv(t) ==
  job[t].s \notin overlap =>
    /\ stage[t] \in {"chat", "chatRuns", "project"} =>
         \A p \in held[t] : p.root = job[t].base /\ p.chunks = p.root
    /\ stage[t] = "cache" =>
         \A p \in held[t] : p.root = reply[t].root /\ p.chunks = p.root
    /\ (stage[t] \in Chatting /\ pc[t] \in {"flush", "reply"} /\ reply[t].kind = "Ack") =>
         session_ids(mem, job[t].s) = reply[t].root
    /\ stage[t] = "project" => upto[t] = Len(reply[t].root)

SideInv ==
  /\ SideTypeOK
  /\ OverlapInv
  /\ \A t \in Thread : StageInv(t) /\ ProjectionInv(t)
  /\ \A s \in DOMAIN entries : s \in overlap \/ entries[s].chunks = entries[s].root
  /\ UpstreamMatchesAck

\* The inductive form of CacheAccounts: no session is in the queue twice.
CacheInv ==
  /\ IsInjective(lru) /\ Range(lru) = DOMAIN entries
  /\ bytes = SumFunctionOnSet(Sizes(entries), DOMAIN entries)
  /\ Len(lru) <= CacheSessions
  /\ bytes > CacheBytes => Len(lru) = 1
=============================================================================
