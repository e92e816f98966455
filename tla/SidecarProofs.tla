--------------------------- MODULE SidecarProofs ----------------------------
(***************************************************************************)
(* The sidecar's endpoints around the receiver (Sidecar): whatever is      *)
(* cached, invalidated or evicted in between, the model is sent exactly    *)
(* the messages of the root that is ACKed, in every session whose requests *)
(* did not overlap, and the books of the projection cache balance, for any *)
(* threads, frames and cache limits.                                       *)
(***************************************************************************)
EXTENDS Sidecar, ReceiverProofs

-----------------------------------------------------------------------------
\* The cache's queue and the store's reconstruct, through Select.
LEMMA WithoutType ==
  ASSUME NEW q \in Seq(Session), NEW s
  PROVE  Without(q, s) \in Seq(Session) /\ Range(Without(q, s)) \subseteq Range(q) \ {s}
  <1> DEFINE keep == {i \in DOMAIN q : q[i] # s}
  <1>1. keep \in SUBSET DOMAIN q /\ \A i \in keep : q[i] # s /\ q[i] \in Range(q)
    BY Zenon DEF Range
  <1>2. Without(q, s) = Select(q, keep)
    BY Zenon DEF Without
  <1> HIDE DEF keep
  <1>3. /\ Select(q, keep) \in Seq(Session)
        /\ \A x \in Range(Select(q, keep)) : \E i \in keep : x = q[i]
    BY Zenon, <1>1, SelectType
  <1> QED
    BY Zenon, <1>1, <1>2, <1>3

LEMMA StoredType ==
  ASSUME NEW ids \in Seq(BlockId)
  PROVE  Stored(ids) \in Seq(BlockId)
  <1>1. {i \in DOMAIN ids : contains(mem, ids[i])} \in SUBSET DOMAIN ids
    BY Zenon
  <1> QED
    BY Zenon, <1>1, SelectType DEF Stored

\* Nothing is dropped from a log with all its content.
LEMMA StoredAll ==
  ASSUME NEW ids \in Seq(BlockId), Range(ids) \subseteq mem.blocks
  PROVE  Stored(ids) = ids
  <1>1. {i \in DOMAIN ids : contains(mem, ids[i])} = DOMAIN ids
    BY Zenon DEF contains, Range
  <1> QED
    BY Zenon, <1>1, SelectAll DEF Stored

\* insert adds the one projection and keeps others as they were.
LEMMA CacheInsert ==
  ASSUME lru \in Seq(Session), Range(lru) \subseteq DOMAIN entries,
         NEW s \in Session, NEW p, insert(s, p)
  PROVE  /\ lru' \in Seq(Session) /\ Range(lru') \subseteq DOMAIN entries'
         /\ \A r \in DOMAIN entries' :
              IF r = s THEN entries'[r] = p
              ELSE r \in DOMAIN entries /\ entries'[r] = entries[r]
  <1>1. PICK q : q = Without(lru, s)
    BY Zenon
  <1>2. q \in Seq(Session) /\ Range(q) \subseteq Range(lru) \ {s}
    BY Zenon, <1>1, WithoutType
  <1>3. PICK k \in 0..Len(q) :
          /\ entries' = [r \in {q[i] : i \in (k + 1)..Len(q)} \cup {s} |->
                           IF r = s THEN p ELSE Restrict(entries, DOMAIN entries \ {s})[r]]
          /\ lru' = Append(SubSeq(q, k + 1, Len(q)), s)
    <2>1. \E k \in 0..Len(Without(lru, s)) :
            /\ entries' = [r \in {Without(lru, s)[i] : i \in (k + 1)..Len(Without(lru, s))} \cup {s} |->
                             IF r = s THEN p ELSE Restrict(entries, DOMAIN entries \ {s})[r]]
            /\ lru' = Append(SubSeq(Without(lru, s), k + 1, Len(Without(lru, s))), s)
      BY Zenon DEF insert
    <2> QED
      BY Zenon, <1>1, <2>1
  <1>4. PICK c : c = SubSeq(q, k + 1, Len(q))
    BY Zenon
  <1>5. /\ c \in Seq(Session) /\ Len(c) = Len(q) - k
        /\ \A i \in 1..Len(c) : c[i] = q[k + i] /\ k + i \in (k + 1)..Len(q)
    BY <1>2, <1>4
  <1>6. lru' \in Seq(Session) /\ DOMAIN lru' = 1..(Len(c) + 1)
        /\ lru'[Len(c) + 1] = s /\ \A i \in 1..Len(c) : lru'[i] = c[i]
    <2>1. lru' = Append(c, s) /\ c \in Seq(Session)
      BY Zenon, <1>3, <1>4, <1>5
    <2> QED
      BY <2>1
  <1>7. DOMAIN entries' = {q[i] : i \in (k + 1)..Len(q)} \cup {s}
    BY Zenon, <1>3
  <1>8. Range(lru') \subseteq DOMAIN entries'
    <2>1. ASSUME NEW j \in DOMAIN lru' PROVE lru'[j] \in DOMAIN entries'
      <3>1. j = Len(c) + 1 \/ j \in 1..Len(c)
        BY <1>5, <1>6, <2>1
      <3> QED
        BY Zenon, <1>5, <1>6, <1>7, <3>1
    <2> QED
      BY Zenon, <2>1 DEF Range
  <1>9. ASSUME NEW r \in DOMAIN entries', r # s PROVE r \in DOMAIN entries /\ entries'[r] = entries[r]
    <2>1. PICK i \in (k + 1)..Len(q) : r = q[i]
      BY Zenon, <1>7, <1>9
    <2>2. i \in DOMAIN q
      BY <1>2, <2>1
    <2>3. r \in DOMAIN entries \ {s}
      BY Zenon, <1>2, <1>9, <2>1, <2>2 DEF Range
    <2> QED
      BY Zenon, <1>3, <1>7, <1>9, <2>3 DEF Restrict
  <1>10. entries'[s] = p
    BY Zenon, <1>3
  <1> QED
    BY Zenon, <1>6, <1>8, <1>9, <1>10

LEMMA CacheRemove ==
  ASSUME lru \in Seq(Session), Range(lru) \subseteq DOMAIN entries, NEW s, remove(s)
  PROVE  /\ lru' \in Seq(Session) /\ Range(lru') \subseteq DOMAIN entries'
         /\ \A r \in DOMAIN entries' : r \in DOMAIN entries /\ entries'[r] = entries[r]
  <1>1. Without(lru, s) \in Seq(Session) /\ Range(Without(lru, s)) \subseteq Range(lru) \ {s}
    BY Zenon, WithoutType
  <1> QED
    BY Zenon, <1>1 DEF remove, Restrict

LEMMA CacheTouch ==
  ASSUME lru \in Seq(Session), Range(lru) \subseteq DOMAIN entries,
         NEW s \in Session, s \in DOMAIN entries, touch(s)
  PROVE  lru' \in Seq(Session) /\ Range(lru') \subseteq DOMAIN entries
  <1>1. PICK q : q = Without(lru, s)
    BY Zenon
  <1>2. q \in Seq(Session) /\ Range(q) \subseteq Range(lru) \ {s}
    BY Zenon, <1>1, WithoutType
  <1>3. lru' = Append(q, s)
    BY Zenon, <1>1 DEF touch
  <1>4. /\ lru' \in Seq(Session) /\ DOMAIN lru' = (DOMAIN q) \cup {Len(q) + 1}
        /\ lru'[Len(q) + 1] = s /\ \A i \in DOMAIN q : lru'[i] = q[i]
    BY <1>2, <1>3
  <1> QED
    BY Zenon, <1>2, <1>4 DEF Range

-----------------------------------------------------------------------------
(***************************************************************************)
(* The receiver behind the endpoints.  It takes its own steps, except that *)
(* a projection that fails turns an ACK into an error.                     *)
(***************************************************************************)
LEMMA FailedKept ==
  ASSUME IInv, NEW t \in Thread, pc[t] = "reply", reply' = [reply EXCEPT ![t] = Failed],
         UNCHANGED <<memVars, walVars, pc, req, done, due, miss, histVars>>
  PROVE  IInv'
  <1>1. /\ UNCHANGED <<mem, sess, disk, flushed, synced, torn, walError>>
        /\ UNCHANGED <<pc, req, done, due, miss, exposed, faults, crashes>>
    BY Zenon DEF memVars, walVars, histVars
  <1>2. reply \in [Thread -> Reply] /\ Failed \in Reply /\ Failed.kind # "Ack"
    BY Zenon, ReplyType DEF IInv, TypeOK, Failed
  <1>3. /\ reply' \in [Thread -> Reply]
        /\ \A u \in Thread : reply'[u].kind = "Ack" => u # t /\ reply'[u] = reply[u]
    BY Zenon, <1>2
  <1>4. TypeOK'
    BY Zenon, <1>1, <1>3 DEF IInv, TypeOK
  <1>5. RootMatchesLog' /\ LocksExclusive' /\ MissingIsPending'
    BY Zenon, <1>1 DEF IInv, RootMatchesLog, Sound, session_root, session_ids, LocksExclusive,
                       MissingIsPending, Reseeding
  <1>6. ASSUME NEW u \in Thread PROVE ThreadInv(u)' /\ AppendInv(u)'
    <2>1. ThreadInv(u) /\ AppendInv(u)
      BY Zenon DEF IInv
    <2>2. Resolved(req[u], done[u])' <=> Resolved(req[u], done[u])
      BY Zenon, <1>1 DEF Resolved
    <2>3. ThreadInv(u)'
      BY Zenon, <1>1, <2>1 DEF ThreadInv, session_ids
    <2>4. AppendInv(u)'
      BY Zenon, <1>1, <1>3, <2>1, <2>2 DEF AppendInv, session_ids
    <2> QED
      BY Zenon, <2>3, <2>4
  <1>7. AckHasContent'
    BY Zenon, <1>1, <1>3 DEF IInv, AckHasContent
  <1> QED
    BY Zenon, <1>4, <1>5, <1>6, <1>7 DEF IInv

LEMMA SidecarInvStep ==
  ASSUME IInv, SideInv, [SidecarNext]_scVars
  PROVE  IInv'
  <1>1. job \in [Thread -> WellFormed]
    BY Zenon DEF SideInv, SideTypeOK, WellFormed
  <1>2. ASSUME UNCHANGED vars \/ AnyNext PROVE IInv'
    BY Zenon, <1>2, InvStep
  <1>3. CASE UNCHANGED scVars
    BY Zenon, <1>2, <1>3 DEF scVars
  <1>4. ASSUME NEW t \in Thread, NEW f, FrameAccept(t, f) \/ ChatAccept(t, f) PROVE IInv'
    BY Zenon, <1>2, <1>4 DEF FrameAccept, ChatAccept
  <1>5. ASSUME NEW t \in Thread, FrameHandle(t) \/ ChatAppend(t) PROVE IInv'
    BY Zenon, <1>1, <1>2, <1>5 DEF FrameHandle, ChatAppend, AnyNext, Handle
  <1>6. ASSUME NEW t \in Thread, Step(t) PROVE IInv'
    BY Zenon, <1>2, <1>6 DEF AnyNext
  <1>7. ASSUME NEW t \in Thread, ChatMeasure(t) \/ ChatCache(t) PROVE IInv'
    BY Zenon, <1>2, <1>7 DEF ChatMeasure, ChatCache
  <1>8. ASSUME NEW t \in Thread, ChatProject(t) PROVE IInv'
    <2>1. /\ UNCHANGED reply \/ reply' = [reply EXCEPT ![t] = Failed]
          /\ UNCHANGED <<memVars, walVars, pc, req, done, due, miss, histVars>>
      BY Zenon, <1>8 DEF ChatProject
    <2>2. CASE UNCHANGED reply
      BY Zenon, <1>2, <2>1, <2>2 DEF vars, memVars, walVars, histVars
    <2>3. CASE reply' = [reply EXCEPT ![t] = Failed]
      <3>1. pc[t] = "reply"
        BY Zenon, <1>8 DEF ChatProject, SideInv, StageInv
      <3> QED
        BY Zenon, <2>1, <2>3, <3>1, FailedKept
    <2> QED
      BY Zenon, <2>1, <2>2, <2>3
  <1>9. ASSUME NEW t \in Thread, Finish(t) PROVE IInv'
    BY Zenon, <1>2, <1>9 DEF Finish, AnyNext
  <1>10. CASE Reboot
    BY Zenon, <1>2, <1>10 DEF Reboot, AnyNext
  <1> QED
    BY Zenon, <1>3, <1>4, <1>5, <1>6, <1>7, <1>8, <1>9, <1>10 DEF SidecarNext

-----------------------------------------------------------------------------
(***************************************************************************)
(* One thread's step.  The others keep what they had, and the log of their *)
(* session as well unless the step is a request of that session.           *)
(***************************************************************************)
OthersKept(t) ==
  \A u \in Thread \ {t} :
     /\ stage'[u] = stage[u] /\ job'[u] = job[u] /\ held'[u] = held[u] /\ upto'[u] = upto[u]
     /\ pc'[u] = pc[u] /\ req'[u] = req[u] /\ reply'[u] = reply[u]

LogsKept(t) ==
  \A u \in Thread \ {t} :
     (stage[u] # "idle" /\ job[u].s \notin overlap)
        => session_ids(mem', job[u].s) = session_ids(mem, job[u].s)

Running == {job[u].s : u \in {u \in Thread : stage[u] # "idle"}}

LEMMA OverlapKept ==
  ASSUME SideInv, NEW t \in Thread, OthersKept(t), overlap \subseteq overlap',
         \/ stage'[t] = "idle"
         \/ stage[t] # "idle" /\ job'[t] = job[t]
         \/ stage[t] = "idle" /\ {job'[t].s} \cap Running \subseteq overlap'
  PROVE  OverlapInv'
  <1>1. SUFFICES ASSUME NEW x \in Thread, NEW u \in Thread, x # u,
                        stage'[x] # "idle", stage'[u] # "idle", job'[x].s = job'[u].s
                 PROVE  job'[x].s \in overlap'
    BY Zenon DEF OverlapInv
  <1>2. \A v, w \in Thread : (v # w /\ stage[v] # "idle" /\ stage[w] # "idle" /\ job[v].s = job[w].s)
                               => job[v].s \in overlap
    BY Zenon DEF SideInv, OverlapInv
  <1>3. ASSUME NEW v \in Thread \ {t}, stage[v] # "idle", stage'[t] # "idle", job'[t].s = job[v].s
        PROVE  job[v].s \in overlap'
    <2>1. CASE stage[t] # "idle" /\ job'[t] = job[t]
      BY Zenon, <1>2, <1>3, <2>1
    <2>2. CASE stage[t] = "idle" /\ {job'[t].s} \cap Running \subseteq overlap'
      BY Zenon, <1>3, <2>2 DEF Running
    <2> QED
      BY Zenon, <1>3, <2>1, <2>2
  <1>4. CASE x = t
    BY Zenon, <1>1, <1>3, <1>4 DEF OthersKept
  <1>5. CASE u = t
    BY Zenon, <1>1, <1>3, <1>5 DEF OthersKept
  <1>6. CASE x # t /\ u # t
    BY Zenon, <1>1, <1>2, <1>6 DEF OthersKept
  <1> QED
    BY Zenon, <1>4, <1>5, <1>6

LEMMA OthersStay ==
  ASSUME SideInv, NEW t \in Thread, OthersKept(t), LogsKept(t), overlap \subseteq overlap',
         NEW u \in Thread \ {t}
  PROVE  StageInv(u)' /\ ProjectionInv(u)'
  <1>1. StageInv(u) /\ ProjectionInv(u)
    BY Zenon DEF SideInv
  <1>2. /\ stage'[u] = stage[u] /\ job'[u] = job[u] /\ held'[u] = held[u] /\ upto'[u] = upto[u]
        /\ pc'[u] = pc[u] /\ req'[u] = req[u] /\ reply'[u] = reply[u]
    BY Zenon DEF OthersKept
  <1>3. stage[u] \in Chatting => stage[u] # "idle"
    BY Zenon DEF Chatting
  <1>4. ASSUME job[u].s \notin overlap', stage[u] \in Chatting
        PROVE  job[u].s \notin overlap /\ session_ids(mem', job[u].s) = session_ids(mem, job[u].s)
    BY Zenon, <1>3, <1>4 DEF LogsKept
  <1>5. StageInv(u)'
    BY Zenon, <1>1, <1>2 DEF StageInv
  <1>6. ProjectionInv(u)'
    <2>1. SUFFICES ASSUME job[u].s \notin overlap'
                   PROVE  /\ stage[u] \in {"chat", "chatRuns", "project"} =>
                               \A p \in held[u] : p.root = job[u].base /\ p.chunks = p.root
                          /\ stage[u] = "cache" =>
                               \A p \in held[u] : p.root = reply[u].root /\ p.chunks = p.root
                          /\ (stage[u] \in Chatting /\ pc[u] \in {"flush", "reply"} /\ reply[u].kind = "Ack") =>
                               session_ids(mem', job[u].s) = reply[u].root
                          /\ stage[u] = "project" => upto[u] = Len(reply[u].root)
      BY Zenon, <1>2 DEF ProjectionInv
    <2>2. job[u].s \notin overlap
      BY Zenon, <2>1
    <2> QED
      BY Zenon, <1>1, <1>4, <2>1, <2>2 DEF ProjectionInv
  <1> QED
    BY Zenon, <1>5, <1>6

LEMMA SideFrom ==
  ASSUME SideInv, NEW t \in Thread, OthersKept(t), LogsKept(t), overlap \subseteq overlap',
         \/ stage'[t] = "idle"
         \/ stage[t] # "idle" /\ job'[t] = job[t]
         \/ stage[t] = "idle" /\ {job'[t].s} \cap Running \subseteq overlap',
         SideTypeOK', StageInv(t)', ProjectionInv(t)',
         \A s \in DOMAIN entries' : s \in overlap' \/ entries'[s].chunks = entries'[s].root,
         UpstreamMatchesAck'
  PROVE  SideInv'
  <1>1. OverlapInv'
    BY Zenon, OverlapKept
  <1>2. \A u \in Thread \ {t} : StageInv(u)' /\ ProjectionInv(u)'
    BY Zenon, OthersStay
  <1> QED
    BY Zenon, <1>1, <1>2 DEF SideInv

\* Steps that leave the cache and what was posted alone.
LEMMA BooksKept ==
  ASSUME SideInv, UNCHANGED <<entries, lru, posted, overlap>>
  PROVE  /\ \A s \in DOMAIN entries' : s \in overlap' \/ entries'[s].chunks = entries'[s].root
         /\ UpstreamMatchesAck'
         /\ lru' \in Seq(Session) /\ Range(lru') \subseteq DOMAIN entries'
         /\ \A s \in DOMAIN entries' : entries'[s] \in Projection
  BY Zenon DEF SideInv, SideTypeOK, UpstreamMatchesAck

-----------------------------------------------------------------------------
(***************************************************************************)
(* The endpoints, step by step.                                            *)
(***************************************************************************)
Stages == Chatting \cup {"idle", "frame", "frameRuns"}

LEMMA SideTypes ==
  ASSUME SideInv
  PROVE  /\ stage \in [Thread -> Stages] /\ job \in [Thread -> WellFormed]
         /\ held \in [Thread -> SUBSET Projection] /\ upto \in [Thread -> Nat]
         /\ lru \in Seq(Session) /\ Range(lru) \subseteq DOMAIN entries
         /\ \A s \in DOMAIN entries : entries[s] \in Projection
  BY Zenon DEF SideInv, SideTypeOK, Stages, WellFormed

LEMMA SideTypesNext ==
  ASSUME stage' \in [Thread -> Stages], job' \in [Thread -> WellFormed],
         held' \in [Thread -> SUBSET Projection], upto' \in [Thread -> Nat],
         lru' \in Seq(Session), Range(lru') \subseteq DOMAIN entries',
         \A s \in DOMAIN entries' : entries'[s] \in Projection
  PROVE  SideTypeOK'
  BY Zenon DEF SideTypeOK, Stages, WellFormed

\* A request enters.
LEMMA AcceptShape ==
  ASSUME SideInv, NEW t \in Thread, NEW f \in WellFormed, NEW label \in {"frame", "chat"},
         Accept(t, f, label), UNCHANGED vars, held' = [held EXCEPT ![t] = held'[t]], UNCHANGED upto
  PROVE  /\ OthersKept(t) /\ LogsKept(t) /\ overlap \subseteq overlap'
         /\ stage[t] = "idle" /\ {job'[t].s} \cap Running \subseteq overlap'
         /\ stage'[t] = label /\ job'[t] = f
         /\ stage' \in [Thread -> Stages] /\ job' \in [Thread -> WellFormed]
         /\ pc'[t] = "idle"
  <1>1. /\ stage \in [Thread -> Stages] /\ job \in [Thread -> WellFormed]
        /\ held \in [Thread -> SUBSET Projection]
    BY Zenon, SideTypes
  <1>2. /\ stage[t] = "idle" /\ stage' = [stage EXCEPT ![t] = label]
        /\ job' = [job EXCEPT ![t] = f] /\ overlap' = overlap \cup ({f.s} \cap Running)
    BY Zenon DEF Accept, At, Running
  <1>3. label \in Stages
    BY Zenon DEF Stages, Chatting
  <1>4. UNCHANGED <<pc, req, reply, mem>>
    BY Zenon DEF vars
  <1>5. pc[t] = "idle"
    BY Zenon, <1>2 DEF SideInv, StageInv
  <1>6. \A u \in Thread \ {t} : held'[u] = held[u]
    BY Zenon, <1>1
  <1>7. \A u \in Thread \ {t} : stage'[u] = stage[u] /\ job'[u] = job[u]
    BY Zenon, <1>1, <1>2
  <1>8. stage'[t] = label /\ job'[t] = f
    BY Zenon, <1>1, <1>2
  <1>9. OthersKept(t)
    BY Zenon, <1>4, <1>6, <1>7 DEF OthersKept
  <1>10. LogsKept(t)
    BY Zenon, <1>4 DEF LogsKept
  <1>11. stage' \in [Thread -> Stages] /\ job' \in [Thread -> WellFormed]
    BY Zenon, <1>1, <1>2, <1>3
  <1> QED
    BY Zenon, <1>2, <1>4, <1>5, <1>8, <1>9, <1>10, <1>11

LEMMA SideFrameAccept ==
  ASSUME SideInv, NEW t \in Thread, NEW f \in Frames, FrameAccept(t, f)
  PROVE  SideInv'
  <1>1. f \in WellFormed
    BY Zenon, FramesAssumption DEF WellFormed
  <1>2. /\ Accept(t, f, "frame") /\ remove(f.s) /\ UNCHANGED vars /\ UNCHANGED <<held, upto, posted>>
    BY Zenon DEF FrameAccept
  <1>3. /\ held \in [Thread -> SUBSET Projection] /\ upto \in [Thread -> Nat]
        /\ lru \in Seq(Session) /\ Range(lru) \subseteq DOMAIN entries
        /\ \A s \in DOMAIN entries : entries[s] \in Projection
    BY Zenon, SideTypes
  <1>4. held' = [held EXCEPT ![t] = held'[t]]
    BY Zenon, <1>2, <1>3
  <1>5. /\ OthersKept(t) /\ LogsKept(t) /\ overlap \subseteq overlap'
        /\ stage[t] = "idle" /\ {job'[t].s} \cap Running \subseteq overlap'
        /\ stage'[t] = "frame" /\ job'[t] = f
        /\ stage' \in [Thread -> Stages] /\ job' \in [Thread -> WellFormed]
        /\ pc'[t] = "idle"
    BY Zenon, <1>1, <1>2, <1>4, AcceptShape
  <1>6. /\ lru' \in Seq(Session) /\ Range(lru') \subseteq DOMAIN entries'
        /\ \A r \in DOMAIN entries' : r \in DOMAIN entries /\ entries'[r] = entries[r]
    BY Zenon, <1>2, <1>3, CacheRemove
  <1>7. SideTypeOK'
    BY Zenon, <1>2, <1>3, <1>5, <1>6, SideTypesNext
  <1>8. StageInv(t)' /\ ProjectionInv(t)'
    BY Zenon, <1>5 DEF StageInv, ProjectionInv, Chatting
  <1>9. \A s \in DOMAIN entries' : s \in overlap' \/ entries'[s].chunks = entries'[s].root
    BY Zenon, <1>5, <1>6 DEF SideInv
  <1>10. UpstreamMatchesAck'
    BY Zenon, <1>2, <1>5 DEF SideInv, UpstreamMatchesAck
  <1> QED
    BY Zenon, <1>5, <1>7, <1>8, <1>9, <1>10, SideFrom

\* A projection found in the cache is at the base of the request.
LEMMA SideChatAccept ==
  ASSUME SideInv, NEW t \in Thread, NEW f \in ChatFrames, ChatAccept(t, f)
  PROVE  SideInv'
  <1>1. f \in WellFormed /\ f.kind = "Append" /\ f.s \in Session
    BY Zenon, ChatFramesAssumption DEF WellFormed, Frame
  <1>2. /\ Accept(t, f, "chat") /\ UNCHANGED vars /\ UNCHANGED <<upto, entries, bytes, posted>>
        /\ held' = [held EXCEPT ![t] = Lookup(f.s, f.base)]
        /\ IF Lookup(f.s, f.base) # {} THEN touch(f.s) ELSE UNCHANGED lru
    BY Zenon DEF ChatAccept
  <1>3. /\ held \in [Thread -> SUBSET Projection] /\ upto \in [Thread -> Nat]
        /\ lru \in Seq(Session) /\ Range(lru) \subseteq DOMAIN entries
        /\ \A s \in DOMAIN entries : entries[s] \in Projection
    BY Zenon, SideTypes
  <1>4. held'[t] = Lookup(f.s, f.base) /\ held' = [held EXCEPT ![t] = held'[t]]
    BY Zenon, <1>2, <1>3
  <1>5. /\ OthersKept(t) /\ LogsKept(t) /\ overlap \subseteq overlap'
        /\ stage[t] = "idle" /\ {job'[t].s} \cap Running \subseteq overlap'
        /\ stage'[t] = "chat" /\ job'[t] = f
        /\ stage' \in [Thread -> Stages] /\ job' \in [Thread -> WellFormed]
        /\ pc'[t] = "idle"
    BY Zenon, <1>1, <1>2, <1>4, AcceptShape
  <1>6. \A p \in Lookup(f.s, f.base) : f.s \in DOMAIN entries /\ p = entries[f.s] /\ p.root = f.base
    BY Zenon DEF Lookup, Cached
  <1>7. lru' \in Seq(Session) /\ Range(lru') \subseteq DOMAIN entries
    <2>1. CASE Lookup(f.s, f.base) = {}
      BY Zenon, <1>2, <1>3, <2>1
    <2>2. CASE Lookup(f.s, f.base) # {}
      <3>1. f.s \in DOMAIN entries /\ touch(f.s)
        BY Zenon, <1>2, <1>6, <2>2
      <3> QED
        BY Zenon, <1>1, <1>3, <3>1, CacheTouch
    <2> QED
      BY Zenon, <2>1, <2>2
  <1>8. held' \in [Thread -> SUBSET Projection]
    <2>1. Lookup(f.s, f.base) \in SUBSET Projection
      BY Zenon, <1>3, <1>6
    <2> QED
      BY Zenon, <1>2, <1>3, <2>1
  <1>9. SideTypeOK'
    BY Zenon, <1>2, <1>3, <1>5, <1>7, <1>8, SideTypesNext
  <1>10. StageInv(t)'
    BY Zenon, <1>1, <1>5 DEF StageInv, Chatting
  <1>11. ProjectionInv(t)'
    <2>1. ASSUME f.s \notin overlap', NEW p \in held'[t] PROVE p.root = f.base /\ p.chunks = p.root
      <3>1. f.s \in DOMAIN entries /\ p = entries[f.s] /\ p.root = f.base
        BY Zenon, <1>4, <1>6, <2>1
      <3>2. f.s \notin overlap
        BY Zenon, <1>5, <2>1
      <3> QED
        BY Zenon, <3>1, <3>2 DEF SideInv
    <2> QED
      BY Zenon, <1>5, <2>1 DEF ProjectionInv
  <1>12. \A s \in DOMAIN entries' : s \in overlap' \/ entries'[s].chunks = entries'[s].root
    BY Zenon, <1>2, <1>5 DEF SideInv
  <1>13. UpstreamMatchesAck'
    BY Zenon, <1>2, <1>5 DEF SideInv, UpstreamMatchesAck
  <1> QED
    BY Zenon, <1>5, <1>9, <1>10, <1>11, <1>12, <1>13, SideFrom

\* The frame goes to the receiver.  An APPEND is answered at once only with
\* an error.
LEMMA SideHandle ==
  ASSUME IInv, SideInv, NEW t \in Thread, FrameHandle(t) \/ ChatAppend(t)
  PROVE  SideInv'
  <1>1. /\ Handle(t, job[t]) /\ UNCHANGED <<job, held, upto, entries, lru, posted, overlap>>
        /\ \/ stage[t] = "frame" /\ stage' = [stage EXCEPT ![t] = "frameRuns"]
           \/ stage[t] = "chat" /\ stage' = [stage EXCEPT ![t] = "chatRuns"]
    BY Zenon DEF FrameHandle, ChatAppend, At, Handle, cacheVars
  <1>2. /\ stage \in [Thread -> Stages] /\ job \in [Thread -> WellFormed]
        /\ held \in [Thread -> SUBSET Projection] /\ upto \in [Thread -> Nat]
    BY Zenon, SideTypes
  <1>3. TypeOK /\ req \in [Thread -> Frame]
    BY Zenon DEF IInv, TypeOK
  <1>4. /\ UNCHANGED mem /\ req' = [req EXCEPT ![t] = job[t]]
        /\ \A u \in Thread \ {t} : pc'[u] = pc[u] /\ reply'[u] = reply[u] /\ req'[u] = req[u]
        /\ pc'[t] \in {"check", "reply", "seed", "store"}
        /\ pc'[t] = "reply" => reply'[t] = Conflict
    BY Zenon, <1>1, <1>3, HandleShape
  <1>5. OthersKept(t) /\ LogsKept(t)
    BY Zenon, <1>1, <1>2, <1>4 DEF OthersKept, LogsKept
  <1>6. req'[t] = job[t]
    BY Zenon, <1>3, <1>4
  <1>7. stage'[t] \in {"frameRuns", "chatRuns"} /\ (stage'[t] = "chatRuns" => stage[t] = "chat")
    BY Zenon, <1>1, <1>2
  <1>8. stage' \in [Thread -> Stages]
    BY Zenon, <1>1, <1>2 DEF Stages, Chatting
  <1>9. SideTypeOK'
    BY Zenon, <1>1, <1>2, <1>8, BooksKept, SideTypesNext
  <1>10. StageInv(t) /\ ProjectionInv(t)
    BY Zenon DEF SideInv
  <1>11. StageInv(t)'
    BY Zenon, <1>1, <1>6, <1>7, <1>10 DEF StageInv, Chatting
  <1>12. ~(pc'[t] \in {"flush", "reply"} /\ reply'[t].kind = "Ack")
    <2>1. Conflict.kind # "Ack" /\ pc'[t] # "flush"
      BY Zenon, <1>4 DEF Conflict
    <2> QED
      BY Zenon, <1>4, <2>1
  <1>13. ProjectionInv(t)'
    BY Zenon, <1>1, <1>7, <1>10, <1>12 DEF ProjectionInv
  <1>14. stage[t] # "idle" /\ job'[t] = job[t] /\ overlap \subseteq overlap'
    BY Zenon, <1>1
  <1> QED
    BY Zenon, <1>1, <1>5, <1>9, <1>11, <1>13, <1>14, BooksKept, SideFrom

\* What the receiver ACKs to an APPEND is the log it has.
LEMMA AckIsLog ==
  ASSUME IInv, NEW t \in Thread, Step(t), pc'[t] \in {"flush", "reply"},
         reply'[t].kind = "Ack", req[t].kind = "Append"
  PROVE  \/ mem' = mem /\ reply'[t].root = session_ids(mem, req[t].s)
         \/ mem' = mem /\ pc[t] = "flush" /\ reply'[t] = reply[t]
  <1>1. pc \in [Thread -> PC] /\ reply \in [Thread -> Reply] /\ ThreadInv(t)
    BY Zenon DEF IInv, TypeOK
  <1>2. \A label : Goto(t, label) => pc'[t] = label
    BY Zenon, <1>1 DEF Goto
  <1>3. \A label, r : Answer(t, label, r) => pc'[t] = label /\ reply'[t] = r
    BY Zenon, <1>1, <1>2 DEF Answer
  <1>4. CASE AppendCheck(t) \/ AppendDone(t) \/ BulkDone(t)
    BY Zenon, <1>4, AckNames
  <1>5. CASE Flush(t)
    <2>1. Failed.kind # "Ack"
      BY Zenon DEF Failed
    <2> QED
      BY Zenon, <1>3, <1>5, <2>1 DEF Flush, memVars
  <1>6. CASE ResyncNote(t) \/ ResyncRoot(t)
    <2>1. pc[t] \in {"note", "root"}
      BY Zenon, <1>6 DEF ResyncNote, ResyncRoot
    <2> QED
      BY Zenon, <1>1, <2>1 DEF ThreadInv
  <1>7. CASE AppendApply(t) \/ AppendLog(t) \/ ResyncSeed(t) \/ ResyncLog(t) \/ BulkLog(t)
              \/ BulkStore(t) \/ \E latch, next \in Locked : LatchError(t, latch, next)
    BY ZenonT(60), <1>1, <1>2, <1>7 DEF AppendApply, AppendLog, ResyncSeed, ResyncLog, BulkLog, BulkStore,
                             LatchError, WriteRecord, Locked
  <1> QED
    BY Zenon, <1>4, <1>5, <1>6, <1>7 DEF Step, Locked

\* The receiver's own steps.  They may change the log of the thread's session,
\* which is another's too only where two requests overlap.
LEMMA SideStep ==
  ASSUME IInv, SideInv, NEW t \in Thread, Step(t), UNCHANGED sidecarVars
  PROVE  SideInv'
  <1>1. UNCHANGED <<stage, job, held, upto, entries, lru, posted, overlap>>
    BY Zenon DEF sidecarVars, cacheVars
  <1>2. /\ stage \in [Thread -> Stages] /\ job \in [Thread -> WellFormed]
        /\ held \in [Thread -> SUBSET Projection] /\ upto \in [Thread -> Nat]
    BY Zenon, SideTypes
  <1>3. /\ req' = req /\ pc[t] \in Locked \cup {"root", "flush"}
        /\ \A u \in Thread \ {t} : pc'[u] = pc[u] /\ reply'[u] = reply[u]
    BY Zenon, StepShape DEF IInv
  <1>4. pc[t] # "idle" /\ pc[t] # "reply"
    BY Zenon, <1>3 DEF Locked
  <1>5. StageInv(t) /\ ProjectionInv(t)
    BY Zenon DEF SideInv
  <1>6. req[t] = job[t] /\ stage[t] \in {"chatRuns", "frameRuns"}
    BY Zenon, <1>2, <1>4, <1>5 DEF StageInv, Stages, Chatting
  <1>7. OthersKept(t)
    BY Zenon, <1>1, <1>3 DEF OthersKept
  <1>8. LogsKept(t)
    <2>1. SUFFICES ASSUME NEW u \in Thread \ {t}, stage[u] # "idle", job[u].s \notin overlap
                   PROVE  session_ids(mem', job[u].s) = session_ids(mem, job[u].s)
      BY Zenon DEF LogsKept
    <2>2. job[u].s \in Session
      BY Zenon, <1>2 DEF WellFormed, Frame
    <2>3. job[u].s # req[t].s
      BY Zenon, <1>6, <2>1 DEF SideInv, OverlapInv
    <2> QED
      BY Zenon, <2>2, <2>3, StepStore
  <1>9. SideTypeOK'
    BY Zenon, <1>1, <1>2, BooksKept, SideTypesNext
  <1>10. StageInv(t)'
    BY Zenon, <1>1, <1>3, <1>5, <1>6 DEF StageInv
  <1>11. ProjectionInv(t)'
    <2>1. ASSUME job[t].s \notin overlap, stage[t] \in Chatting,
                 pc'[t] \in {"flush", "reply"}, reply'[t].kind = "Ack"
          PROVE  session_ids(mem', job[t].s) = reply'[t].root
      <3>1. req[t].kind = "Append"
        BY Zenon, <1>5, <1>6, <2>1 DEF StageInv
      <3>2. CASE mem' = mem /\ reply'[t].root = session_ids(mem, req[t].s)
        BY Zenon, <1>6, <3>2
      <3>3. CASE mem' = mem /\ pc[t] = "flush" /\ reply'[t] = reply[t]
        BY Zenon, <1>5, <2>1, <3>3 DEF ProjectionInv
      <3> QED
        BY Zenon, <2>1, <3>1, <3>2, <3>3, AckIsLog
    <2> QED
      BY Zenon, <1>1, <1>5, <1>6, <2>1 DEF ProjectionInv
  <1>12. stage[t] # "idle" /\ job'[t] = job[t] /\ overlap \subseteq overlap'
    BY Zenon, <1>1, <1>6
  <1> QED
    BY Zenon, <1>1, <1>7, <1>8, <1>9, <1>10, <1>11, <1>12, BooksKept, SideFrom

LEMMA SideMeasure ==
  ASSUME IInv, SideInv, NEW t \in Thread, ChatMeasure(t)
  PROVE  SideInv'
  <1>1. /\ stage[t] = "chatRuns" /\ pc[t] = "reply" /\ reply[t].kind = "Ack"
        /\ upto' = [upto EXCEPT ![t] = Len(session_ids(mem, job[t].s))]
        /\ stage' = [stage EXCEPT ![t] = "project"]
        /\ UNCHANGED <<mem, pc, req, reply, job, held, entries, lru, posted, overlap>>
    BY Zenon DEF ChatMeasure, At, vars, cacheVars
  <1>2. /\ stage \in [Thread -> Stages] /\ job \in [Thread -> WellFormed]
        /\ held \in [Thread -> SUBSET Projection] /\ upto \in [Thread -> Nat]
    BY Zenon, SideTypes
  <1>3. PICK n : n = Len(session_ids(mem, job[t].s))
    BY Zenon
  <1>4. n \in Nat
    <2>1. session_ids(mem, job[t].s) \in Seq(BlockId)
      BY Zenon, <1>2, RootType DEF IInv, TypeOK, WellFormed, Frame
    <2> QED
      BY <1>3, <2>1
  <1>5. stage'[t] = "project" /\ stage' \in [Thread -> Stages]
    BY Zenon, <1>1, <1>2 DEF Stages, Chatting
  <1>6. upto'[t] = n /\ upto' \in [Thread -> Nat]
    BY Zenon, <1>1, <1>2, <1>3, <1>4
  <1>7. OthersKept(t) /\ LogsKept(t)
    BY Zenon, <1>1, <1>2 DEF OthersKept, LogsKept
  <1>8. SideTypeOK'
    BY Zenon, <1>1, <1>2, <1>5, <1>6, BooksKept, SideTypesNext
  <1>9. StageInv(t) /\ ProjectionInv(t)
    BY Zenon DEF SideInv
  <1>10. StageInv(t)'
    BY Zenon, <1>1, <1>5, <1>9 DEF StageInv, Chatting
  <1>11. ProjectionInv(t)'
    BY Zenon, <1>1, <1>3, <1>5, <1>6, <1>9 DEF ProjectionInv, Chatting
  <1>12. stage[t] # "idle" /\ job'[t] = job[t] /\ overlap \subseteq overlap'
    BY Zenon, <1>1
  <1> QED
    BY Zenon, <1>1, <1>7, <1>8, <1>10, <1>11, <1>12, BooksKept, SideFrom

-----------------------------------------------------------------------------
(***************************************************************************)
(* The projection.                                                         *)
(***************************************************************************)
LEMMA RangeType ==
  ASSUME mem \in Image, NEW s \in Session, NEW start \in Nat, NEW end \in Nat
  PROVE  reconstruct_range(s, start, end) \in Seq(BlockId)
  <1>1. PICK ids : ids = session_ids(mem, s)
    BY Zenon
  <1>2. ids \in Seq(BlockId)
    BY Zenon, <1>1, RootType
  <1>3. PICK to : to = IF end < Len(ids) THEN end ELSE Len(ids)
    BY Zenon
  <1>4. SubSeq(ids, start + 1, to) \in Seq(BlockId)
    <2>1. to \in Nat /\ to <= Len(ids)
      BY <1>2, <1>3
    <2> QED
      BY <1>2, <2>1
  <1> QED
    BY Zenon, <1>1, <1>3, <1>4, StoredType DEF reconstruct_range

\* The range behind a base is what was appended to it.
LEMMA RangeOfAppended ==
  ASSUME mem \in Image, NEW s \in Session, NEW a \in Seq(BlockId), NEW b \in Seq(BlockId),
         session_ids(mem, s) = a \o b, Range(a \o b) \subseteq mem.blocks
  PROVE  reconstruct_range(s, Len(a), Len(a \o b)) = b
  <1>1. PICK c : c = a \o b
    BY Zenon
  <1>2. /\ c \in Seq(BlockId) /\ Len(c) = Len(a) + Len(b)
        /\ \A i \in 1..Len(b) : Len(a) + i \in 1..Len(c) /\ c[Len(a) + i] = b[i]
    BY <1>1
  <1>3. PICK d : d = SubSeq(c, Len(a) + 1, Len(c))
    BY Zenon
  <1>4. d \in Seq(BlockId) /\ Len(d) = Len(b) /\ \A i \in 1..Len(d) : d[i] = c[Len(a) + i]
    BY <1>2, <1>3
  <1>5. d = b
    BY SMTT(60), <1>2, <1>4, SeqEqual
  <1>6. Range(b) \subseteq mem.blocks
    <2>1. ASSUME NEW i \in DOMAIN b PROVE b[i] \in mem.blocks
      <3>1. i \in 1..Len(b) /\ DOMAIN c = 1..Len(c)
        BY <1>2
      <3> QED
        BY Zenon, <1>1, <1>2, <3>1 DEF Range
    <2> QED
      BY Zenon, <2>1 DEF Range
  <1>7. Stored(b) = b
    BY Zenon, <1>6, StoredAll
  <1>8. ~(Len(c) < Len(c))
    BY <1>2
  <1> QED
    BY Zenon, <1>1, <1>3, <1>5, <1>7, <1>8 DEF reconstruct_range

\* What was ACKed to a chat request that is alone on its session is its log,
\* its base and its blocks, with all their content.
LEMMA AckedLog ==
  ASSUME IInv, SideInv, NEW t \in Thread, stage[t] = "project", job[t].s \notin overlap
  PROVE  /\ session_ids(mem, job[t].s) = reply[t].root
         /\ reply[t].root = job[t].base \o job[t].ids
         /\ Range(reply[t].root) \subseteq mem.blocks
         /\ upto[t] = Len(reply[t].root)
         /\ \A p \in held[t] : p.chunks = job[t].base
  <1>1. StageInv(t) /\ ProjectionInv(t)
    BY Zenon DEF SideInv
  <1>2. /\ pc[t] = "reply" /\ reply[t].kind = "Ack" /\ req[t] = job[t] /\ job[t].kind = "Append"
    BY Zenon, <1>1 DEF StageInv, Chatting
  <1>3. reply[t].root = job[t].base \o job[t].ids
    BY Zenon, <1>2 DEF IInv, AppendInv, root_over
  <1>4. Range(reply[t].root) \subseteq mem.blocks
    BY Zenon, <1>2 DEF IInv, AckHasContent
  <1> QED
    BY Zenon, <1>1, <1>2, <1>3, <1>4 DEF ProjectionInv, Chatting

LEMMA SideProject ==
  ASSUME IInv, SideInv, NEW t \in Thread, ChatProject(t)
  PROVE  SideInv'
  <1>1. PICK s : s = job[t].s
    BY Zenon
  <1>2. /\ stage[t] = "project"
        /\ UNCHANGED <<mem, pc, req, job, upto, entries, lru, posted, overlap>>
    BY Zenon DEF ChatProject, memVars, cacheVars
  <1>3. /\ stage \in [Thread -> Stages] /\ job \in [Thread -> WellFormed]
        /\ held \in [Thread -> SUBSET Projection] /\ upto \in [Thread -> Nat]
        /\ reply \in [Thread -> Reply] /\ mem \in Image
    BY Zenon, SideTypes DEF IInv, TypeOK
  <1>4. /\ s \in Session /\ job[t].base \in Seq(BlockId) /\ job[t].ids \in Seq(BlockId)
        /\ reply[t].root \in Root /\ session_ids(mem, s) \in Seq(BlockId) /\ upto[t] \in Nat
    BY Zenon, <1>1, <1>3, RootType DEF WellFormed, Frame, Root, Reply
  <1>5. StageInv(t) /\ ProjectionInv(t)
    BY Zenon DEF SideInv
  <1>6. ASSUME OthersKept(t), stage' \in [Thread -> Stages], held' \in [Thread -> SUBSET Projection],
               StageInv(t)', ProjectionInv(t)'
        PROVE  SideInv'
    <2>1. LogsKept(t)
      BY Zenon, <1>2 DEF LogsKept
    <2>2. SideTypeOK'
      BY Zenon, <1>2, <1>3, <1>6, BooksKept, SideTypesNext
    <2>3. stage[t] # "idle" /\ job'[t] = job[t] /\ overlap \subseteq overlap'
      BY Zenon, <1>2
    <2> QED
      BY Zenon, <1>2, <1>6, <2>1, <2>2, <2>3, BooksKept, SideFrom
  <1>7. ASSUME NEW chunks \in Seq(BlockId), s \notin overlap => chunks = reply[t].root,
               held' = [held EXCEPT ![t] = {[root |-> reply[t].root, chunks |-> chunks]}],
               stage' = [stage EXCEPT ![t] = "cache"], UNCHANGED reply
        PROVE  SideInv'
    <2>1. PICK p : p = [root |-> reply[t].root, chunks |-> chunks]
      BY Zenon
    <2>2. p \in Projection /\ p.root = reply[t].root /\ p.chunks = chunks
      BY Zenon, <1>4, <1>7, <2>1 DEF Projection
    <2>3. held' = [held EXCEPT ![t] = {p}]
      BY Zenon, <1>7, <2>1
    <2>4. held'[t] = {p} /\ stage'[t] = "cache"
      BY Zenon, <1>3, <1>7, <2>3
    <2>5. OthersKept(t)
      BY Zenon, <1>2, <1>3, <1>7, <2>3 DEF OthersKept
    <2>6. stage' \in [Thread -> Stages] /\ held' \in [Thread -> SUBSET Projection]
      <3>1. "cache" \in Stages /\ {p} \in SUBSET Projection
        BY Zenon, <2>2 DEF Stages, Chatting
      <3> QED
        BY Zenon, <1>3, <1>7, <2>3, <3>1
    <2>7. StageInv(t)'
      BY Zenon, <1>2, <1>5, <1>7, <2>4 DEF StageInv, Chatting
    <2>8. ProjectionInv(t)'
      BY Zenon, <1>1, <1>2, <1>5, <1>7, <2>2, <2>4 DEF ProjectionInv, StageInv, Chatting
    <2> QED
      BY Zenon, <1>6, <2>5, <2>6, <2>7, <2>8
  <1>8. CASE /\ held' = [held EXCEPT ![t] = {[root |-> reply[t].root, chunks |-> Stored(session_ids(mem, s))]}]
             /\ stage' = [stage EXCEPT ![t] = "cache"] /\ UNCHANGED reply
    <2>1. Stored(session_ids(mem, s)) \in Seq(BlockId)
      BY Zenon, <1>4, StoredType
    <2>2. s \notin overlap => Stored(session_ids(mem, s)) = reply[t].root
      BY Zenon, <1>1, <1>2, <1>4, AckedLog, StoredAll
    <2> QED
      BY Zenon, <1>7, <1>8, <2>1, <2>2
  <1>9. ASSUME NEW p \in held[t], NEW additions, additions = reconstruct_range(s, Len(p.chunks), upto[t]),
               held' = [held EXCEPT ![t] = {[root |-> reply[t].root, chunks |-> p.chunks \o additions]}],
               stage' = [stage EXCEPT ![t] = "cache"], UNCHANGED reply
        PROVE  SideInv'
    <2>1. p.chunks \in Seq(BlockId)
      <3>1. p \in Projection
        BY Zenon, <1>3, <1>9
      <3> QED
        BY Zenon, <3>1 DEF Projection
    <2>2. Len(p.chunks) \in Nat
      BY <2>1
    <2>3. additions \in Seq(BlockId)
      BY Zenon, <1>3, <1>4, <1>9, <2>2, RangeType
    <2>4. p.chunks \o additions \in Seq(BlockId)
      BY <2>1, <2>3
    <2>5. ASSUME s \notin overlap PROVE p.chunks \o additions = reply[t].root
      <3>1. /\ session_ids(mem, s) = job[t].base \o job[t].ids
            /\ reply[t].root = job[t].base \o job[t].ids
            /\ Range(job[t].base \o job[t].ids) \subseteq mem.blocks
            /\ upto[t] = Len(job[t].base \o job[t].ids) /\ p.chunks = job[t].base
        BY Zenon, <1>1, <1>2, <1>9, <2>5, AckedLog
      <3>2. reconstruct_range(s, Len(job[t].base), Len(job[t].base \o job[t].ids)) = job[t].ids
        BY Zenon, <1>3, <1>4, <3>1, RangeOfAppended
      <3> QED
        BY Zenon, <1>9, <3>1, <3>2
    <2> QED
      BY Zenon, <1>7, <1>9, <2>4, <2>5
  <1>10. CASE /\ reply' = [reply EXCEPT ![t] = Failed]
              /\ stage' = [stage EXCEPT ![t] = "chatRuns"] /\ UNCHANGED held
    <2>1. reply'[t] = Failed /\ stage'[t] = "chatRuns"
      BY Zenon, <1>3, <1>10
    <2>2. Failed.kind # "Ack"
      BY Zenon DEF Failed
    <2>3. OthersKept(t)
      BY Zenon, <1>2, <1>3, <1>10 DEF OthersKept
    <2>4. stage' \in [Thread -> Stages] /\ held' \in [Thread -> SUBSET Projection]
      BY Zenon, <1>3, <1>10 DEF Stages, Chatting
    <2>5. StageInv(t)'
      BY Zenon, <1>2, <1>5, <2>1 DEF StageInv, Chatting
    <2>6. ProjectionInv(t)'
      BY Zenon, <1>2, <1>5, <1>10, <2>1, <2>2 DEF ProjectionInv
    <2> QED
      BY Zenon, <1>6, <2>3, <2>4, <2>5, <2>6
  <1> QED
    BY ZenonT(60), <1>1, <1>8, <1>9, <1>10 DEF ChatProject, At, Size

-----------------------------------------------------------------------------
\* The projection is cached and posted with the root that will be ACKed.
LEMMA SideCache ==
  ASSUME SideInv, NEW t \in Thread, ChatCache(t)
  PROVE  SideInv'
  <1>1. PICK p \in held[t] :
          /\ insert(job[t].s, p)
          /\ posted' = posted \cup {[s |-> job[t].s, root |-> reply[t].root, messages |-> p.chunks]}
    BY Zenon DEF ChatCache
  <1>2. /\ stage[t] = "cache" /\ stage' = [stage EXCEPT ![t] = "posted"]
        /\ UNCHANGED <<mem, pc, req, reply, job, held, upto, overlap>>
    BY Zenon DEF ChatCache, At, vars
  <1>3. /\ stage \in [Thread -> Stages] /\ job \in [Thread -> WellFormed]
        /\ held \in [Thread -> SUBSET Projection] /\ upto \in [Thread -> Nat]
        /\ lru \in Seq(Session) /\ Range(lru) \subseteq DOMAIN entries
        /\ \A s \in DOMAIN entries : entries[s] \in Projection
    BY Zenon, SideTypes
  <1>4. p \in Projection /\ job[t].s \in Session
    BY Zenon, <1>3 DEF WellFormed, Frame
  <1>5. /\ lru' \in Seq(Session) /\ Range(lru') \subseteq DOMAIN entries'
        /\ \A r \in DOMAIN entries' :
             IF r = job[t].s THEN entries'[r] = p
             ELSE r \in DOMAIN entries /\ entries'[r] = entries[r]
    BY Zenon, <1>1, <1>3, <1>4, CacheInsert
  <1>6. stage'[t] = "posted" /\ stage' \in [Thread -> Stages]
    BY Zenon, <1>2, <1>3 DEF Stages, Chatting
  <1>7. OthersKept(t) /\ LogsKept(t)
    BY Zenon, <1>2, <1>3 DEF OthersKept, LogsKept
  <1>8. SideTypeOK'
    <2>1. \A r \in DOMAIN entries' : entries'[r] \in Projection
      BY Zenon, <1>3, <1>4, <1>5
    <2> QED
      BY Zenon, <1>2, <1>3, <1>5, <1>6, <2>1, SideTypesNext
  <1>9. StageInv(t) /\ ProjectionInv(t)
    BY Zenon DEF SideInv
  <1>10. StageInv(t)'
    BY Zenon, <1>2, <1>6, <1>9 DEF StageInv, Chatting
  <1>11. job[t].s \notin overlap => p.root = reply[t].root /\ p.chunks = p.root
    BY Zenon, <1>1, <1>2, <1>9 DEF ProjectionInv
  <1>12. ProjectionInv(t)'
    BY Zenon, <1>2, <1>6, <1>9 DEF ProjectionInv, Chatting
  <1>13. \A s \in DOMAIN entries' : s \in overlap' \/ entries'[s].chunks = entries'[s].root
    BY Zenon, <1>2, <1>5, <1>11 DEF SideInv
  <1>14. UpstreamMatchesAck'
    <2>1. ASSUME NEW u \in posted' PROVE u.s \in overlap \/ u.messages = u.root
      <3>1. CASE u \in posted
        BY Zenon, <3>1 DEF SideInv, UpstreamMatchesAck
      <3>2. CASE u = [s |-> job[t].s, root |-> reply[t].root, messages |-> p.chunks]
        BY Zenon, <1>11, <3>2
      <3> QED
        BY Zenon, <1>1, <2>1, <3>1, <3>2
    <2> QED
      BY Zenon, <1>2, <2>1 DEF UpstreamMatchesAck
  <1>15. stage[t] # "idle" /\ job'[t] = job[t] /\ overlap \subseteq overlap'
    BY Zenon, <1>2
  <1> QED
    BY Zenon, <1>7, <1>8, <1>10, <1>12, <1>13, <1>14, <1>15, SideFrom

LEMMA NoFrameWellFormed == NoFrame \in WellFormed
  BY Zenon, IdleType DEF WellFormed, NoFrame

LEMMA SideFinish ==
  ASSUME IInv, SideInv, NEW t \in Thread, Finish(t)
  PROVE  SideInv'
  <1>1. /\ Respond(t) /\ stage' = [stage EXCEPT ![t] = "idle"] /\ job' = [job EXCEPT ![t] = NoFrame]
        /\ held' = [held EXCEPT ![t] = {}] /\ upto' = [upto EXCEPT ![t] = 0]
        /\ UNCHANGED <<entries, lru, posted, overlap>>
    BY Zenon DEF Finish, At, cacheVars
  <1>2. /\ stage \in [Thread -> Stages] /\ job \in [Thread -> WellFormed]
        /\ held \in [Thread -> SUBSET Projection] /\ upto \in [Thread -> Nat]
    BY Zenon, SideTypes
  <1>3. /\ pc'[t] = "idle" /\ UNCHANGED mem
        /\ \A u \in Thread \ {t} : pc'[u] = pc[u] /\ reply'[u] = reply[u] /\ req'[u] = req[u]
    BY Zenon, <1>1, RespondShape DEF IInv
  <1>4. OthersKept(t) /\ LogsKept(t)
    BY Zenon, <1>1, <1>2, <1>3 DEF OthersKept, LogsKept
  <1>5. stage'[t] = "idle"
    BY Zenon, <1>1, <1>2
  <1>6. stage' \in [Thread -> Stages] /\ job' \in [Thread -> WellFormed]
    BY Zenon, <1>1, <1>2, NoFrameWellFormed DEF Stages
  <1>7. held' \in [Thread -> SUBSET Projection] /\ upto' \in [Thread -> Nat]
    BY <1>1, <1>2
  <1>8. SideTypeOK'
    BY Zenon, <1>1, <1>6, <1>7, BooksKept, SideTypesNext
  <1>9. StageInv(t)' /\ ProjectionInv(t)'
    BY Zenon, <1>3, <1>5 DEF StageInv, ProjectionInv, Chatting
  <1>10. overlap \subseteq overlap'
    BY Zenon, <1>1
  <1> QED
    BY Zenon, <1>1, <1>4, <1>5, <1>8, <1>9, <1>10, BooksKept, SideFrom

\* A new process: no request runs and nothing is cached.
LEMMA SideIdle ==
  ASSUME \A t \in Thread : stage[t] = "idle" /\ pc[t] = "idle", SideTypeOK,
         DOMAIN entries = {}, UpstreamMatchesAck
  PROVE  SideInv
  <1>1. OverlapInv
    BY Zenon DEF OverlapInv
  <1>2. \A t \in Thread : StageInv(t) /\ ProjectionInv(t)
    BY Zenon DEF StageInv, ProjectionInv, Chatting
  <1> QED
    BY Zenon, <1>1, <1>2 DEF SideInv

LEMMA EmptyCache ==
  DOMAIN << >> = {} /\ << >> \in Seq(Session) /\ Range(<< >>) = {}
  <1>1. DOMAIN << >> = {} /\ << >> \in Seq(Session)
    OBVIOUS
  <1> QED
    BY Zenon, <1>1 DEF Range

LEMMA SideInit == SidecarInit => SideInv
  <1> SUFFICES ASSUME SidecarInit PROVE SideInv
    BY Zenon
  <1>1. \A t \in Thread : stage[t] = "idle" /\ pc[t] = "idle"
    BY Zenon DEF SidecarInit, Init
  <1>2. DOMAIN entries = {} /\ lru \in Seq(Session) /\ Range(lru) = {}
    BY Zenon, EmptyCache DEF SidecarInit
  <1>3. stage \in [Thread -> Stages] /\ job \in [Thread -> WellFormed]
    BY Zenon, NoFrameWellFormed DEF SidecarInit, Stages
  <1>4. held \in [Thread -> SUBSET Projection] /\ upto \in [Thread -> Nat]
    BY DEF SidecarInit
  <1>5. SideTypeOK
    BY Zenon, <1>2, <1>3, <1>4 DEF SideTypeOK, Stages, WellFormed
  <1>6. UpstreamMatchesAck
    BY Zenon DEF SidecarInit, UpstreamMatchesAck
  <1> QED
    BY Zenon, <1>1, <1>2, <1>5, <1>6, SideIdle

LEMMA SideReboot ==
  ASSUME IInv, SideInv, Reboot
  PROVE  SideInv'
  <1>1. /\ Crash \/ Shutdown
        /\ stage' = [t \in Thread |-> "idle"] /\ job' = [t \in Thread |-> NoFrame]
        /\ held' = [t \in Thread |-> {}] /\ upto' = [t \in Thread |-> 0]
        /\ entries' = << >> /\ lru' = << >> /\ UNCHANGED <<posted, overlap>>
    BY Zenon DEF Reboot
  <1>2. \A t \in Thread : stage'[t] = "idle" /\ pc'[t] = "idle"
    BY Zenon, <1>1, RestartIdle
  <1>3. DOMAIN entries' = {} /\ lru' \in Seq(Session) /\ Range(lru') = {}
    BY Zenon, <1>1, EmptyCache
  <1>4. stage' \in [Thread -> Stages] /\ job' \in [Thread -> WellFormed]
    BY Zenon, <1>1, NoFrameWellFormed DEF Stages
  <1>5. held' \in [Thread -> SUBSET Projection] /\ upto' \in [Thread -> Nat]
    BY <1>1
  <1>6. SideTypeOK'
    BY Zenon, <1>3, <1>4, <1>5, SideTypesNext
  <1>7. UpstreamMatchesAck'
    BY Zenon, <1>1 DEF SideInv, UpstreamMatchesAck
  <1>8. OverlapInv'
    BY Zenon, <1>2 DEF OverlapInv
  <1>9. \A t \in Thread : StageInv(t)' /\ ProjectionInv(t)'
    BY Zenon, <1>2 DEF StageInv, ProjectionInv, Chatting
  <1> QED
    BY Zenon, <1>3, <1>6, <1>7, <1>8, <1>9 DEF SideInv

LEMMA SideInvStep ==
  ASSUME IInv, SideInv, [SidecarNext]_scVars
  PROVE  IInv' /\ SideInv'
  <1>1. IInv'
    BY Zenon, SidecarInvStep
  <1>2. CASE UNCHANGED scVars
    <2>1. /\ UNCHANGED <<stage, job, held, upto, entries, lru, posted, overlap>>
          /\ UNCHANGED <<mem, pc, req, reply>>
      BY Zenon, <1>2 DEF scVars, vars
    <2>2. SideTypeOK'
      BY Zenon, <2>1 DEF SideInv, SideTypeOK
    <2>3. OverlapInv'
      BY Zenon, <2>1 DEF SideInv, OverlapInv
    <2>4. \A t \in Thread : StageInv(t)' /\ ProjectionInv(t)'
      BY ZenonT(60), <2>1 DEF SideInv, StageInv, ProjectionInv, session_ids
    <2> QED
      BY Zenon, <1>1, <2>1, <2>2, <2>3, <2>4, BooksKept DEF SideInv
  <1>3. CASE SidecarNext
    BY Zenon, <1>1, <1>3, SideFrameAccept, SideChatAccept, SideHandle, SideStep, SideMeasure,
       SideProject, SideCache, SideFinish, SideReboot DEF SidecarNext
  <1> QED
    BY Zenon, <1>2, <1>3

-----------------------------------------------------------------------------
\* The invariant of the receiver and that of its endpoints hold together, for
\* any threads, frames and cache limits, across crashes and restarts.
THEOREM SideInvariance == SidecarSpec => [](IInv /\ SideInv)
  <1>1. SidecarInit => IInv /\ SideInv
    BY Zenon, InitInv, SideInit DEF SidecarInit
  <1>2. IInv /\ SideInv /\ [SidecarNext]_scVars => (IInv /\ SideInv)'
    BY Zenon, SideInvStep
  <1> QED
    BY <1>1, <1>2, PTL DEF SidecarSpec

(***************************************************************************)
(* What the model is sent with an ACK of a root are exactly the messages   *)
(* of that root, whether chat_completions rebuilt the projection, extended *)
(* a cached one, or found it invalidated or evicted, in every session      *)
(* whose requests did not overlap.                                         *)
(***************************************************************************)
THEOREM UpstreamIsWhatWasAcked == SidecarSpec => []UpstreamMatchesAck
  <1>1. SideInv => UpstreamMatchesAck
    BY Zenon DEF SideInv
  <1> QED
    BY <1>1, SideInvariance, PTL

-----------------------------------------------------------------------------
(***************************************************************************)
(* The books of the projection cache.                                      *)
(***************************************************************************)
\* What Without leaves of a queue that holds no session twice.
LEMMA WithoutEffect ==
  ASSUME NEW q \in Seq(Session), IsInjective(q), NEW s
  PROVE  /\ Without(q, s) \in Seq(Session)
         /\ IsInjective(Without(q, s))
         /\ Range(Without(q, s)) = Range(q) \ {s}
         /\ Len(Without(q, s)) = IF s \in Range(q) THEN Len(q) - 1 ELSE Len(q)
  <1> DEFINE keep == {i \in DOMAIN q : q[i] # s}
  <1>1. keep \in SUBSET DOMAIN q
    BY Zenon
  <1>2. Without(q, s) = Select(q, keep)
    BY Zenon DEF Without
  <1>3. {q[i] : i \in keep} = Range(q) \ {s}
    BY Zenon DEF Range
  <1>4. PICK n \in Nat : n = Len(q) /\ DOMAIN q = 1..n
    OBVIOUS
  <1>5. IsFiniteSet(1..n) /\ Cardinality(1..n) = n
    BY FS_Interval
  <1>6. Cardinality(keep) = IF s \in Range(q) THEN n - 1 ELSE n
    <2>1. CASE s \in Range(q)
      <3>1. PICK i \in 1..n : q[i] = s
        BY Zenon, <1>4, <2>1 DEF Range
      <3>2. keep = (1..n) \ {i}
        BY Zenon, <1>4, <3>1 DEF IsInjective
      <3>3. Cardinality((1..n) \ {i}) = n - 1
        BY Zenon, <1>5, FS_RemoveElement
      <3> QED
        BY Zenon, <2>1, <3>2, <3>3
    <2>2. CASE s \notin Range(q)
      <3>1. keep = 1..n
        BY Zenon, <1>4, <2>2 DEF Range
      <3> QED
        BY Zenon, <1>5, <2>2, <3>1
    <2> QED
      BY Zenon, <2>1, <2>2
  <1> HIDE DEF keep
  <1>7. Select(q, keep) \in Seq(Session)
    BY Zenon, <1>1, SelectType
  <1>8. /\ Len(Select(q, keep)) = Cardinality(keep)
        /\ Range(Select(q, keep)) = {q[i] : i \in keep}
        /\ IsInjective(Select(q, keep))
    BY Zenon, <1>1, SelectEffect
  <1> QED
    BY Zenon, <1>2, <1>3, <1>4, <1>6, <1>7, <1>8

\* The sizes of cached projections and of any part of the cache.
LEMMA CacheSizes ==
  ASSUME NEW es, \A s \in DOMAIN es : es[s] \in Projection
  PROVE  DOMAIN Sizes(es) = DOMAIN es /\ \A s \in DOMAIN es : Sizes(es)[s] = Size(es[s]) /\ Size(es[s]) \in Nat
  <1>1. \A p \in Projection : Size(p) \in Nat
    BY DEF Projection, Size
  <1> QED
    BY Zenon, <1>1 DEF Sizes

\* A queue's sessions are finitely many.
LEMMA QueueFinite ==
  ASSUME NEW q \in Seq(Session)
  PROVE  /\ IsFiniteSet(Range(q)) /\ Len(q) \in Nat
         /\ IsInjective(q) => Cardinality(Range(q)) = Len(q)
  <1>1. PICK n \in Nat : n = Len(q) /\ DOMAIN q = 1..n
    OBVIOUS
  <1>2. q \in [1..n -> Range(q)]
    BY <1>1 DEF Range
  <1>3. IsFiniteSet(1..n) /\ Cardinality(1..n) = n
    BY FS_Interval
  <1>4. \A t \in Range(q) : \E i \in 1..n : q[i] = t
    BY Zenon, <1>1 DEF Range
  <1>5. q \in Surjection(1..n, Range(q))
    BY Zenon, <1>2, <1>4 DEF Surjection
  <1>6. /\ IsFiniteSet(Range(q))
        /\ Cardinality(Range(q)) = Cardinality(1..n) <=> q \in Injection(1..n, Range(q))
    BY Zenon, <1>3, <1>5, FS_Surjection
  <1>7. IsInjective(q) => q \in Injection(1..n, Range(q))
    BY Zenon, <1>2 DEF Injection
  <1> QED
    BY Zenon, <1>1, <1>3, <1>6, <1>7

\* The sum over a part of the cache depends on that part only.
LEMMA SumOfPart ==
  ASSUME NEW es, \A s \in DOMAIN es : es[s] \in Projection, NEW T \in SUBSET DOMAIN es, IsFiniteSet(T),
         NEW fs, T \subseteq DOMAIN fs, \A s \in T : fs[s] = es[s]
  PROVE  SumFunctionOnSet(Sizes(fs), T) = SumFunctionOnSet(Sizes(es), T)
  <1>1. \A s \in T : Sizes(fs)[s] = Sizes(es)[s]
    BY Zenon DEF Sizes
  <1> QED
    BY Zenon, <1>1, SumSame

LEMMA BooksRemove ==
  ASSUME lru \in Seq(Session), \A r \in DOMAIN entries : entries[r] \in Projection,
         CacheInv, NEW s, remove(s)
  PROVE  CacheInv'
  <1> DEFINE D == DOMAIN entries
  <1>1. PICK q : q = Without(lru, s)
    BY Zenon
  <1>2. /\ q \in Seq(Session) /\ IsInjective(q) /\ Range(q) = D \ {s}
        /\ Len(q) = IF s \in D THEN Len(lru) - 1 ELSE Len(lru)
    BY Zenon, <1>1, WithoutEffect DEF CacheInv
  <1>3. /\ lru' = q /\ DOMAIN entries' = D \ {s} /\ \A r \in D \ {s} : entries'[r] = entries[r]
        /\ bytes' = IF s \in D THEN bytes - Size(entries[s]) ELSE bytes
    BY Zenon, <1>1 DEF remove, Restrict, Cached
  <1>4. IsFiniteSet(D) /\ IsFiniteSet(D \ {s}) /\ Len(lru) \in Nat /\ Len(q) \in Nat
    BY Zenon, <1>2, QueueFinite DEF CacheInv
  <1>5. \A r \in D : Sizes(entries)[r] = Size(entries[r]) /\ Size(entries[r]) \in Nat
    BY Zenon, CacheSizes
  <1>6. PICK all \in Nat, rest \in Nat : /\ all = SumFunctionOnSet(Sizes(entries), D)
                                         /\ rest = SumFunctionOnSet(Sizes(entries), D \ {s})
    <2>1. D \in SUBSET D /\ D \ {s} \in SUBSET D
      BY Zenon
    <2>2. SumFunctionOnSet(Sizes(entries), D) \in Nat /\ SumFunctionOnSet(Sizes(entries), D \ {s}) \in Nat
      BY Zenon, <1>4, <1>5, <2>1, SumNat
    <2> QED
      BY Zenon, <2>2
  <1>7. bytes = all
    BY Zenon, <1>6 DEF CacheInv
  <1>8. SumFunctionOnSet(Sizes(entries'), D \ {s}) = rest
    BY Zenon, <1>3, <1>4, <1>6, SumOfPart
  <1>9. bytes' = rest /\ bytes' <= bytes
    <2>1. CASE s \in D
      <3>1. all = Sizes(entries)[s] + rest
        BY ZenonT(60), <1>4, <1>5, <1>6, <2>1, SumSplit
      <3>2. bytes' = all - Size(entries[s]) /\ Size(entries[s]) \in Nat /\ all = Size(entries[s]) + rest
        BY Zenon, <1>3, <1>5, <1>7, <2>1, <3>1
      <3> QED
        BY <1>7, <3>2
    <2>2. CASE s \notin D
      <3>1. D \ {s} = D
        BY Zenon, <2>2
      <3>2. bytes' = all /\ rest = all
        BY Zenon, <1>3, <1>6, <1>7, <2>2, <3>1
      <3> QED
        BY <1>7, <3>2
    <2> QED
      BY Zenon, <2>1, <2>2
  <1>10. Len(lru') <= Len(lru) /\ Len(lru') <= CacheSessions
    <2>1. Len(lru) <= CacheSessions /\ CacheSessions \in Nat
      BY Zenon, CacheAssumption DEF CacheInv
    <2> QED
      BY <1>2, <1>3, <1>4, <2>1
  <1>11. Len(lru') = 0 => bytes' = 0
    <2>1. Len(lru') = 0 => Cardinality(D \ {s}) = 0
      BY Zenon, <1>2, <1>3, QueueFinite
    <2>2. Len(lru') = 0 => D \ {s} = {}
      BY Zenon, <1>4, <2>1, FS_EmptySet
    <2> QED
      BY Zenon, <1>6, <1>9, <2>2, SumEmpty
  <1>12. bytes' > CacheBytes => Len(lru') = 1
    <2>1. bytes > CacheBytes => Len(lru) = 1
      BY Zenon DEF CacheInv
    <2>2. PICK m \in Nat, n \in Nat : m = Len(lru') /\ n = Len(lru) /\ m <= n
      BY Zenon, <1>3, <1>4, <1>10
    <2>3. /\ all > CacheBytes => n = 1
          /\ rest <= all
          /\ m = 0 => rest = 0
      BY Zenon, <1>7, <1>9, <1>11, <2>1, <2>2
    <2>4. rest > CacheBytes => m = 1
      BY <2>2, <2>3, CacheAssumption
    <2> QED
      BY Zenon, <1>9, <2>2, <2>4
  <1> QED
    BY Zenon, <1>2, <1>3, <1>8, <1>9, <1>10, <1>12 DEF CacheInv

LEMMA AppendInjective ==
  ASSUME NEW q \in Seq(Session), IsInjective(q), NEW s \in Session, s \notin Range(q)
  PROVE  IsInjective(Append(q, s)) /\ Range(Append(q, s)) = Range(q) \cup {s} /\ Len(Append(q, s)) = Len(q) + 1
  <1>1. PICK n \in Nat : n = Len(q) /\ DOMAIN q = 1..n
    OBVIOUS
  <1>2. /\ DOMAIN Append(q, s) = 1..(n + 1) /\ Append(q, s)[n + 1] = s
        /\ \A i \in 1..n : Append(q, s)[i] = q[i]
    BY <1>1
  <1>3. \A i \in 1..(n + 1) : i \in 1..n \/ i = n + 1
    OBVIOUS
  <1>4. \A i \in 1..n : i \in 1..(n + 1)
    OBVIOUS
  <1>5. n + 1 \in 1..(n + 1) /\ Len(Append(q, s)) = n + 1
    BY <1>1
  <1>6. \A i \in 1..n : q[i] # s
    BY Zenon, <1>1 DEF Range
  <1>7. IsInjective(Append(q, s))
    BY Zenon, <1>1, <1>2, <1>3, <1>6 DEF IsInjective
  <1>8. Range(Append(q, s)) = Range(q) \cup {s}
    BY Zenon, <1>1, <1>2, <1>3, <1>4, <1>5 DEF Range
  <1> QED
    BY Zenon, <1>1, <1>5, <1>7, <1>8

LEMMA BooksTouch ==
  ASSUME lru \in Seq(Session), CacheInv, NEW s \in Session, s \in DOMAIN entries, touch(s),
         UNCHANGED <<entries, bytes>>
  PROVE  CacheInv'
  <1>1. PICK q : q = Without(lru, s)
    BY Zenon
  <1>2. /\ q \in Seq(Session) /\ IsInjective(q) /\ Range(q) = DOMAIN entries \ {s}
        /\ Len(q) = Len(lru) - 1
    BY Zenon, <1>1, WithoutEffect DEF CacheInv
  <1>3. lru' = Append(q, s) /\ s \notin Range(q)
    BY Zenon, <1>1, <1>2 DEF touch
  <1>4. IsInjective(lru') /\ Range(lru') = Range(q) \cup {s} /\ Len(lru') = Len(q) + 1
    BY Zenon, <1>2, <1>3, AppendInjective
  <1>5. Len(lru') = Len(lru)
    BY <1>2, <1>4
  <1>6. Range(lru') = DOMAIN entries
    BY Zenon, <1>2, <1>4
  <1>7. entries' = entries /\ bytes' = bytes
    BY Zenon
  <1> QED
    BY Zenon, <1>4, <1>5, <1>6, <1>7 DEF CacheInv

\* The first k sessions of a queue and the others, of a queue without repetition.
LEMMA QueueSplit ==
  ASSUME NEW q \in Seq(Session), IsInjective(q), NEW k \in 0..Len(q)
  PROVE  LET first == {q[i] : i \in 1..k}
             c == SubSeq(q, k + 1, Len(q))
         IN /\ first \in SUBSET Range(q)
            /\ {q[i] : i \in (k + 1)..Len(q)} = Range(q) \ first
            /\ c \in Seq(Session) /\ IsInjective(c) /\ Range(c) = Range(q) \ first /\ Len(c) = Len(q) - k
  <1> DEFINE first == {q[i] : i \in 1..k}
             last == {q[i] : i \in (k + 1)..Len(q)}
  <1>1. PICK c : c = SubSeq(q, k + 1, Len(q))
    BY Zenon
  <1>2. /\ c \in Seq(Session) /\ Len(c) = Len(q) - k /\ DOMAIN c = 1..(Len(q) - k)
        /\ \A i \in 1..(Len(q) - k) : c[i] = q[k + i] /\ k + i \in (k + 1)..Len(q)
    BY <1>1
  <1>3. /\ DOMAIN q = 1..Len(q) /\ \A i \in 1..k : i \in 1..Len(q) /\ i \notin (k + 1)..Len(q)
        /\ \A i \in 1..Len(q) : i \in 1..k \/ i \in (k + 1)..Len(q)
        /\ \A i \in (k + 1)..Len(q) : i \in 1..Len(q) /\ i - k \in 1..(Len(q) - k) /\ k + (i - k) = i
    OBVIOUS
  <1>4. first \in SUBSET Range(q)
    BY Zenon, <1>3 DEF Range
  <1>5. last = Range(q) \ first
    <2>1. ASSUME NEW i \in (k + 1)..Len(q), NEW j \in 1..k PROVE q[i] # q[j]
      <3>1. i \in DOMAIN q /\ j \in DOMAIN q /\ i # j
        BY Zenon, <1>3
      <3> QED
        BY Zenon, <3>1 DEF IsInjective
    <2>2. \A x \in last : x \in Range(q) /\ x \notin first
      <3>1. \A i \in (k + 1)..Len(q) : q[i] \in Range(q)
        BY Zenon, <1>3 DEF Range
      <3> QED
        BY Zenon, <2>1, <3>1
    <2>3. \A x \in Range(q) : x \in first \/ x \in last
      BY Zenon, <1>3 DEF Range
    <2> QED
      BY Zenon, <2>2, <2>3
  <1>6. \A i, j \in 1..(Len(q) - k) : k + i = k + j => i = j
    OBVIOUS
  <1>7. IsInjective(c)
    <2>1. ASSUME NEW i \in 1..(Len(q) - k), NEW j \in 1..(Len(q) - k), c[i] = c[j] PROVE i = j
      <3>1. k + i \in DOMAIN q /\ k + j \in DOMAIN q /\ q[k + i] = q[k + j]
        BY Zenon, <1>2, <1>3, <2>1
      <3> QED
        BY Zenon, <1>6, <3>1 DEF IsInjective
    <2> QED
      BY Zenon, <1>2, <2>1 DEF IsInjective
  <1>8. Range(c) = last
    <2>1. \A x \in Range(c) : x \in last
      BY Zenon, <1>2 DEF Range
    <2>2. ASSUME NEW i \in (k + 1)..Len(q) PROVE q[i] \in Range(c)
      <3>1. i - k \in DOMAIN c /\ c[i - k] = q[i]
        BY Zenon, <1>2, <1>3
      <3> QED
        BY Zenon, <3>1 DEF Range
    <2> QED
      BY Zenon, <2>1, <2>2
  <1> QED
    BY Zenon, <1>1, <1>2, <1>4, <1>5, <1>7, <1>8

LEMMA BooksInsert ==
  ASSUME lru \in Seq(Session), \A r \in DOMAIN entries : entries[r] \in Projection,
         CacheInv, NEW s \in Session, NEW p \in Projection, insert(s, p)
  PROVE  CacheInv'
  <1> DEFINE D == DOMAIN entries
             Sum(T) == SumFunctionOnSet(Sizes(entries), T)
             q == Without(lru, s)
             es == Restrict(entries, D \ {s})
             Room(k) == bytes - (IF s \in D THEN Size(entries[s]) ELSE 0)
                        - SumFunctionOnSet(Sizes(es), {q[i] : i \in 1..k})
  <1>2. q \in Seq(Session) /\ IsInjective(q) /\ Range(q) = D \ {s}
    BY Zenon, WithoutEffect DEF CacheInv
  <1>4. DOMAIN es = D \ {s} /\ \A r \in D \ {s} : es[r] = entries[r]
    BY Zenon DEF Restrict
  <1>5. PICK k \in 0..Len(q) :
          /\ \/ k = Len(q)
             \/ Len(q) - k < CacheSessions /\ Room(k) + Size(p) <= CacheBytes
          /\ entries' = [r \in {q[i] : i \in (k + 1)..Len(q)} \cup {s} |-> IF r = s THEN p ELSE es[r]]
          /\ lru' = Append(SubSeq(q, k + 1, Len(q)), s)
          /\ bytes' = Room(k) + Size(p)
    BY Zenon DEF insert, Cached
  <1> HIDE DEF q, es
  <1>6. PICK first, c : first = {q[i] : i \in 1..k} /\ c = SubSeq(q, k + 1, Len(q))
    BY Zenon
  <1>7. /\ first \in SUBSET (D \ {s})
        /\ {q[i] : i \in (k + 1)..Len(q)} = (D \ {s}) \ first
        /\ c \in Seq(Session) /\ IsInjective(c) /\ Range(c) = (D \ {s}) \ first /\ Len(c) = Len(q) - k
    BY Zenon, <1>2, <1>6, QueueSplit
  <1>8. PICK R : R = (D \ {s}) \ first
    BY Zenon
  <1>9. /\ IsFiniteSet(D) /\ IsFiniteSet(D \ {s}) /\ IsFiniteSet(first) /\ IsFiniteSet(R) /\ IsFiniteSet(R \cup {s})
        /\ Len(q) \in Nat
    <2>1. IsFiniteSet(D) /\ IsFiniteSet(D \ {s}) /\ Len(q) \in Nat
      BY Zenon, <1>2, QueueFinite DEF CacheInv
    <2>2. IsFiniteSet(first) /\ IsFiniteSet(R)
      BY Zenon, <1>7, <1>8, <2>1, FS_Subset
    <2> QED
      BY Zenon, <2>1, <2>2, FS_AddElement
  <1>10. \A r \in D : Sizes(entries)[r] = Size(entries[r]) /\ Size(entries[r]) \in Nat
    BY Zenon, CacheSizes
  <1>11. Sum(D) \in Nat /\ Sum(D \ {s}) \in Nat /\ Sum(first) \in Nat /\ Sum(R) \in Nat
    <2>1. D \in SUBSET D /\ D \ {s} \in SUBSET D /\ first \in SUBSET D /\ R \in SUBSET D
      BY Zenon, <1>7, <1>8
    <2> QED
      BY Zenon, <1>9, <1>10, <2>1, SumNat
  <1>12. Sum(D \ {s}) = Sum(first) + Sum(R)
    <2>1. \A r \in D \ {s} : Sizes(entries)[r] \in Nat
      BY Zenon, <1>10
    <2> QED
      BY Zenon, <1>7, <1>8, <1>9, <2>1, SumParts
  <1>13. SumFunctionOnSet(Sizes(es), first) = Sum(first)
    <2>1. first \in SUBSET D /\ first \subseteq DOMAIN es /\ \A r \in first : es[r] = entries[r]
      BY Zenon, <1>4, <1>7
    <2> QED
      BY Zenon, <1>9, <2>1, SumOfPart
  <1>14. bytes - (IF s \in D THEN Size(entries[s]) ELSE 0) = Sum(D \ {s})
    <2>1. bytes = Sum(D)
      BY Zenon DEF CacheInv
    <2>2. CASE s \in D
      <3>1. Sum(D) = Sizes(entries)[s] + Sum(D \ {s})
        BY ZenonT(60), <1>9, <1>10, <2>2, SumSplit
      <3>2. bytes = Size(entries[s]) + Sum(D \ {s}) /\ Size(entries[s]) \in Nat
        BY Zenon, <1>10, <2>1, <2>2, <3>1
      <3> HIDE DEF Sum
      <3> QED
        BY <1>11, <2>2, <3>2
    <2>3. CASE s \notin D
      <3>1. D \ {s} = D
        BY Zenon, <2>3
      <3>2. bytes = Sum(D \ {s})
        BY Zenon, <2>1, <3>1
      <3> HIDE DEF Sum
      <3> QED
        BY <1>11, <2>3, <3>2
    <2> QED
      BY Zenon, <2>2, <2>3
  <1>15. Room(k) = Sum(R)
    <2>1. Room(k) = Sum(D \ {s}) - Sum(first)
      BY Zenon, <1>6, <1>13, <1>14
    <2> HIDE DEF Sum, Room
    <2> QED
      BY <1>11, <1>12, <2>1
  <1>16. Size(p) \in Nat
    BY DEF Projection, Size
  <1>17. DOMAIN entries' = R \cup {s} /\ entries'[s] = p /\ \A r \in R : r \in D /\ entries'[r] = entries[r]
    <2>1. entries' = [r \in R \cup {s} |-> IF r = s THEN p ELSE es[r]]
      BY Zenon, <1>5, <1>7, <1>8
    <2> QED
      BY Zenon, <1>4, <1>8, <2>1
  <1>18. SumFunctionOnSet(Sizes(entries'), R \cup {s}) = Size(p) + Sum(R)
    <2>1. \A r \in R \cup {s} : entries'[r] \in Projection
      BY Zenon, <1>17
    <2>2. \A r \in R \cup {s} : Sizes(entries')[r] = Size(entries'[r]) /\ Size(entries'[r]) \in Nat
      BY Zenon, <1>17, <2>1, CacheSizes
    <2>3. s \in R \cup {s} /\ (R \cup {s}) \ {s} = R
      BY Zenon, <1>8
    <2>4. \A r \in R \cup {s} : Sizes(entries')[r] \in Nat
      BY Zenon, <2>2
    <2>5. SumFunctionOnSet(Sizes(entries'), R \cup {s})
            = Sizes(entries')[s] + SumFunctionOnSet(Sizes(entries'), (R \cup {s}) \ {s})
      BY Zenon, <1>9, <2>3, <2>4, SumSplit
    <2>6. R \in SUBSET D /\ R \subseteq DOMAIN entries' /\ \A r \in R : entries'[r] = entries[r]
      BY Zenon, <1>8, <1>17
    <2>7. SumFunctionOnSet(Sizes(entries'), R) = Sum(R)
      BY Zenon, <1>9, <2>6, SumOfPart
    <2> QED
      BY Zenon, <1>17, <2>2, <2>3, <2>5, <2>7
  <1>19. bytes' = Sum(R) + Size(p) /\ Sum(R) + Size(p) = Size(p) + Sum(R)
    <2>1. bytes' = Sum(R) + Size(p)
      BY Zenon, <1>5, <1>15
    <2> HIDE DEF Sum
    <2> QED
      BY <1>11, <1>16, <2>1
  <1>20. s \notin Range(c) /\ lru' = Append(c, s)
    BY Zenon, <1>5, <1>6, <1>7
  <1>21. IsInjective(lru') /\ Range(lru') = Range(c) \cup {s} /\ Len(lru') = Len(c) + 1
    BY Zenon, <1>7, <1>20, AppendInjective
  <1>22. Range(lru') = DOMAIN entries'
    BY Zenon, <1>7, <1>8, <1>17, <1>21
  <1>23. Len(lru') = Len(q) - k + 1
    BY Zenon, <1>7, <1>21
  <1>24. k = Len(q) \/ (Len(q) - k < CacheSessions /\ bytes' <= CacheBytes)
    BY Zenon, <1>5
  <1>25. PICK b \in Nat : b = bytes'
    <2> HIDE DEF Sum
    <2> QED
      BY <1>11, <1>16, <1>19
  <1>26. Len(lru') <= CacheSessions /\ (bytes' > CacheBytes => Len(lru') = 1)
    <2>1. PICK n \in Nat : n = Len(q)
      BY Zenon, <1>9
    <2>2. k \in 0..n /\ (k = n \/ (n - k < CacheSessions /\ b <= CacheBytes)) /\ Len(lru') = n - k + 1
      BY Zenon, <1>5, <1>23, <1>24, <1>25, <2>1
    <2>3. Len(lru') <= CacheSessions /\ (b > CacheBytes => Len(lru') = 1)
      BY <2>2, CacheAssumption
    <2> QED
      BY Zenon, <1>25, <2>3
  <1> QED
    BY Zenon, <1>17, <1>18, <1>19, <1>21, <1>22, <1>26 DEF CacheInv

LEMMA EmptyBooks ==
  /\ IsInjective(<< >>) /\ Range(<< >>) = DOMAIN << >> /\ Len(<< >>) = 0
  /\ SumFunctionOnSet(Sizes(<< >>), DOMAIN << >>) = 0
  /\ 0 <= CacheSessions /\ ~(0 > CacheBytes)
  <1>1. DOMAIN << >> = {} /\ Len(<< >>) = 0
    OBVIOUS
  <1>2. 0 <= CacheSessions /\ ~(0 > CacheBytes)
    BY CacheAssumption
  <1>3. SumFunctionOnSet(Sizes(<< >>), DOMAIN << >>) = 0
    BY Zenon, <1>1, SumEmpty
  <1> QED
    BY Zenon, <1>1, <1>2, <1>3, EmptyCache DEF IsInjective

LEMMA CacheStep ==
  ASSUME SideInv, CacheInv, [SidecarNext]_scVars
  PROVE  CacheInv'
  <1>1. /\ job \in [Thread -> WellFormed] /\ held \in [Thread -> SUBSET Projection]
        /\ lru \in Seq(Session) /\ \A s \in DOMAIN entries : entries[s] \in Projection
    BY Zenon, SideTypes
  <1>2. ASSUME UNCHANGED cacheVars PROVE CacheInv'
    BY Zenon, <1>2 DEF cacheVars, CacheInv
  <1>3. ASSUME NEW t \in Thread, NEW f \in Frames, FrameAccept(t, f) PROVE CacheInv'
    BY Zenon, <1>1, <1>3, BooksRemove DEF FrameAccept
  <1>4. ASSUME NEW t \in Thread, NEW f \in ChatFrames, ChatAccept(t, f) PROVE CacheInv'
    <2>1. f.s \in Session
      BY Zenon, ChatFramesAssumption DEF Frame
    <2>2. /\ IF Lookup(f.s, f.base) # {} THEN touch(f.s) ELSE UNCHANGED lru
          /\ UNCHANGED <<entries, bytes>>
      BY Zenon, <1>4 DEF ChatAccept
    <2>3. CASE Lookup(f.s, f.base) # {}
      <3>1. f.s \in DOMAIN entries
        BY Zenon, <2>3 DEF Lookup, Cached
      <3> QED
        BY Zenon, <1>1, <2>1, <2>2, <2>3, <3>1, BooksTouch
    <2>4. CASE Lookup(f.s, f.base) = {}
      BY Zenon, <1>2, <2>2, <2>4 DEF cacheVars
    <2> QED
      BY Zenon, <2>3, <2>4
  <1>5. ASSUME NEW t \in Thread, ChatCache(t) PROVE CacheInv'
    <2>1. PICK p \in held[t] : insert(job[t].s, p)
      BY Zenon, <1>5 DEF ChatCache
    <2>2. p \in Projection /\ job[t].s \in Session
      BY Zenon, <1>1, <2>1 DEF WellFormed, Frame
    <2> QED
      BY Zenon, <1>1, <2>1, <2>2, BooksInsert
  <1>6. ASSUME Reboot PROVE CacheInv'
    <2>1. entries' = << >> /\ lru' = << >> /\ bytes' = 0
      BY Zenon, <1>6 DEF Reboot
    <2> QED
      BY Zenon, <2>1, EmptyBooks DEF CacheInv
  <1>7. ASSUME NEW t \in Thread,
               \/ FrameHandle(t) \/ ChatAppend(t) \/ (Step(t) /\ UNCHANGED sidecarVars)
               \/ ChatMeasure(t) \/ ChatProject(t) \/ Finish(t)
        PROVE  UNCHANGED cacheVars
    BY Zenon, <1>7 DEF FrameHandle, ChatAppend, sidecarVars, ChatMeasure, ChatProject, Finish
  <1>8. CASE UNCHANGED scVars
    BY Zenon, <1>2, <1>8 DEF scVars, cacheVars
  <1> QED
    BY Zenon, <1>2, <1>3, <1>4, <1>5, <1>6, <1>7, <1>8 DEF SidecarNext

(***************************************************************************)
(* The books of the projection cache balance, for any threads, frames and  *)
(* limits, whatever requests hit, invalidate, insert and evict: every      *)
(* entry is queued once, json_bytes is the sum of the entries' sizes, and  *)
(* both limits hold except for a single projection above the byte limit.   *)
(***************************************************************************)
THEOREM CacheBooksBalance == SidecarSpec => []CacheAccounts
  <1>1. SidecarInit => CacheInv
    BY Zenon, EmptyBooks DEF SidecarInit, CacheInv
  <1>2. (IInv /\ SideInv) /\ CacheInv /\ [SidecarNext]_scVars => CacheInv'
    BY Zenon, CacheStep
  <1>3. (IInv /\ SideInv) /\ CacheInv => CacheAccounts
    <2> SUFFICES ASSUME SideInv, CacheInv PROVE CacheAccounts
      BY Zenon
    <2>1. lru \in Seq(Session)
      BY Zenon, SideTypes
    <2>2. Cardinality(Range(lru)) = Len(lru)
      BY Zenon, <2>1, QueueFinite DEF CacheInv
    <2> QED
      BY Zenon, <2>2 DEF CacheInv, CacheAccounts
  <1> QED
    BY <1>1, <1>2, <1>3, SideInvariance, PTL DEF SidecarSpec
=============================================================================
