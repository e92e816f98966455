--------------------------- MODULE PruneScheduler ---------------------------
(***************************************************************************)
(* The re-scanning prune (prune/src/lib.rs): ImportancePolicy, which picks *)
(* the window of a log, and the two schedulers that run it off the wire,   *)
(* PruneScheduler and PriorityPruneScheduler.  A job records a session and *)
(* a budget; the log is read when the job runs, while appends go on.       *)
(*                                                                         *)
(* Payload lengths are counted in units of 4096 bytes.                     *)
(***************************************************************************)
EXTENDS Naturals, FiniteSets, Sequences, FiniteSetsExt

CONSTANTS SessionId, Block,   \* Block: a set of [kind, len] records
          Budget,             \* the budgets jobs ask for, in tokens
          Runner, Client,     \* callers of run_one and run_all, and of schedule
          MaxLogLen, MaxJobs,
          NoJob

VARIABLES logs,        \* [SessionId -> Seq(Block)], as reconstruct returns it
          pending,     \* PruneScheduler.pending
          heap,        \* PriorityPruneScheduler.pending
          seq,         \* PriorityPruneScheduler.seq; it also numbers the
                       \* other scheduler's jobs, which have no number
          taken,       \* [Client -> a job numbered but not pushed, or NoJob]
          active,       \* [Runner -> the jobs being run, each with its window]
          delivered    \* numbers of the jobs whose windows were returned

jobVars == <<logs, pending, heap, seq, taken, active, delivered>>

-----------------------------------------------------------------------------
approx_tokens(b) == IF b.len = 0 THEN 1 ELSE 1024 * b.len

Forever(b) == b.kind \in {"System", "Summary"}

\* The square of a score: weight 1.3 or 1, recency to the power 1.5 and the
\* length factor, all but a common denominator.  i counts from 1.
Score2(blocks, i) ==
  LET weight2 == IF blocks[i].kind = "ToolResult" THEN 169 ELSE 100
      age     == Len(blocks) + 1 - i
      factor  == 1 + Min({blocks[i].len, 2})
  IN weight2 * age * age * age * factor * factor

\* Score descending, ties by index.
Before(blocks, i, j) ==
  IF Forever(blocks[i]) \/ Forever(blocks[j])
    THEN Forever(blocks[i]) /\ (i < j \/ ~Forever(blocks[j]))
    ELSE LET si == Score2(blocks, i)
             sj == Score2(blocks, j)
         IN si > sj \/ (si = sj /\ i < j)

\* Mutant: the fill goes on past the budget.
TakeOn(blocks, budget, w, i) ==
  LET t    == approx_tokens(blocks[i])
      skip == w.tokens + t > budget /\ w.kept # {} /\ ~Forever(blocks[i])
  IN IF skip THEN w ELSE [w EXCEPT !.kept = @ \cup {i}, !.tokens = @ + t]

\* One turn of the greedy fill.
Take(blocks, budget, w, i) ==
  LET t    == approx_tokens(blocks[i])
      skip == w.tokens + t > budget /\ w.kept # {} /\ ~Forever(blocks[i])
  IN IF w.full \/ skip THEN w
     ELSE [kept |-> w.kept \cup {i}, tokens |-> w.tokens + t, full |-> w.tokens + t >= budget]

\* The window, the positions of the log that survive: a turn for each position
\* in the order of the scores.
prune(blocks, budget) ==
  MapThenFoldSet(LAMBDA i, w : Take(blocks, budget, w, i),
                 [kept |-> {}, tokens |-> 0, full |-> FALSE],
                 LAMBDA i : i,
                 LAMBDA is : CHOOSE i \in is : \A j \in is \ {i} : Before(blocks, j, i),
                 DOMAIN blocks)

-----------------------------------------------------------------------------
JobsInit ==
  /\ logs = [s \in SessionId |-> <<>>]
  /\ pending = <<>> /\ heap = {} /\ seq = 0
  /\ taken = [t \in Client |-> NoJob]
  /\ active = [r \in Runner |-> <<>>]
  /\ delivered = {}

AppendTo(s, b) ==
  /\ Len(logs[s]) < MaxLogLen
  /\ logs' = [logs EXCEPT ![s] = Append(@, b)]
  /\ UNCHANGED <<pending, heap, seq, taken, active, delivered>>

Job(n, s, budget) == [n |-> n, s |-> s, budget |-> budget]

JobSet == [n: Nat, s: SessionId, budget: Budget]

ASSUME NoJobAssumption == NoJob \notin JobSet

schedule(s, budget) ==
  /\ seq < MaxJobs
  /\ seq' = seq + 1
  /\ pending' = Append(pending, Job(seq + 1, s, budget))
  /\ UNCHANGED <<logs, heap, taken, active, delivered>>

\* A job being run: len is how much of the log it has read, w its window.
Running(j) == [job |-> j, len |-> 0, w |-> NoJob]

RunJobs(r, jobs) == active' = [active EXCEPT ![r] = [i \in DOMAIN jobs |-> Running(jobs[i])]]

run_one(r) ==
  /\ active[r] = <<>> /\ pending # <<>>
  /\ RunJobs(r, <<pending[Len(pending)]>>)
  /\ pending' = SubSeq(pending, 1, Len(pending) - 1)
  /\ UNCHANGED <<logs, heap, seq, taken, delivered>>

\* Mutant: the jobs are read without being drained.
run_all_peeks(r) ==
  /\ active[r] = <<>> /\ pending # <<>>
  /\ RunJobs(r, pending)
  /\ UNCHANGED <<logs, pending, heap, seq, taken, delivered>>

run_all(r) ==
  /\ active[r] = <<>> /\ pending # <<>>
  /\ RunJobs(r, pending)
  /\ pending' = <<>>
  /\ UNCHANGED <<logs, heap, seq, taken, delivered>>

\* PriorityPruneScheduler::schedule holds one lock to number the job and
\* another to push it.
TakeSeq(t, s, budget) ==
  /\ taken[t] = NoJob /\ seq < MaxJobs
  /\ seq' = seq + 1
  /\ taken' = [taken EXCEPT ![t] = Job(seq + 1, s, budget)]
  /\ UNCHANGED <<logs, pending, heap, active, delivered>>

Push(t) ==
  /\ taken[t] # NoJob
  /\ heap' = heap \cup {taken[t]}
  /\ taken' = [taken EXCEPT ![t] = NoJob]
  /\ UNCHANGED <<logs, pending, seq, active, delivered>>

\* The jobs in the order the heap pops them, newest first.
NewestFirst(jobs) ==
  [i \in 1..Cardinality(jobs) |->
     CHOOSE j \in jobs : Cardinality({k \in jobs : k.n >= j.n}) = i]

priority_run_all(r) ==
  /\ active[r] = <<>> /\ heap # {}
  /\ RunJobs(r, NewestFirst(heap))
  /\ heap' = {}
  /\ UNCHANGED <<logs, pending, seq, taken, delivered>>

\* One job of a batch, in any order and in parallel: reconstruct and prune.
RunJob(r, i) ==
  LET j      == active[r][i].job
      blocks == logs[j.s]
  IN /\ active[r][i].w = NoJob
     /\ active' = [active EXCEPT ![r][i] = [job |-> j, len |-> Len(blocks),
                                          w |-> prune(blocks, j.budget)]]
     /\ UNCHANGED <<logs, pending, heap, seq, taken, delivered>>

\* collect, when the last window is in.
CollectWindows(r) ==
  /\ active[r] # <<>> /\ \A i \in DOMAIN active[r] : active[r][i].w # NoJob
  /\ delivered' = delivered \cup {active[r][i].job.n : i \in DOMAIN active[r]}
  /\ active' = [active EXCEPT ![r] = <<>>]
  /\ UNCHANGED <<logs, pending, heap, seq, taken>>

JobsNext ==
  \/ \E s \in SessionId, b \in Block : AppendTo(s, b)
  \/ \E s \in SessionId, budget \in Budget :
       schedule(s, budget) \/ \E t \in Client : TakeSeq(t, s, budget)
  \/ \E t \in Client : Push(t)
  \/ \E r \in Runner :
       \/ run_one(r) \/ run_all(r) \/ priority_run_all(r) \/ CollectWindows(r)
       \/ \E i \in DOMAIN active[r] : RunJob(r, i)

JobsSpec == JobsInit /\ [][JobsNext]_jobVars

-----------------------------------------------------------------------------
\* The places that hold the job with number n.
InPending(n) == {<<"pending", i>> : i \in {i \in DOMAIN pending : pending[i].n = n}}

InHeap(n) == {<<"heap", j>> : j \in {j \in heap : j.n = n}}

Unpushed(n) == {<<"taken", t>> : t \in {t \in Client : taken[t] # NoJob /\ taken[t].n = n}}

InBatch(r, n) == {<<"batch", r, i>> : i \in {i \in DOMAIN active[r] : active[r][i].job.n = n}}

Returned(n) == {<<"delivered", m>> : m \in {m \in delivered : m = n}}

Holders(n) ==
  InPending(n) \cup InHeap(n) \cup Unpushed(n) \cup (UNION {InBatch(r, n) : r \in Runner}) \cup Returned(n)

\* Every job scheduled is in exactly one place until its window is returned,
\* exactly once, whichever of run_one, run_all and the two locks of the
\* priority scheduler interleave.
EachJobOnce == \A n \in 1..seq : Cardinality(Holders(n)) = 1

\* The inductive form of it: no number is used that was not given out.
JobNumbers ==
  {pending[i].n : i \in DOMAIN pending} \cup {j.n : j \in heap}
    \cup {taken[t].n : t \in {t \in Client : taken[t] # NoJob}}
    \cup (UNION {{active[r][i].job.n : i \in DOMAIN active[r]} : r \in Runner})
    \cup delivered

JobsInv ==
  /\ seq \in Nat /\ pending \in Seq(JobSet)
  /\ heap \subseteq JobSet /\ IsFiniteSet(heap)
  /\ taken \in [Client -> JobSet \cup {NoJob}]
  /\ DOMAIN active = Runner
  /\ JobNumbers \subseteq 1..seq
  /\ \A n \in 1..seq : \E x \in Holders(n) : Holders(n) = {x}

\* Every finished window, with what its job read of the log.
Windows ==
  UNION {{active[r][i] : i \in {i \in DOMAIN active[r] : active[r][i].w # NoJob}} : r \in Runner}

Read(x) == SubSeq(logs[x.job.s], 1, x.len)

Dropped(x) == (1..x.len) \ x.w.kept

\* What the fill keeps to.  The count returned is that of the blocks returned;
\* only a window of one block, or of system and summary blocks alone, goes over
\* its budget, by less than a block, because anything else is taken only if it
\* fits; nothing is left out that would still have fitted; and no other block
\* takes the place of a system or summary block, nor a later one of these that
\* of an earlier one.
FillsBudget ==
  \A x \in Windows :
    LET tokens(i) == approx_tokens(Read(x)[i])
        system(i) == Forever(Read(x)[i])
    IN /\ x.w.tokens = MapThenSumSet(tokens, x.w.kept)
       /\ x.w.tokens > x.job.budget =>
            /\ Cardinality(x.w.kept) = 1 \/ \A i \in x.w.kept : system(i)
            /\ \E i \in x.w.kept : x.w.tokens - tokens(i) < x.job.budget
       /\ \A i \in Dropped(x) : x.w.tokens + tokens(i) > x.job.budget
       /\ \A i \in Dropped(x) : system(i) => \A j \in x.w.kept : system(j) /\ j < i

\* "Produce a window of at most `budget_tokens`" (PrunePolicy::prune), leaving
\* aside the system and summary blocks that prune's comment lets exceed it.
AtMostBudget ==
  \A x \in Windows :
    x.w.tokens > x.job.budget => \E i \in x.w.kept : Forever(Read(x)[i])

\* "System/summary blocks always survive", "always included even if over
\* budget" (ImportancePolicy::prune): none that the job read is dropped.
SystemBlocksSurvive ==
  \A x \in Windows : \A i \in Dropped(x) : ~Forever(Read(x)[i])
=============================================================================
