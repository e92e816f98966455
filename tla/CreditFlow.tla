----------------------------- MODULE CreditFlow -----------------------------
(***************************************************************************)
(* The credit window between a sender and a receiver                       *)
(* (transport/src/flow.rs): two atomics, available and capacity, changed   *)
(* by compare-and-swap loops.  Senders take credit; the receiver grants    *)
(* back what it has drained; the bandwidth model re-aims the window.       *)
(*                                                                         *)
(* A spurious failure of compare_exchange_weak reloads the same value and  *)
(* is a stuttering step.                                                   *)
(***************************************************************************)
EXTENDS Naturals, FiniteSets

CONSTANTS Sender,          \* threads that call take
          Window,          \* the initial window
          MaxTake,         \* largest n a sender asks for
          Aims, MaxAims    \* what reaim is called with, and how often

ASSUME CreditAssumption ==
  Window \in Nat /\ MaxTake \in Nat /\ Aims \subseteq Nat /\ MaxAims \in Nat

VARIABLES available, capacity,
          spc, want, seen,       \* a sender's pc, its n and its register a
          gpc, owed, cap, held,  \* grant, run by the receiver and by reaim:
                                 \* pc, n and the registers cap and a
          inflight,              \* bytes taken and not drained yet
          drained,               \* bytes drained and not granted back yet
          grown, aims            \* credit added by reaim; calls of reaim

vars == <<available, capacity, spc, want, seen, gpc, owed, cap, held,
          inflight, drained, grown, aims>>

senderVars == <<spc, want, seen>>

grantVars == <<gpc, owed, cap, held>>

Granter == {"receiver", "reaim"}

Init ==
  /\ available = Window /\ capacity = Window
  /\ spc = [s \in Sender |-> "idle"] /\ want = [s \in Sender |-> 0]
  /\ seen = [s \in Sender |-> 0]
  /\ gpc = [g \in Granter |-> "idle"] /\ owed = [g \in Granter |-> 0]
  /\ cap = [g \in Granter |-> 0] /\ held = [g \in Granter |-> 0]
  /\ inflight = 0 /\ drained = 0 /\ grown = 0 /\ aims = 0

-----------------------------------------------------------------------------
\* take: the load, then one turn of the loop.
TakeLoad(s, n) ==
  /\ spc[s] = "idle"
  /\ spc' = [spc EXCEPT ![s] = "cas"]
  /\ want' = [want EXCEPT ![s] = n] /\ seen' = [seen EXCEPT ![s] = available]
  /\ UNCHANGED <<available, capacity, grantVars, inflight, drained, grown, aims>>

TakeReturn(s) ==
  /\ spc' = [spc EXCEPT ![s] = "idle"]
  /\ want' = [want EXCEPT ![s] = 0] /\ seen' = [seen EXCEPT ![s] = 0]

Smaller(m, n) == IF m < n THEN m ELSE n

\* Mutant: a load and a store in place of the compare-and-swap.
TakeStore(s) ==
  LET give == Smaller(want[s], seen[s])
  IN /\ spc[s] = "cas" /\ seen[s] # 0
     /\ available' = seen[s] - give /\ inflight' = inflight + give
     /\ TakeReturn(s)
     /\ UNCHANGED <<capacity, grantVars, drained, grown, aims>>

TakeCas(s) ==
  LET give == Smaller(want[s], seen[s])
  IN /\ spc[s] = "cas" /\ seen[s] # 0 /\ seen[s] = available
     /\ available' = available - give /\ inflight' = inflight + give
     /\ TakeReturn(s)
     /\ UNCHANGED <<capacity, grantVars, drained, grown, aims>>

TakeRetry(s) ==
  /\ spc[s] = "cas" /\ seen[s] # 0 /\ seen[s] # available
  /\ seen' = [seen EXCEPT ![s] = available]
  /\ UNCHANGED <<available, capacity, spc, want, grantVars, inflight, drained, grown, aims>>

\* No credit: take returns 0 and the caller may call again.
TakeNone(s) ==
  /\ spc[s] = "cas" /\ seen[s] = 0
  /\ TakeReturn(s)
  /\ UNCHANGED <<available, capacity, grantVars, inflight, drained, grown, aims>>

-----------------------------------------------------------------------------
\* The receiver works off some of what is in flight.
Drain(n) ==
  /\ n <= inflight
  /\ inflight' = inflight - n /\ drained' = drained + n
  /\ UNCHANGED <<available, capacity, senderVars, grantVars, grown, aims>>

\* The receiver calls grant for what it has drained.
GrantStart ==
  /\ gpc["receiver"] = "idle" /\ drained > 0
  /\ gpc' = [gpc EXCEPT !["receiver"] = "cap"] /\ owed' = [owed EXCEPT !["receiver"] = drained]
  /\ drained' = 0
  /\ UNCHANGED <<available, capacity, senderVars, cap, held, inflight, grown, aims>>

GrantCap(g) ==
  /\ gpc[g] = "cap"
  /\ gpc' = [gpc EXCEPT ![g] = "load"] /\ cap' = [cap EXCEPT ![g] = capacity]
  /\ UNCHANGED <<available, capacity, senderVars, owed, held, inflight, drained, grown, aims>>

GrantLoad(g) ==
  /\ gpc[g] = "load"
  /\ gpc' = [gpc EXCEPT ![g] = "cas"] /\ held' = [held EXCEPT ![g] = available]
  /\ UNCHANGED <<available, capacity, senderVars, owed, cap, inflight, drained, grown, aims>>

GrantReturn(g) ==
  /\ gpc' = [gpc EXCEPT ![g] = "idle"] /\ owed' = [owed EXCEPT ![g] = 0]
  /\ cap' = [cap EXCEPT ![g] = 0] /\ held' = [held EXCEPT ![g] = 0]

GrantCas(g) ==
  /\ gpc[g] = "cas" /\ held[g] = available
  /\ available' = Smaller(held[g] + owed[g], cap[g])
  /\ GrantReturn(g)
  /\ UNCHANGED <<capacity, senderVars, inflight, drained, grown, aims>>

\* Mutant: a failed compare-and-swap ends the grant.
GrantGivesUp(g) ==
  /\ gpc[g] = "cas" /\ held[g] # available
  /\ GrantReturn(g)
  /\ UNCHANGED <<available, capacity, senderVars, inflight, drained, grown, aims>>

GrantRetry(g) ==
  /\ gpc[g] = "cas" /\ held[g] # available
  /\ held' = [held EXCEPT ![g] = available]
  /\ UNCHANGED <<available, capacity, senderVars, gpc, owed, cap, inflight, drained, grown, aims>>

\* reaim: the swap; growth is granted, a smaller window only stored.
Reaim(bdp) ==
  /\ gpc["reaim"] = "idle" /\ aims < MaxAims
  /\ capacity' = bdp /\ aims' = aims + 1
  /\ IF bdp > capacity
       THEN /\ gpc' = [gpc EXCEPT !["reaim"] = "cap"]
            /\ owed' = [owed EXCEPT !["reaim"] = bdp - capacity]
            /\ grown' = grown + (bdp - capacity)
       ELSE UNCHANGED <<gpc, owed, grown>>
  /\ UNCHANGED <<available, senderVars, cap, held, inflight, drained>>

TakeStep(s) ==
  \/ \E n \in 1..MaxTake : TakeLoad(s, n)
  \/ TakeCas(s) \/ TakeRetry(s) \/ TakeNone(s)

GrantStep(g) == GrantCap(g) \/ GrantLoad(g) \/ GrantCas(g) \/ GrantRetry(g)

DrainSome == \E n \in 1..inflight : Drain(n)

Next ==
  \/ \E s \in Sender : TakeStep(s)
  \/ \E g \in Granter : GrantStep(g)
  \/ DrainSome \/ GrantStart
  \/ \E bdp \in Aims : Reaim(bdp)

Spec == Init /\ [][Next]_vars

\* What the calls come to, as if each were a single step.
Abstract == INSTANCE CreditWindow
  WITH Windows <- {Window} \cup Aims, First <- Window, free <- available, window <- capacity,
       used <- inflight + drained + owed["receiver"], promised <- owed["reaim"]

-----------------------------------------------------------------------------
TypeOK ==
  /\ available \in Nat /\ capacity \in Nat
  /\ spc \in [Sender -> {"idle", "cas"}] /\ want \in [Sender -> Nat] /\ seen \in [Sender -> Nat]
  /\ gpc \in [Granter -> {"idle", "cap", "load", "cas"}]
  /\ owed \in [Granter -> Nat] /\ cap \in [Granter -> Nat] /\ held \in [Granter -> Nat]
  /\ inflight \in Nat /\ drained \in Nat /\ grown \in Nat /\ aims \in Nat

\* "Never oversells": what may still be sent, what is in flight and what is
\* on its way back never exceed the window and the credit reaim added,
\* whatever loads and swaps of takes, grants and reaims interleave.
NeverOversold ==
  available + inflight + drained + owed["receiver"] + owed["reaim"] <= Window + grown

\* The other half: while the window is not re-aimed no credit is lost.  What
\* may be sent, is in flight or is on its way back is at least the window.
\* (A grant that read the capacity before reaim grew it cuts the growth off.)
NothingWithheld ==
  aims = 0 => available + inflight + drained + owed["receiver"] + owed["reaim"] >= capacity

\* Every take, grant and reaim acts as one step on the window, or as the two
\* steps of reaim: no interleaving of the loops loses or repeats one.
ActsAtOnce == Abstract!WindowSpec
=============================================================================
