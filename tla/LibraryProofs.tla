---------------------------- MODULE LibraryProofs ---------------------------
(***************************************************************************)
(* Parts that stand by themselves, for any numbers of threads, stages,     *)
(* paths and ids and any bounds: the credit window, the byte pipeline and  *)
(* the multipath sink of the transport crate, and the cuckoo filter.       *)
(***************************************************************************)
EXTENDS CreditFlow, BytePipeline, Loopback, FilterQueries, Integers,
        FiniteSetTheorems, TLAPS

\* The backend of every step that names no other.
USE ZenonT(60)


(***************************************************************************)
(* Credit is never created by a race, for any number of senders, any       *)
(* window and any sequence of re-aims, nor lost until the first re-aim.    *)
(***************************************************************************)

LEMMA SmallerNat ==
  \A m, n \in Nat : Smaller(m, n) \in Nat /\ Smaller(m, n) <= m /\ Smaller(m, n) <= n
  BY SMTT(60) DEF Smaller

LEMMA TakeTypes ==
  ASSUME TypeOK, NEW s \in Sender, TakeStep(s)
  PROVE  TypeOK'
  <1> USE CreditAssumption, SmallerNat DEF TypeOK, grantVars
  <1>1. ASSUME NEW n \in 1..MaxTake, TakeLoad(s, n) PROVE TypeOK'
    <2>1. n \in Nat
      BY SMTT(60)
    <2>2. want' \in [Sender -> Nat] /\ seen' \in [Sender -> Nat]
      BY <1>1, <2>1 DEF TakeLoad
    <2>3. spc' \in [Sender -> {"idle", "cas"}]
      BY <1>1 DEF TakeLoad
    <2> QED
      BY <1>1, <2>2, <2>3 DEF TakeLoad
  <1>2. CASE TakeCas(s)
    <2>1. available' \in Nat /\ inflight' \in Nat
      <3>1. PICK give \in Nat : /\ give <= available
                                /\ available' = available - give /\ inflight' = inflight + give
        BY <1>2 DEF TakeCas
      <3> QED
        BY SMTT(60), <3>1
    <2>2. want' \in [Sender -> Nat] /\ seen' \in [Sender -> Nat]
      BY <1>2 DEF TakeCas, TakeReturn
    <2>3. spc' \in [Sender -> {"idle", "cas"}]
      BY <1>2 DEF TakeCas, TakeReturn
    <2> QED
      BY <1>2, <2>1, <2>2, <2>3 DEF TakeCas
  <1>3. CASE TakeRetry(s)
    BY <1>3 DEF TakeRetry
  <1>4. CASE TakeNone(s)
    BY <1>4 DEF TakeNone, TakeReturn
  <1> QED
    BY <1>1, <1>2, <1>3, <1>4 DEF TakeStep

LEMMA GrantTypes ==
  ASSUME TypeOK, NEW g \in Granter, GrantStep(g)
  PROVE  TypeOK'
  <1> USE SmallerNat DEF TypeOK, senderVars
  <1>1. CASE GrantCap(g)
    BY <1>1 DEF GrantCap
  <1>2. CASE GrantLoad(g)
    BY <1>2 DEF GrantLoad
  <1>3. CASE GrantCas(g)
    <2>1. available' \in Nat
      BY SMTT(60), <1>3 DEF GrantCas
    <2>2. owed' \in [Granter -> Nat] /\ cap' \in [Granter -> Nat] /\ held' \in [Granter -> Nat]
      BY <1>3 DEF GrantCas, GrantReturn
    <2>3. gpc' \in [Granter -> {"idle", "cap", "load", "cas"}]
      BY <1>3 DEF GrantCas, GrantReturn
    <2> QED
      BY <1>3, <2>1, <2>2, <2>3 DEF GrantCas
  <1>4. CASE GrantRetry(g)
    BY <1>4 DEF GrantRetry
  <1> QED
    BY <1>1, <1>2, <1>3, <1>4 DEF GrantStep

LEMMA OtherTypes ==
  ASSUME TypeOK, DrainSome \/ GrantStart \/ \E bdp \in Aims : Reaim(bdp)
  PROVE  TypeOK'
  <1> USE CreditAssumption DEF TypeOK, senderVars, grantVars
  <1>1. CASE DrainSome
    BY SMTT(60), <1>1 DEF DrainSome, Drain
  <1>2. CASE GrantStart
    BY <1>2 DEF GrantStart, Granter
  <1>3. ASSUME NEW bdp \in Aims, Reaim(bdp) PROVE TypeOK'
    <2>1. bdp \in Nat
      OBVIOUS
    <2>2. CASE bdp > capacity
      BY SMTT(60), <1>3, <2>1, <2>2 DEF Reaim, Granter
    <2>3. CASE ~(bdp > capacity)
      BY SMTT(60), <1>3, <2>1, <2>3 DEF Reaim, Granter
    <2> QED
      BY <2>2, <2>3
  <1> QED
    BY <1>1, <1>2, <1>3

\* Every variable has its type; in particular available, an unsigned atomic,
\* never goes below zero.
THEOREM CreditTypes == Spec => []TypeOK
  <1>1. Init => TypeOK
    BY SMTT(60), CreditAssumption DEF Init, TypeOK
  <1>2. TypeOK /\ [Next]_vars => TypeOK'
    <2> SUFFICES ASSUME TypeOK, [Next]_vars PROVE TypeOK'
      OBVIOUS
    <2>1. CASE Next
      BY <2>1, TakeTypes, GrantTypes, OtherTypes DEF Next
    <2>2. CASE UNCHANGED vars
      BY <2>2 DEF vars, TypeOK
    <2> QED
      BY <2>1, <2>2
  <1> QED
    BY <1>1, <1>2, PTL DEF Spec

-----------------------------------------------------------------------------
\* What take removes from the window it puts in flight.
LEMMA TakeConserves ==
  ASSUME TypeOK, NeverOversold, NEW s \in Sender, TakeStep(s)
  PROVE  NeverOversold'
  <1> USE CreditAssumption DEF NeverOversold, grantVars
  <1>1. CASE \E n \in 1..MaxTake : TakeLoad(s, n)
    BY <1>1 DEF TakeLoad
  <1>2. CASE TakeCas(s)
    <2>1. PICK give \in Nat : /\ give <= available
                              /\ available' = available - give /\ inflight' = inflight + give
      BY <1>2, SmallerNat DEF TakeCas, TypeOK
    <2>2. UNCHANGED <<drained, owed, grown>>
      BY <1>2 DEF TakeCas
    <2> QED
      BY SMTT(60), <2>1, <2>2 DEF TypeOK, Granter
  <1>3. CASE TakeRetry(s) \/ TakeNone(s)
    BY <1>3 DEF TakeRetry, TakeNone
  <1> QED
    BY <1>1, <1>2, <1>3 DEF TakeStep

\* A swap that succeeds adds at most what is owed, and what is owed is then
\* settled; the stale capacity in cap can only make it add less.
LEMMA GrantConserves ==
  ASSUME TypeOK, NeverOversold, NEW g \in Granter, GrantStep(g)
  PROVE  NeverOversold'
  <1> USE CreditAssumption DEF NeverOversold
  <1>1. CASE GrantCap(g) \/ GrantLoad(g) \/ GrantRetry(g)
    BY <1>1 DEF GrantCap, GrantLoad, GrantRetry
  <1>2. CASE GrantCas(g)
    <2>1. /\ available' \in Nat /\ available' <= available + owed[g]
          /\ owed' = [owed EXCEPT ![g] = 0]
          /\ UNCHANGED <<inflight, drained, grown>>
      BY SMTT(60), <1>2, SmallerNat DEF GrantCas, GrantReturn, TypeOK
    <2>2. CASE g = "receiver"
      <3>1. owed'["receiver"] = 0 /\ owed'["reaim"] = owed["reaim"]
        BY <2>1, <2>2 DEF TypeOK, Granter
      <3> QED
        BY SMTT(60), <2>1, <2>2, <3>1 DEF TypeOK, Granter
    <2>3. CASE g = "reaim"
      <3>1. owed'["reaim"] = 0 /\ owed'["receiver"] = owed["receiver"]
        BY <2>1, <2>3 DEF TypeOK, Granter
      <3> QED
        BY SMTT(60), <2>1, <2>3, <3>1 DEF TypeOK, Granter
    <2> QED
      BY <2>2, <2>3 DEF Granter
  <1> QED
    BY <1>1, <1>2 DEF GrantStep

LEMMA OtherConserves ==
  ASSUME TypeOK, NeverOversold, DrainSome \/ GrantStart \/ \E bdp \in Aims : Reaim(bdp)
  PROVE  NeverOversold'
  <1> USE CreditAssumption DEF NeverOversold
  <1>1. CASE DrainSome
    BY SMTT(60), <1>1 DEF DrainSome, Drain, grantVars, TypeOK, Granter
  <1>2. CASE GrantStart
    \* A grant under way has settled: the receiver owes nothing before it.
    BY SMTT(60), <1>2 DEF GrantStart, TypeOK, Granter
  <1>3. ASSUME NEW bdp \in Aims, Reaim(bdp) PROVE NeverOversold'
    BY SMTT(60), <1>3 DEF Reaim, TypeOK, Granter
  <1> QED
    BY <1>1, <1>2, <1>3

\* take, grant and reaim never create credit: what may be sent, is in flight
\* or is on its way back stays within the initial window plus what reaim
\* added, for any number of senders and however their loads and
\* compare-and-swaps interleave with grants whose capacity is stale.
THEOREM CreditConserved == Spec => []NeverOversold
  <1>1. Init => NeverOversold
    BY SMTT(60), CreditAssumption DEF Init, NeverOversold, Granter
  <1>2. TypeOK /\ NeverOversold /\ [Next]_vars => NeverOversold'
    <2> SUFFICES ASSUME TypeOK, NeverOversold, [Next]_vars PROVE NeverOversold'
      OBVIOUS
    <2>1. CASE Next
      BY <2>1, TakeConserves, GrantConserves, OtherConserves DEF Next
    <2>2. CASE UNCHANGED vars
      BY <2>2 DEF vars, NeverOversold
    <2> QED
      BY <2>1, <2>2
  <1> QED
    BY <1>1, <1>2, CreditTypes, PTL DEF Spec

\* "This bounds the in-flight bytes to <= the window" holds until reaim first
\* adds credit: shrinking the window, and grants that race it, keep it.
THEOREM WindowBoundsInFlight == Spec => [](grown = 0 => inflight <= Window)
  <1>1. TypeOK /\ NeverOversold => (grown = 0 => inflight <= Window)
    BY SMTT(60), CreditAssumption DEF TypeOK, NeverOversold, Granter
  <1> QED
    BY <1>1, CreditTypes, CreditConserved, PTL

-----------------------------------------------------------------------------
(***************************************************************************)
(* With a fixed window nothing is lost either.  A grant under way has read *)
(* the window as its cap, so min(.., cap) never cuts the credit it adds:   *)
(* the sum it would exceed is exactly the window.                          *)
(***************************************************************************)
FixedWindow ==
  aims = 0 =>
    /\ capacity = Window
    /\ gpc["reaim"] = "idle" /\ owed["reaim"] = 0
    /\ gpc["receiver"] = "idle" => owed["receiver"] = 0
    /\ gpc["receiver"] \in {"load", "cas"} => cap["receiver"] = Window
    /\ available + inflight + drained + owed["receiver"] = Window

LEMMA TakeFixed ==
  ASSUME TypeOK, FixedWindow, NEW s \in Sender, TakeStep(s)
  PROVE  FixedWindow'
  <1> USE DEF FixedWindow, grantVars
  <1>1. CASE \E n \in 1..MaxTake : TakeLoad(s, n)
    BY <1>1 DEF TakeLoad
  <1>2. CASE TakeCas(s)
    <2>1. PICK give \in Nat : /\ give <= available
                              /\ available' = available - give /\ inflight' = inflight + give
      BY <1>2, SmallerNat DEF TakeCas, TypeOK
    <2>2. UNCHANGED <<capacity, gpc, owed, cap, drained, aims>>
      BY <1>2 DEF TakeCas
    <2> QED
      BY SMTT(60), <2>1, <2>2 DEF TypeOK, Granter
  <1>3. CASE TakeRetry(s) \/ TakeNone(s)
    BY <1>3 DEF TakeRetry, TakeNone
  <1> QED
    BY <1>1, <1>2, <1>3 DEF TakeStep

LEMMA GrantFixed ==
  ASSUME TypeOK, FixedWindow, NEW g \in Granter, GrantStep(g)
  PROVE  FixedWindow'
  <1> SUFFICES ASSUME aims = 0, g = "receiver" PROVE FixedWindow'
    <2>1. aims' = aims
      BY DEF GrantStep, GrantCap, GrantLoad, GrantCas, GrantRetry
    <2>2. gpc[g] # "idle"
      BY DEF GrantStep, GrantCap, GrantLoad, GrantCas, GrantRetry
    <2> QED
      BY <2>1, <2>2 DEF FixedWindow, Granter
  <1>1. CASE GrantCap(g)
    BY <1>1 DEF GrantCap, FixedWindow, TypeOK, Granter
  <1>2. CASE GrantLoad(g)
    BY <1>2 DEF GrantLoad, FixedWindow, TypeOK, Granter
  <1>3. CASE GrantCas(g)
    <2>1. available + owed[g] <= cap[g] /\ held[g] = available
      BY SMTT(60), <1>3 DEF GrantCas, FixedWindow, TypeOK, Granter
    <2>2. available' = available + owed[g]
      BY SMTT(60), <1>3, <2>1 DEF GrantCas, Smaller, TypeOK
    <2>3. /\ owed'["receiver"] = 0 /\ owed'["reaim"] = owed["reaim"]
          /\ gpc'["receiver"] = "idle" /\ gpc'["reaim"] = gpc["reaim"]
      BY <1>3 DEF GrantCas, GrantReturn, TypeOK, Granter
    <2>4. UNCHANGED <<capacity, inflight, drained, aims>>
      BY <1>3 DEF GrantCas
    <2> QED
      BY SMTT(60), <2>2, <2>3, <2>4 DEF FixedWindow, TypeOK, Granter
  <1>4. CASE GrantRetry(g)
    BY <1>4 DEF GrantRetry, FixedWindow
  <1> QED
    BY <1>1, <1>2, <1>3, <1>4 DEF GrantStep

LEMMA OtherFixed ==
  ASSUME TypeOK, FixedWindow, DrainSome \/ GrantStart \/ \E bdp \in Aims : Reaim(bdp)
  PROVE  FixedWindow'
  <1>1. CASE DrainSome
    BY SMTT(60), <1>1 DEF DrainSome, Drain, grantVars, FixedWindow, TypeOK, Granter
  <1>2. CASE GrantStart
    <2>1. /\ gpc'["receiver"] = "cap" /\ gpc'["reaim"] = gpc["reaim"]
          /\ owed'["receiver"] = drained /\ owed'["reaim"] = owed["reaim"]
      BY <1>2 DEF GrantStart, TypeOK, Granter
    <2> QED
      BY SMTT(60), <1>2, <2>1 DEF GrantStart, FixedWindow, TypeOK, Granter
  <1>3. ASSUME NEW bdp \in Aims, Reaim(bdp) PROVE FixedWindow'
    BY SMTT(60), <1>3 DEF Reaim, FixedWindow, TypeOK
  <1> QED
    BY <1>1, <1>2, <1>3

\* Until reaim is called, no race of takes and grants loses credit: the whole
\* window is available, in flight or on its way back.
THEOREM FixedWindowKept == Spec => []NothingWithheld
  <1>1. Init => FixedWindow
    BY SMTT(60), CreditAssumption DEF Init, FixedWindow, Granter
  <1>2. TypeOK /\ FixedWindow /\ [Next]_vars => FixedWindow'
    <2> SUFFICES ASSUME TypeOK, FixedWindow, [Next]_vars PROVE FixedWindow'
      OBVIOUS
    <2>1. CASE Next
      BY <2>1, TakeFixed, GrantFixed, OtherFixed DEF Next
    <2>2. CASE UNCHANGED vars
      BY <2>2 DEF vars, FixedWindow
    <2> QED
      BY <2>1, <2>2
  <1>3. TypeOK /\ FixedWindow => NothingWithheld
    BY SMTT(60), CreditAssumption DEF TypeOK, FixedWindow, NothingWithheld, Granter
  <1> QED
    BY <1>1, <1>2, <1>3, CreditTypes, PTL DEF Spec

-----------------------------------------------------------------------------
(***************************************************************************)
(* The loops implement the atomic window of CreditWindow.  A take happens  *)
(* at its successful swap, a grant at its own; the growth of reaim is a    *)
(* promise from the swap of the capacity to that of its grant.  Every      *)
(* other step changes nothing the window shows.                            *)
(***************************************************************************)
Sizes == {Window} \cup Aims

Settled ==
  /\ capacity \in Sizes
  /\ \A g \in Granter : /\ gpc[g] = "idle" => owed[g] = 0
                        /\ gpc[g] \in {"load", "cas"} => cap[g] \in Sizes

LEMMA SettledStep ==
  ASSUME TypeOK, Settled, [Next]_vars
  PROVE  Settled'
  <1>1. ASSUME NEW s \in Sender, TakeStep(s) PROVE Settled'
    <2>1. UNCHANGED <<capacity, gpc, owed, cap>>
      BY <1>1 DEF TakeStep, TakeLoad, TakeCas, TakeRetry, TakeNone, grantVars
    <2> QED
      BY <2>1 DEF Settled
  <1>2. ASSUME NEW g \in Granter, GrantStep(g) PROVE Settled'
    <2> USE DEF Settled, TypeOK
    <2>1. CASE GrantCap(g)
      BY <2>1 DEF GrantCap
    <2>2. CASE GrantLoad(g)
      BY <2>2 DEF GrantLoad
    <2>3. CASE GrantCas(g)
      BY <2>3 DEF GrantCas, GrantReturn
    <2>4. CASE GrantRetry(g)
      BY <2>4 DEF GrantRetry
    <2> QED
      BY <1>2, <2>1, <2>2, <2>3, <2>4 DEF GrantStep
  <1>3. CASE DrainSome
    BY <1>3 DEF DrainSome, Drain, grantVars, Settled
  <1>4. CASE GrantStart
    BY <1>4 DEF GrantStart, Settled, TypeOK, Granter
  <1>5. ASSUME NEW bdp \in Aims, Reaim(bdp) PROVE Settled'
    <2>1. capacity' \in Sizes /\ UNCHANGED cap
      BY <1>5 DEF Reaim, Sizes
    <2>2. \/ UNCHANGED <<gpc, owed>>
          \/ /\ gpc' = [gpc EXCEPT !["reaim"] = "cap"]
             /\ \A g \in Granter : g # "reaim" => owed'[g] = owed[g]
      BY <1>5 DEF Reaim, TypeOK
    <2> QED
      BY <2>1, <2>2 DEF Settled, TypeOK
  <1>6. CASE UNCHANGED vars
    BY <1>6 DEF vars, Settled
  <1> QED
    BY <1>1, <1>2, <1>3, <1>4, <1>5, <1>6 DEF Next

LEMMA TakeActs ==
  ASSUME TypeOK, NEW s \in Sender, TakeStep(s)
  PROVE  [Abstract!WindowNext]_(Abstract!windowVars)
  <1>1. CASE TakeCas(s)
    <2>1. PICK give \in Nat : /\ give <= available
                              /\ available' = available - give /\ inflight' = inflight + give
      BY <1>1, SmallerNat DEF TakeCas, TypeOK
    <2>2. UNCHANGED <<capacity, owed, drained>>
      BY <1>1 DEF TakeCas, grantVars
    <2>3. /\ give \in 0..available
          /\ inflight' + drained' + owed'["receiver"] = (inflight + drained + owed["receiver"]) + give
      BY SMTT(60), <2>1, <2>2 DEF TypeOK, Granter
    <2>4. Abstract!TakeSome(give)
      BY <2>1, <2>2, <2>3 DEF Abstract!TakeSome
    <2> QED
      BY <2>3, <2>4 DEF Abstract!WindowNext
  <1>2. CASE (\E n \in 1..MaxTake : TakeLoad(s, n)) \/ TakeRetry(s) \/ TakeNone(s)
    <2>1. UNCHANGED <<available, capacity, inflight, drained, owed>>
      BY <1>2 DEF TakeLoad, TakeRetry, TakeNone, grantVars
    <2> QED
      BY <2>1 DEF Abstract!windowVars
  <1> QED
    BY <1>1, <1>2 DEF TakeStep

LEMMA GrantActs ==
  ASSUME TypeOK, Settled, NEW g \in Granter, GrantStep(g)
  PROVE  [Abstract!WindowNext]_(Abstract!windowVars)
  <1>1. CASE GrantCas(g)
    <2>1. /\ available' = Abstract!Capped(available + owed[g], cap[g]) /\ cap[g] \in Sizes
          /\ owed' = [owed EXCEPT ![g] = 0]
          /\ UNCHANGED <<capacity, inflight, drained>>
      BY <1>1 DEF GrantCas, GrantReturn, Settled, Smaller, Abstract!Capped
    <2>2. CASE g = "receiver"
      <3>1. owed'["receiver"] = 0 /\ owed'["reaim"] = owed["reaim"]
        BY <2>1, <2>2 DEF TypeOK, Granter
      <3>2. /\ owed[g] \in 0..(inflight + drained + owed["receiver"])
            /\ owed[g] <= inflight + drained + owed["receiver"]
            /\ inflight' + drained' + owed'["receiver"] = (inflight + drained + owed["receiver"]) - owed[g]
        BY SMTT(60), <2>1, <2>2, <3>1 DEF TypeOK, Granter
      <3>3. Abstract!GiveBack(owed[g], cap[g])
        BY <2>1, <3>1, <3>2 DEF Abstract!GiveBack
      <3> QED
        BY <2>1, <3>2, <3>3 DEF Abstract!WindowNext, Sizes
    <2>3. CASE g = "reaim"
      <3>1. owed'["reaim"] = 0 /\ owed'["receiver"] = owed["receiver"]
        BY <2>1, <2>3 DEF TypeOK, Granter
      <3>2. Abstract!KeepPromise(cap[g])
        BY <2>1, <2>3, <3>1 DEF Abstract!KeepPromise
      <3> QED
        BY <2>1, <3>2 DEF Abstract!WindowNext, Sizes
    <2> QED
      BY <2>2, <2>3 DEF Granter
  <1>2. CASE GrantCap(g) \/ GrantLoad(g) \/ GrantRetry(g)
    <2>1. UNCHANGED <<available, capacity, inflight, drained, owed>>
      BY <1>2 DEF GrantCap, GrantLoad, GrantRetry
    <2> QED
      BY <2>1 DEF Abstract!windowVars
  <1> QED
    BY <1>1, <1>2 DEF GrantStep

LEMMA OtherActs ==
  ASSUME TypeOK, Settled, DrainSome \/ GrantStart \/ \E bdp \in Aims : Reaim(bdp)
  PROVE  [Abstract!WindowNext]_(Abstract!windowVars)
  <1>1. CASE DrainSome
    <2>1. UNCHANGED <<available, capacity, owed>> /\ inflight' + drained' = inflight + drained
      BY SMTT(60), <1>1 DEF DrainSome, Drain, grantVars, TypeOK
    <2> QED
      BY <2>1 DEF Abstract!windowVars
  <1>2. CASE GrantStart
    <2>1. /\ UNCHANGED <<available, capacity, inflight>> /\ owed["receiver"] = 0 /\ drained' = 0
          /\ owed'["receiver"] = drained /\ owed'["reaim"] = owed["reaim"]
      BY <1>2 DEF GrantStart, Settled, TypeOK, Granter
    <2>2. inflight' + drained' + owed'["receiver"] = inflight + drained + owed["receiver"]
      BY SMTT(60), <2>1 DEF TypeOK
    <2> QED
      BY <2>1, <2>2 DEF Abstract!windowVars
  <1>3. ASSUME NEW bdp \in Aims, Reaim(bdp) PROVE Abstract!WindowNext
    <2>1. /\ UNCHANGED <<available, inflight, drained>> /\ capacity' = bdp
          /\ owed["reaim"] = 0 /\ owed'["receiver"] = owed["receiver"]
          /\ owed'["reaim"] = IF bdp > capacity THEN bdp - capacity ELSE 0
      BY <1>3 DEF Reaim, Settled, TypeOK, Granter
    <2>2. Abstract!Aim(bdp)
      BY <2>1 DEF Abstract!Aim
    <2> QED
      BY <2>2 DEF Abstract!WindowNext
  <1> QED
    BY <1>1, <1>2, <1>3

\* take, grant and reaim implement the atomic window: for any senders and
\* windows, every step of their load and compare-and-swap loops is a step of
\* CreditWindow or changes nothing that it shows.
THEOREM LoopsActAtOnce == Spec => ActsAtOnce
  <1>1. Init => Abstract!WindowInit /\ Settled
    BY SMTT(60), CreditAssumption DEF Init, Abstract!WindowInit, Settled, Sizes, Granter
  <1>2. TypeOK /\ Settled /\ [Next]_vars => Settled' /\ [Abstract!WindowNext]_(Abstract!windowVars)
    <2> SUFFICES ASSUME TypeOK, Settled, [Next]_vars
                 PROVE  [Abstract!WindowNext]_(Abstract!windowVars)
      BY SettledStep
    <2>1. CASE Next
      BY <2>1, TakeActs, GrantActs, OtherActs DEF Next
    <2>2. CASE UNCHANGED vars
      BY <2>2 DEF vars, Abstract!windowVars
    <2> QED
      BY <2>1, <2>2
  <1> QED
    BY <1>1, <1>2, CreditTypes, PTL DEF Spec, ActsAtOnce, Abstract!WindowSpec

-----------------------------------------------------------------------------
(***************************************************************************)
(* The items of a pipeline are in line between the feeder and the caller.  *)
(***************************************************************************)

LEMMA UpToTail ==
  ASSUME NEW sq \in Seq(Nat), sq # <<>>, NEW n \in Nat, UpTo(sq, n)
  PROVE  /\ Tail(sq) \in Seq(Nat) /\ Len(Tail(sq)) = Len(sq) - 1 /\ Len(sq) \in Nat \ {0}
         /\ Head(sq) \in Nat /\ Head(sq) + Len(sq) = n + 1
         /\ UpTo(Tail(sq), n)
  <1>1. Len(sq) \in Nat \ {0} /\ Len(Tail(sq)) = Len(sq) - 1 /\ Tail(sq) \in Seq(Nat)
    BY SMTT(60)
  <1>2. \A i \in 1..Len(Tail(sq)) : Tail(sq)[i] = sq[i + 1] /\ i + 1 \in 1..Len(sq) /\ sq[i + 1] \in Nat
    BY SMTT(60), <1>1
  <1>3. Head(sq) = sq[1] /\ 1 \in 1..Len(sq) /\ sq[1] \in Nat
    BY SMTT(60), <1>1
  <1> HIDE DEF UpTo
  <1>4. UpTo(Tail(sq), n)
    <2> SUFFICES ASSUME NEW i \in 1..Len(Tail(sq)) PROVE Tail(sq)[i] + Len(Tail(sq)) = n + i
      BY DEF UpTo
    <2>1. PICK e \in Nat, m \in Nat : e = sq[i + 1] /\ m = Len(sq)
      BY <1>1, <1>2
    <2>2. e + m = n + (i + 1)
      BY <1>2, <2>1 DEF UpTo
    <2>3. e + (m - 1) = n + i
      BY SMTT(60), <2>2
    <2>4. Tail(sq)[i] = e /\ Len(Tail(sq)) = m - 1
      BY <1>1, <1>2, <2>1
    <2> QED
      BY <2>3, <2>4
  <1>5. sq[1] + Len(sq) = n + 1
    BY <1>3 DEF UpTo
  <1> QED
    BY <1>1, <1>3, <1>4, <1>5

LEMMA UpToAppend ==
  ASSUME NEW sq \in Seq(Nat), NEW n \in Nat, UpTo(sq, n)
  PROVE  /\ Append(sq, n + 1) \in Seq(Nat)
         /\ Len(Append(sq, n + 1)) = Len(sq) + 1 /\ Len(sq) \in Nat
         /\ UpTo(Append(sq, n + 1), n + 1)
  <1>1. \A i \in 1..(Len(sq) + 1) : Append(sq, n + 1)[i] = IF i <= Len(sq) THEN sq[i] ELSE n + 1
    BY SMTT(60)
  <1>2. Len(Append(sq, n + 1)) = Len(sq) + 1 /\ Len(sq) \in Nat /\ Append(sq, n + 1) \in Seq(Nat)
    BY SMTT(60)
  <1>3. ASSUME NEW i \in 1..(Len(sq) + 1)
        PROVE  Append(sq, n + 1)[i] + (Len(sq) + 1) = (n + 1) + i
    <2>1. CASE i <= Len(sq)
      <3>1. PICK e \in Nat, m \in Nat : e = sq[i] /\ m = Len(sq) /\ i \in 1..m
        BY SMTT(60), <1>2, <2>1
      <3>2. e + m = n + i
        BY <3>1 DEF UpTo
      <3>3. e + (m + 1) = (n + 1) + i
        BY SMTT(60), <3>1, <3>2
      <3>4. Append(sq, n + 1)[i] = e
        BY <1>1, <2>1, <3>1
      <3> QED
        BY <3>1, <3>3, <3>4
    <2> QED
      BY SMTT(60), <1>1, <1>2, <2>1
  <1> QED
    BY <1>2, <1>3 DEF UpTo

LEMMA UpToEmpty ==
  ASSUME NEW n \in Nat
  PROVE  UpTo(<<>>, n)
  BY SMTT(60) DEF UpTo

\* A stage takes the next item.
LEMMA RecvInLine ==
  ASSUME PipeTypeOK, CallInv, NEW last \in [0..Stages -> Nat], InLine(last), NEW k \in Stage, StageRecv(k)
  PROVE  PipeTypeOK' /\ CallInv' /\ InLine(last)'
  <1> USE PipeAssumption DEF Stage
  <1>1. /\ k \in 1..Stages /\ k - 1 \in 0..Stages /\ k # k - 1 /\ k - 1 < Stages
        /\ alive[k] /\ inhand[k] = None /\ chan[k - 1] # <<>>
        /\ last[k - 1] \in Nat /\ last[k] \in Nat /\ chan[k - 1] \in Seq(Nat)
    BY SMTT(60) DEF StageRecv, PipeTypeOK
  <1>2. PICK h : h = Head(chan[k - 1])
    OBVIOUS
  <1>3. PICK tl : tl = Tail(chan[k - 1])
    OBVIOUS
  <1>4. UpTo(chan[k - 1], last[k - 1])
    BY <1>1 DEF InLine
  <1>5. /\ tl \in Seq(Nat) /\ Len(tl) = Len(chan[k - 1]) - 1 /\ Len(chan[k - 1]) \in Nat \ {0}
        /\ h \in Nat /\ h + Len(chan[k - 1]) = last[k - 1] + 1 /\ UpTo(tl, last[k - 1])
    BY <1>1, <1>2, <1>3, <1>4, UpToTail
  <1>6. /\ chan' = [chan EXCEPT ![k - 1] = tl] /\ inhand' = [inhand EXCEPT ![k] = h]
        /\ UNCHANGED <<alive, feed, phase, batch, out, runs, fed, panics>>
    BY <1>2, <1>3 DEF StageRecv
  <1>7. PipeTypeOK'
    BY <1>1, <1>5, <1>6 DEF PipeTypeOK
  <1>8. chan'[Stages] = chan[Stages]
    BY SMTT(60), <1>1, <1>6 DEF PipeTypeOK
  <1>9. CallInv'
    BY <1>6, <1>8 DEF CallInv, Closed
  <1>10. last[k - 1] = last[k] + Len(chan[k - 1])
    <2>1. last[k - 1] = last[k] + Len(chan[k - 1]) + Working(k)
      BY <1>1 DEF InLine
    <2>2. Working(k) = 0
      BY <1>1 DEF Working
    <2>3. PICK a \in Nat, b \in Nat, m \in Nat : a = last[k - 1] /\ b = last[k] /\ m = Len(chan[k - 1])
      BY <1>1, <1>5
    <2>4. a = b + m + 0
      BY <2>1, <2>2, <2>3
    <2>5. a = b + m
      BY SMTT(60), <2>4
    <2> QED
      BY <2>3, <2>5
  <1>11. ASSUME NEW c \in 0..Stages PROVE UpTo(chan'[c], last[c])
    <2>1. chan'[c] = IF c = k - 1 THEN tl ELSE chan[c]
      BY <1>6 DEF PipeTypeOK
    <2> QED
      BY <1>5, <2>1 DEF InLine
  <1>12. ASSUME NEW j \in Stage
         PROVE  /\ inhand'[j] # None => inhand'[j] = last[j] + 1
                /\ alive'[j] => last[j - 1] = last[j] + Len(chan'[j - 1]) + Working(j)'
                /\ ~alive'[j] => chan'[j - 1] = <<>> /\ inhand'[j] = None
    <2>1. CASE j = k
      <3>1. inhand'[j] = h /\ chan'[j - 1] = tl
        BY <1>1, <1>6, <2>1 DEF PipeTypeOK
      <3>2. PICK a \in Nat, b \in Nat, m \in Nat \ {0} :
              a = last[k - 1] /\ b = last[k] /\ m = Len(chan[k - 1])
        BY <1>1, <1>5
      <3>3. h + m = a + 1 /\ a = b + m
        BY <1>5, <1>10, <3>2
      <3>4. h = b + 1 /\ a = b + (m - 1) + 1
        BY SMTT(60), <1>5, <3>3
      <3>5. Working(j)' = 1
        BY <1>5, <3>1 DEF Working
      <3>6. Len(chan'[j - 1]) = m - 1 /\ alive'[j]
        BY <1>1, <1>5, <1>6, <2>1, <3>1, <3>2
      <3> QED
        BY <2>1, <3>1, <3>2, <3>4, <3>5, <3>6
    <2>2. CASE j # k
      <3>1. inhand'[j] = inhand[j] /\ chan'[j - 1] = chan[j - 1] /\ alive'[j] = alive[j]
        BY SMTT(60), <1>1, <1>6, <2>2 DEF PipeTypeOK
      <3> QED
        BY <3>1 DEF InLine, Working
    <2> QED
      BY <2>1, <2>2
  <1>13. /\ UpTo(feed, fed)' /\ UpTo(batch, fed)'
         /\ Open(0)' => last[0] + Len(feed') = fed'
         /\ ~Closed(Stages)' => last[Stages] + Len(batch') = fed' + Len(out') + Len(chan'[Stages])
    BY <1>6, <1>8 DEF InLine, Open, Closed
  <1> QED
    BY <1>7, <1>9, <1>11, <1>12, <1>13 DEF InLine

\* It puts the item into the next channel.
LEMMA SendInLine ==
  ASSUME PipeTypeOK, CallInv, NEW last \in [0..Stages -> Nat], InLine(last), NEW k \in Stage, StageSend(k)
  PROVE  PipeTypeOK' /\ CallInv' /\ InLine([last EXCEPT ![k] = @ + 1])'
  <1> USE PipeAssumption DEF Stage
  <1> PICK after : after = [last EXCEPT ![k] = @ + 1]
    OBVIOUS
  <1>1. /\ k \in 1..Stages /\ k \in 0..Stages /\ k - 1 \in 0..Stages /\ k # k - 1
        /\ alive[k] /\ inhand[k] # None /\ last[k] \in Nat /\ chan[k] \in Seq(Nat)
        /\ after \in [0..Stages -> Nat] /\ after[k] = last[k] + 1 /\ last[k] + 1 \in Nat
        /\ \A c \in 0..Stages : c # k => after[c] = last[c]
    <2>1. k \in 1..Stages /\ k \in 0..Stages /\ k - 1 \in 0..Stages /\ k # k - 1
      BY SMTT(60)
    <2>2. alive[k] /\ inhand[k] # None /\ chan[k] \in Seq(Nat)
      BY <2>1 DEF StageSend, PipeTypeOK
    <2>3. last[k] \in Nat /\ last[k] + 1 \in Nat
      BY SMTT(60), <2>1
    <2>4. after = [c \in 0..Stages |-> IF c = k THEN last[k] + 1 ELSE last[c]]
      BY <2>1
    <2> QED
      BY <2>1, <2>2, <2>3, <2>4
  <1>2. inhand[k] = last[k] + 1 /\ UpTo(chan[k], last[k])
    BY <1>1 DEF InLine
  <1>3. PICK q : q = Append(chan[k], last[k] + 1)
    OBVIOUS
  <1>4. q \in Seq(Nat) /\ Len(q) = Len(chan[k]) + 1 /\ Len(chan[k]) \in Nat /\ UpTo(q, last[k] + 1)
    BY <1>1, <1>2, <1>3, UpToAppend
  <1>5. /\ chan' = [chan EXCEPT ![k] = q] /\ inhand' = [inhand EXCEPT ![k] = None]
        /\ UNCHANGED <<alive, feed, phase, batch, out, runs, fed, panics>>
    BY <1>2, <1>3 DEF StageSend
  <1>6. PipeTypeOK'
    BY <1>1, <1>4, <1>5 DEF PipeTypeOK
  <1>7. CallInv'
    BY SMTT(60), <1>1, <1>5 DEF CallInv, Closed, PipeTypeOK
  <1>8. ASSUME NEW c \in 0..Stages PROVE UpTo(chan'[c], after[c])
    <2>1. chan'[c] = IF c = k THEN q ELSE chan[c]
      BY <1>5 DEF PipeTypeOK
    <2> QED
      BY <1>1, <1>4, <2>1 DEF InLine
  <1>9. ASSUME NEW j \in Stage
        PROVE  /\ inhand'[j] # None => inhand'[j] = after[j] + 1
               /\ alive'[j] => after[j - 1] = after[j] + Len(chan'[j - 1]) + Working(j)'
               /\ ~alive'[j] => chan'[j - 1] = <<>> /\ inhand'[j] = None
    <2>0. j \in 0..Stages /\ j - 1 \in 0..Stages
      BY SMTT(60)
    <2>1. CASE j = k
      <3>1. inhand'[j] = None /\ chan'[j - 1] = chan[j - 1] /\ alive'[j] /\ Working(j)' = 0
        BY <1>1, <1>5, <2>1 DEF PipeTypeOK, Working
      <3>2. PICK a \in Nat, b \in Nat, m \in Nat :
              a = last[k - 1] /\ b = last[k] /\ m = Len(chan[k - 1])
        <4>1. chan[k - 1] \in Seq(Nat) /\ last[k - 1] \in Nat /\ last[k] \in Nat
          BY <1>1 DEF PipeTypeOK
        <4> QED
          BY SMTT(60), <4>1
      <3>3. a = b + m + 1
        BY <1>1, <3>2 DEF InLine, Working
      <3>4. a = (b + 1) + m + 0
        BY SMTT(60), <3>3
      <3>5. after[j - 1] = a /\ after[j] = b + 1
        BY <1>1, <2>0, <2>1, <3>2
      <3> QED
        BY <2>1, <3>1, <3>2, <3>4, <3>5
    <2>2. CASE j # k
      <3>1. inhand'[j] = inhand[j] /\ alive'[j] = alive[j] /\ after[j] = last[j] /\ Working(j)' = Working(j)
        BY <1>1, <1>5, <2>0, <2>2 DEF PipeTypeOK, Working
      <3>2. CASE j - 1 = k
        <4>1. Open(k)
          BY DEF StageSend
        <4>2. alive[j]
          BY SMTT(60), <3>2, <4>1 DEF Open
        <4>3. PICK b \in Nat, m \in Nat, w \in Nat :
                b = last[j] /\ m = Len(chan[k]) /\ w = Working(j)
          BY <1>4, <2>0 DEF Working
        <4>4. last[k] = b + m + w
          BY <3>2, <4>2, <4>3 DEF InLine
        <4>5. last[k] + 1 = b + (m + 1) + w
          BY SMTT(60), <4>3, <4>4
        <4>6. chan'[j - 1] = q /\ after[j - 1] = last[k] + 1
          BY <1>1, <1>5, <3>2 DEF PipeTypeOK
        <4>7. inhand[j] # None => inhand[j] = last[j] + 1
          BY DEF InLine
        <4> QED
          BY <1>4, <3>1, <4>2, <4>3, <4>5, <4>6, <4>7
      <3>3. CASE j - 1 # k
        <4>1. chan'[j - 1] = chan[j - 1] /\ after[j - 1] = last[j - 1]
          BY <1>1, <1>5, <2>0, <3>3 DEF PipeTypeOK
        <4> QED
          BY <3>1, <4>1 DEF InLine
      <3> QED
        BY <3>2, <3>3
    <2> QED
      BY <2>1, <2>2
  <1>10. UpTo(feed, fed)' /\ UpTo(batch, fed)'
    BY <1>5 DEF InLine
  <1>11. Open(0)' => after[0] + Len(feed') = fed'
    BY SMTT(60), <1>1, <1>5 DEF InLine, Open
  <1>12. ~Closed(Stages)' => after[Stages] + Len(batch') = fed' + Len(out') + Len(chan'[Stages])
    <2>1. CASE k = Stages
      <3>1. ~Closed(Stages)
        BY <1>1, <2>1 DEF Closed
      <3>2. PICK a \in Nat, b \in Nat, m \in Nat, n \in Nat :
              a = last[k] /\ b = Len(batch) /\ m = Len(out) /\ n = Len(chan[k])
        BY SMTT(60), <1>1, <1>4 DEF PipeTypeOK
      <3>3. a + b = fed + m + n /\ fed \in Nat
        BY <2>1, <3>1, <3>2 DEF InLine, PipeTypeOK
      <3>4. (a + 1) + b = fed + m + (n + 1)
        BY SMTT(60), <3>3
      <3>5. chan'[Stages] = q
        BY <1>1, <1>5, <2>1 DEF PipeTypeOK
      <3> QED
        BY <1>1, <1>4, <1>5, <2>1, <3>2, <3>4, <3>5
    <2>2. CASE k # Stages
      <3>1. chan'[Stages] = chan[Stages] /\ after[Stages] = last[Stages] /\ (Closed(Stages)' <=> Closed(Stages))
        BY SMTT(60), <1>1, <1>5, <2>2 DEF PipeTypeOK, Closed
      <3> QED
        BY <1>5, <3>1 DEF InLine
    <2> QED
      BY <2>1, <2>2
  <1>13. InLine(after)'
    BY <1>8, <1>9, <1>10, <1>11, <1>12 DEF InLine
  <1> QED
    BY <1>6, <1>7, <1>13

\* It ends, and what was queued for it is lost.
LEMMA ExitInLine ==
  ASSUME PipeTypeOK, CallInv, NEW last \in [0..Stages -> Nat], InLine(last),
         NEW k \in Stage, Exit(k), panics' \in Nat \ {0}
  PROVE  PipeTypeOK' /\ CallInv' /\ InLine(last)'
  <1> USE PipeAssumption DEF Stage
  <1>1. k \in 1..Stages /\ k - 1 \in 0..Stages /\ k - 1 # Stages
    BY SMTT(60)
  <1>2. /\ chan' = [chan EXCEPT ![k - 1] = <<>>] /\ inhand' = [inhand EXCEPT ![k] = None]
        /\ alive' = [alive EXCEPT ![k] = FALSE]
        /\ UNCHANGED <<feed, phase, batch, out, runs, fed>>
    BY DEF Exit
  <1>3. PipeTypeOK'
    BY SMTT(60), <1>1, <1>2 DEF PipeTypeOK
  <1>4. chan'[Stages] = chan[Stages]
    BY SMTT(60), <1>1, <1>2 DEF PipeTypeOK
  <1>5. ~Closed(Stages)' => ~Closed(Stages)
    BY SMTT(60), <1>2, <1>4 DEF Closed, PipeTypeOK
  <1>6. Closed(Stages) => Closed(Stages)'
    BY SMTT(60), <1>2, <1>4 DEF Closed, PipeTypeOK
  <1>7. CallInv'
    BY <1>2, <1>6 DEF CallInv
  <1>8. ASSUME NEW c \in 0..Stages PROVE UpTo(chan'[c], last[c])
    <2>1. chan'[c] = IF c = k - 1 THEN <<>> ELSE chan[c]
      BY <1>2 DEF PipeTypeOK
    <2>2. last[c] \in Nat
      OBVIOUS
    <2> QED
      BY <2>1, <2>2, UpToEmpty DEF InLine
  <1>9. ASSUME NEW j \in Stage
        PROVE  /\ inhand'[j] # None => inhand'[j] = last[j] + 1
               /\ alive'[j] => last[j - 1] = last[j] + Len(chan'[j - 1]) + Working(j)'
               /\ ~alive'[j] => chan'[j - 1] = <<>> /\ inhand'[j] = None
    <2>1. CASE j = k
      BY <1>1, <1>2, <2>1 DEF PipeTypeOK
    <2>2. CASE j # k
      <3>1. inhand'[j] = inhand[j] /\ chan'[j - 1] = chan[j - 1] /\ alive'[j] = alive[j]
        BY SMTT(60), <1>1, <1>2, <2>2 DEF PipeTypeOK
      <3> QED
        BY <3>1 DEF InLine, Working
    <2> QED
      BY <2>1, <2>2
  <1>10. UpTo(feed, fed)' /\ UpTo(batch, fed)'
    BY <1>2 DEF InLine
  <1>11. Open(0)' => Open(0)
    BY SMTT(60), <1>2 DEF Open, PipeTypeOK
  <1>12. Open(0)' => last[0] + Len(feed') = fed'
    BY <1>2, <1>11 DEF InLine
  <1>13. ~Closed(Stages)' => last[Stages] + Len(batch') = fed' + Len(out') + Len(chan'[Stages])
    BY <1>2, <1>4, <1>5 DEF InLine
  <1> QED
    BY <1>3, <1>7, <1>8, <1>9, <1>10, <1>12, <1>13 DEF InLine

LEMMA FeedInLine ==
  ASSUME PipeTypeOK, CallInv, NEW last \in [0..Stages -> Nat], InLine(last), FeedSend
  PROVE  PipeTypeOK' /\ CallInv' /\ InLine([last EXCEPT ![0] = @ + 1])'
  <1> USE PipeAssumption DEF Stage
  <1> PICK after : after = [last EXCEPT ![0] = @ + 1]
    OBVIOUS
  <1>1. 0 \in 0..Stages /\ chan[0] \in Seq(Nat) /\ feed \in Seq(Nat) /\ feed # <<>> /\ Open(0)
    BY SMTT(60) DEF PipeTypeOK, FeedSend
  <1>2. last[0] \in Nat /\ last[0] + 1 \in Nat
    BY SMTT(60), <1>1
  <1>3. after = [c \in 0..Stages |-> IF c = 0 THEN last[0] + 1 ELSE last[c]]
    BY <1>1
  <1>4. UpTo(chan[0], last[0]) /\ UpTo(feed, fed) /\ last[0] + Len(feed) = fed /\ fed \in Nat
    BY <1>1 DEF InLine, PipeTypeOK
  <1>5. PICK tl : tl = Tail(feed)
    OBVIOUS
  <1>6. /\ tl \in Seq(Nat) /\ Len(tl) = Len(feed) - 1 /\ Len(feed) \in Nat \ {0}
        /\ Head(feed) \in Nat /\ Head(feed) + Len(feed) = fed + 1 /\ UpTo(tl, fed)
    BY <1>1, <1>4, <1>5, UpToTail
  <1>7. PICK a \in Nat, h \in Nat, m \in Nat \ {0} : a = last[0] /\ h = Head(feed) /\ m = Len(feed)
    BY <1>2, <1>6
  <1>8. a + m = fed /\ h + m = fed + 1
    BY <1>4, <1>6, <1>7
  <1>9. h = a + 1 /\ (a + 1) + (m - 1) = fed
    BY SMTT(60), <1>8
  <1>10. PICK q : q = Append(chan[0], last[0] + 1)
    OBVIOUS
  <1>11. q \in Seq(Nat) /\ Len(q) = Len(chan[0]) + 1 /\ Len(chan[0]) \in Nat /\ UpTo(q, last[0] + 1)
    BY <1>1, <1>2, <1>4, <1>10, UpToAppend
  <1>12. /\ chan' = [chan EXCEPT ![0] = q] /\ feed' = tl
         /\ UNCHANGED <<inhand, alive, phase, batch, out, runs, fed, panics>>
    BY <1>5, <1>7, <1>9, <1>10 DEF FeedSend
  <1>13. PipeTypeOK'
    BY <1>1, <1>6, <1>11, <1>12 DEF PipeTypeOK
  <1>14. Closed(Stages) <=> Closed(Stages)'
    BY SMTT(60), <1>12 DEF Closed, PipeTypeOK
  <1>15. CallInv'
    BY <1>1, <1>12, <1>14 DEF CallInv
  <1>16. ASSUME NEW c \in 0..Stages PROVE UpTo(chan'[c], after[c])
    <2>1. chan'[c] = IF c = 0 THEN q ELSE chan[c]
      BY <1>12 DEF PipeTypeOK
    <2> QED
      BY <1>3, <1>11, <2>1 DEF InLine
  <1>17. ASSUME NEW j \in Stage
         PROVE  /\ inhand'[j] # None => inhand'[j] = after[j] + 1
                /\ alive'[j] => after[j - 1] = after[j] + Len(chan'[j - 1]) + Working(j)'
                /\ ~alive'[j] => chan'[j - 1] = <<>> /\ inhand'[j] = None
    <2>0. j \in 0..Stages /\ j - 1 \in 0..Stages /\ j # 0
      BY SMTT(60)
    <2>1. inhand'[j] = inhand[j] /\ alive'[j] = alive[j] /\ after[j] = last[j] /\ Working(j)' = Working(j)
      BY <1>3, <1>12, <2>0 DEF Working
    <2>2. CASE j - 1 = 0
      <3>1. alive[j]
        BY SMTT(60), <1>1, <2>2 DEF Open
      <3>2. PICK b \in Nat, n \in Nat, w \in Nat : b = last[j] /\ n = Len(chan[0]) /\ w = Working(j)
        BY <1>11, <2>0 DEF Working
      <3>3. a = b + n + w
        BY <1>7, <2>2, <3>1, <3>2 DEF InLine
      <3>4. a + 1 = b + (n + 1) + w
        BY SMTT(60), <3>3
      <3>5. chan'[j - 1] = q /\ after[j - 1] = a + 1
        BY <1>1, <1>3, <1>7, <1>12, <2>2 DEF PipeTypeOK
      <3>6. inhand[j] # None => inhand[j] = last[j] + 1
        BY DEF InLine
      <3> QED
        BY <1>11, <2>1, <3>1, <3>2, <3>4, <3>5, <3>6
    <2>3. CASE j - 1 # 0
      <3>1. chan'[j - 1] = chan[j - 1] /\ after[j - 1] = last[j - 1]
        BY <1>3, <1>12, <2>0, <2>3 DEF PipeTypeOK
      <3> QED
        BY <2>1, <3>1 DEF InLine
    <2> QED
      BY <2>2, <2>3
  <1>18. UpTo(feed, fed)' /\ UpTo(batch, fed)'
    BY <1>6, <1>12 DEF InLine
  <1>19. after[0] + Len(feed') = fed'
    BY <1>1, <1>3, <1>6, <1>7, <1>9, <1>12
  <1>20. ~Closed(Stages)' => after[Stages] + Len(batch') = fed' + Len(out') + Len(chan'[Stages])
    <2>1. CASE Stages = 0
      <3>1. ~Closed(Stages)
        BY SMTT(60), <2>1 DEF Closed
      <3>2. PICK b \in Nat, n \in Nat, l \in Nat : b = Len(batch) /\ n = Len(out) /\ l = Len(chan[0])
        BY SMTT(60), <1>11 DEF PipeTypeOK
      <3>3. a + b = fed + n + l
        BY <1>7, <2>1, <3>1, <3>2 DEF InLine
      <3>4. (a + 1) + b = fed + n + (l + 1)
        BY SMTT(60), <1>4, <3>3
      <3>5. chan'[Stages] = q /\ after[Stages] = a + 1
        BY <1>1, <1>3, <1>7, <1>12, <2>1 DEF PipeTypeOK
      <3> QED
        BY <1>11, <1>12, <3>2, <3>4, <3>5
    <2>2. CASE Stages # 0
      <3>1. chan'[Stages] = chan[Stages] /\ after[Stages] = last[Stages]
        BY SMTT(60), <1>3, <1>12, <2>2 DEF PipeTypeOK
      <3> QED
        BY <1>12, <1>14, <3>1 DEF InLine
    <2> QED
      BY <2>1, <2>2
  <1>21. InLine(after)'
    BY <1>16, <1>17, <1>18, <1>19, <1>20 DEF InLine
  <1> QED
    BY <1>13, <1>15, <1>21

LEMMA CollectInLine ==
  ASSUME PipeTypeOK, CallInv, NEW last \in [0..Stages -> Nat], InLine(last), Collect
  PROVE  PipeTypeOK' /\ CallInv' /\ InLine(last)'
  <1> USE PipeAssumption DEF Stage
  <1>1. Stages \in 0..Stages /\ chan[Stages] \in Seq(Nat) /\ chan[Stages] # <<>> /\ last[Stages] \in Nat
    BY SMTT(60) DEF PipeTypeOK, Collect
  <1>2. UpTo(chan[Stages], last[Stages]) /\ ~Closed(Stages)
    BY <1>1 DEF InLine, Closed
  <1>3. PICK tl, h : tl = Tail(chan[Stages]) /\ h = Head(chan[Stages])
    OBVIOUS
  <1>4. /\ tl \in Seq(Nat) /\ Len(tl) = Len(chan[Stages]) - 1 /\ Len(chan[Stages]) \in Nat \ {0}
        /\ h \in Nat /\ h + Len(chan[Stages]) = last[Stages] + 1 /\ UpTo(tl, last[Stages])
    BY <1>1, <1>2, <1>3, UpToTail
  <1>5. /\ phase = "collect" /\ chan' = [chan EXCEPT ![Stages] = tl] /\ out' = Append(out, h)
        /\ phase' = IF Len(out') = Len(batch) THEN "join" ELSE "collect"
        /\ UNCHANGED <<inhand, alive, feed, batch, runs, fed, panics>>
    BY <1>3 DEF Collect
  <1>6. out \in Seq(Nat) /\ batch \in Seq(Nat) /\ Len(out) \in Nat /\ Len(batch) \in Nat /\ fed \in Nat
    BY SMTT(60) DEF PipeTypeOK
  <1>7. out' \in Seq(Nat) /\ Len(out') = Len(out) + 1
    BY SMTT(60), <1>4, <1>5, <1>6
  <1>8. PipeTypeOK'
    BY <1>1, <1>4, <1>5, <1>7 DEF PipeTypeOK
  <1>9. PICK a \in Nat, b \in Nat, m \in Nat, n \in Nat \ {0} :
          a = last[Stages] /\ b = Len(batch) /\ m = Len(out) /\ n = Len(chan[Stages])
    BY <1>1, <1>4, <1>6
  <1>10. a + b = fed + m + n /\ h + n = a + 1 /\ m < b
    <2>1. a + b = fed + m + n
      BY <1>2, <1>9 DEF InLine
    <2>2. h + n = a + 1
      BY <1>4, <1>9
    <2> QED
      BY <1>5, <1>9, <2>1, <2>2 DEF CallInv
  <1>11. h + b = fed + (m + 1) /\ a + b = fed + (m + 1) + (n - 1) /\ m + 1 <= b /\ m + 1 \in 1..b
    BY SMTT(60), <1>4, <1>6, <1>10
  <1>12. batch[m + 1] = h
    <2>1. batch[m + 1] + b = fed + (m + 1)
      BY <1>9, <1>11 DEF InLine, UpTo
    <2>2. PICK e \in Nat : e = batch[m + 1]
      BY SMTT(60), <1>6, <1>9, <1>11
    <2>3. e + b = h + b
      BY <1>11, <2>1, <2>2
    <2>4. e = h
      BY SMTT(60), <1>4, <2>3
    <2> QED
      BY <2>2, <2>4
  <1>13. CallInv'
    <2>1. \A i \in 1..Len(out') : out'[i] = IF i <= Len(out) THEN out[i] ELSE h
      <3>1. \A i \in 1..(Len(out) + 1) : Append(out, h)[i] = IF i <= Len(out) THEN out[i] ELSE h
        BY SMTT(60), <1>4, <1>6
      <3> QED
        BY <1>5, <1>7, <3>1
    <2>2. ASSUME NEW i \in 1..Len(out') PROVE out'[i] = batch'[i]
      <3>1. CASE i <= m
        BY SMTT(60), <1>5, <1>9, <2>1, <3>1 DEF CallInv
      <3>2. CASE i = m + 1
        <4>1. out'[i] = h
          BY SMTT(60), <1>9, <2>1, <3>2
        <4> QED
          BY <1>5, <1>12, <3>2, <4>1
      <3> QED
        BY SMTT(60), <1>7, <1>9, <3>1, <3>2
    <2>3. /\ Len(out') <= Len(batch')
          /\ phase' = "collect" => Len(out') < Len(batch')
          /\ phase' # "collect" => Len(out') = Len(batch')
          /\ phase' # "idle"
      BY SMTT(60), <1>5, <1>7, <1>9, <1>11
    <2>4. panics' = 0 => \A k \in Stage : alive'[k]
      BY <1>5 DEF CallInv
    <2> QED
      BY <2>2, <2>3, <2>4 DEF CallInv
  <1>14. ASSUME NEW c \in 0..Stages PROVE UpTo(chan'[c], last[c])
    <2>1. chan'[c] = IF c = Stages THEN tl ELSE chan[c]
      BY <1>5 DEF PipeTypeOK
    <2> QED
      BY <1>4, <2>1 DEF InLine
  <1>15. ASSUME NEW j \in Stage
         PROVE  /\ inhand'[j] # None => inhand'[j] = last[j] + 1
                /\ alive'[j] => last[j - 1] = last[j] + Len(chan'[j - 1]) + Working(j)'
                /\ ~alive'[j] => chan'[j - 1] = <<>> /\ inhand'[j] = None
    <2>1. inhand'[j] = inhand[j] /\ chan'[j - 1] = chan[j - 1] /\ alive'[j] = alive[j]
      BY SMTT(60), <1>5 DEF PipeTypeOK
    <2> QED
      BY <2>1 DEF InLine, Working
  <1>16. UpTo(feed, fed)' /\ UpTo(batch, fed)'
    BY <1>5 DEF InLine
  <1>17. Open(0)' => last[0] + Len(feed') = fed'
    BY <1>5 DEF InLine, Open
  <1>18. last[Stages] + Len(batch') = fed' + Len(out') + Len(chan'[Stages])
    <2>1. chan'[Stages] = tl
      BY <1>1, <1>5 DEF PipeTypeOK
    <2> QED
      BY <1>4, <1>5, <1>7, <1>9, <1>11, <2>1
  <1> QED
    BY <1>8, <1>13, <1>14, <1>15, <1>16, <1>17, <1>18 DEF InLine

\* A call begins with empty channels, or with a closed tail.
LEMMA RunInLine ==
  ASSUME PipeTypeOK, CallInv, NEW last \in [0..Stages -> Nat], InLine(last), NEW n \in 1..MaxBatch, run(n)
  PROVE  PipeTypeOK' /\ CallInv' /\ InLine(last)'
  <1> USE PipeAssumption DEF Stage
  <1>1. /\ phase = "idle" /\ phase' = "collect" /\ out' = <<>> /\ fed' = fed + n /\ runs' = runs + 1
        /\ batch' = [i \in 1..n |-> fed + i] /\ feed' = batch'
        /\ UNCHANGED <<chan, inhand, alive, panics>>
    BY DEF run
  <1>2. n \in Nat \ {0} /\ fed \in Nat
    BY SMTT(60) DEF PipeTypeOK
  <1>3. batch' \in Seq(Nat) /\ Len(batch') = n
    BY SMTT(60), <1>1, <1>2
  <1>4. PipeTypeOK'
    BY SMTT(60), <1>1, <1>2, <1>3 DEF PipeTypeOK
  <1>5. UpTo(batch', fed')
    <2> SUFFICES ASSUME NEW i \in 1..n PROVE batch'[i] + n = fed' + i
      BY <1>3 DEF UpTo
    <2>1. batch'[i] = fed + i
      BY <1>1
    <2> QED
      BY SMTT(60), <1>1, <1>2, <2>1
  <1>6. CallInv'
    BY SMTT(60), <1>1, <1>2, <1>3 DEF CallInv
  <1>7. Open(0)' => last[0] + Len(feed') = fed'
    <2> SUFFICES ASSUME Open(0) PROVE last[0] + n = fed + n
      BY <1>1, <1>3 DEF Open
    <2>1. feed = <<>> /\ last[0] \in Nat
      BY SMTT(60), <1>1 DEF CallInv
    <2>2. last[0] + Len(feed) = fed
      BY DEF InLine
    <2>3. Len(feed) = 0
      BY SMTT(60), <2>1
    <2>4. PICK a : a = last[0] /\ a \in Nat /\ a + 0 = fed
      BY <2>1, <2>2, <2>3
    <2>5. a + n = fed + n
      BY SMTT(60), <1>2, <2>4
    <2> QED
      BY <2>4, <2>5
  <1>8. ~Closed(Stages)' => last[Stages] + Len(batch') = fed' + Len(out') + Len(chan'[Stages])
    <2> SUFFICES ASSUME ~Closed(Stages) PROVE last[Stages] + n = (fed + n) + 0 + Len(chan[Stages])
      BY <1>1, <1>3 DEF Closed
    <2>1. Len(out) = Len(batch)
      BY <1>1 DEF CallInv
    <2>2. PICK a \in Nat, b \in Nat, l \in Nat : a = last[Stages] /\ b = Len(batch) /\ l = Len(chan[Stages])
      BY SMTT(60) DEF PipeTypeOK
    <2>3. a + b = fed + b + l
      BY <2>1, <2>2 DEF InLine
    <2>4. a + n = (fed + n) + 0 + l
      BY SMTT(60), <1>2, <2>3
    <2> QED
      BY <2>2, <2>4
  <1>9. /\ \A c \in 0..Stages : UpTo(chan[c], last[c])'
        /\ \A j \in Stage :
             /\ inhand'[j] # None => inhand'[j] = last[j] + 1
             /\ alive'[j] => last[j - 1] = last[j] + Len(chan'[j - 1]) + Working(j)'
             /\ ~alive'[j] => chan'[j - 1] = <<>> /\ inhand'[j] = None
    BY <1>1 DEF InLine, Working
  <1> QED
    BY <1>1, <1>4, <1>5, <1>6, <1>7, <1>8, <1>9 DEF InLine

\* The feeder and the caller leave the channels alone.
LEMMA QuietInLine ==
  ASSUME PipeTypeOK, CallInv, NEW last \in [0..Stages -> Nat], InLine(last),
         FeedStops \/ CollectFails \/ Join
  PROVE  PipeTypeOK' /\ CallInv' /\ InLine(last)'
  <1> USE PipeAssumption DEF Stage
  <1>1. /\ UNCHANGED <<chan, inhand, alive, batch, out, runs, fed, panics>>
        /\ feed' = feed \/ (feed' = <<>> /\ ~Open(0))
        /\ phase' \in {"idle", "collect", "join"}
    BY DEF FeedStops, CollectFails, Join, PipeTypeOK
  <1>2. PipeTypeOK'
    <2>1. feed' = feed \/ feed' = <<>>
      BY <1>1
    <2>2. feed \in Seq(Nat) /\ <<>> \in Seq(Nat)
      BY SMTT(60) DEF PipeTypeOK
    <2>3. feed' \in Seq(Nat)
      BY <2>1, <2>2
    <2> QED
      BY <1>1, <2>3 DEF PipeTypeOK
  <1>3. CallInv'
    <2>1. Closed(Stages)' <=> Closed(Stages)
      BY <1>1 DEF Closed
    <2>2. CASE FeedStops
      BY <1>1, <2>1, <2>2 DEF CallInv, FeedStops
    <2>3. CASE CollectFails
      BY <1>1, <2>1, <2>3 DEF CallInv, CollectFails
    <2>4. CASE Join
      BY <1>1, <2>1, <2>4 DEF CallInv, Join
    <2> QED
      BY <2>2, <2>3, <2>4
  <1>4. UpTo(feed', fed')
    BY <1>1, UpToEmpty DEF InLine, PipeTypeOK
  <1> QED
    BY <1>1, <1>2, <1>3, <1>4 DEF InLine, Open, Closed, Working

LEMMA PipeInitInv == PipeInit => PipeInv
  <1> SUFFICES ASSUME PipeInit PROVE PipeInv
    OBVIOUS
  <1> USE PipeAssumption DEF PipeInit, Stage
  <1>1. PipeTypeOK
    BY SMTT(60) DEF PipeTypeOK
  <1>2. CallInv
    BY SMTT(60) DEF CallInv
  <1>3. PICK last : last = [c \in 0..Stages |-> 0]
    OBVIOUS
  <1>4. last \in [0..Stages -> Nat]
    BY <1>3
  <1>5. InLine(last)
    BY SMTT(60), <1>3 DEF InLine, UpTo, Working, Open, Closed
  <1> QED
    BY <1>1, <1>2, <1>4, <1>5 DEF PipeInv

LEMMA PipeStep ==
  ASSUME PipeInv, [PipeNext]_pipeVars
  PROVE  PipeInv'
  <1> USE PipeAssumption
  <1>1. PICK last \in [0..Stages -> Nat] : InLine(last)
    BY DEF PipeInv
  <1>2. PipeTypeOK /\ CallInv
    BY DEF PipeInv
  <1>3. ASSUME NEW after \in [0..Stages -> Nat], PipeTypeOK' /\ CallInv' /\ InLine(after)'
        PROVE  PipeInv'
    BY <1>3 DEF PipeInv
  <1>4. ASSUME NEW c \in 0..Stages PROVE [last EXCEPT ![c] = @ + 1] \in [0..Stages -> Nat]
    BY SMTT(60)
  <1>5. CASE \E n \in 1..MaxBatch : run(n)
    BY <1>1, <1>2, <1>3, <1>5, RunInLine
  <1>6. CASE FeedSend
    <2>1. 0 \in 0..Stages
      BY SMTT(60)
    <2> QED
      BY <1>1, <1>2, <1>3, <1>4, <1>6, <2>1, FeedInLine
  <1>7. CASE Collect
    BY <1>1, <1>2, <1>3, <1>7, CollectInLine
  <1>8. CASE FeedStops \/ CollectFails \/ Join
    BY <1>1, <1>2, <1>3, <1>8, QuietInLine
  <1>9. ASSUME NEW k \in Stage, StageStep(k) \/ Panic(k) PROVE PipeInv'
    <2>1. CASE StageRecv(k)
      BY <1>1, <1>2, <1>3, <2>1, RecvInLine
    <2>2. CASE StageSend(k)
      <3>1. k \in 0..Stages
        BY SMTT(60) DEF Stage
      <3> QED
        BY <1>1, <1>2, <1>3, <1>4, <2>2, <3>1, SendInLine
    <2>3. CASE StageSendFails(k)
      <3>1. k + 1 \in Stage /\ ~alive[k + 1]
        BY SMTT(60), <2>3 DEF StageSendFails, Open, Stage
      <3>2. panics' \in Nat \ {0}
        BY <1>2, <2>3, <3>1 DEF StageSendFails, PipeTypeOK, CallInv
      <3> QED
        BY <1>1, <1>2, <1>3, <2>3, <3>2, ExitInLine DEF StageSendFails
    <2>4. CASE StageRecvFails(k)
      <3>1. k - 1 \in Stage /\ ~alive[k - 1]
        BY SMTT(60), <2>4 DEF StageRecvFails, Closed, Stage
      <3>2. panics' \in Nat \ {0}
        BY <1>2, <2>4, <3>1 DEF StageRecvFails, PipeTypeOK, CallInv
      <3> QED
        BY <1>1, <1>2, <1>3, <2>4, <3>2, ExitInLine DEF StageRecvFails
    <2>5. CASE Panic(k)
      <3>1. panics' \in Nat \ {0}
        BY SMTT(60), <1>2, <2>5 DEF Panic, PipeTypeOK
      <3> QED
        BY <1>1, <1>2, <1>3, <2>5, <3>1, ExitInLine DEF Panic
    <2> QED
      BY <1>9, <2>1, <2>2, <2>3, <2>4, <2>5 DEF StageStep
  <1>10. CASE UNCHANGED pipeVars
    BY <1>10 DEF pipeVars, PipeInv, PipeTypeOK, CallInv, InLine, Working, Open, Closed
  <1> QED
    BY <1>5, <1>6, <1>7, <1>8, <1>9, <1>10 DEF PipeNext, Caller, Feeder

\* The inductive invariant: between the feeder and the caller the items are
\* in line, up to the first stage that has ended.
THEOREM PipeInvariance == PipeSpec => []PipeInv
  BY PipeInitInv, PipeStep, PTL DEF PipeSpec

\* run returns its own batch, in order and, without a panic, whole, for any
\* number of stages and any bounds of the channels (transport/src/pipeline.rs).
THEOREM RunsAreInOrder == PipeSpec => []OwnBatchInOrder
  <1>1. PipeInv => OwnBatchInOrder
    <2> SUFFICES ASSUME PipeTypeOK, CallInv PROVE OwnBatchInOrder
      BY DEF PipeInv
    <2>1. /\ out \in Seq(Nat) /\ batch \in Seq(Nat) /\ Len(out) \in Nat /\ Len(batch) \in Nat
          /\ Len(out) <= Len(batch) /\ \A i \in 1..Len(out) : out[i] = batch[i]
      BY SMTT(60) DEF PipeTypeOK, CallInv
    <2>2. DOMAIN out = 1..Len(out)
      BY SMTT(60), <2>1
    <2>3. Len(out) <= Len(batch) /\ \A i \in DOMAIN out : out[i] = batch[i]
      BY <2>1, <2>2
    <2>4. phase = "idle" /\ panics = 0 => out = batch
      <3> SUFFICES ASSUME phase = "idle", panics = 0 PROVE out = batch
        OBVIOUS
      <3>1. ~Closed(Stages)
        BY SMTT(60), PipeAssumption DEF CallInv, Closed, Stage
      <3>2. Len(out) = Len(batch)
        BY <3>1 DEF CallInv
      <3> QED
        BY SMTT(60), <2>1, <3>2
    <2> QED
      BY <2>3, <2>4 DEF OwnBatchInOrder
  <1> QED
    BY <1>1, PipeInvariance, PTL

-----------------------------------------------------------------------------
(***************************************************************************)
(* The round-robin of the multipath sink.                                  *)
(***************************************************************************)

LEMMA DivMod ==
  ASSUME NEW n \in Nat, NEW p \in Nat \ {0}
  PROVE  n % p \in 0..(p - 1) /\ \E d \in Int : n = p * d + (n % p)
  <1>1. PICK d \in Int, m \in 0..(p - 1) : d = n \div p /\ m = n % p
    <2>1. n \div p \in Int /\ n % p \in 0..(p - 1)
      BY SMTT(60)
    <2> QED
      BY <2>1
  <1>2. n = p * d + m
    BY <1>1, Z3
  <1> QED
    BY <1>1, <1>2

LEMMA ModSuccessor ==
  ASSUME NEW n \in Nat, NEW p \in Nat \ {0}
  PROVE  (n + 1) % p = IF (n % p) + 1 = p THEN 0 ELSE (n % p) + 1
  <1>1. PICK m \in 0..(p - 1), k \in 0..(p - 1), d \in Int, e \in Int :
          m = n % p /\ k = (n + 1) % p /\ n = p * d + m /\ n + 1 = p * e + k
    <2>1. n + 1 \in Nat
      BY SMTT(60)
    <2>2. n % p \in 0..(p - 1) /\ (n + 1) % p \in 0..(p - 1)
      BY <2>1, DivMod
    <2>3. PICK d \in Int : n = p * d + (n % p)
      BY DivMod
    <2>4. PICK e \in Int : n + 1 = p * e + ((n + 1) % p)
      BY <2>1, DivMod
    <2> QED
      BY <2>2, <2>3, <2>4
  <1>2. p * (e - d) = m + 1 - k
    <2>1. n = p * d + m /\ n + 1 = p * e + k
      BY <1>1
    <2>2. p * (e - d) = p * e - p * d
      BY SMTT(60)
    <2> QED
      BY SMTT(60), <2>1, <2>2
  <1>3. e - d > -1
    <2> SUFFICES ASSUME e - d <= -1 PROVE FALSE
      BY SMTT(60)
    <2>1. p * (e - d) <= -p
      BY SMTT(60)
    <2> QED
      BY SMTT(60), <1>2, <2>1
  <1>4. e - d < 2
    <2> SUFFICES ASSUME e - d >= 2 PROVE FALSE
      BY SMTT(60)
    <2>1. p * (e - d) >= 2 * p
      BY SMTT(60)
    <2> QED
      BY SMTT(60), <1>2, <2>1
  <1>5. k = IF m + 1 = p THEN 0 ELSE m + 1
    <2>1. CASE e - d = 0
      BY SMTT(60), <1>2, <2>1
    <2>2. CASE e - d = 1
      BY SMTT(60), <1>2, <2>2
    <2> QED
      BY SMTT(60), <1>3, <1>4, <2>1, <2>2
  <1> QED
    BY <1>1, <1>5

LEMMA LoopInitInv == LoopInit => LoopInv
  <1> SUFFICES ASSUME LoopInit PROVE LoopInv
    OBVIOUS
  <1>1. cursor \in [SinkId -> Nat] /\ handed \in [SinkId -> [PathId -> Nat]]
    BY DEF LoopInit
  <1>2. ASSUME NEW s \in SinkId PROVE Rounds(s, 0)
    <2>1. 0 % Paths = 0
      BY SMTT(60), LoopAssumption
    <2>2. cursor[s] = 0 /\ \A p \in PathId : handed[s][p] = 0 /\ ~(p <= 0)
      BY SMTT(60), LoopAssumption DEF LoopInit, PathId
    <2> QED
      BY SMTT(60), <2>1, <2>2 DEF Rounds
  <1> QED
    BY <1>1, <1>2 DEF LoopInv

LEMMA PickInv ==
  ASSUME LoopInv, NEW t \in LoopThread, Pick(t)
  PROVE  LoopInv'
  <1> PICK s \in SinkId : s = SinkOf[t]
    BY LoopAssumption DEF SinkId
  <1>1. cursor[s] \in Nat /\ Paths \in Nat \ {0}
    BY LoopAssumption DEF LoopInv
  <1>2. PICK n \in Nat, m \in 0..(Paths - 1) : n = cursor[s] /\ m = cursor[s] % Paths
    BY <1>1, DivMod
  <1>3. turn(s) = m + 1 /\ m + 1 \in PathId
    BY SMTT(60), <1>1, <1>2 DEF turn, PathId
  <1>4. /\ cursor' = [cursor EXCEPT ![s] = @ + 1]
        /\ handed' = [handed EXCEPT ![s][m + 1] = @ + 1]
    BY <1>3 DEF Pick
  <1>5. cursor' \in [SinkId -> Nat] /\ handed' \in [SinkId -> [PathId -> Nat]]
    BY SMTT(60), <1>3, <1>4 DEF LoopInv
  <1>6. cursor'[s] = n + 1 /\ \A r \in SinkId : r # s => cursor'[r] = cursor[r]
    BY <1>2, <1>4 DEF LoopInv
  <1>7. ASSUME NEW r \in SinkId, NEW p \in PathId
        PROVE  handed'[r][p] = IF r = s /\ p = m + 1 THEN handed[r][p] + 1 ELSE handed[r][p]
    BY <1>3, <1>4 DEF LoopInv
  <1>8. ASSUME NEW r \in SinkId PROVE \E q \in Nat : Rounds(r, q)'
    <2>1. PICK q \in Nat : Rounds(r, q)
      BY DEF LoopInv
    <2>2. CASE r # s
      <3>1. Rounds(r, q)'
        BY <1>6, <1>7, <2>1, <2>2 DEF Rounds
      <3> QED
        BY <3>1
    <2>3. CASE r = s
      <3>1. \A p \in PathId : handed[s][p] = q + (IF p <= m THEN 1 ELSE 0)
        BY <1>2, <2>1, <2>3 DEF Rounds
      <3>2. \A p \in PathId : handed'[s][p] = q + (IF p <= m + 1 THEN 1 ELSE 0)
        <4> SUFFICES ASSUME NEW p \in PathId PROVE handed'[s][p] = q + (IF p <= m + 1 THEN 1 ELSE 0)
          OBVIOUS
        <4>1. PICK h \in Nat : h = handed[s][p]
          BY DEF LoopInv
        <4>2. h = q + (IF p <= m THEN 1 ELSE 0)
          BY <3>1, <4>1
        <4>3. p \in Nat
          BY SMTT(60) DEF PathId
        <4>4. handed'[s][p] = IF p = m + 1 THEN h + 1 ELSE h
          BY <1>7, <4>1
        <4>5. (IF p = m + 1 THEN h + 1 ELSE h) = q + (IF p <= m + 1 THEN 1 ELSE 0)
          BY SMTT(60), <4>2, <4>3
        <4> QED
          BY <4>4, <4>5
      <3>3. (n + 1) % Paths = IF m + 1 = Paths THEN 0 ELSE m + 1
        BY <1>1, <1>2, ModSuccessor
      <3>4. CASE m + 1 = Paths
        <4>1. \A p \in PathId : p <= m + 1 /\ ~(p <= 0)
          BY SMTT(60), <1>1, <3>4 DEF PathId
        <4>2. \A p \in PathId : handed'[s][p] = (q + 1) + (IF p <= 0 THEN 1 ELSE 0)
          BY SMTT(60), <3>2, <4>1
        <4>3. cursor'[s] % Paths = 0
          BY <1>6, <3>3, <3>4
        <4>4. Rounds(s, q + 1)'
          BY <4>2, <4>3 DEF Rounds
        <4> QED
          BY SMTT(60), <2>3, <4>4
      <3>5. CASE m + 1 # Paths
        <4>1. cursor'[s] % Paths = m + 1
          BY <1>6, <3>3, <3>5
        <4>2. Rounds(s, q)'
          BY <3>2, <4>1 DEF Rounds
        <4> QED
          BY <2>3, <4>2
      <3> QED
        BY <3>4, <3>5
    <2> QED
      BY <2>2, <2>3
  <1> QED
    BY <1>5, <1>8 DEF LoopInv

\* A sink deals its frames out evenly, for any number of paths and of threads
\* that send through it (MultipathSink::send, transport/src/multipath.rs).
THEOREM FramesAreSpreadEvenly == LoopSpec => []SpreadEvenly
  <1>1. LoopInv /\ [LoopNext]_loopVars => LoopInv'
    <2> SUFFICES ASSUME LoopInv, [LoopNext]_loopVars PROVE LoopInv'
      OBVIOUS
    <2>1. CASE UNCHANGED <<cursor, handed>>
      BY <2>1 DEF LoopInv, Rounds
    <2>2. CASE \E t \in LoopThread : Pick(t)
      BY <2>2, PickInv
    <2> QED
      BY <2>1, <2>2 DEF LoopNext, OpenStream, Serve, Accept, Recv, Send, loopVars
  <1>2. LoopInv => SpreadEvenly
    <2> SUFFICES ASSUME LoopInv, NEW s \in SinkId, NEW p \in PathId, NEW r \in PathId
                 PROVE  handed[s][p] <= handed[s][r] + 1
      BY DEF SpreadEvenly
    <2>1. PICK q \in Nat : Rounds(s, q)
      BY DEF LoopInv
    <2>2. PICK m : m = cursor[s] % Paths
      OBVIOUS
    <2>3. \A x \in PathId : handed[s][x] = q + (IF x <= m THEN 1 ELSE 0)
      BY <2>1, <2>2 DEF Rounds
    <2>4. \A x \in PathId : handed[s][x] \in {q, q + 1}
      BY SMTT(60), <2>3
    <2> QED
      BY SMTT(60), <2>4
  <1> QED
    BY <1>1, <1>2, LoopInitInv, PTL DEF LoopSpec

(***************************************************************************)
(* Induction by least counterexamples, for what the filter's grow does.    *)
(***************************************************************************)
LEMMA LeastNat ==
  ASSUME NEW T \in SUBSET Nat, T # {}
  PROVE  \E x \in T : \A y \in T : x <= y
  <1>1. \E x \in T : \A y \in T : ~ (<<y, x>> \in OpToRel(<, Nat))
    BY WFMin, NatLessThanWellFounded
  <1>2. OpToRel(<, Nat) = {ss \in Nat \X Nat : ss[1] < ss[2]}
    BY DEF OpToRel
  <1>3. \A x, y \in Nat : <<y, x>> \in {ss \in Nat \X Nat : ss[1] < ss[2]} <=> y < x
    BY SMTT(60)
  <1>4. \A x, y \in Nat : ~(y < x) => x <= y
    BY SMTT(60)
  <1>5. PICK x \in T : \A y \in T : ~ (<<y, x>> \in OpToRel(<, Nat))
    BY <1>1
  <1>6. \A y \in T : x <= y
    BY <1>2, <1>3, <1>4, <1>5
  <1> QED
    BY <1>6

\* The subsets of S of up to n elements.
PartsUpTo(S, n) == {s \in SUBSET S : Cardinality(s) <= n}

LEMMA LessOne ==
  ASSUME NEW s, IsFiniteSet(s), s # {}, NEW x \in s
  PROVE  /\ IsFiniteSet(s \ {x}) /\ Cardinality(s \ {x}) = Cardinality(s) - 1
         /\ Cardinality(s) \in Nat /\ Cardinality(s \ {x}) \in Nat /\ Cardinality(s) > 0
  <1>1. IsFiniteSet(s \ {x}) /\ Cardinality(s \ {x}) = Cardinality(s) - 1
    BY FS_RemoveElement
  <1>2. Cardinality(s) \in Nat /\ Cardinality(s \ {x}) \in Nat
    BY <1>1, FS_CardinalityType
  <1> QED
    BY SMTT(60), <1>1, <1>2

\* Induction on the size of a finite set: from a set that has the property,
\* less one element, to the set.
LEMMA SmallestSet ==
  ASSUME NEW S, IsFiniteSet(S), NEW B \in SUBSET SUBSET S, B # {}
  PROVE  \E s \in B : /\ IsFiniteSet(s)
                      /\ \A x \in s : s \ {x} \notin B
  <1> DEFINE N == {Cardinality(s) : s \in B}
  <1>0. \A s \in B : IsFiniteSet(s) /\ Cardinality(s) \in Nat
    BY FS_Subset, FS_CardinalityType
  <1>1. N \in SUBSET Nat /\ N # {}
    BY <1>0
  <1>2. PICK n \in N : \A m \in N : n <= m
    BY <1>1, LeastNat
  <1>3. PICK s \in B : n = Cardinality(s)
    OBVIOUS
  <1>4. ASSUME NEW x \in s, s \ {x} \in B PROVE FALSE
    <2>1. Cardinality(s \ {x}) = Cardinality(s) - 1 /\ Cardinality(s) \in Nat
      BY <1>0, <1>4, LessOne
    <2>2. Cardinality(s) <= Cardinality(s \ {x})
      BY <1>2, <1>3, <1>4
    <2> QED
      BY SMTT(60), <2>1, <2>2
  <1> QED
    BY <1>0, <1>4

\* The hashes of a table that has not grown.
LEMMA Hashes ==
  /\ Id # {} /\ FP \in [Id -> Nat \ {0}] /\ SLOTS \in Nat \ {0} /\ KICKS \in Nat \ {0}
  /\ Width \in Nat \ {0}
  /\ \A id \in Id : First(id, Width) \in 0..(Width - 1)
  /\ \A i \in 0..(Width - 1) : \A f \in Fp : Alt(i, f, Width) \in 0..(Width - 1)
  /\ \A i \in 0..(Width - 1) : \A f \in Fp : Alt(Alt(i, f, Width), f, Width) = i
  BY HashAssumption DEF Widths

LEMMA FpNotZero == \A id \in Id : FP[id] \in Fp /\ FP[id] \in Nat /\ FP[id] # 0
  BY Hashes DEF Fp

LEMMA FpNat == \A f \in Fp : f \in Nat /\ f # 0
  BY Hashes DEF Fp

LEMMA CandidatesInRange == \A id \in Id : Candidates(id) \subseteq 0..(Width - 1)
  BY Hashes, FpNotZero DEF Candidates

\* The alternate index of a candidate is a candidate.
LEMMA AltCandidate ==
  ASSUME NEW id \in Id, NEW i \in Candidates(id)
  PROVE  Alt(i, FP[id], Width) \in Candidates(id)
  <1>1. First(id, Width) \in 0..(Width - 1) /\ FP[id] \in Fp
    BY Hashes, FpNotZero
  <1>2. Alt(Alt(First(id, Width), FP[id], Width), FP[id], Width) = First(id, Width)
    BY <1>1, Hashes
  <1> QED
    BY <1>2 DEF Candidates

LEMMA VictimSlot == \A f \in Fp : Victim(f) \in Slot
  BY SMTT(60), Hashes, FpNat DEF Victim, Slot

\* A full bucket holds a fingerprint in every slot.
LEMMA FullBucket ==
  ASSUME NEW bucket \in Bucket, Free(bucket) = {}, NEW s \in Slot
  PROVE  bucket[s] \in Fp
  BY DEF Bucket, Free

\* The first empty slot is the only one a placement changes.
LEMMA PutFirstEffect ==
  ASSUME NEW bucket \in Bucket, NEW f \in Fp, Free(bucket) # {}
  PROVE  /\ PutFirst(bucket, f) \in Bucket
         /\ \E s \in Slot : PutFirst(bucket, f)[s] = f
         /\ \A s \in Slot : bucket[s] # 0 => PutFirst(bucket, f)[s] = bucket[s]
  <1> DEFINE s0 == CHOOSE s \in Free(bucket) : \A r \in Free(bucket) : s <= r
  <1>1. Free(bucket) \subseteq Slot /\ Slot \subseteq Nat
    BY SMTT(60), Hashes DEF Free, Slot
  <1>2. \E s \in Free(bucket) : \A r \in Free(bucket) : s <= r
    <2> DEFINE R == OpToRel(<, Nat)
    <2>1. \A x, y \in Nat : <<y, x>> \notin R => x <= y
      BY SMTT(60) DEF OpToRel
    <2>2. IsWellFoundedOn(R, Nat)
      BY NatLessThanWellFounded
    <2> HIDE DEF R
    <2>3. Free(bucket) \subseteq Nat
      BY <1>1
    <2>4. \E s \in Free(bucket) : \A r \in Free(bucket) : ~ (<<r, s>> \in R)
      BY <2>2, <2>3, WFMin
    <2> QED
      BY <2>1, <2>3, <2>4
  <1>3. s0 \in Free(bucket)
    BY <1>2
  <1>4. s0 \in Slot /\ bucket[s0] = 0
    BY <1>3 DEF Free
  <1>5. PutFirst(bucket, f) = [bucket EXCEPT ![s0] = f]
    BY DEF PutFirst
  <1> HIDE DEF s0
  <1> QED
    BY <1>4, <1>5 DEF Bucket

LEMMA SuccNat == \A n \in Nat : n + 1 \in Nat /\ n + 1 > 0
  BY SMTT(60)

LEMMA NoRegType == NoReg \in Reg
  <1>1. PICK id \in Id : id = (CHOOSE x \in Id : TRUE)
    BY Hashes
  <1>2. FP[id] \in Fp
    BY FpNotZero
  <1> QED
    BY <1>1, <1>2 DEF NoReg, Reg

LEMMA GotoEffect ==
  ASSUME pc \in [Proc -> Label], NEW p \in Proc, NEW label \in Label, Goto(p, label)
  PROVE  /\ pc' \in [Proc -> Label] /\ pc'[p] = label
         /\ \A q \in Proc \ {p} : pc'[q] = pc[q]
  BY DEF Goto

LEMMA RegEffect ==
  ASSUME reg \in [Proc -> Reg], NEW p \in Proc, NEW r \in Reg, reg' = [reg EXCEPT ![p] = r]
  PROVE  /\ reg' \in [Proc -> Reg] /\ reg'[p] = r
         /\ \A q \in Proc \ {p} : reg'[q] = reg[q]
  OBVIOUS

LEMMA ReturnEffect ==
  ASSUME pc \in [Proc -> Label], reg \in [Proc -> Reg], NEW p \in Proc, Return(p)
  PROVE  /\ pc' \in [Proc -> Label] /\ pc'[p] = "idle"
         /\ reg' \in [Proc -> Reg]
         /\ \A q \in Proc \ {p} : pc'[q] = pc[q] /\ reg'[q] = reg[q]
  <1>1. "idle" \in Label
    BY DEF Label
  <1> QED
    BY <1>1, GotoEffect, RegEffect, NoRegType DEF Return

-----------------------------------------------------------------------------
(***************************************************************************)
(* CuckooFilter, whatever its table has grown to: a mask read without a    *)
(* lock is never wider than the table.                                     *)
(***************************************************************************)
Widened(n) == [0..(n - 1) -> Bucket]

LEMMA WidthsAreNats == \A n \in Widths : n \in Nat \ {0}
  BY SMTT(60), HashAssumption DEF Widths

\* One fingerprint goes into a bucket of the wider table.
LEMMA RehashTypes ==
  ASSUME NEW n \in Widths, NEW tab \in Widened(n), NEW f \in Fp
  PROVE  RehashOne(tab, f) \in Widened(n)
  <1> DEFINE put(b) == IF Free(tab[b]) = {} THEN tab[b] ELSE PutFirst(tab[b], f)
  <1>1. DOMAIN tab = 0..(n - 1) /\ \A b \in 0..(n - 1) : tab[b] \in Bucket
    BY DEF Widened
  <1>2. Cardinality(DOMAIN tab) = n
    <2>1. n \in Nat \ {0}
      BY WidthsAreNats
    <2>2. 0 \in Int /\ n - 1 \in Int /\ 0 <= n - 1 /\ (n - 1) - 0 + 1 = n
      BY SMTT(60), <2>1
    <2> QED
      BY SMTT(60), <1>1, <2>1, <2>2, FS_Interval
  <1>3. \A b \in 0..(n - 1) : put(b) \in Bucket
    BY <1>1, PutFirstEffect
  <1>4. \A i \in 0..(n - 1) : Alt(i, f, n) \in 0..(n - 1)
    BY HashAssumption
  <1>5. Rehash(f, n) \in 0..(n - 1)
    BY HashAssumption
  <1>6. PICK b \in 0..(n - 1) : RehashOne(tab, f) = [tab EXCEPT ![b] = put(b)]
    BY <1>2, <1>4, <1>5 DEF RehashOne
  <1>7. put(b) \in Bucket
    BY <1>3
  <1> HIDE DEF put
  <1> QED
    BY <1>1, <1>6, <1>7 DEF Widened

\* The slots are visited from a last one: bucket by bucket, slot by slot.
LEMMA LastSlotIn ==
  ASSUME NEW n \in Nat, NEW s \in SUBSET ((0..(n - 1)) \X Slot), s # {}
  PROVE  LastSlot(s) \in s
  <1>0. \A x \in s : x[1] \in 0..(n - 1) /\ x[2] \in Slot
    OBVIOUS
  <1>1. SLOTS \in Nat /\ \A k \in Slot : k \in Nat /\ SLOTS - k \in Nat
    BY SMTT(60), Hashes DEF Slot
  <1>2. \A k \in 0..(n - 1) : k \in Nat /\ n - k \in Nat
    BY SMTT(60)
  <1> DEFINE A == {n - x[1] : x \in s}
  <1>3. PICK a \in A : \A y \in A : a <= y
    <2>1. A \in SUBSET Nat /\ A # {}
      BY <1>0, <1>2
    <2> HIDE DEF A
    <2> QED
      BY <2>1, LeastNat
  <1>4. PICK u \in s : a = n - u[1]
    OBVIOUS
  <1> DEFINE C == {x \in s : x[1] = u[1]}
             B == {SLOTS - x[2] : x \in C}
  <1>5. PICK b \in B : \A y \in B : b <= y
    <2>1. B \in SUBSET Nat /\ B # {}
      BY <1>0, <1>1
    <2> HIDE DEF B
    <2> QED
      BY <2>1, LeastNat
  <1>6. PICK v \in C : b = SLOTS - v[2]
    OBVIOUS
  <1>7. ASSUME NEW y \in s PROVE y[1] < v[1] \/ (y[1] = v[1] /\ y[2] <= v[2])
    <2>1. n - u[1] <= n - y[1]
      BY <1>3, <1>4
    <2>2. y[1] = u[1] => SLOTS - v[2] <= SLOTS - y[2]
      BY <1>5, <1>6
    <2>3. /\ y[1] \in Nat /\ u[1] \in Nat /\ v[1] = u[1] /\ y[2] \in Nat /\ v[2] \in Nat
          /\ n \in Nat /\ SLOTS \in Nat
      BY <1>0, <1>1, <1>2, <1>4, <1>6
    <2>4. PICK k \in Nat, l \in Nat, i \in Nat, j \in Nat :
            k = y[1] /\ l = u[1] /\ i = y[2] /\ j = v[2]
      BY <2>3
    <2>5. k < l \/ (k = l /\ i <= j)
      BY SMTT(60), <2>1, <2>2, <2>3, <2>4
    <2> QED
      BY <2>3, <2>4, <2>5
  <1>8. \E x \in s : \A y \in s : y[1] < x[1] \/ (y[1] = x[1] /\ y[2] <= x[2])
    BY <1>6, <1>7
  <1> QED
    BY <1>8 DEF LastSlot

\* What grow folds over the slots in use.
Rehashes(iter, base, S) ==
  iter = [s \in SUBSET S |->
            IF s = {} THEN base
            ELSE LET x == LastSlot(s) IN RehashOne(iter[s \ {x}], table[x[1]][x[2]])]

LEMMA GrownTable ==
  ASSUME NEW S, NEW base
  PROVE  MapThenFoldSet(LAMBDA f, tab : RehashOne(tab, f), base,
                        LAMBDA x : table[x[1]][x[2]], LastSlot, S)
           = (CHOOSE iter : Rehashes(iter, base, S))[S]
  BY DEF MapThenFoldSet, Rehashes

LEMMA SlotsFinite ==
  ASSUME NEW n \in Nat, NEW S \in SUBSET ((0..(n - 1)) \X Slot)
  PROVE  IsFiniteSet(S)
  <1>1. IsFiniteSet(0..(n - 1))
    BY SMTT(60), FS_Interval
  <1>2. IsFiniteSet(Slot)
    <2>1. SLOTS \in Int
      BY SMTT(60), Hashes
    <2> QED
      BY SMTT(60), <2>1, FS_Interval DEF Slot
  <1> QED
    BY <1>1, <1>2, FS_Product, FS_Subset

LEMMA RehashExists ==
  ASSUME NEW n \in Nat, NEW S \in SUBSET ((0..(n - 1)) \X Slot), NEW base
  PROVE  \E iter : Rehashes(iter, base, S)
  <1> DEFINE Value(g, s) == IF s = {} THEN base
                            ELSE LET x == LastSlot(s) IN RehashOne(g[s \ {x}], table[x[1]][x[2]])
             Good(k) == \E g : g = [s \in PartsUpTo(S, k) |-> Value(g, s)]
             Bad == {k \in Nat : ~Good(k)}
  <1>0. IsFiniteSet(S) /\ \A s \in SUBSET S : IsFiniteSet(s) /\ Cardinality(s) \in Nat
    BY SlotsFinite, FS_Subset, FS_CardinalityType
  <1>1. Good(0)
    <2>1. \A s \in PartsUpTo(S, 0) : s = {}
      <3>1. \A s \in PartsUpTo(S, 0) : s \in SUBSET S /\ Cardinality(s) <= 0
        BY DEF PartsUpTo
      <3>2. \A s \in PartsUpTo(S, 0) : Cardinality(s) = 0
        BY SMTT(60), <1>0, <3>1
      <3> QED
        BY <1>0, <3>1, <3>2, FS_EmptySet
    <2>2. PICK g : g = [s \in PartsUpTo(S, 0) |-> base]
      OBVIOUS
    <2> QED
      BY <2>1, <2>2
  <1>2. ASSUME NEW k \in Nat, Good(k) PROVE Good(k + 1)
    <2>1. PICK g : g = [s \in PartsUpTo(S, k) |-> Value(g, s)]
      BY <1>2
    <2>2. PICK h : h = [s \in PartsUpTo(S, k + 1) |-> Value(g, s)]
      OBVIOUS
    <2>3. ASSUME NEW s \in PartsUpTo(S, k + 1), s # {}
          PROVE  s \ {LastSlot(s)} \in PartsUpTo(S, k) /\ s \ {LastSlot(s)} \in PartsUpTo(S, k + 1)
      <3>1. s \in SUBSET S /\ Cardinality(s) <= k + 1
        BY DEF PartsUpTo
      <3>5. s \in SUBSET ((0..(n - 1)) \X Slot)
        BY <3>1
      <3>6. LastSlot(s) \in s
        BY <2>3, <3>5, LastSlotIn
      <3>2. Cardinality(s \ {LastSlot(s)}) = Cardinality(s) - 1 /\ Cardinality(s) \in Nat
        BY <1>0, <2>3, <3>1, <3>6, LessOne
      <3>3. Cardinality(s \ {LastSlot(s)}) <= k /\ Cardinality(s \ {LastSlot(s)}) <= k + 1
        BY SMTT(60), <3>1, <3>2
      <3>4. s \ {LastSlot(s)} \in SUBSET S
        BY <3>1
      <3> QED
        BY <3>3, <3>4 DEF PartsUpTo
    <2>4. \A s \in PartsUpTo(S, k) : s \in PartsUpTo(S, k + 1)
      <3>1. \A s \in SUBSET S : Cardinality(s) <= k => Cardinality(s) <= k + 1
        BY SMTT(60), <1>0
      <3> QED
        BY <3>1 DEF PartsUpTo
    <2>5. \A s \in PartsUpTo(S, k) : h[s] = g[s]
      BY <2>1, <2>2, <2>4
    <2>6. \A s \in PartsUpTo(S, k + 1) : Value(g, s) = Value(h, s)
      BY <2>3, <2>5
    <2> QED
      BY <2>2, <2>6
  <1> HIDE DEF Good
  <1>3. Bad = {}
    <2> SUFFICES ASSUME Bad # {} PROVE FALSE
      OBVIOUS
    <2>1. PICK k \in Bad : \A m \in Bad : k <= m
      <3>1. Bad \in SUBSET Nat
        OBVIOUS
      <3> QED
        BY <3>1, LeastNat
    <2>2. k \in Nat /\ ~Good(k)
      OBVIOUS
    <2>3. k # 0
      BY <1>1, <2>2
    <2>4. PICK m \in Nat : k = m + 1 /\ ~(k <= m)
      BY SMTT(60), <2>2, <2>3
    <2>5. Good(m)
      BY <2>1, <2>4
    <2> QED
      BY <1>2, <2>2, <2>4, <2>5
  <1>4. Cardinality(S) \in Nat /\ Good(Cardinality(S))
    BY <1>0, <1>3, FS_CardinalityType
  <1>5. PartsUpTo(S, Cardinality(S)) = SUBSET S
    <2>1. \A s \in SUBSET S : Cardinality(s) <= Cardinality(S)
      BY <1>0, FS_Subset
    <2> QED
      BY <2>1 DEF PartsUpTo
  <1> QED
    BY <1>4, <1>5 DEF Good, Rehashes

\* The wider table that grow builds has buckets of fingerprints.
LEMMA GrownTypes ==
  ASSUME NEW n \in Nat, NEW m \in Widths, FilterTypeOK, DOMAIN table = 0..(n - 1),
         NEW base \in Widened(m)
  PROVE  MapThenFoldSet(LAMBDA f, tab : RehashOne(tab, f), base,
                        LAMBDA x : table[x[1]][x[2]], LastSlot, Stored) \in Widened(m)
  <1> DEFINE S == Stored
  <1>1. S \in SUBSET ((0..(n - 1)) \X Slot) /\ \A x \in S : table[x[1]][x[2]] \in Fp
    <2>1. S \in SUBSET ((0..(n - 1)) \X Slot)
      BY DEF Stored
    <2>2. \A b \in 0..(n - 1), s \in Slot : table[b][s] \in Fp \cup {0}
      BY DEF FilterTypeOK, Bucket
    <2>3. \A x \in S : x[1] \in 0..(n - 1) /\ x[2] \in Slot /\ table[x[1]][x[2]] # 0
      BY DEF Stored
    <2> QED
      BY <2>1, <2>2, <2>3
  <1> HIDE DEF S
  <1>2. PICK iter : Rehashes(iter, base, S) /\ iter = (CHOOSE it : Rehashes(it, base, S))
    BY <1>1, RehashExists
  <1> DEFINE B == {s \in SUBSET S : iter[s] \notin Widened(m)}
  <1>3. B = {}
    <2> SUFFICES ASSUME B # {} PROVE FALSE
      OBVIOUS
    <2>0. IsFiniteSet(S)
      BY <1>1, SlotsFinite
    <2>1. PICK s \in B : \A x \in s : s \ {x} \notin B
      BY <2>0, SmallestSet
    <2>2. s \in SUBSET S /\ iter[s] \notin Widened(m)
      OBVIOUS
    <2>3. CASE s = {}
      BY <1>2, <2>2, <2>3 DEF Rehashes
    <2>4. CASE s # {}
      <3>1. LastSlot(s) \in s /\ s \ {LastSlot(s)} \in SUBSET S
        <4>1. s \in SUBSET ((0..(n - 1)) \X Slot)
          BY <1>1, <2>2
        <4> QED
          BY <2>2, <2>4, <4>1, LastSlotIn
      <3>2. PICK x : x = LastSlot(s)
        OBVIOUS
      <3>3. iter[s \ {x}] \in Widened(m) /\ table[x[1]][x[2]] \in Fp
        BY <1>1, <2>1, <2>2, <3>1, <3>2
      <3>4. iter[s] = RehashOne(iter[s \ {x}], table[x[1]][x[2]])
        BY <1>2, <2>2, <2>4, <3>2 DEF Rehashes
      <3> QED
        BY <2>2, <3>3, <3>4, RehashTypes
    <2> QED
      BY <2>3, <2>4
  <1>4. iter[S] \in Widened(m)
    BY <1>3
  <1> QED
    BY <1>2, <1>4, GrownTable DEF S

LEMMA GrowTypes ==
  ASSUME NEW n \in Widths, FilterTypeOK, DOMAIN table = 0..(n - 1), NEW p \in Proc, Grow(p)
  PROVE  \/ UNCHANGED table /\ Goto(p, "latch")
         \/ 2 * n \in Widths /\ table' \in Widened(2 * n) /\ Goto(p, "mask")
  <1>0. n \in Nat \ {0}
    BY WidthsAreNats
  <1>1. Cardinality(DOMAIN table) = n
    <2>1. 0 \in Int /\ n - 1 \in Int /\ 0 <= n - 1 /\ (n - 1) - 0 + 1 = n
      BY SMTT(60), <1>0
    <2> QED
      BY SMTT(60), <2>1, FS_Interval
  <1> DEFINE base == [b \in 0..(2 * n - 1) |-> EMPTY]
             wide == MapThenFoldSet(LAMBDA f, tab : RehashOne(tab, f), base,
                                    LAMBDA x : table[x[1]][x[2]], LastSlot, Stored)
  <1>2. CASE n >= MaxWidth
    BY <1>1, <1>2 DEF Grow
  <1>3. CASE ~(n >= MaxWidth)
    <2>1. 2 * n \in Widths
      BY SMTT(60), <1>0, <1>3, HashAssumption DEF Widths
    <2>2. base \in Widened(2 * n)
      BY DEF Widened, EMPTY, Bucket
    <2>3. wide \in Widened(2 * n)
      BY <1>0, <2>1, <2>2, GrownTypes
    <2>4. table' = [b \in 0..(2 * n - 1) |-> wide[b]] /\ Goto(p, "mask")
      BY <1>1, <1>3 DEF Grow
    <2> HIDE DEF wide
    <2> QED
      BY <2>1, <2>3, <2>4 DEF Widened
  <1> QED
    BY <1>2, <1>3

-----------------------------------------------------------------------------
\* The index a thread works with is below the mask, which only grows and is
\* never wider than the table.
Indexed(p) ==
  /\ pc[p] \in {"kick", "alt", "retry", "hash2", "probe"} => reg[p].i \in 0..(mask - 1)
  /\ pc[p] = "probe" => reg[p].j \in 0..(mask - 1)

GrowInv ==
  /\ FilterTypeOK
  /\ mask \in Widths
  /\ \E n \in Widths : DOMAIN table = 0..(n - 1) /\ mask <= n
  /\ \A p \in Proc : Indexed(p)

LEMMA InTable ==
  ASSUME GrowInv
  PROVE  \A k \in 0..(mask - 1) : k \in Nat /\ k \in DOMAIN table /\ table[k] \in Bucket
  <1>1. PICK n \in Widths : DOMAIN table = 0..(n - 1) /\ mask <= n
    BY DEF GrowInv
  <1>2. mask \in Nat /\ n \in Nat
    BY <1>1, WidthsAreNats DEF GrowInv
  <1>3. \A k \in 0..(mask - 1) : k \in Nat /\ k \in 0..(n - 1)
    BY SMTT(60), <1>1, <1>2
  <1> QED
    BY <1>1, <1>3 DEF GrowInv, FilterTypeOK

LEMMA HashesBelow ==
  ASSUME GrowInv, NEW r \in Reg
  PROVE  /\ First(r.id, mask) \in 0..(mask - 1) /\ FP[r.id] \in Fp
         /\ r.i \in 0..(mask - 1) => Alt(r.i, r.fp, mask) \in 0..(mask - 1)
  BY HashAssumption, FpNotZero DEF GrowInv, Reg

\* A step of a thread to a label, with new locals, in a table of the same
\* width.
LEMMA MovesOn ==
  ASSUME GrowInv, NEW p \in Proc, NEW r \in Reg, reg' = [reg EXCEPT ![p] = r],
         NEW label \in Label, Goto(p, label),
         mask' = mask, table' \in [DOMAIN table -> Bucket], count' \in Nat,
         saturated' \in BOOLEAN, present' \subseteq Id,
         label \in {"kick", "alt", "retry", "hash2", "probe"} => r.i \in 0..(mask - 1),
         label = "probe" => r.j \in 0..(mask - 1)
  PROVE  GrowInv'
  <1>1. /\ pc' \in [Proc -> Label] /\ pc'[p] = label
        /\ \A q \in Proc \ {p} : pc'[q] = pc[q]
    BY GotoEffect DEF GrowInv, FilterTypeOK
  <1>2. /\ reg' \in [Proc -> Reg] /\ reg'[p] = r
        /\ \A q \in Proc \ {p} : reg'[q] = reg[q]
    BY RegEffect DEF GrowInv, FilterTypeOK
  <1>3. DOMAIN table' = DOMAIN table
    OBVIOUS
  <1>4. FilterTypeOK'
    BY <1>1, <1>2, <1>3 DEF GrowInv, FilterTypeOK
  <1>5. \A q \in Proc : Indexed(q)'
    <2>1. Indexed(p)'
      BY <1>1, <1>2 DEF Indexed
    <2>2. \A q \in Proc \ {p} : Indexed(q)'
      BY <1>1, <1>2 DEF Indexed, GrowInv
    <2> QED
      BY <2>1, <2>2
  <1> QED
    BY <1>3, <1>4, <1>5 DEF GrowInv

\* The same, of a step that only moves the thread.
LEMMA Strolls ==
  ASSUME GrowInv, NEW p \in Proc, NEW r \in Reg, reg' = [reg EXCEPT ![p] = r],
         NEW label \in Label, Goto(p, label),
         UNCHANGED <<table, mask, count, present>>, saturated' \in BOOLEAN,
         label \in {"kick", "alt", "retry", "hash2", "probe"} => r.i \in 0..(mask - 1),
         label = "probe" => r.j \in 0..(mask - 1)
  PROVE  GrowInv'
  <1>1. table' \in [DOMAIN table -> Bucket] /\ count' \in Nat /\ present' \subseteq Id /\ mask' = mask
    BY DEF GrowInv, FilterTypeOK
  <1> QED
    BY <1>1, MovesOn

LEMMA PlaceGrow ==
  ASSUME GrowInv, NEW p \in Proc, pc[p] \in {"kick", "retry"}, Place(p)
  PROVE  GrowInv'
  <1> DEFINE b == reg[p].i
  <1>1. b \in 0..(mask - 1) /\ reg[p].fp \in Fp /\ reg[p].id \in Id
    BY DEF GrowInv, Indexed, FilterTypeOK, Reg
  <1>2. b \in DOMAIN table /\ table[b] \in Bucket /\ table \in [DOMAIN table -> Bucket]
    BY <1>1, InTable DEF GrowInv, FilterTypeOK
  <1>3. PutFirst(table[b], reg[p].fp) \in Bucket
    BY <1>1, <1>2, PutFirstEffect DEF Place
  <1>4. table' = [table EXCEPT ![b] = PutFirst(table[b], reg[p].fp)]
    BY DEF Place
  <1>5. /\ mask' = mask /\ saturated' \in BOOLEAN /\ present' \subseteq Id
        /\ reg' = [reg EXCEPT ![p] = NoReg] /\ Goto(p, "idle")
    BY <1>1 DEF Place, Return, GrowInv, FilterTypeOK
  <1>6. count' \in Nat
    BY SMTT(60) DEF Place, GrowInv, FilterTypeOK
  <1> HIDE DEF b
  <1>7. table' \in [DOMAIN table -> Bucket]
    BY <1>2, <1>3, <1>4
  <1>8. "idle" \in Label /\ "idle" \notin {"kick", "alt", "retry", "hash2", "probe"} /\ "idle" # "probe"
    BY DEF Label
  <1> QED
    BY <1>5, <1>6, <1>7, <1>8, NoRegType, MovesOn

LEMMA EvictGrow ==
  ASSUME GrowInv, NEW p \in Proc, pc[p] = "kick", Evict(p)
  PROVE  GrowInv'
  <1> DEFINE b == reg[p].i
             v == Victim(reg[p].fp)
             r == [reg[p] EXCEPT !.fp = table[b][v], !.n = @ + 1]
  <1>1. /\ b \in 0..(mask - 1) /\ reg[p].fp \in Fp /\ reg[p] \in Reg /\ v \in Slot
    BY VictimSlot DEF GrowInv, Indexed, FilterTypeOK, Reg
  <1>2. b \in DOMAIN table /\ table[b] \in Bucket /\ table \in [DOMAIN table -> Bucket]
    BY <1>1, InTable DEF GrowInv, FilterTypeOK
  <1>3. table[b][v] \in Fp
    BY <1>1, <1>2, FullBucket DEF Evict
  <1>4. r \in Reg /\ r.i = b
    <2>1. PICK k \in Nat : k = reg[p].n + 1
      BY <1>1, SuccNat DEF Reg
    <2>2. PICK f \in Fp : f = table[b][v]
      BY <1>3
    <2>3. r = [reg[p] EXCEPT !.fp = f, !.n = k]
      BY <2>1, <2>2
    <2> HIDE DEF r, v
    <2>4. r \in Reg
      BY <1>1, <2>3 DEF Reg
    <2>5. r.i = reg[p].i
      BY <1>1, <2>3 DEF Reg
    <2> QED
      BY <2>4, <2>5
  <1>5. [table[b] EXCEPT ![v] = reg[p].fp] \in Bucket
    BY <1>1, <1>2 DEF Bucket
  <1>6. /\ table' = [table EXCEPT ![b] = [table[b] EXCEPT ![v] = reg[p].fp]]
        /\ reg' = [reg EXCEPT ![p] = r] /\ Goto(p, "alt")
    BY DEF Evict
  <1> HIDE DEF r, v, b
  <1>7. table' \in [DOMAIN table -> Bucket]
    BY <1>2, <1>5, <1>6
  <1>8. mask' = mask /\ count' \in Nat /\ saturated' \in BOOLEAN /\ present' \subseteq Id
    BY DEF Evict, GrowInv, FilterTypeOK
  <1>9. "alt" \in Label /\ "alt" # "probe"
    BY DEF Label
  <1> QED
    BY <1>1, <1>4, <1>6, <1>7, <1>8, <1>9, MovesOn

\* The steps that only move a thread.
LEMMA WalkGrow ==
  ASSUME GrowInv, NEW p \in Proc,
         \/ \E id \in Id : InsertStart(p, id) \/ QueryStart(p, id)
         \/ Index(p) \/ AltIndex(p) \/ Reindex(p) \/ Latch(p)
         \/ QueryIndex(p) \/ QueryAlt(p) \/ Probe(p) \/ Absent(p)
  PROVE  GrowInv'
  <1> DEFINE At == {"kick", "alt", "retry", "hash2", "probe"}
  <1>0. /\ reg[p] \in Reg /\ saturated \in BOOLEAN /\ Indexed(p)
    BY DEF GrowInv, FilterTypeOK
  <1>1. /\ {"idle", "index", "kick", "grow", "retry", "hash", "hash2", "probe", "absent"} \subseteq Label
        /\ {"idle", "index", "grow", "hash", "absent"} \cap At = {}
    BY DEF Label
  <1>2. ASSUME Return(p), UNCHANGED <<table, mask, count, present>>, saturated' \in BOOLEAN PROVE GrowInv'
    <2>1. "idle" \in Label /\ "idle" \notin At /\ "idle" # "probe"
      BY <1>1
    <2> QED
      BY <1>2, <2>1, NoRegType, Strolls DEF Return
  <1>3. ASSUME NEW id \in Id, NEW v \in BOOLEAN, NEW label \in {"index", "hash"}, Goto(p, label),
               reg' = [reg EXCEPT ![p].id = id, ![p].sure = v],
               UNCHANGED <<table, mask, count, saturated, present>>
        PROVE  GrowInv'
    <2> DEFINE r == [reg[p] EXCEPT !.id = id, !.sure = v]
    <2>1. r \in Reg
      BY <1>0 DEF Reg
    <2>2. reg' = [reg EXCEPT ![p] = r]
      BY <1>3 DEF GrowInv, FilterTypeOK, Reg
    <2> HIDE DEF r
    <2>3. label \in Label /\ label \notin At /\ label # "probe" /\ saturated' \in BOOLEAN
      BY <1>0, <1>1, <1>3
    <2> QED
      BY <1>3, <2>1, <2>2, <2>3, Strolls
  <1>4. CASE \E id \in Id : InsertStart(p, id) \/ QueryStart(p, id)
    <2>1. ASSUME NEW id \in Id, InsertStart(p, id) PROVE GrowInv'
      <3>1. PICK v \in BOOLEAN : v = TRUE
        OBVIOUS
      <3> QED
        BY <1>3, <2>1, <3>1 DEF InsertStart
    <2>2. ASSUME NEW id \in Id, QueryStart(p, id) PROVE GrowInv'
      <3>2. (id \in present) \in BOOLEAN
        BY SMTT(60)
      <3>1. PICK v \in BOOLEAN : v = (id \in present)
        BY <3>2
      <3> QED
        BY <1>3, <2>2, <3>1 DEF QueryStart
    <2> QED
      BY <1>4, <2>1, <2>2
  <1>5. ASSUME NEW label \in {"kick", "retry", "hash2"}, Goto(p, label),
               reg' = [reg EXCEPT ![p].i = First(reg[p].id, mask), ![p].fp = FP[reg[p].id]],
               UNCHANGED <<table, mask, count, saturated, present>>
        PROVE  GrowInv'
    <2>1. PICK k, f : k = First(reg[p].id, mask) /\ f = FP[reg[p].id]
      OBVIOUS
    <2>2. k \in 0..(mask - 1) /\ k \in Nat /\ f \in Fp
      BY <1>0, <2>1, HashesBelow, InTable
    <2> DEFINE r == [reg[p] EXCEPT !.i = k, !.fp = f]
    <2>3. r \in Reg /\ r.i = k
      BY <1>0, <2>2 DEF Reg
    <2>4. reg' = [reg EXCEPT ![p] = r]
      BY <1>5, <2>1 DEF GrowInv, FilterTypeOK, Reg
    <2> HIDE DEF r
    <2>5. label \in Label /\ label # "probe" /\ saturated' \in BOOLEAN
      BY <1>0, <1>1, <1>5
    <2> QED
      BY <1>5, <2>2, <2>3, <2>4, <2>5, Strolls
  <1>6. CASE Index(p) \/ Reindex(p) \/ QueryIndex(p)
    BY <1>5, <1>6 DEF Index, Reindex, QueryIndex
  <1>7. CASE AltIndex(p)
    <2>1. PICK k : k = Alt(reg[p].i, reg[p].fp, mask)
      OBVIOUS
    <2>2. k \in 0..(mask - 1) /\ k \in Nat
      BY <1>0, <1>7, <2>1, HashesBelow, InTable DEF Indexed, AltIndex
    <2> DEFINE r == [reg[p] EXCEPT !.i = k]
               label == IF reg[p].n = KICKS THEN "grow" ELSE "kick"
    <2>3. r \in Reg /\ r.i = k
      BY <1>0, <2>2 DEF Reg
    <2>4. reg' = [reg EXCEPT ![p] = r] /\ Goto(p, label)
      BY <1>7, <2>1 DEF AltIndex
    <2>5. label \in Label /\ label # "probe" /\ saturated' \in BOOLEAN
      BY <1>0, <1>1, <1>7 DEF AltIndex
    <2> HIDE DEF r, label
    <2> QED
      BY <1>7, <2>2, <2>3, <2>4, <2>5, Strolls DEF AltIndex
  <1>8. CASE Latch(p) \/ Absent(p)
    BY <1>0, <1>2, <1>8 DEF Latch, Absent
  <1>9. CASE QueryAlt(p)
    <2>1. PICK k : k = Alt(reg[p].i, reg[p].fp, mask)
      OBVIOUS
    <2>2. k \in 0..(mask - 1) /\ k \in Nat /\ reg[p].i \in 0..(mask - 1)
      BY <1>0, <1>9, <2>1, HashesBelow, InTable DEF Indexed, QueryAlt
    <2> DEFINE r == [reg[p] EXCEPT !.j = k]
    <2>3. r \in Reg /\ r.j = k /\ r.i = reg[p].i
      BY <1>0, <2>2 DEF Reg
    <2>4. reg' = [reg EXCEPT ![p] = r] /\ Goto(p, "probe")
      BY <1>9, <2>1 DEF QueryAlt
    <2>5. "probe" \in Label /\ saturated' \in BOOLEAN
      BY <1>0, <1>1, <1>9 DEF QueryAlt
    <2> HIDE DEF r
    <2> QED
      BY <1>9, <2>2, <2>3, <2>4, <2>5, Strolls DEF QueryAlt
  <1>10. CASE Probe(p)
    <2>1. CASE Return(p)
      BY <1>0, <1>2, <1>10, <2>1 DEF Probe
    <2>2. CASE ~Return(p)
      <3>1. PICK k \in Nat : k = reg[p].n + 1
        BY <1>0, SuccNat DEF Reg
      <3>2. reg[p].i \in 0..(mask - 1) /\ reg[p].j \in 0..(mask - 1)
        BY <1>0, <1>10 DEF Indexed, Probe
      <3> DEFINE r == [reg[p] EXCEPT !.n = k]
                 label == IF reg[p].n + 1 = 2 * SLOTS THEN "absent" ELSE "probe"
      <3>3. r \in Reg /\ r.i = reg[p].i /\ r.j = reg[p].j
        BY <1>0, <3>1 DEF Reg
      <3>4. reg' = [reg EXCEPT ![p] = r] /\ Goto(p, label)
        BY <1>10, <2>2, <3>1 DEF Probe
      <3>5. label \in Label /\ saturated' \in BOOLEAN
        BY <1>0, <1>1, <1>10 DEF Probe
      <3> HIDE DEF r, label
      <3> QED
        BY <1>10, <3>2, <3>3, <3>4, <3>5, Strolls DEF Probe
    <2> QED
      BY <2>1, <2>2
  <1> QED
    BY <1>4, <1>6, <1>7, <1>8, <1>9, <1>10

\* A wider table leaves every index good, and so does a wider mask.
LEMMA WidenGrow ==
  ASSUME GrowInv, NEW p \in Proc, Grow(p) \/ StoreMask(p)
  PROVE  GrowInv'
  <1>0. PICK n \in Widths : DOMAIN table = 0..(n - 1) /\ mask <= n
    BY DEF GrowInv
  <1>1. FilterTypeOK /\ n \in Nat \ {0} /\ mask \in Nat /\ mask \in Widths
    BY WidthsAreNats DEF GrowInv
  <1>2. \A label \in {"latch", "mask", "reindex"} : Goto(p, label) =>
          /\ pc' \in [Proc -> Label] /\ pc'[p] = label
          /\ \A q \in Proc \ {p} : pc'[q] = pc[q]
    <2>1. {"latch", "mask", "reindex"} \subseteq Label
      BY DEF Label
    <2> QED
      BY <1>1, <2>1, GotoEffect DEF FilterTypeOK
  <1>3. \A label \in {"latch", "mask", "reindex"} : label \notin {"kick", "alt", "retry", "hash2", "probe"}
    OBVIOUS
  <1>4. CASE Grow(p)
    <2>1. UNCHANGED <<mask, count, saturated, reg, present>>
      BY <1>4 DEF Grow
    <2>2. \E label \in {"latch", "mask", "reindex"} : Goto(p, label)
      BY <1>4 DEF Grow
    <2>3. PICK m \in Widths : table' \in Widened(m) /\ mask <= m
      <3>1. CASE UNCHANGED table
        BY <1>0, <1>1, <3>1 DEF FilterTypeOK, Widened
      <3>2. CASE 2 * n \in Widths /\ table' \in Widened(2 * n)
        <4>1. mask <= 2 * n
          BY SMTT(60), <1>0, <1>1
        <4> QED
          BY <3>2, <4>1
      <3> QED
        BY <1>0, <1>1, <1>4, <3>1, <3>2, GrowTypes
    <2>4. DOMAIN table' = 0..(m - 1) /\ table' \in [DOMAIN table' -> Bucket]
      BY <2>3 DEF Widened
    <2>5. FilterTypeOK'
      BY <1>1, <1>2, <2>1, <2>2, <2>4 DEF FilterTypeOK
    <2>6. \A q \in Proc : Indexed(q)'
      <3>1. Indexed(p)'
        BY <1>2, <1>3, <2>2 DEF Indexed
      <3>2. \A q \in Proc \ {p} : Indexed(q)'
        BY <1>2, <2>1, <2>2 DEF Indexed, GrowInv
      <3> QED
        BY <3>1, <3>2
    <2> QED
      BY <1>1, <2>1, <2>3, <2>4, <2>5, <2>6 DEF GrowInv
  <1>5. CASE StoreMask(p)
    <2>1. UNCHANGED <<table, count, saturated, reg, present>> /\ Goto(p, "reindex")
      BY <1>5 DEF StoreMask
    <2>2. mask' = n
      <3>1. 0 \in Int /\ n - 1 \in Int /\ 0 <= n - 1 /\ (n - 1) - 0 + 1 = n
        BY SMTT(60), <1>1
      <3>2. Cardinality(0..(n - 1)) = n
        BY SMTT(60), <3>1, FS_Interval
      <3> QED
        BY <1>0, <1>5, <3>2 DEF StoreMask
    <2>3. n <= n /\ \A k \in 0..(mask - 1) : k \in 0..(n - 1)
      BY SMTT(60), <1>0, <1>1
    <2>4. FilterTypeOK'
      BY <1>1, <1>2, <2>1, <2>2 DEF FilterTypeOK
    <2>5. \A q \in Proc : Indexed(q)'
      <3>1. Indexed(p)'
        <4>1. pc'[p] = "reindex"
          BY <1>2, <2>1
        <4> QED
          BY <4>1 DEF Indexed
      <3>2. ASSUME NEW q \in Proc \ {p} PROVE Indexed(q)'
        <4>1. pc'[q] = pc[q] /\ reg'[q] = reg[q]
          BY <1>2, <2>1
        <4> QED
          BY <2>2, <2>3, <4>1 DEF Indexed, GrowInv
      <3> QED
        BY <3>1, <3>2
    <2> QED
      BY <1>0, <2>1, <2>2, <2>3, <2>4, <2>5 DEF GrowInv
  <1> QED
    BY <1>4, <1>5

LEMMA ClearGrow ==
  ASSUME GrowInv, clear
  PROVE  GrowInv'
  <1>1. EMPTY \in Bucket
    BY DEF EMPTY, Bucket
  <1>2. table' \in [DOMAIN table -> Bucket] /\ DOMAIN table' = DOMAIN table
    BY <1>1 DEF clear
  <1>3. \A q \in Proc : /\ [reg[q] EXCEPT !.sure = FALSE] \in Reg
                        /\ [reg[q] EXCEPT !.sure = FALSE].i = reg[q].i
                        /\ [reg[q] EXCEPT !.sure = FALSE].j = reg[q].j
    BY DEF GrowInv, FilterTypeOK, Reg
  <1>4. /\ reg' \in [Proc -> Reg]
        /\ \A q \in Proc : reg'[q].i = reg[q].i /\ reg'[q].j = reg[q].j
    BY <1>3 DEF clear
  <1>5. /\ mask' = mask /\ pc' = pc /\ count' = 0 /\ saturated' = FALSE /\ present' = {}
    BY DEF clear
  <1>6. 0 \in Nat /\ FALSE \in BOOLEAN
    BY SMTT(60)
  <1>7. FilterTypeOK'
    BY <1>2, <1>4, <1>5, <1>6 DEF GrowInv, FilterTypeOK
  <1>8. \A q \in Proc : Indexed(q)'
    BY <1>4, <1>5 DEF GrowInv, Indexed
  <1> QED
    BY <1>2, <1>5, <1>7, <1>8 DEF GrowInv

LEMMA GrowStep ==
  ASSUME GrowInv, FilterNext
  PROVE  GrowInv'
  <1>1. ASSUME NEW p \in Proc, Retry(p) PROVE GrowInv'
    <2>1. CASE Place(p)
      BY <1>1, <2>1, PlaceGrow DEF Retry
    <2>2. CASE ~Place(p)
      <3>1. Goto(p, "latch") /\ UNCHANGED <<table, mask, count, saturated, reg, present>>
        BY <1>1, <2>2 DEF Retry
      <3>2. "latch" \in Label /\ "latch" \notin {"kick", "alt", "retry", "hash2", "probe"} /\ "latch" # "probe"
        BY DEF Label
      <3>3. reg[p] \in Reg /\ reg' = [reg EXCEPT ![p] = reg[p]] /\ saturated' \in BOOLEAN
        BY <3>1 DEF GrowInv, FilterTypeOK
      <3> QED
        BY <3>1, <3>2, <3>3, Strolls
    <2> QED
      BY <2>1, <2>2
  <1>2. ASSUME NEW p \in Proc, Kick(p) PROVE GrowInv'
    BY <1>2, PlaceGrow, EvictGrow DEF Kick
  <1> QED
    BY <1>1, <1>2, WalkGrow, WidenGrow, ClearGrow DEF FilterNext, FilterStep

\* A table of the first width, empty.
LEMMA GrowFirst == FilterInit => GrowInv
  <1> SUFFICES ASSUME FilterInit PROVE GrowInv
    OBVIOUS
  <1>1. EMPTY \in Bucket /\ "idle" \in Label /\ "idle" \notin {"kick", "alt", "retry", "hash2", "probe"}
    BY DEF EMPTY, Bucket, Label
  <1>2. Width \in Nat /\ Width \in Widths /\ Width <= Width /\ 0 \in Nat
    BY SMTT(60), Hashes DEF Widths
  <1>3. FilterTypeOK
    BY <1>1, <1>2, NoRegType DEF FilterInit, FilterTypeOK
  <1>4. \A p \in Proc : Indexed(p)
    BY <1>1 DEF FilterInit, Indexed
  <1> QED
    BY <1>2, <1>3, <1>4 DEF FilterInit, GrowInv

LEMMA GrowKept == GrowInv /\ [FilterNext]_filterVars => GrowInv'
  <1>1. ASSUME GrowInv, UNCHANGED filterVars PROVE GrowInv'
    <2>1. UNCHANGED <<table, mask, count, saturated, pc, reg, present>>
      BY <1>1 DEF filterVars
    <2> QED
      BY <1>1, <2>1 DEF GrowInv, FilterTypeOK, Indexed
  <1> QED
    BY <1>1, GrowStep

\* insert and contains, however the table grows and is cleared between the
\* moment a thread computes an index from the mask, without a lock, and the
\* moment it holds the table's lock: the index is in the table.
THEOREM IndicesInBounds == FilterSpec => []InBounds
  <1>1. GrowInv => InBounds
    BY InTable DEF GrowInv, Indexed, InBounds
  <1> QED
    BY <1>1, GrowFirst, GrowKept, PTL DEF FilterSpec

-----------------------------------------------------------------------------
(***************************************************************************)
(* CuckooFilter, a table that has not grown: it loses nothing.             *)
(***************************************************************************)
\* A thread that is at a bucket of an id with its fingerprint.
Has(p, id) == reg[p].fp = FP[id] /\ reg[p].i \in Candidates(id)

\* What an insertion with no clear since it began relies on: its own id is
\* still held while it carries somebody else's fingerprint.
OwnHeld == \A p \in Proc : Carrying(p) /\ reg[p].sure => Has(p, reg[p].id) \/ Held(reg[p].id)

Bounded ==
  /\ DOMAIN table = 0..(Width - 1) /\ mask = Width
  /\ \A p \in Proc : /\ pc[p] \notin {"mask", "reindex", "retry"}
                     /\ pc[p] \in {"kick", "alt"} => reg[p].i \in 0..(Width - 1)

IInv ==
  /\ FilterTypeOK
  /\ Bounded
  /\ ~saturated => (\A id \in present : Held(id)) /\ OwnHeld

LEMMA OthersStay ==
  ASSUME FilterTypeOK, NEW p \in Proc, FilterStep(p), NEW q \in Proc \ {p}
  PROVE  pc'[q] = pc[q] /\ reg'[q] = reg[q]
  <1>1. pc \in [Proc -> Label] /\ reg \in [Proc -> Reg] /\ q \in Proc /\ q # p
    BY DEF FilterTypeOK
  <1>2. ASSUME NEW label, Goto(p, label) PROVE pc'[q] = pc[q]
    BY <1>1, <1>2 DEF Goto
  <1>3. ASSUME NEW r, reg' = [reg EXCEPT ![p] = r] PROVE reg'[q] = reg[q]
    BY <1>1, <1>3
  <1>4. \A label : Goto(p, label) => pc'[q] = pc[q]
    BY <1>2
  <1>5. Place(p) => pc'[q] = pc[q] /\ reg'[q] = reg[q]
    BY <1>1, <1>4 DEF Place, Return
  <1>6. Evict(p) => pc'[q] = pc[q] /\ reg'[q] = reg[q]
    BY <1>1, <1>4 DEF Evict
  <1>7. CASE \E id \in Id : InsertStart(p, id) \/ QueryStart(p, id)
    BY <1>1, <1>4, <1>7 DEF InsertStart, QueryStart
  <1>8. CASE Index(p) \/ AltIndex(p) \/ Reindex(p) \/ QueryIndex(p) \/ QueryAlt(p)
    BY <1>1, <1>4, <1>8 DEF Index, AltIndex, Reindex, QueryIndex, QueryAlt
  <1>9. CASE Kick(p) \/ Retry(p)
    BY <1>4, <1>5, <1>6, <1>9 DEF Kick, Retry
  <1>10. CASE Grow(p) \/ StoreMask(p)
    BY <1>4, <1>10 DEF Grow, StoreMask
  <1>11. CASE Latch(p) \/ Absent(p) \/ Probe(p)
    BY <1>1, <1>4, <1>11 DEF Latch, Absent, Probe, Return
  <1> QED
    BY <1>7, <1>8, <1>9, <1>10, <1>11 DEF FilterStep

\* The width a table has, and gets when it grows.
LEMMA GrowWidth ==
  ASSUME NEW n \in Nat, n >= Width, DOMAIN table = 0..(n - 1), NEW p \in Proc, Grow(p)
  PROVE  \/ UNCHANGED table /\ Goto(p, "latch")
         \/ DOMAIN table' = 0..(2 * n - 1)
  <1>1. Cardinality(DOMAIN table) = n
    <2>1. 0 \in Int /\ n - 1 \in Int /\ n > 0
      BY SMTT(60), Hashes
    <2> QED
      BY SMTT(60), <2>1, FS_Interval
  <1> QED
    BY <1>1 DEF Grow

\* While nothing grows, a thread is never between growing and retrying.
LEMMA StepsWhileUngrown ==
  ASSUME IInv, Ungrown', NEW p \in Proc, FilterStep(p)
  PROVE  \/ \E id \in Id : InsertStart(p, id) \/ QueryStart(p, id)
         \/ Index(p) \/ Kick(p) \/ AltIndex(p) \/ Latch(p)
         \/ Grow(p) /\ table' = table /\ reg' = reg /\ Goto(p, "latch")
         \/ QueryIndex(p) \/ QueryAlt(p) \/ Probe(p) \/ Absent(p)
  <1>1. ~StoreMask(p) /\ ~Reindex(p) /\ ~Retry(p)
    BY DEF IInv, Bounded, StoreMask, Reindex, Retry
  <1>2. CASE Grow(p)
    <2>1. Width \in 0..(2 * Width - 1) /\ Width \notin 0..(Width - 1) /\ Width \in Nat /\ Width >= Width
      BY SMTT(60), Hashes
    <2>2. ~ (DOMAIN table' = 0..(2 * Width - 1)) /\ DOMAIN table = 0..(Width - 1)
      BY <2>1 DEF Ungrown, IInv, Bounded
    <2>3. UNCHANGED table /\ Goto(p, "latch")
      BY <1>2, <2>1, <2>2, GrowWidth
    <2> QED
      BY <1>2, <2>3 DEF Grow
  <1> QED
    BY <1>1, <1>2 DEF FilterStep

LEMMA StaysBounded ==
  ASSUME IInv, GrowInv, Ungrown', FilterNext
  PROVE  FilterTypeOK' /\ Bounded'
  <1>1. GrowInv' /\ FilterTypeOK /\ mask = Width
    BY GrowStep DEF IInv, Bounded
  <1>2. mask' = mask /\ \A q \in Proc : pc'[q] \notin {"mask", "reindex", "retry"}
    <2>1. CASE clear
      BY <2>1 DEF clear, IInv, Bounded
    <2>2. ASSUME NEW p \in Proc, FilterStep(p)
          PROVE  mask' = mask /\ \A q \in Proc : pc'[q] \notin {"mask", "reindex", "retry"}
      <3>1. \A q \in Proc \ {p} : pc'[q] = pc[q]
        BY <1>1, <2>2, OthersStay
      <3>2. \A label : Goto(p, label) => pc'[p] = label
        BY <1>1 DEF Goto, FilterTypeOK
      <3>3. mask' = mask /\ pc'[p] \notin {"mask", "reindex", "retry"}
        <4>1. CASE (\E id \in Id : InsertStart(p, id) \/ QueryStart(p, id)) \/ Index(p) \/ AltIndex(p)
          BY <3>2, <4>1 DEF InsertStart, QueryStart, Index, AltIndex
        <4>2. CASE Kick(p) \/ Latch(p) \/ Absent(p) \/ Probe(p)
          BY <3>2, <4>2 DEF Kick, Place, Evict, Latch, Absent, Probe, Return
        <4>3. CASE (Grow(p) /\ Goto(p, "latch")) \/ QueryIndex(p) \/ QueryAlt(p)
          BY <3>2, <4>3 DEF Grow, QueryIndex, QueryAlt
        <4> QED
          BY <2>2, <4>1, <4>2, <4>3, StepsWhileUngrown
      <3> QED
        BY <3>1, <3>3 DEF IInv, Bounded
    <2> QED
      BY <2>1, <2>2 DEF FilterNext
  <1> QED
    BY <1>1, <1>2 DEF GrowInv, Indexed, Bounded, Ungrown

LEMMA SameHeld ==
  ASSUME NEW id, Held(id), table' = table,
         \A q \in Proc : Carrying(q) => Carrying(q)' /\ reg'[q] = reg[q]
  PROVE  Held(id)'
  BY DEF Held, Candidates

LEMMA PlaceHeld ==
  ASSUME IInv, NEW p \in Proc, pc[p] = "kick", Place(p), NEW id \in Id, Held(id) \/ Has(p, id)
  PROVE  Held(id)'
  <1> DEFINE b == reg[p].i
  <1>1. /\ b \in 0..(Width - 1) /\ reg[p].fp \in Fp /\ DOMAIN table = 0..(Width - 1)
        /\ table[b] \in Bucket /\ Free(table[b]) # {}
    BY DEF IInv, Bounded, FilterTypeOK, Reg, Place
  <1>2. /\ table'[b] = PutFirst(table[b], reg[p].fp)
        /\ \A c \in 0..(Width - 1) : c # b => table'[c] = table[c]
    BY <1>1 DEF Place, IInv, FilterTypeOK
  <1>3. \A q \in Proc \ {p} : reg'[q] = reg[q] /\ pc'[q] = pc[q]
    BY DEF Place, Return, Goto, IInv, FilterTypeOK
  <1>4. CASE \E c \in Candidates(id) : \E s \in Slot : table[c][s] = FP[id]
    <2>1. PICK c \in Candidates(id), s \in Slot : table[c][s] = FP[id]
      BY <1>4
    <2>2. c \in 0..(Width - 1) /\ FP[id] # 0
      BY <2>1, CandidatesInRange, FpNotZero
    <2>3. table'[c][s] = FP[id]
      <3>1. \A r \in Slot : table[b][r] # 0
                           => PutFirst(table[b], reg[p].fp)[r] = table[b][r]
        BY <1>1, PutFirstEffect
      <3>2. CASE c = b
        BY <1>2, <2>1, <2>2, <3>1, <3>2
      <3>3. CASE c # b
        BY <1>2, <2>1, <2>2, <3>3
      <3> QED
        BY <3>2, <3>3
    <2> QED
      BY <2>1, <2>3 DEF Held, Candidates
  <1>5. CASE \E q \in Proc : (q = p \/ (Carrying(q) /\ reg[q].n > 0)) /\ Has(q, id)
    <2>1. PICK q \in Proc : (q = p \/ (Carrying(q) /\ reg[q].n > 0)) /\ Has(q, id)
      BY <1>5
    <2>2. CASE q = p
      <3>1. \E s \in Slot : table'[b][s] = FP[id]
        <4>1. \E s \in Slot : PutFirst(table[b], reg[p].fp)[s] = reg[p].fp
          BY <1>1, PutFirstEffect
        <4>2. reg[p].fp = FP[id]
          BY <2>1, <2>2 DEF Has
        <4> QED
          BY <1>2, <4>1, <4>2
      <3> QED
        BY <2>1, <2>2, <3>1 DEF Held, Has, Candidates
    <2>3. CASE q # p
      BY <1>3, <2>1, <2>3 DEF Held, Has, Candidates, Carrying
    <2> QED
      BY <2>2, <2>3
  <1> QED
    BY <1>4, <1>5 DEF Held, Has

\* What an eviction takes out of the bucket the thread carries, and what it
\* carried is in the bucket.
LEMMA EvictHeld ==
  ASSUME IInv, NEW p \in Proc, pc[p] = "kick", Evict(p), NEW id \in Id, Held(id) \/ Has(p, id)
  PROVE  Held(id)'
  <1> DEFINE b == reg[p].i
             v == Victim(reg[p].fp)
  <1>1. /\ b \in 0..(Width - 1) /\ v \in Slot /\ DOMAIN table = 0..(Width - 1)
        /\ table \in [DOMAIN table -> Bucket]
    BY VictimSlot DEF IInv, Bounded, FilterTypeOK, Reg
  <1>2. /\ table'[b] = [table[b] EXCEPT ![v] = reg[p].fp]
        /\ \A c \in 0..(Width - 1) : c # b => table'[c] = table[c]
    BY <1>1 DEF Evict
  <1>3. /\ \A s \in Slot : table'[b][s] = IF s = v THEN reg[p].fp ELSE table[b][s]
    BY <1>1, <1>2 DEF Bucket
  <1>4. /\ pc'[p] = "alt" /\ reg'[p].fp = table[b][v] /\ reg'[p].i = b /\ reg'[p].n = reg[p].n + 1
        /\ \A q \in Proc \ {p} : reg'[q] = reg[q] /\ pc'[q] = pc[q]
    BY DEF Evict, Goto, IInv, FilterTypeOK, Reg
  <1>9. reg'[p].n > 0
    BY SMTT(60), <1>4 DEF IInv, FilterTypeOK, Reg
  <1> HIDE DEF v
  <1>5. CASE \E c \in Candidates(id) : \E s \in Slot : table[c][s] = FP[id]
    <2>1. PICK c \in Candidates(id), s \in Slot : table[c][s] = FP[id]
      BY <1>5
    <2>2. c \in 0..(Width - 1)
      BY <2>1, CandidatesInRange
    <2>3. CASE c = b /\ s = v
      BY <1>4, <1>9, <2>1, <2>3 DEF Held, Carrying, Candidates
    <2>4. CASE ~(c = b /\ s = v)
      <3>1. table'[c][s] = FP[id]
        BY <1>2, <1>3, <2>1, <2>2, <2>4
      <3> QED
        BY <2>1, <3>1 DEF Held, Candidates
    <2> QED
      BY <2>3, <2>4
  <1>6. CASE \E q \in Proc : (q = p \/ (Carrying(q) /\ reg[q].n > 0)) /\ Has(q, id)
    <2>1. PICK q \in Proc : (q = p \/ (Carrying(q) /\ reg[q].n > 0)) /\ Has(q, id)
      BY <1>6
    <2>2. CASE q = p
      <3>1. table'[b][v] = FP[id] /\ b \in Candidates(id)
        BY <1>1, <1>3, <2>1, <2>2 DEF Has
      <3> QED
        BY <1>1, <3>1 DEF Held, Candidates
    <2>3. CASE q # p
      BY <1>4, <2>1, <2>3 DEF Held, Has, Candidates, Carrying
    <2> QED
      BY <2>2, <2>3
  <1> QED
    BY <1>5, <1>6 DEF Held, Has

LEMMA AltHeld ==
  ASSUME IInv, NEW p \in Proc, AltIndex(p), NEW id \in Id
  PROVE  (Held(id) => Held(id)') /\ (Has(p, id) => Has(p, id)')
  <1>1. /\ table' = table /\ Carrying(p)' /\ reg'[p].fp = reg[p].fp /\ reg'[p].n = reg[p].n
        /\ reg'[p].i = Alt(reg[p].i, reg[p].fp, Width)
        /\ \A q \in Proc \ {p} : reg'[q] = reg[q] /\ pc'[q] = pc[q]
    BY DEF AltIndex, Goto, Carrying, IInv, FilterTypeOK, Bounded, Reg
  <1>4. Has(p, id) => Has(p, id)'
    <2> HAVE Has(p, id)
    <2>1. reg[p].fp = FP[id] /\ reg[p].i \in Candidates(id)
      BY DEF Has
    <2>2. reg'[p].i \in Candidates(id)
      BY <1>1, <2>1, AltCandidate
    <2> QED
      BY <1>1, <2>1, <2>2 DEF Has, Candidates
  <1>2. CASE \E c \in Candidates(id) : \E s \in Slot : table[c][s] = FP[id]
    BY <1>1, <1>2, <1>4 DEF Held, Candidates
  <1>3. CASE \E q \in Proc : Carrying(q) /\ reg[q].n > 0 /\ Has(q, id)
    <2>1. PICK q \in Proc : Carrying(q) /\ reg[q].n > 0 /\ Has(q, id)
      BY <1>3
    <2>2. CASE q = p
      <3>1. Has(p, id)'
        BY <1>4, <2>1, <2>2
      <3>2. reg'[p].n > 0
        BY <1>1, <2>1, <2>2
      <3> QED
        BY <1>1, <1>4, <3>1, <3>2 DEF Held, Has, Candidates
    <2>3. CASE q # p
      BY <1>1, <1>4, <2>1, <2>3 DEF Held, Has, Candidates, Carrying
    <2> QED
      BY <2>2, <2>3
  <1> QED
    BY <1>2, <1>3, <1>4 DEF Held, Has

\* indices puts the id's own fingerprint in the thread's hand, at the first
\* of its candidates.
LEMMA IndexEffect ==
  ASSUME IInv, NEW p \in Proc, Index(p)
  PROVE  reg'[p].id = reg[p].id /\ pc'[p] = "kick" /\ Has(p, reg[p].id)'
  <1>1. mask = Width /\ reg[p] \in Reg /\ pc'[p] = "kick"
    BY DEF Index, Goto, IInv, Bounded, FilterTypeOK
  <1>2. /\ reg'[p].id = reg[p].id
        /\ reg'[p].i = First(reg[p].id, Width) /\ reg'[p].fp = FP[reg[p].id]
    BY <1>1 DEF Index, IInv, FilterTypeOK, Reg
  <1> QED
    BY <1>1, <1>2 DEF Has, Candidates

\* The steps that neither touch the table nor change what a thread carries.
Quiet(p) ==
  /\ UNCHANGED <<table, saturated, present>>
  /\ \A q \in Proc : /\ Carrying(q)' => Carrying(q)
                     /\ Carrying(q) => Carrying(q)' /\ reg'[q] = reg[q]

LEMMA QuietSteps ==
  ASSUME IInv, NEW p \in Proc, FilterStep(p),
         \/ \E id \in Id : InsertStart(p, id) \/ QueryStart(p, id)
         \/ Grow(p) /\ table' = table /\ reg' = reg /\ Goto(p, "latch")
         \/ QueryIndex(p) \/ QueryAlt(p) \/ Probe(p) \/ Absent(p)
  PROVE  Quiet(p)
  <1>1. \A q \in Proc \ {p} : pc'[q] = pc[q] /\ reg'[q] = reg[q]
    BY OthersStay DEF IInv
  <1>2. \A label : Goto(p, label) => pc'[p] = label
    BY DEF Goto, IInv, FilterTypeOK
  <1>3. /\ UNCHANGED <<table, saturated, present>>
        /\ \/ reg'[p] = reg[p] /\ Carrying(p) /\ Carrying(p)'
           \/ ~Carrying(p) /\ ~Carrying(p)'
    <2>1. CASE \E id \in Id : InsertStart(p, id) \/ QueryStart(p, id)
      BY <1>2, <2>1 DEF InsertStart, QueryStart, Carrying
    <2>2. CASE Grow(p) /\ table' = table /\ reg' = reg /\ Goto(p, "latch")
      <3>1. pc[p] = "grow" /\ UNCHANGED <<table, saturated, present>>
        BY <2>2 DEF Grow
      <3>2. pc'[p] = "latch" /\ reg'[p] = reg[p]
        BY <1>2, <2>2
      <3> QED
        BY <3>1, <3>2 DEF Carrying
    <2>3. CASE QueryIndex(p) \/ QueryAlt(p)
      BY <1>2, <2>3 DEF QueryIndex, QueryAlt, Carrying
    <2>4. CASE Probe(p) \/ Absent(p)
      BY <1>2, <2>4 DEF Probe, Absent, Return, Carrying
    <2> QED
      BY <2>1, <2>2, <2>3, <2>4
  <1>4. \A q \in Proc \ {p} : /\ Carrying(q)' => Carrying(q)
                              /\ Carrying(q) => Carrying(q)' /\ reg'[q] = reg[q]
    BY <1>1 DEF Carrying
  <1> QED
    BY <1>3, <1>4 DEF Quiet

LEMMA ClearStep ==
  ASSUME IInv, GrowInv, Ungrown', clear
  PROVE  IInv'
  <1>1. FilterTypeOK' /\ Bounded'
    BY StaysBounded DEF FilterNext
  <1>2. \A q \in Proc : [reg[q] EXCEPT !.sure = FALSE].sure = FALSE
    BY DEF IInv, FilterTypeOK, Reg
  <1>3. \A q \in Proc : reg'[q].sure = FALSE
    BY <1>2 DEF clear
  <1> QED
    BY <1>1, <1>3 DEF clear, IInv, OwnHeld

\* A step that keeps what is held, and after which a thread in the loop is
\* one that was in the loop for the same id, keeps the rest of the invariant.
LEMMA KeepsHeld ==
  ASSUME IInv, NEW p \in Proc, FilterTypeOK', Bounded', saturated' = saturated,
         \A id \in Id : Held(id) => Held(id)',
         \A id \in present' :
            \/ id \in present
            \/ Carrying(p) /\ reg[p].sure /\ id = reg[p].id /\ (Has(p, id) => Held(id)'),
         \A q \in Proc : Carrying(q)' /\ reg'[q].sure =>
            /\ Carrying(q) /\ reg[q].sure /\ reg'[q].id = reg[q].id
            /\ Has(q, reg[q].id) => Has(q, reg[q].id)' \/ Held(reg[q].id)'
  PROVE  IInv'
  <1>1. CASE saturated'
    BY <1>1 DEF IInv
  <1>2. CASE ~saturated'
    <2>1. (\A id \in present : Held(id)) /\ OwnHeld
      BY <1>2 DEF IInv
    <2>2. \A q \in Proc : reg[q].id \in Id
      BY DEF IInv, FilterTypeOK, Reg
    <2>3. \A id \in present : id \in Id
      BY DEF IInv, FilterTypeOK
    <2>4. \A id \in present' : Held(id)'
      BY <2>1, <2>2, <2>3 DEF OwnHeld
    <2>5. \A q \in Proc : Carrying(q)' /\ reg'[q].sure =>
             (Has(q, reg[q].id)' \/ Held(reg[q].id)') /\ reg'[q].id = reg[q].id
      BY <2>1, <2>2 DEF OwnHeld
    <2>6. OwnHeld'
      BY <2>5 DEF OwnHeld, Held, Has, Candidates
    <2> QED
      BY <2>4, <2>6 DEF IInv
  <1> QED
    BY <1>1, <1>2

LEMMA StepHeld ==
  ASSUME IInv, GrowInv, Ungrown', NEW p \in Proc, FilterStep(p)
  PROVE  IInv'
  <1> DEFINE Same(q) == reg'[q] = reg[q] /\ pc'[q] = pc[q]
  <1>0. FilterTypeOK' /\ Bounded'
    BY StaysBounded DEF FilterNext
  <1>1. CASE Index(p)
    <2>1. /\ reg'[p].id = reg[p].id /\ pc'[p] = "kick"
          /\ Has(p, reg[p].id)'
      BY <1>1, IndexEffect
    <2>2. /\ table' = table /\ saturated' = saturated /\ present' = present /\ ~Carrying(p)
          /\ \A q \in Proc \ {p} : Same(q)
      BY <1>1 DEF Index, Goto, Carrying, IInv, FilterTypeOK
    <2>3. \A id \in Id : Held(id) => Held(id)'
      BY <2>2, SameHeld DEF Carrying
    <2>4. CASE ~saturated
      <3>1. (\A id \in present : Held(id)) /\ OwnHeld
        BY <2>4 DEF IInv
      <3>2. \A id \in present' : Held(id)'
        BY <2>2, <2>3, <3>1 DEF IInv, FilterTypeOK
      <3>3. \A q \in Proc : Carrying(q)' /\ reg'[q].sure =>
               (Has(q, reg[q].id)' \/ Held(reg[q].id)') /\ reg'[q].id = reg[q].id
        <4> SUFFICES ASSUME NEW q \in Proc, Carrying(q)', reg'[q].sure
                     PROVE  (Has(q, reg[q].id)' \/ Held(reg[q].id)') /\ reg'[q].id = reg[q].id
          OBVIOUS
        <4>1. CASE q = p
          BY <2>1, <4>1
        <4>2. CASE q # p
          <5>1. Same(q) /\ reg[q].id \in Id
            BY <2>2, <4>2 DEF IInv, FilterTypeOK, Reg
          <5>2. Carrying(q) /\ reg[q].sure
            BY <5>1 DEF Carrying
          <5> QED
            BY <2>3, <3>1, <5>1, <5>2 DEF OwnHeld, Has, Candidates
        <4> QED
          BY <4>1, <4>2
      <3>4. OwnHeld'
        BY <3>3 DEF OwnHeld, Held, Has, Candidates
      <3> QED
        BY <1>0, <3>2, <3>4 DEF IInv
    <2> QED
      BY <1>0, <2>2, <2>4 DEF IInv
  <1>2. CASE Kick(p)
    <2>0. Carrying(p) /\ pc[p] = "kick"
      BY <1>2 DEF Kick, Carrying
    <2>1. CASE Place(p)
      <3>1. /\ saturated' = saturated
            /\ \A id \in present' : id \in present \/ (Carrying(p) /\ reg[p].sure /\ id = reg[p].id)
        BY <2>0, <2>1 DEF Place
      <3>4. \A q \in Proc : reg[q].id \in Id
        BY DEF IInv, FilterTypeOK, Reg
      <3>5. \A id \in Id : (Held(id) => Held(id)') /\ (Has(p, id) => Held(id)')
        BY <2>0, <2>1, PlaceHeld
      <3>6. \A id \in present' :
              \/ id \in present
              \/ Carrying(p) /\ reg[p].sure /\ id = reg[p].id /\ (Has(p, id) => Held(id)')
        BY <3>1, <3>4, <3>5
      <3>2. pc'[p] = "idle" /\ \A q \in Proc \ {p} : Same(q)
        BY <2>1, ReturnEffect DEF Place, IInv, FilterTypeOK
      <3>3. \A q \in Proc : Carrying(q)' /\ reg'[q].sure =>
              /\ Carrying(q) /\ reg[q].sure /\ reg'[q].id = reg[q].id
              /\ Has(q, reg[q].id) => Has(q, reg[q].id)' \/ Held(reg[q].id)'
        BY <3>2 DEF Carrying, Has, Candidates
      <3> QED
        BY <1>0, <2>0, <3>1, <3>3, <3>5, <3>6, KeepsHeld
    <2>2. CASE Evict(p)
      <3>1. saturated' = saturated /\ present' = present
        BY <2>2 DEF Evict
      <3>4. \A q \in Proc : reg[q].id \in Id
        BY DEF IInv, FilterTypeOK, Reg
      <3>5. \A id \in Id : (Held(id) => Held(id)') /\ (Has(p, id) => Held(id)')
        BY <2>0, <2>2, EvictHeld
      <3>2. /\ reg'[p].id = reg[p].id /\ reg'[p].sure = reg[p].sure
            /\ \A q \in Proc \ {p} : Same(q)
        BY <2>2 DEF Evict, Goto, IInv, FilterTypeOK, Reg
      <3>3. \A q \in Proc : Carrying(q)' /\ reg'[q].sure =>
              /\ Carrying(q) /\ reg[q].sure /\ reg'[q].id = reg[q].id
              /\ Has(q, reg[q].id) => Has(q, reg[q].id)' \/ Held(reg[q].id)'
        <4>1. \A q \in Proc : Carrying(q)' /\ reg'[q].sure =>
                Carrying(q) /\ reg[q].sure /\ reg'[q].id = reg[q].id
          BY <2>0, <3>2 DEF Carrying
        <4>2. \A q \in Proc \ {p} : Has(q, reg[q].id) => Has(q, reg[q].id)'
          BY <3>2 DEF Has, Candidates
        <4>3. Has(p, reg[p].id) => Held(reg[p].id)'
          <5>1. PICK id \in Id : id = reg[p].id
            BY <3>4
          <5>2. (Has(p, id) => Held(id)') /\ id = reg'[p].id
            BY <3>2, <3>5, <5>1
          <5> QED
            BY <5>1, <5>2 DEF Held, Candidates
        <4> QED
          BY <4>1, <4>2, <4>3
      <3> QED
        BY <1>0, <3>1, <3>3, <3>5, KeepsHeld
    <2> QED
      BY <1>2, <2>1, <2>2 DEF Kick
  <1>3. CASE AltIndex(p)
    <2>1. saturated' = saturated /\ present' = present /\ Carrying(p)
      BY <1>3 DEF AltIndex, Carrying
    <2>2. /\ reg'[p].id = reg[p].id /\ reg'[p].sure = reg[p].sure
          /\ \A q \in Proc \ {p} : Same(q)
      BY <1>3 DEF AltIndex, Goto, IInv, FilterTypeOK, Reg
    <2>3. \A q \in Proc : Carrying(q)' /\ reg'[q].sure =>
            /\ Carrying(q) /\ reg[q].sure /\ reg'[q].id = reg[q].id
            /\ Has(q, reg[q].id) => Has(q, reg[q].id)' \/ Held(reg[q].id)'
      <3>1. \A q \in Proc : reg[q].id \in Id
        BY DEF IInv, FilterTypeOK, Reg
      <3>2. Has(p, reg[p].id) => Has(p, reg[p].id)'
        <4>1. PICK id \in Id : id = reg[p].id
          BY <3>1
        <4>2. (Has(p, id) => Has(p, id)') /\ id = reg'[p].id
          BY <1>3, <2>2, <4>1, AltHeld
        <4> QED
          BY <4>1, <4>2 DEF Has, Candidates
      <3>3. \A q \in Proc \ {p} : Has(q, reg[q].id) => Has(q, reg[q].id)'
        BY <2>2 DEF Has, Candidates
      <3> QED
        BY <2>1, <2>2, <3>2, <3>3 DEF Carrying
    <2>4. \A id \in Id : Held(id) => Held(id)'
      BY <1>3, AltHeld
    <2> QED
      BY <1>0, <2>1, <2>3, <2>4, KeepsHeld
  <1>4. CASE Latch(p)
    BY <1>0, <1>4 DEF IInv, Latch
  <1>5. CASE Quiet(p)
    <2>1. \A q \in Proc : Carrying(q) => Carrying(q)' /\ reg'[q] = reg[q]
      BY <1>5 DEF Quiet
    <2>2. \A id \in Id : Held(id) => Held(id)'
      BY <1>5, <2>1, SameHeld DEF Quiet
    <2>3. saturated' = saturated /\ present' = present
      BY <1>5 DEF Quiet
    <2>4. \A q \in Proc : Carrying(q)' /\ reg'[q].sure =>
            /\ Carrying(q) /\ reg[q].sure /\ reg'[q].id = reg[q].id
            /\ Has(q, reg[q].id) => Has(q, reg[q].id)' \/ Held(reg[q].id)'
      BY <1>5 DEF Quiet, Has, Candidates
    <2> QED
      BY <1>0, <2>2, <2>3, <2>4, KeepsHeld
  <1> QED
    BY <1>1, <1>2, <1>3, <1>4, <1>5, StepsWhileUngrown, QuietSteps

LEMMA InitHeld == FilterInit => IInv
  <1> SUFFICES ASSUME FilterInit PROVE IInv
    OBVIOUS
  <1>1. FilterTypeOK
    BY GrowFirst DEF GrowInv
  <1>2. Bounded /\ \A p \in Proc : ~Carrying(p)
    BY DEF FilterInit, Bounded, Carrying
  <1> QED
    BY <1>1, <1>2 DEF FilterInit, IInv, OwnHeld

\* A table never gets narrower, and while it has its first width the
\* invariant holds.
HeldUntilGrown ==
  /\ GrowInv
  /\ \E n \in Nat : n >= Width /\ DOMAIN table = 0..(n - 1) /\ (n = Width => IInv)

LEMMA WidthStep ==
  ASSUME NEW n \in Nat, n >= Width, DOMAIN table = 0..(n - 1), FilterNext
  PROVE  \E m \in Nat : m >= n /\ DOMAIN table' = 0..(m - 1)
  <1>1. ASSUME NEW p \in Proc, Grow(p)
        PROVE  \E m \in Nat : m >= n /\ DOMAIN table' = 0..(m - 1)
    <2>1. CASE UNCHANGED table
      BY SMTT(60), <2>1
    <2>2. CASE DOMAIN table' = 0..(2 * n - 1)
      <3>1. 2 * n \in Nat /\ 2 * n >= n
        BY SMTT(60)
      <3> QED
        BY <2>2, <3>1
    <2> QED
      BY <1>1, <2>1, <2>2, GrowWidth
  <1>2. clear => DOMAIN table' = DOMAIN table
    BY DEF clear
  <1>3. ASSUME NEW p \in Proc, FilterStep(p), ~Grow(p)
        PROVE  DOMAIN table' = DOMAIN table
    BY <1>3 DEF FilterStep, InsertStart, QueryStart, Index, Kick, Place, Evict, AltIndex, StoreMask,
                Reindex, Retry, Latch, QueryIndex, QueryAlt, Probe, Absent
  <1> QED
    BY SMTT(60), <1>1, <1>2, <1>3 DEF FilterNext

LEMMA HeldFirst == FilterInit => HeldUntilGrown
  <1>1. FilterInit => Width \in Nat /\ Width >= Width /\ DOMAIN table = 0..(Width - 1)
    BY SMTT(60), Hashes DEF FilterInit
  <1> QED
    BY <1>1, InitHeld, GrowFirst DEF HeldUntilGrown

LEMMA HeldStep == HeldUntilGrown /\ [FilterNext]_filterVars => HeldUntilGrown'
  <1> SUFFICES ASSUME HeldUntilGrown, [FilterNext]_filterVars PROVE HeldUntilGrown'
    OBVIOUS
  <1>0. PICK n \in Nat : n >= Width /\ DOMAIN table = 0..(n - 1) /\ (n = Width => IInv)
    BY DEF HeldUntilGrown
  <1>3. GrowInv /\ GrowInv'
    BY GrowKept DEF HeldUntilGrown
  <1>1. CASE FilterNext
    <2>1. PICK m \in Nat : m >= n /\ DOMAIN table' = 0..(m - 1)
      BY <1>0, <1>1, WidthStep
    <2>2. CASE m = Width
      <3>1. n = Width /\ IInv /\ Ungrown'
        BY SMTT(60), <1>0, <2>1, <2>2, Hashes DEF Ungrown
      <3>2. IInv'
        BY <1>1, <1>3, <3>1, StepHeld, ClearStep DEF FilterNext
      <3> QED
        BY <1>0, <1>3, <2>1, <2>2, <3>1, <3>2 DEF HeldUntilGrown
    <2>3. CASE m # Width
      <3>1. m >= Width
        BY SMTT(60), <1>0, <2>1, Hashes
      <3> QED
        BY <1>3, <2>1, <2>3, <3>1 DEF HeldUntilGrown
    <2> QED
      BY <2>2, <2>3
  <1>2. CASE UNCHANGED filterVars
    <2>1. UNCHANGED <<table, mask, count, saturated, pc, reg, present>>
      BY <1>2 DEF filterVars
    <2>2. IInv => IInv'
      <3> SUFFICES ASSUME IInv PROVE IInv'
        OBVIOUS
      <3>1. FilterTypeOK' /\ Bounded'
        BY <1>3, <2>1 DEF GrowInv, IInv, Bounded
      <3>2. \A q \in Proc : Carrying(q)' = Carrying(q)
        BY <2>1 DEF Carrying
      <3>3. \A id : Held(id)' = Held(id) /\ \A q \in Proc : Has(q, id)' = Has(q, id)
        BY <2>1, <3>2 DEF Held, Has, Candidates
      <3>4. OwnHeld => OwnHeld'
        BY <2>1, <3>2, <3>3 DEF OwnHeld
      <3> QED
        BY <2>1, <3>1, <3>3, <3>4 DEF IInv
    <2> QED
      BY <1>0, <1>3, <2>1, <2>2 DEF HeldUntilGrown
  <1> QED
    BY <1>1, <1>2

\* The invariant holds whenever the table has its first width, and a table
\* that has it has always had it.
LEMMA HeldWhileUngrown ==
  ASSUME HeldUntilGrown, Ungrown
  PROVE  IInv
  <1>1. PICK n \in Nat : n >= Width /\ DOMAIN table = 0..(n - 1) /\ (n = Width => IInv)
    BY DEF HeldUntilGrown
  <1>2. n = Width
    <2>1. n > Width => Width \in 0..(n - 1) /\ Width \notin 0..(Width - 1)
      BY SMTT(60), Hashes
    <2> QED
      BY SMTT(60), <1>1, <2>1, Hashes DEF Ungrown
  <1> QED
    BY <1>1, <1>2

LEMMA UngrownBefore ==
  ASSUME HeldUntilGrown, FilterNext, Ungrown'
  PROVE  Ungrown
  <1>1. PICK n \in Nat : n >= Width /\ DOMAIN table = 0..(n - 1)
    BY DEF HeldUntilGrown
  <1>2. PICK m \in Nat : m >= n /\ DOMAIN table' = 0..(m - 1)
    BY <1>1, WidthStep
  <1>3. m > Width => Width \in 0..(m - 1) /\ Width \notin 0..(Width - 1)
    BY SMTT(60), Hashes
  <1>4. 0..(m - 1) = 0..(Width - 1)
    BY <1>2 DEF Ungrown
  <1>5. n = Width
    BY SMTT(60), <1>1, <1>2, <1>3, <1>4, Hashes
  <1> QED
    BY <1>1, <1>5 DEF Ungrown

\* insert, contains and clear on a table that has not grown: at every moment
\* an id whose insertion succeeded is in one of its two buckets, or in the
\* hand of a thread that evicted it and is on its way to one of them, or the
\* filter is saturated.  However many threads evict each other's
\* fingerprints, none is lost.
THEOREM EvictionLosesNothing == FilterSpec => []NothingLost
  <1>1. HeldUntilGrown => NothingLost
    BY HeldWhileUngrown DEF NothingLost, IInv
  <1> QED
    BY <1>1, HeldFirst, HeldStep, PTL DEF FilterSpec

-----------------------------------------------------------------------------
(***************************************************************************)
(* FilterQueries.  A query that overlaps no eviction has an id that was    *)
(* inserted before it began still ahead of its probe.                      *)
(***************************************************************************)
\* The kick counter is the probe's as well: a query starts with it at zero.
Zeros == \A p \in Proc : pc[p] \in {"idle", "index", "hash", "hash2"} => reg[p].n = 0

\* The id's fingerprint is in a slot the query has not read.
Ahead(p) ==
  LET r == reg[p]
      a == First(r.id, Width)
      b == Alt(a, FP[r.id], Width)
  IN \/ pc[p] = "hash" /\ \E c \in {a, b} : \E s \in Slot : table[c][s] = FP[r.id]
     \/ /\ pc[p] \in {"hash2", "probe"} /\ r.i = a /\ r.fp = FP[r.id]
        /\ pc[p] = "probe" => r.j = b
        /\ \E s \in Slot : \/ r.n < s /\ table[a][s] = FP[r.id]
                           \/ r.n < SLOTS + s /\ table[b][s] = FP[r.id]

CalmInv == \A p \in Proc : Querying(p) /\ calm[p] /\ reg[p].sure => Ahead(p)

QueryInv ==
  /\ HeldUntilGrown
  /\ \A p \in Proc : Querying(p) /\ calm[p] => Undisturbed
  /\ Ungrown => Zeros /\ CalmInv

LEMMA ZerosStep ==
  ASSUME IInv, Zeros, Ungrown', FilterNext
  PROVE  Zeros'
  <1>0. FilterTypeOK /\ NoReg.n = 0
    BY DEF IInv, NoReg
  <1>1. CASE clear
    <2>1. \A q \in Proc : reg'[q].n = reg[q].n /\ pc'[q] = pc[q]
      BY <1>0, <1>1 DEF clear, FilterTypeOK, Reg
    <2> QED
      BY <2>1 DEF Zeros
  <1>2. ASSUME NEW p \in Proc, FilterStep(p) PROVE Zeros'
    <2>1. \A q \in Proc \ {p} : pc'[q] = pc[q] /\ reg'[q] = reg[q]
      BY <1>0, <1>2, OthersStay
    <2>2. pc'[p] \in {"idle", "index", "hash", "hash2"} => reg'[p].n = 0
      <3>0. /\ pc \in [Proc -> Label] /\ reg \in [Proc -> Reg] /\ reg[p] \in Reg
            /\ pc[p] \in {"idle", "index", "hash", "hash2"} => reg[p].n = 0
        BY <1>0 DEF FilterTypeOK, Zeros
      <3>1. Return(p) => reg'[p].n = 0
        BY <1>0, <3>0 DEF Return
      <3>2. \A label : Goto(p, label) => pc'[p] = label
        BY <3>0 DEF Goto
      <3>3. ASSUME NEW id \in Id, InsertStart(p, id) \/ QueryStart(p, id) PROVE reg'[p].n = 0
        <4>1. InsertStart(p, id) => reg'[p].n = 0
          <5> HAVE InsertStart(p, id)
          <5>1. PICK v : v = TRUE
            OBVIOUS
          <5>2. reg' = [reg EXCEPT ![p].id = id, ![p].sure = v] /\ pc[p] = "idle"
            BY <5>1 DEF InsertStart
          <5> QED
            BY <3>0, <5>2 DEF Reg
        <4>2. QueryStart(p, id) => reg'[p].n = 0
          <5> HAVE QueryStart(p, id)
          <5>1. PICK v : v = (id \in present)
            OBVIOUS
          <5>2. reg' = [reg EXCEPT ![p].id = id, ![p].sure = v] /\ pc[p] = "idle"
            BY <5>1 DEF QueryStart
          <5> QED
            BY <3>0, <5>2 DEF Reg
        <4> QED
          BY <3>3, <4>1, <4>2
      <3>4. CASE Index(p)
        <4>1. pc'[p] = "kick"
          BY <3>2, <3>4 DEF Index
        <4> QED
          BY <4>1
      <3>5. CASE Kick(p)
        <4>1. Evict(p) => pc'[p] = "alt"
          BY <3>2 DEF Evict
        <4> QED
          BY <3>1, <3>5, <4>1 DEF Kick, Place
      <3>6. CASE AltIndex(p)
        <4>1. pc'[p] \in {"kick", "grow"}
          BY <3>2, <3>6 DEF AltIndex
        <4> QED
          BY <4>1
      <3>7. CASE Latch(p) \/ Absent(p)
        BY <3>1, <3>7 DEF Latch, Absent
      <3>8. CASE Goto(p, "latch")
        <4>1. pc'[p] = "latch"
          BY <3>2, <3>8
        <4> QED
          BY <4>1
      <3>9. CASE QueryIndex(p)
        BY <3>0, <3>9 DEF QueryIndex, Reg
      <3>10. CASE QueryAlt(p)
        <4>1. pc'[p] = "probe"
          BY <3>2, <3>10 DEF QueryAlt
        <4> QED
          BY <4>1
      <3>11. CASE Probe(p)
        <4>1. Return(p) \/ pc'[p] \in {"probe", "absent"}
          BY <3>2, <3>11 DEF Probe
        <4> QED
          BY <3>1, <4>1
      <3> QED
        BY <1>2, <3>3, <3>4, <3>5, <3>6, <3>7, <3>8, <3>9, <3>10, <3>11, StepsWhileUngrown
    <2> QED
      BY <2>1, <2>2 DEF Zeros
  <1> QED
    BY <1>1, <1>2 DEF FilterNext

\* What the table keeps while no thread is left with an evicted fingerprint.
LEMMA TableKeeps ==
  ASSUME IInv, Undisturbed', NEW p \in Proc, FilterStep(p),
         NEW b \in 0..(Width - 1), NEW s \in Slot, table[b][s] # 0
  PROVE  table'[b][s] = table[b][s]
  <1>0. Ungrown'
    BY DEF Undisturbed
  <1>1. CASE Kick(p)
    <2>0. pc[p] = "kick" /\ reg \in [Proc -> Reg] /\ pc \in [Proc -> Label]
      BY <1>1 DEF Kick, Carrying, IInv, FilterTypeOK
    <2>1. ~Evict(p)
      <3> SUFFICES ASSUME Evict(p) PROVE FALSE
        OBVIOUS
      <3>1. pc'[p] = "alt" /\ reg'[p].n = reg[p].n + 1 /\ reg[p].n \in Nat
        BY <2>0 DEF Evict, Goto, Reg
      <3>2. reg'[p].n > 0
        BY <3>1, SuccNat
      <3>3. Carrying(p)'
        BY <3>1 DEF Carrying
      <3> QED
        BY <3>2, <3>3 DEF Undisturbed
    <2>2. Place(p)
      BY <1>1, <2>1 DEF Kick
    <2> DEFINE c == reg[p].i
    <2>3. /\ c \in 0..(Width - 1) /\ reg[p].fp \in Fp /\ DOMAIN table = 0..(Width - 1)
          /\ table \in [0..(Width - 1) -> Bucket] /\ table[c] \in Bucket
          /\ Free(table[c]) # {}
      BY <2>0, <2>2 DEF IInv, Bounded, FilterTypeOK, Reg, Place
    <2>4. table' = [table EXCEPT ![c] = PutFirst(table[c], reg[p].fp)]
      BY <2>2 DEF Place
    <2>5. table[c][s] # 0 => PutFirst(table[c], reg[p].fp)[s] = table[c][s]
      BY <2>3, PutFirstEffect
    <2> HIDE DEF c
    <2>6. CASE b = c
      BY <2>3, <2>4, <2>5, <2>6
    <2>7. CASE b # c
      BY <2>3, <2>4, <2>7
    <2> QED
      BY <2>6, <2>7
  <1>2. CASE ~Kick(p)
    <2>1. table' = table
      BY <1>0, <1>2, StepsWhileUngrown DEF InsertStart, QueryStart, Index, AltIndex, Latch,
         QueryIndex, QueryAlt, Probe, Absent
    <2> QED
      BY <2>1
  <1> QED
    BY <1>1, <1>2

\* The slot a probe reads.
LEMMA SlotRead ==
  ASSUME NEW n \in Nat, NEW s \in Slot
  PROVE  /\ n + 1 = s => n < SLOTS /\ (n % SLOTS) + 1 = s
         /\ n + 1 = SLOTS + s => ~(n < SLOTS) /\ (n % SLOTS) + 1 = s
  <1>1. SLOTS \in Nat \ {0} /\ s \in 1..SLOTS
    BY Hashes DEF Slot
  <1>2. PICK d \in Int, m \in 0..(SLOTS - 1) : d = n \div SLOTS /\ m = n % SLOTS
    <2>1. n \div SLOTS \in Int /\ n % SLOTS \in 0..(SLOTS - 1)
      BY SMTT(60), <1>1
    <2> QED
      BY <2>1
  <1>3. n = SLOTS * d + m
    BY <1>1, <1>2, Z3
  <1>4. ASSUME n + 1 = s PROVE n < SLOTS /\ m + 1 = s
    <2>1. d = 0
      <3>1. CASE d >= 1
        <4>1. SLOTS * d >= SLOTS
          BY <1>1, <3>1, Z3
        <4> QED
          BY SMTT(60), <1>1, <1>2, <1>3, <1>4, <4>1
      <3>2. CASE d <= 0 - 1
        <4>1. SLOTS * d <= 0 - SLOTS
          BY <1>1, <3>2, Z3
        <4> QED
          BY SMTT(60), <1>1, <1>2, <1>3, <1>4, <4>1
      <3> QED
        BY SMTT(60), <1>2, <3>1, <3>2
    <2>2. SLOTS * d = 0
      BY SMTT(60), <1>1, <2>1
    <2> QED
      BY SMTT(60), <1>1, <1>2, <1>3, <1>4, <2>2
  <1>5. ASSUME n + 1 = SLOTS + s PROVE ~(n < SLOTS) /\ m + 1 = s
    <2>1. d = 1
      <3>1. CASE d >= 2
        <4>1. SLOTS * d >= SLOTS + SLOTS
          BY <1>1, <3>1, Z3
        <4> QED
          BY SMTT(60), <1>1, <1>2, <1>3, <1>5, <4>1
      <3>2. CASE d <= 0
        <4>1. SLOTS * d <= 0
          BY <1>1, <3>2, Z3
        <4> QED
          BY SMTT(60), <1>1, <1>2, <1>3, <1>5, <4>1
      <3> QED
        BY SMTT(60), <1>2, <3>1, <3>2
    <2>2. SLOTS * d = SLOTS
      BY SMTT(60), <1>1, <2>1
    <2> QED
      BY SMTT(60), <1>1, <1>2, <1>3, <1>5, <2>2
  <1> QED
    BY <1>2, <1>4, <1>5

\* What is ahead of a query stays ahead while the table keeps it.
LEMMA AheadStays ==
  ASSUME IInv, NEW p \in Proc, Ahead(p), reg'[p] = reg[p], pc'[p] = pc[p],
         \A b \in 0..(Width - 1), s \in Slot : table[b][s] # 0 => table'[b][s] = table[b][s]
  PROVE  Ahead(p)'
  <1>1. reg[p].id \in Id
    BY DEF IInv, FilterTypeOK, Reg
  <1>2. PICK a, b, f : a = First(reg[p].id, Width) /\ b = Alt(a, FP[reg[p].id], Width) /\ f = FP[reg[p].id]
    OBVIOUS
  <1>3. a \in 0..(Width - 1) /\ b \in 0..(Width - 1) /\ f # 0
    BY <1>1, <1>2, CandidatesInRange, FpNotZero DEF Candidates
  <1>4. \A c \in {a, b}, s \in Slot : table[c][s] = f => table'[c][s] = f
    BY <1>3
  <1>7. /\ a = First(reg'[p].id, Width) /\ b = Alt(First(reg'[p].id, Width), FP[reg'[p].id], Width)
        /\ f = FP[reg'[p].id] /\ reg'[p].n = reg[p].n /\ reg'[p].i = reg[p].i
        /\ reg'[p].j = reg[p].j /\ reg'[p].fp = reg[p].fp
    BY <1>2
  <1>5. CASE pc[p] = "hash" /\ \E c \in {a, b} : \E s \in Slot : table[c][s] = f
    BY <1>4, <1>5, <1>7 DEF Ahead
  <1>6. CASE /\ pc[p] \in {"hash2", "probe"} /\ reg[p].i = a /\ reg[p].fp = f
             /\ pc[p] = "probe" => reg[p].j = b
             /\ \E s \in Slot : \/ reg[p].n < s /\ table[a][s] = f
                                \/ reg[p].n < SLOTS + s /\ table[b][s] = f
    <2>1. PICK s \in Slot : \/ reg'[p].n < s /\ table'[a][s] = f
                            \/ reg'[p].n < SLOTS + s /\ table'[b][s] = f
      BY <1>4, <1>6, <1>7
    <2> QED
      BY <1>6, <1>7, <2>1 DEF Ahead
  <1> QED
    BY <1>2, <1>5, <1>6 DEF Ahead

\* A query of an id that is present finds it in the table, which is as yet
\* undisturbed.
LEMMA AheadAtStart ==
  ASSUME IInv', NEW p \in Proc, NEW id \in Id, IInv, QueryStart(p, id), Undisturbed', reg'[p].sure
  PROVE  Ahead(p)'
  <1>1. PICK v : v = (id \in present)
    OBVIOUS
  <1>2. /\ reg' = [reg EXCEPT ![p].id = id, ![p].sure = v] /\ Goto(p, "hash") /\ ~saturated
        /\ saturated' = saturated /\ present' = present /\ table' = table
    BY <1>1 DEF QueryStart
  <1>3. /\ pc'[p] = "hash" /\ reg'[p].id = id /\ reg'[p].sure = v
    BY <1>2 DEF Goto, IInv, FilterTypeOK, Reg
  <1>4. Held(id)'
    BY <1>1, <1>2, <1>3 DEF IInv
  <1>5. \E c \in Candidates(id) : \E s \in Slot : table'[c][s] = FP[id]
    BY <1>4 DEF Held, Undisturbed, Candidates
  <1> QED
    BY <1>3, <1>5 DEF Ahead, Candidates

LEMMA AheadAtIndex ==
  ASSUME IInv, Zeros, NEW p \in Proc, QueryIndex(p), Ahead(p)
  PROVE  Ahead(p)'
  <1>1. /\ pc[p] = "hash" /\ table' = table /\ mask = Width /\ reg[p].n = 0 /\ reg[p] \in Reg
        /\ pc'[p] = "hash2"
    BY DEF QueryIndex, IInv, Bounded, Zeros, Goto, FilterTypeOK
  <1>2. /\ reg'[p].id = reg[p].id /\ reg'[p].n = 0
        /\ reg'[p].i = First(reg[p].id, Width) /\ reg'[p].fp = FP[reg[p].id]
    BY <1>1 DEF QueryIndex, IInv, FilterTypeOK, Reg
  <1>3. PICK a, b, f : a = First(reg[p].id, Width) /\ b = Alt(a, FP[reg[p].id], Width) /\ f = FP[reg[p].id]
    OBVIOUS
  <1>4. PICK c \in {a, b}, s \in Slot : table[c][s] = f
    <2>1. ~(pc[p] \in {"hash2", "probe"})
      BY <1>1
    <2> QED
      BY <1>3, <2>1 DEF Ahead
  <1>5. reg'[p].n < s /\ reg'[p].n < SLOTS + s
    BY SMTT(60), <1>2, Hashes DEF Slot
  <1> QED
    BY <1>1, <1>2, <1>3, <1>4, <1>5 DEF Ahead

LEMMA AheadAtAlt ==
  ASSUME IInv, Zeros, NEW p \in Proc, QueryAlt(p), Ahead(p)
  PROVE  Ahead(p)'
  <1>1. /\ pc[p] = "hash2" /\ table' = table /\ mask = Width /\ reg[p] \in Reg
        /\ pc'[p] = "probe"
    BY DEF QueryAlt, IInv, Bounded, Goto, FilterTypeOK
  <1>2. /\ reg'[p].id = reg[p].id /\ reg'[p].n = reg[p].n /\ reg'[p].i = reg[p].i /\ reg'[p].fp = reg[p].fp
        /\ reg'[p].j = Alt(reg[p].i, reg[p].fp, Width)
    BY <1>1 DEF QueryAlt, IInv, FilterTypeOK, Reg
  <1>3. PICK a, b, f : a = First(reg[p].id, Width) /\ b = Alt(a, FP[reg[p].id], Width) /\ f = FP[reg[p].id]
    OBVIOUS
  <1>4. /\ reg[p].i = a /\ reg[p].fp = f
        /\ \E s \in Slot : \/ reg[p].n < s /\ table[a][s] = f
                           \/ reg[p].n < SLOTS + s /\ table[b][s] = f
    BY <1>1, <1>3 DEF Ahead
  <1> QED
    BY <1>1, <1>2, <1>3, <1>4 DEF Ahead

\* A probe that does not find the fingerprint leaves it ahead, so there is a
\* slot to go on with.
LEMMA AheadAtProbe ==
  ASSUME IInv, NEW p \in Proc, Probe(p), ~Return(p), Ahead(p)
  PROVE  Ahead(p)'
  <1> DEFINE n == reg[p].n
  <1>1. /\ pc[p] = "probe" /\ table' = table /\ reg[p] \in Reg /\ n \in Nat
    BY DEF Probe, IInv, FilterTypeOK, Reg
  <1>2. PICK a, b, f : a = First(reg[p].id, Width) /\ b = Alt(a, FP[reg[p].id], Width) /\ f = FP[reg[p].id]
    OBVIOUS
  <1>3. /\ reg[p].i = a /\ reg[p].fp = f /\ reg[p].j = b
        /\ \E s \in Slot : \/ n < s /\ table[a][s] = f
                           \/ n < SLOTS + s /\ table[b][s] = f
    BY <1>1, <1>2 DEF Ahead
  <1>4. /\ table[IF n < SLOTS THEN a ELSE b][(n % SLOTS) + 1] # f
        /\ reg' = [reg EXCEPT ![p].n = @ + 1]
        /\ Goto(p, IF n + 1 = 2 * SLOTS THEN "absent" ELSE "probe")
    BY <1>3 DEF Probe
  <1>5. /\ reg'[p].n = n + 1 /\ reg'[p].id = reg[p].id /\ reg'[p].fp = f
        /\ reg'[p].i = a /\ reg'[p].j = b
    BY <1>1, <1>3, <1>4 DEF IInv, FilterTypeOK, Reg
  <1> HIDE DEF n
  <1>6. PICK s \in Slot : \/ n < s /\ table[a][s] = f
                          \/ n < SLOTS + s /\ table[b][s] = f
    BY <1>3
  <1>7. \/ n + 1 < s /\ table[a][s] = f
        \/ n + 1 < SLOTS + s /\ table[b][s] = f
    <2>1. CASE n < s /\ table[a][s] = f
      <3>1. n + 1 # s
        BY <1>1, <1>4, <2>1, SlotRead
      <3>2. n + 1 < s
        BY SMTT(60), <1>1, <2>1, <3>1, Hashes DEF Slot
      <3> QED
        BY <2>1, <3>2
    <2>2. CASE n < SLOTS + s /\ table[b][s] = f
      <3>1. n + 1 # SLOTS + s
        BY <1>1, <1>4, <2>2, SlotRead
      <3>2. n + 1 < SLOTS + s
        BY SMTT(60), <1>1, <2>2, <3>1, Hashes DEF Slot
      <3> QED
        BY <2>2, <3>2
    <2> QED
      BY <1>6, <2>1, <2>2
  <1>8. n + 1 # 2 * SLOTS
    BY SMTT(60), <1>1, <1>7, Hashes DEF Slot
  <1>9. pc'[p] = "probe"
    BY <1>4, <1>8 DEF Goto, IInv, FilterTypeOK
  <1> QED
    BY <1>1, <1>2, <1>5, <1>7, <1>9 DEF Ahead

LEMMA CalmInvStep ==
  ASSUME IInv, IInv', Ungrown', Zeros, CalmInv, CalmNext,
         \A p \in Proc : Querying(p) /\ calm[p] => Undisturbed
  PROVE  CalmInv'
  <1>0. FilterNext /\ pc \in [Proc -> Label] /\ reg \in [Proc -> Reg]
    BY DEF CalmNext, IInv, FilterTypeOK
  <1>1. CASE clear
    <2>1. \A q \in Proc : reg'[q].sure = FALSE
      BY <1>0, <1>1 DEF clear, Reg
    <2> QED
      BY <2>1 DEF CalmInv
  <1>2. ASSUME NEW p \in Proc, FilterStep(p) PROVE CalmInv'
    <2> SUFFICES ASSUME NEW q \in Proc, Querying(q)', calm'[q], reg'[q].sure
                 PROVE  Ahead(q)'
      BY DEF CalmInv
    <2>1. Undisturbed' /\ (Querying(q) => calm[q])
      BY DEF CalmNext
    <2>2. \A b \in 0..(Width - 1), s \in Slot : table[b][s] # 0 => table'[b][s] = table[b][s]
      BY <1>2, <2>1, TableKeeps
    <2>3. CASE q # p
      <3>1. pc'[q] = pc[q] /\ reg'[q] = reg[q]
        BY <1>2, <2>3, OthersStay DEF IInv
      <3>2. Ahead(q)
        BY <2>1, <3>1 DEF CalmInv, Querying
      <3> QED
        BY <2>2, <3>1, <3>2, AheadStays
    <2>4. CASE q = p
      <3>0. \A label : Goto(p, label) => pc'[p] = label
        BY <1>0 DEF Goto
      <3>1. pc'[p] \in {"hash", "hash2", "probe", "absent"}
        BY <2>4 DEF Querying
      <3>2. ASSUME NEW id \in Id, QueryStart(p, id) PROVE Ahead(p)'
        BY <2>1, <2>4, <3>2, AheadAtStart
      <3>3. ASSUME NEW id \in Id, InsertStart(p, id) PROVE FALSE
        <4>1. pc'[p] = "index"
          BY <3>0, <3>3 DEF InsertStart
        <4> QED
          BY <3>1, <4>1
      <3>4. ~Return(p)
        <4>1. Return(p) => pc'[p] = "idle"
          BY <3>0 DEF Return
        <4> QED
          BY <3>1, <4>1
      <3>5. ~Index(p) /\ ~AltIndex(p) /\ ~Latch(p) /\ ~Absent(p)
        <4>1. Index(p) => pc'[p] = "kick"
          BY <3>0 DEF Index
        <4>2. AltIndex(p) => pc'[p] \in {"kick", "grow"}
          BY <3>0 DEF AltIndex
        <4>3. ~Index(p) /\ ~AltIndex(p)
          BY <3>1, <4>1, <4>2
        <4> QED
          BY <3>4, <4>3 DEF Latch, Absent
      <3>6. ~Kick(p)
        <4>1. Evict(p) => pc'[p] = "alt"
          BY <3>0 DEF Evict
        <4>2. ~Evict(p)
          BY <3>1, <4>1
        <4> QED
          BY <3>4, <4>2 DEF Kick, Place
      <3>7. ~Goto(p, "latch")
        <4>1. Goto(p, "latch") => pc'[p] = "latch"
          BY <3>0
        <4> QED
          BY <3>1, <4>1
      <3>8. ASSUME QueryIndex(p) \/ QueryAlt(p) \/ Probe(p) PROVE Ahead(p)
        <4>1. Querying(p)
          BY <3>8 DEF Querying, QueryIndex, QueryAlt, Probe
        <4>2. reg[p].sure
          <5>1. QueryIndex(p) => reg'[p].sure = reg[p].sure
            BY <1>0 DEF QueryIndex, Reg
          <5>2. QueryAlt(p) => reg'[p].sure = reg[p].sure
            BY <1>0 DEF QueryAlt, Reg
          <5>3. Probe(p) => reg'[p].sure = reg[p].sure
            BY <1>0, <3>4 DEF Probe, Reg
          <5> QED
            BY <2>4, <3>8, <5>1, <5>2, <5>3
        <4> QED
          BY <2>1, <2>4, <4>1, <4>2 DEF CalmInv
      <3>9. CASE QueryIndex(p)
        BY <2>4, <3>8, <3>9, AheadAtIndex
      <3>10. CASE QueryAlt(p)
        BY <2>4, <3>8, <3>10, AheadAtAlt
      <3>11. CASE Probe(p)
        BY <2>4, <3>4, <3>8, <3>11, AheadAtProbe
      <3>12. Ahead(p)'
        BY <1>2, <2>4, <3>2, <3>3, <3>5, <3>6, <3>7, <3>9, <3>10, <3>11, StepsWhileUngrown
      <3> QED
        BY <2>4, <3>12
    <2> QED
      BY <2>3, <2>4
  <1> QED
    BY <1>0, <1>1, <1>2 DEF FilterNext

LEMMA QueryStep ==
  ASSUME QueryInv, CalmNext
  PROVE  QueryInv'
  <1>1. HeldUntilGrown' /\ FilterNext /\ HeldUntilGrown
    BY HeldStep DEF QueryInv, CalmNext
  <1>2. \A p \in Proc : Querying(p)' /\ calm'[p] => Undisturbed'
    BY DEF CalmNext
  <1>3. ASSUME Ungrown' PROVE Zeros' /\ CalmInv'
    <2>1. Ungrown /\ IInv
      BY <1>1, <1>3, UngrownBefore, HeldWhileUngrown
    <2>3. IInv'
      BY <1>1, <1>3, <2>1, StepHeld, ClearStep DEF FilterNext, HeldUntilGrown
    <2>2. Zeros /\ CalmInv /\ \A p \in Proc : Querying(p) /\ calm[p] => Undisturbed
      BY <2>1 DEF QueryInv
    <2> QED
      BY <1>1, <1>3, <2>1, <2>2, <2>3, ZerosStep, CalmInvStep
  <1> QED
    BY <1>1, <1>2, <1>3 DEF QueryInv

\* contains, in a table that has not grown: a query that overlaps no
\* eviction never answers "absent" for an id whose insertion had succeeded
\* when it began, however many threads insert, query and clear meanwhile.
THEOREM NegativeAnswersHold == CalmSpec => []DefinitelyAbsent
  <1>1. CalmInit => QueryInv
    <2> SUFFICES ASSUME CalmInit PROVE QueryInv
      OBVIOUS
    <2>1. HeldUntilGrown
      BY HeldFirst DEF CalmInit
    <2>2. \A p \in Proc : pc[p] = "idle" /\ reg[p].n = 0
      BY DEF CalmInit, FilterInit, NoReg
    <2>3. \A p \in Proc : ~Querying(p)
      BY <2>2 DEF Querying
    <2> QED
      BY <2>1, <2>2, <2>3 DEF QueryInv, Zeros, CalmInv
  <1>2. QueryInv /\ [CalmNext]_<<filterVars, calm>> => QueryInv'
    <2> SUFFICES ASSUME QueryInv, UNCHANGED <<filterVars, calm>> PROVE QueryInv'
      BY QueryStep
    <2>1. HeldUntilGrown'
      BY HeldStep DEF QueryInv
    <2>2. UNCHANGED <<table, pc, reg, calm>>
      BY DEF filterVars
    <2> QED
      <3>1. Ungrown' = Ungrown /\ Zeros' = Zeros
        BY <2>2 DEF Ungrown, Zeros
      <3>2. Undisturbed' = Undisturbed /\ \A p \in Proc : Querying(p)' = Querying(p)
        BY <2>2, <3>1 DEF Undisturbed, Carrying, Querying
      <3>3. \A p \in Proc : Ahead(p)' = Ahead(p)
        BY <2>2 DEF Ahead
      <3> QED
        BY <2>1, <2>2, <3>1, <3>2, <3>3 DEF QueryInv, CalmInv
  <1>3. QueryInv => DefinitelyAbsent
    <2> SUFFICES ASSUME QueryInv, NEW p \in Proc, pc[p] = "absent", calm[p], reg[p].sure
                 PROVE  FALSE
      BY DEF DefinitelyAbsent
    <2>1. Querying(p)
      BY DEF Querying
    <2>2. Ahead(p)
      BY <2>1 DEF QueryInv, Undisturbed, CalmInv
    <2> QED
      BY <2>2 DEF Ahead
  <1> QED
    BY <1>1, <1>2, <1>3, PTL DEF CalmSpec
=============================================================================
