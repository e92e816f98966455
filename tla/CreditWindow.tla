---------------------------- MODULE CreditWindow ----------------------------
(***************************************************************************)
(* What CreditFlow promises its callers (transport/src/flow.rs): a window  *)
(* of credit on which take, grant and reaim act atomically.                *)
(***************************************************************************)
EXTENDS Naturals

CONSTANTS Windows,   \* the window sizes in use
          First      \* the first of them

VARIABLES free,      \* credit a sender may take
          window,    \* the size aimed at
          used,      \* credit taken and not granted back
          promised   \* growth of the window that is not yet in free

windowVars == <<free, window, used, promised>>

WindowInit == free = First /\ window = First /\ used = 0 /\ promised = 0

\* take answers with at most what is free.
TakeSome(n) ==
  /\ n <= free
  /\ free' = free - n /\ used' = used + n
  /\ UNCHANGED <<window, promised>>

Capped(n, w) == IF n < w THEN n ELSE w

\* grant gives back, up to a window that is or was in force.
GiveBack(n, w) ==
  /\ n <= used
  /\ free' = Capped(free + n, w) /\ used' = used - n
  /\ UNCHANGED <<window, promised>>

\* reaim: the size changes; growth follows once, cut off in the same way.
Aim(w) ==
  /\ promised = 0 /\ window' = w
  /\ promised' = IF w > window THEN w - window ELSE 0
  /\ UNCHANGED <<free, used>>

KeepPromise(w) ==
  /\ free' = Capped(free + promised, w) /\ promised' = 0
  /\ UNCHANGED <<window, used>>

WindowNext ==
  \/ \E n \in 0..free : TakeSome(n)
  \/ \E n \in 0..used, w \in Windows : GiveBack(n, w)
  \/ \E w \in Windows : Aim(w) \/ KeepPromise(w)

WindowSpec == WindowInit /\ [][WindowNext]_windowVars
=============================================================================
