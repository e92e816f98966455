---------------------------- MODULE MCColdStart ----------------------------
(***************************************************************************)
(* Two parts of a cold start, one of them at a time: the decoder of one    *)
(* generation, and the sessions of a host in front of a gateway that may   *)
(* have lost everything.  A generation that decodes is one served here.    *)
(***************************************************************************)
EXTENDS Fountain, ShimRegistry

CONSTANTS s1, s2

VARIABLE part

\* The second session sends one block, which the first can refer to.
MCMaxIds == (s1 :> 2 @@ s2 :> 1)

ColdInit == part \in {"decoder", "sessions"} /\ Init /\ RegInit

ColdNext ==
  \/ part = "decoder" /\ Next /\ UNCHANGED <<part, regVars>>
  \/ part = "sessions" /\ RegNext /\ UNCHANGED <<part, vars>>

\* A call of the shim or of a handler returns; nobody has to begin a turn.
ColdSpec ==
  /\ ColdInit /\ [][ColdNext]_<<part, vars, regVars>>
  /\ \A s \in Session : WF_regVars(part = "sessions" /\ Step(s) /\ UNCHANGED <<part, vars>>)
=============================================================================
