---------------------------- MODULE MCTransport ----------------------------
(***************************************************************************)
(* The parts of the transport crate, one of them at a time: the credit     *)
(* window, the staged pipeline, loopback pairs under the multipath         *)
(* dispatcher, and the bandwidth model.  They share no state.              *)
(***************************************************************************)
EXTENDS CreditFlow, BytePipeline, Loopback, Bbr

VARIABLE part

\* All threads send through sink 1.
OneSink == [t \in LoopThread |-> 1]

TransportInit ==
  /\ part \in {"credit", "pipeline", "loopback", "bandwidth"}
  /\ Init /\ PipeInit /\ LoopInit /\ BbrInit
  /\ part # "bandwidth" => age = 0

TransportNext ==
  \/ part = "credit" /\ Next /\ UNCHANGED <<part, pipeVars, loopVars, bbrVars>>
  \/ part = "pipeline" /\ PipeNext /\ UNCHANGED <<part, vars, loopVars, bbrVars>>
  \/ part = "loopback" /\ LoopNext /\ UNCHANGED <<part, vars, pipeVars, bbrVars>>
  \/ part = "bandwidth" /\ BbrNext /\ UNCHANGED <<part, vars, pipeVars, loopVars>>

\* The operating system runs every thread of the pipeline that can run, and
\* samples go on coming.
TransportSpec ==
  /\ TransportInit /\ [][TransportNext]_<<part, vars, pipeVars, loopVars, bbrVars>>
  /\ WF_pipeVars(part = "pipeline" /\ Feeder) /\ WF_pipeVars(part = "pipeline" /\ Caller)
  /\ \A k \in Stage : WF_pipeVars(part = "pipeline" /\ StageStep(k))
  /\ WF_bbrVars(part = "bandwidth" /\ BbrNext)
=============================================================================
