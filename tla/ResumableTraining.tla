-------------------------- MODULE ResumableTraining --------------------------
(***************************************************************************)
(* What checkpointing promises to the training job, with files, ranks and  *)
(* roles left out.  A job that is up works on training step `step`.  At    *)
(* the end of a step it may make the step durable; a crash forgets         *)
(* everything that is not durable; a launch continues with the step after  *)
(* the durable one.  The record of the durable step is rewritten in place, *)
(* so a crash in the middle of that write loses it: durable = Lost, and a  *)
(* launch can then only fail.                                              *)
(*                                                                         *)
(* Checkpoint.tla is the detailed specification that implements this one.  *)
(***************************************************************************)
EXTENDS Integers

VARIABLES
  mode,     \* "down", "up", "stuck" (launched, but the record is unreadable)
  step,     \* the training step the job works on; 0 when it is not up
  durable   \* the last step made durable, 0 when there is none, or Lost

Lost == -1

absVars == <<mode, step, durable>>

AbsTypeOK ==
  /\ mode \in {"down", "up", "stuck"}
  /\ step \in Nat
  /\ durable \in Nat \cup {Lost}

AbsInit ==
  /\ mode = "down"
  /\ step = 0
  /\ durable = 0

\* A launch continues right after the durable step.
Continue ==
  /\ mode # "up"
  /\ durable # Lost
  /\ mode' = "up"
  /\ step' = durable + 1
  /\ UNCHANGED durable

\* The only reason a launch can fail is that the record itself was lost.
GetStuck ==
  /\ mode # "up"
  /\ durable = Lost
  /\ mode' = "stuck"
  /\ UNCHANGED <<step, durable>>

Advance ==
  /\ mode = "up"
  /\ step' = step + 1
  /\ UNCHANGED <<mode, durable>>

\* The record is rewritten in place: it is unreadable for a moment.
OpenRecord ==
  /\ mode = "up"
  /\ durable' = Lost
  /\ UNCHANGED <<mode, step>>

\* The step that becomes durable is the one the job has just finished; the
\* job then goes on with the next one, or exits.
Commit ==
  /\ mode = "up"
  /\ durable = Lost
  /\ durable' = step
  /\ \/ mode' = "up"   /\ step' = step + 1
     \/ mode' = "down" /\ step' = 0

\* A crash, or the normal end of the job.
GoDown ==
  /\ mode # "down"
  /\ mode' = "down"
  /\ step' = 0
  /\ UNCHANGED durable

AbsNext ==
  Continue \/ GetStuck \/ Advance \/ OpenRecord \/ Commit \/ GoDown

AbsSpec == AbsInit /\ [][AbsNext]_absVars
=============================================================================
