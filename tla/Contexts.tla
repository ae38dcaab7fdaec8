------------------------------ MODULE Contexts ------------------------------
(***************************************************************************)
(* Simulator with a history of the contexts that were interrupted and not  *)
(* yet returned to.                                                        *)
(***************************************************************************)
EXTENDS Simulator, SequencesExt

VARIABLE contexts

EntersHandler ==
  ServePrivModeViolation \/ ServeIllegalOpcode \/ \E vec \in Vec : TakeInterrupt(vec)

Context == [pc |-> PC, psr |-> PSR, r6 |-> registers[REG_R6]]

Remember ==
  contexts' = IF EntersHandler THEN Append(contexts, Context)
              ELSE IF Rti /\ contexts # <<>> THEN Front(contexts)
              ELSE contexts

CtxInit == Init /\ contexts = <<>>
CtxNext == Next /\ Remember
CtxSpec == CtxInit /\ [][CtxNext]_<<vars, contexts>>

(* Handlers nest and return in order: rti resumes the context that the     *)
(* matching interrupt or exception saved, at its PC and with its status.   *)
ReturnsToInterrupted ==
  [][Rti /\ contexts # <<>> =>
       PC' = Last(contexts).pc /\ PSR' = Last(contexts).psr]_<<vars, contexts>>

(* The mode bit that rti pops tells whose stack was interrupted, so the    *)
(* interrupted program finds its stack pointer in R6 again.                *)
StackPointerRestored ==
  [][Rti /\ contexts # <<>> =>
       registers'[REG_R6] = Last(contexts).r6]_<<vars, contexts>>
=============================================================================
