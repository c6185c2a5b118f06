-------------------------------- MODULE Saga --------------------------------
(***************************************************************************)
(* id_effect_fsm/saga.rs: run and compensate_indices.  Any forward step    *)
(* and any compensation may fail; some steps have no compensation.         *)
(***************************************************************************)
EXTENDS Naturals, Sequences, SequencesExt

CONSTANTS SaLen,         \* the number of steps
          SaCompensated  \* the indices of the steps that have a compensation

ASSUME SagaAssumption == SaLen \in Nat /\ SaCompensated \subseteq 1..SaLen

VARIABLES saidx,       \* the step run next
          sadone,      \* completed
          satodo,      \* what compensate_indices has left to do
          saout,       \* the result, "Forward" or "Compensating" while it runs
          saeffects    \* history: the effects that took place, done and undone

savars == <<saidx, sadone, satodo, saout, saeffects>>

SaEffect(kind, i) == [kind |-> kind, step |-> i]

SagaTypeOK ==
  /\ saidx \in 1..SaLen + 1
  /\ sadone \in Seq(1..SaLen) /\ satodo \in Seq(1..SaLen)
  /\ saout \in {"Forward", "Compensating", "Ok", "ForwardError", "CompensateError"}
  /\ saeffects \in Seq([kind : {"do", "undo"}, step : 1..SaLen])

SagaInit == /\ saidx = 1 /\ sadone = <<>> /\ satodo = <<>>
            /\ saout = "Forward" /\ saeffects = <<>>

SaForward == /\ saout = "Forward" /\ saidx <= SaLen
             /\ sadone' = Append(sadone, saidx)
             /\ saeffects' = Append(saeffects, SaEffect("do", saidx))
             /\ saidx' = saidx + 1
             /\ UNCHANGED <<satodo, saout>>

SaReturn == /\ saout = "Forward" /\ saidx > SaLen
            /\ saout' = "Ok"
            /\ UNCHANGED <<saidx, sadone, satodo, saeffects>>

\* Faulty variant: compensations in the order of the steps.
SaForwardFailsInOrder == /\ saout = "Forward" /\ saidx <= SaLen
                         /\ satodo' = sadone
                         /\ saout' = "Compensating"
                         /\ UNCHANGED <<saidx, sadone, saeffects>>

SaForwardFails == /\ saout = "Forward" /\ saidx <= SaLen
                  /\ satodo' = Reverse(sadone)
                  /\ saout' = "Compensating"
                  /\ UNCHANGED <<saidx, sadone, saeffects>>

\* The next compensation, if the step has one.
SaCompensate == /\ saout = "Compensating" /\ satodo # <<>>
                /\ saeffects' = IF Head(satodo) \in SaCompensated
                                THEN Append(saeffects, SaEffect("undo", Head(satodo)))
                                ELSE saeffects
                /\ satodo' = Tail(satodo)
                /\ UNCHANGED <<saidx, sadone, saout>>

\* A compensation that fails ends the saga: its error takes the place of the first.
SaCompensateFails == /\ saout = "Compensating" /\ satodo # <<>>
                     /\ Head(satodo) \in SaCompensated
                     /\ saout' = "CompensateError"
                     /\ UNCHANGED <<saidx, sadone, satodo, saeffects>>

SaAllUndone == /\ saout = "Compensating" /\ satodo = <<>>
               /\ saout' = "ForwardError"
               /\ UNCHANGED <<saidx, sadone, satodo, saeffects>>

SagaNext == \/ SaForward \/ SaReturn \/ SaForwardFails
            \/ SaCompensate \/ SaCompensateFails \/ SaAllUndone

SagaSpec == SagaInit /\ [][SagaNext]_savars

(***************************************************************************)
(* Properties.                                                             *)
(***************************************************************************)

\* The steps after from that have a compensation, and no others, are undone: the
\* last one first, each once.
SaUndone(from) ==
  LET undone == Len(sadone) + 1..Len(saeffects)
  IN  /\ \A i \in undone : saeffects[i].kind = "undo"
      /\ {saeffects[i].step : i \in undone} = SaCompensated \cap (from + 1..Len(sadone))
      /\ \A i, j \in undone : i < j => saeffects[i].step > saeffects[j].step

\* What took place is a prefix of the steps followed by the compensations of the last
\* of them in reverse: all of them before the error of the step is returned, those
\* after the compensation that failed when its error is, and none after success.
SagaInv ==
  /\ SagaTypeOK
  /\ \A i \in 1..Len(sadone) : sadone[i] = i /\ saeffects[i] = SaEffect("do", i)
  /\ \E from \in 0..Len(sadone) : SaUndone(from)
  /\ saout = "Ok" => Len(saeffects) = SaLen /\ Len(sadone) = SaLen
  /\ saout = "ForwardError" => SaUndone(0)
  /\ saout = "CompensateError" =>
       \E failed \in SaCompensated \cap (1..Len(sadone)) : SaUndone(failed)
==============================================================================
