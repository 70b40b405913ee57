--------------------------- MODULE MCExtractionPlan ---------------------------
(* Values of ExtractionPlan's constants for model checking. *)
EXTENDS ExtractionPlan, SequencesExt

CONSTANTS MaxPlan  \* bound: length of a plan

SmallPlans == BoundedSeq(Selectors, MaxPlan)
=============================================================================
