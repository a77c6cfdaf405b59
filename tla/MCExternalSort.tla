--------------------------- MODULE MCExternalSort ----------------------------
(***************************************************************************)
(* sort on every input of up to MaxLen records over a few values.          *)
(***************************************************************************)
EXTENDS ExternalSort

CONSTANT MaxLen

MCInputs == UNION {[1..k -> Records] : k \in 0..MaxLen}

==============================================================================
