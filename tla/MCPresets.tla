------------------------------ MODULE MCPresets ------------------------------
(* Finite instances of Presets for TLC.                                    *)
EXTENDS Presets, TLC

\* What the package's own callers store: all outputs or some.
SomeOutputs == SUBSET Outputs \ {{}}

\* Somebody sets one output.
OneOutput == UNION {[{o} -> Inputs] : o \in Outputs}
=============================================================================
