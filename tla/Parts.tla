-------------------------------- MODULE Parts --------------------------------
(***************************************************************************)
(* What the components of ShellPlugins share.  They do not meet: each      *)
(* follows a source of its own (the compositor, PipeWire, the network, the *)
(* keyboards, a picture), so a behaviour is one of a single component.     *)
(***************************************************************************)
EXTENDS Naturals, Sequences, FiniteSets

CONSTANTS
  ModelledParts,  \* the components a behaviour may be of
  None            \* no value: of a selection, a card, a reply, ...

VARIABLE part     \* the component of this behaviour

\* The initial values of a component's variable: one when it is not the part.
Initially(name, S) == IF part = name THEN S ELSE {CHOOSE x \in S : TRUE}
=============================================================================
