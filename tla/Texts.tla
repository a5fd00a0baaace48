------------------------------- MODULE Texts -------------------------------
(***************************************************************************)
(* What is sent: a text is a sequence of symbols, whatever these are.      *)
(***************************************************************************)
EXTENDS Sequences, Functions

IsText(s) == s \in Seq(Range(s))
=============================================================================
