---------------------------- MODULE Computation -----------------------------
(***************************************************************************)
(* The data of one computation from the typed expression to the result:    *)
(* the action parses it, the supervisor builds the tree, cuts it or keeps  *)
(* it whole, the servers compute the pieces, and the supervisor folds what *)
(* they return.  Module Supervisor has the threads and their races; here   *)
(* every step succeeds unless the arithmetic kills the process that        *)
(* computes.                                                               *)
(***************************************************************************)
EXTENDS ExprTree, ExprParser

CONSTANTS
  Inputs,   \* records of what is typed, whether it is an expression
            \* (grammatical), the values of it, or of the expressions in it
            \* (values), and whether a division by zero or the negation of
            \* an operation occurs in any of them (fatal)
  Heights   \* what maxH_ is set from

ASSUME HeightsAssumption == Heights \subseteq Int

VARIABLES
  input, maxH,
  info,     \* whether parse() took everything, which nobody asks
  rpn,      \* __expressionStack, as sendTasks is given it
  rest,     \* the elements regenerate has yet to read
  build,    \* its locals
  pieces,   \* what the tree was cut into
  results,  \* resultStack_: a sequence of at most one element per piece
  answer,   \* <<n>> once computed
  phase

vars == <<input, maxH, info, rpn, rest, build, pieces, results, answer, phase>>

Init ==
  /\ input \in Inputs /\ maxH \in Heights
  /\ info = FALSE /\ rpn = <<>> /\ rest = <<>> /\ build = buildRoot(<<>>)
  /\ pieces = <<>> /\ results = <<>> /\ answer = <<>>
  /\ phase = "typed"

(* ComputeMaxNAction parses and sends what the actions of the grammar have *)
(* left on the stack, whether all was parsed or not.                       *)
Parse ==
  LET m == parse(input.typed)
  IN  /\ phase = "typed"
      /\ info' = full(input.typed, m)
      /\ IF m.threw THEN phase' = "died" /\ UNCHANGED <<rpn, rest, build>>
         ELSE /\ phase' = "regenerate"
              /\ rpn' = m.stack
              /\ rest' = SubSeq(m.stack, 1, Len(m.stack) - 1)
              /\ build' = buildRoot(m.stack)
      /\ UNCHANGED <<input, maxH, pieces, results, answer>>

(* One turn of the loop of regenerate.  After the top of an empty stack    *)
(* anything may happen, and nothing is followed.                           *)
Regenerate ==
  /\ phase = "regenerate" /\ rest # <<>>
  /\ build' = buildStep(build, Last(rest))
  /\ rest' = Front(rest)
  /\ phase' = IF build'.bad THEN "undefined" ELSE phase
  /\ UNCHANGED <<input, maxH, info, rpn, pieces, results, answer>>

(* The height, an int, is compared with maxH_, a size_t: the height of an  *)
(* empty tree is more than any maximum but a negative one, and a negative  *)
(* maximum keeps every tree whole.  Mutant: both are signed.               *)
IsLowSigned(values) == height(values) <= maxH
IsLow(values) == IF height(values) < 0 THEN maxH < 0 ELSE maxH < 0 \/ height(values) <= maxH

(* A low tree is its own stack of results. *)
KeepWhole ==
  /\ phase = "regenerate" /\ rest = <<>> /\ IsLow(build.values)
  /\ results' = [k \in DOMAIN toStack(build.values, 1) |->
                   <<toStack(build.values, 1)[k]>>]
  /\ phase' = "fold"
  /\ UNCHANGED <<input, maxH, info, rpn, rest, build, pieces, answer>>

(* dispatchTree: an item is copied, a task leaves its place empty. *)
Cut ==
  /\ phase = "regenerate" /\ rest = <<>> /\ ~IsLow(build.values)
  /\ pieces' = chunk(build.values, cutHeight(maxH))
  /\ results' = [k \in DOMAIN pieces' |->
                   IF isItem(pieces'[k]) THEN <<get(pieces'[k], 1)>> ELSE <<>>]
  /\ phase' = "serve"
  /\ UNCHANGED <<input, maxH, info, rpn, rest, build, answer>>

(* A server answers for a piece, or dies of it: the call fails, and the    *)
(* computation is aborted.  An empty tree is sent as the name of a missing *)
(* node; a server takes operands for it from an empty stack.               *)
Serve(k) ==
  /\ phase = "serve" /\ results[k] = <<>>
  /\ LET value == execute(toStack(pieces[k], 1))
     IN  IF value = <<>>
           THEN /\ phase' \in {"aborted"} \cup (IF pieces[k] = <<>> THEN {"undefined"} ELSE {})
                /\ results' = results
           ELSE /\ results' = [results EXCEPT ![k] = <<Num(value[1])>>]
                /\ phase' = IF \E j \in DOMAIN results : results'[j] = <<>>
                              THEN "serve" ELSE "fold"
  /\ UNCHANGED <<input, maxH, info, rpn, rest, build, pieces, answer>>

(* finalComputation *)
Fold ==
  /\ phase = "fold"
  /\ answer' = compute([k \in DOMAIN results |-> results[k][1]])
  /\ phase' = IF answer' = <<>> THEN "died" ELSE "done"
  /\ UNCHANGED <<input, maxH, info, rpn, rest, build, pieces, results>>

Halted == phase \in {"undefined", "done", "aborted", "died"} /\ UNCHANGED vars

Next ==
  \/ Parse \/ Regenerate \/ KeepWhole \/ Cut
  \/ (\E k \in DOMAIN results : Serve(k)) \/ Fold \/ Halted

Spec == Init /\ [][Next]_vars

-----------------------------------------------------------------------------
(* The parser takes to the end what the grammar has, and only that: its    *)
(* rules never have to choose anew, for all that an alternative that is    *)
(* taken is never taken back.                                              *)
ParsesGrammar == phase \notin {"typed", "died"} => (info <=> input.grammatical)

(* regenerate never asks for the top of an empty emptyBranch when it is    *)
(* given an expression.                                                    *)
BranchesRemain == build.bad => ~input.grammatical

(* The tree holds the whole expression: toStack gives back the stack       *)
(* regenerate was given, so the two walk the tree in opposite orders.      *)
(* Cutting it loses nothing and keeps the order: the pieces read one after *)
(* the other are the expression, and none is higher than asked, so the     *)
(* recursion of chunk over trees rebuilt from stacks agrees with the tree. *)
(* And it always leaves something to send, of whatever was typed: only a   *)
(* task's answer starts the final computation, so without one the user     *)
(* would wait for ever.                                                    *)
ChunkCovers ==
  /\ info /\ phase \in {"fold", "serve", "done"} => toStack(build.values, 1) = rpn
  /\ phase = "serve" =>
       /\ info => FlattenSeq([k \in DOMAIN pieces |-> toStack(pieces[k], 1)]) = rpn
       /\ \A k \in DOMAIN pieces : Len(pieces[k]) < 2^(Max({maxH, 1}) + 1)
       /\ \E k \in DOMAIN pieces : ~isItem(pieces[k])

(* Distribution is transparent: whatever is typed and the height it is cut *)
(* at, the answer is the value of the expression; and only a division by   *)
(* zero or the negation of an operation in it stops the computation.  What *)
(* is no expression is answered, if at all, with the value of one that is  *)
(* a part of it, never with a mixture of what the parser left; when it has *)
(* left nothing, with the zero that a negative height makes of it.         *)
AnswerIsValue ==
  /\ phase = "done" => IF rpn = <<>> THEN maxH < 0 /\ answer = <<0>>
                      ELSE answer[1] \in input.values
  /\ phase \in {"aborted", "died"} => input.fatal \/ rpn = <<>>
=============================================================================
