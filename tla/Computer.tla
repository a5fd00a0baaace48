------------------------------ MODULE Computer ------------------------------
(***************************************************************************)
(* The two evaluators of postfix stacks: Computer::compute, which the      *)
(* client runs on the results it has collected, and                        *)
(* ServerMethodCompute::execute, which a server runs on a subtree.         *)
(*                                                                         *)
(* An element of a stack is an operand or the name of an operator.  The    *)
(* strings the code converts operands to and from are left out, save that  *)
(* a negative operand must still be recognised as one: both evaluators     *)
(* look at the first character only.                                       *)
(***************************************************************************)
EXTENDS Integers, Sequences, SequencesExt

Operators == {"ADD", "SUBTRACT", "MULTIPLY", "DIVIDE"}
Num(n) == [kind |-> "num", value |-> n]
Op(o) == [kind |-> o, value |-> 0]

(* isdigit(c) || c == '-' *)
isNumber(e) == e.kind = "num"

(* C++ division truncates towards zero. *)
Quotient(a, b) ==
  LET abs(n) == IF n < 0 THEN -n ELSE n
      q == abs(a) \div abs(b)
  IN  IF (a < 0) = (b < 0) THEN q ELSE -q

(* Mutant: the operands in the order they come off the stack. *)
ApplySwapped(o, arg1, arg2) ==
  CASE o = "ADD" -> arg1 + arg2
    [] o = "SUBTRACT" -> arg1 - arg2
    [] o = "MULTIPLY" -> arg1 * arg2
    [] o = "DIVIDE" -> Quotient(arg1, arg2)
Apply(o, arg1, arg2) ==
  CASE o = "ADD" -> arg1 + arg2
    [] o = "SUBTRACT" -> arg2 - arg1
    [] o = "MULTIPLY" -> arg1 * arg2
    [] o = "DIVIDE" -> Quotient(arg2, arg1)

(* The stack of numbers, its top last, the last result, and whether the    *)
(* process has died of a division by zero or of top() on an empty stack.   *)
Machine(nums, res, dead) == [nums |-> nums, res |-> res, dead |-> dead]
Empty == Machine(<<>>, 0, FALSE)
Fatal(e, m) ==
  Len(m.nums) < 2 \/ (e.kind = "DIVIDE" /\ Last(m.nums) = 0)

Operate(m, e) ==
  LET n == Len(m.nums)
      res == Apply(e.kind, m.nums[n], m.nums[n - 1])
  IN  IF Fatal(e, m) THEN [m EXCEPT !.dead = TRUE]
      ELSE Machine(Append(SubSeq(m.nums, 1, n - 2), res), res, FALSE)

(* One turn of the loop of either evaluator.  What is neither a number nor *)
(* an operator, the name of a missing node, makes the client push its last *)
(* result again; a server takes two operands for it first, which are never *)
(* there.                                                                  *)
Step(m, e) ==
  CASE m.dead -> m
    [] isNumber(e) -> [m EXCEPT !.nums = Append(@, e.value)]
    [] e.kind \in Operators -> Operate(m, e)
    [] OTHER -> [m EXCEPT !.nums = Append(@, m.res)]
Serving(m, e) ==
  IF e.kind \in Operators \/ isNumber(e) THEN Step(m, e) ELSE [m EXCEPT !.dead = TRUE]

(* The top of the stack at the end, as a sequence of one, or <<>> when the *)
(* process dies.                                                           *)
Result(m) == IF m.dead \/ m.nums = <<>> THEN <<>> ELSE <<Last(m.nums)>>

(* Computer::compute; ServerMethodCompute::execute, which posts a status   *)
(* per operator and sleeps after each element besides.                     *)
compute(stack) == Result(FoldLeft(Step, Empty, stack))
execute(stack) == Result(FoldLeft(Serving, Empty, stack))
=============================================================================
