----------------------------- MODULE ExprParser -----------------------------
(***************************************************************************)
(* The grammar of Parser.h and the semantic actions of Parser.cpp, which   *)
(* leave an expression on __expressionStack in postfix order.              *)
(*                                                                         *)
(* What is typed is a sequence of tokens: the scanner skips blanks, and    *)
(* only +digit_p is more than one character.  An alternative that fails    *)
(* gives its input back, but what its actions have pushed stays.           *)
(***************************************************************************)
EXTENDS Computer, TLC

Token(c) == [kind |-> c, value |-> 0]
At(typed, pos, c) == pos \in DOMAIN typed /\ typed[pos].kind = c

(* The parser's position and the stack; "threw" when do_neg did. *)
Match(pos, stack) == [ok |-> TRUE, pos |-> pos, stack |-> stack, threw |-> FALSE]
NoMatch(stack) == [ok |-> FALSE, pos |-> 0, stack |-> stack, threw |-> FALSE]
Threw(stack) == [ok |-> FALSE, pos |-> 0, stack |-> stack, threw |-> TRUE]

(* lexical_cast<int> of the stack's back, which must be a number.  Mutant: *)
(* the number is pushed beside the one it was made of.                     *)
push_neg(m) ==
  IF isNumber(Last(m.stack))
  THEN Match(m.pos, Append(m.stack, Num(-Last(m.stack).value)))
  ELSE Threw(m.stack)

do_neg(m) ==
  IF isNumber(Last(m.stack))
  THEN Match(m.pos, Append(Front(m.stack), Num(-Last(m.stack).value)))
  ELSE Threw(m.stack)

(* What follows a parenthesis and an expression.  Mutant: nothing need.    *)
maybe_close(typed, e) ==
  IF e.ok /\ At(typed, e.pos, ")") THEN Match(e.pos + 1, e.stack) ELSE e

close(typed, e) ==
  IF e.ok /\ At(typed, e.pos, ")") THEN Match(e.pos + 1, e.stack)
  ELSE [e EXCEPT !.ok = FALSE]

(* The action of each operator, per rule.  Mutant: one rule for them all. *)
one_rule ==
  LET all == "+" :> "ADD" @@ "-" :> "SUBTRACT" @@ "*" :> "MULTIPLY" @@ "/" :> "DIVIDE"
  IN  [expression |-> all, term |-> all]
do_op == [expression |-> "+" :> "ADD" @@ "-" :> "SUBTRACT",
          term |-> "*" :> "MULTIPLY" @@ "/" :> "DIVIDE"]

RECURSIVE expression(_, _, _), term(_, _, _), factor(_, _, _), chain(_, _, _)

factor(typed, pos, stack) ==
  CASE At(typed, pos, "num") -> Match(pos + 1, Append(stack, typed[pos]))
    [] At(typed, pos, "(") -> close(typed, expression(typed, pos + 1, stack))
    [] At(typed, pos, "-") ->
         LET f == factor(typed, pos + 1, stack)
         IN  IF f.ok THEN do_neg(f) ELSE f
    [] At(typed, pos, "+") -> factor(typed, pos + 1, stack)
    [] OTHER -> NoMatch(stack)

(* The loop of a rule: an operator and its right operand, any number of    *)
(* times; an operator without an operand is given back.                    *)
chain(typed, rule, m) ==
  IF ~m.ok \/ m.pos \notin DOMAIN typed \/ typed[m.pos].kind \notin DOMAIN do_op[rule]
  THEN m
  ELSE LET c == typed[m.pos].kind
           r == IF rule = "term" THEN factor(typed, m.pos + 1, m.stack)
                ELSE term(typed, m.pos + 1, m.stack)
       IN  IF r.ok
           THEN chain(typed, rule, Match(r.pos, Append(r.stack, Op(do_op[rule][c]))))
           ELSE IF r.threw THEN r ELSE Match(m.pos, r.stack)

term(typed, pos, stack) == chain(typed, "term", factor(typed, pos, stack))
expression(typed, pos, stack) == chain(typed, "expression", term(typed, pos, stack))

parse(typed) == expression(typed, 1, <<>>)

(* parse_info::full, which the client does not look at. *)
full(typed, m) == m.ok /\ m.pos = Len(typed) + 1
=============================================================================
