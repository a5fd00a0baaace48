--------------------------- MODULE MCComputation ----------------------------
(* Expressions by the rules of the grammar, with their value worked out    *)
(* from their structure and not from a stack; and what is no expression.   *)
EXTENDS Computation

Worth(o, a, b) ==
  CASE o = "+" -> <<a + b>>
    [] o = "-" -> <<a - b>>
    [] o = "*" -> <<a * b>>
    [] o = "/" -> IF b = 0 THEN <<>> ELSE <<Quotient(a, b)>>

(* "number": is it a number, but for signs and parentheses?                *)
Expr(typed, val, number) == [typed |-> typed, val |-> val, number |-> number]
Number(n) == Expr(<<Num(n)>>, <<n>>, TRUE)
Paren(e) == Expr(<<Token("(")>> \o e.typed \o <<Token(")")>>, e.val, e.number)
Plus(e) == Expr(<<Token("+")>> \o e.typed, e.val, e.number)
Minus(e) == Expr(<<Token("-")>> \o e.typed, IF e.number THEN <<-e.val[1]>> ELSE <<>>, e.number)
Join(l, o, r) ==
  Expr(l.typed \o <<Token(o)>> \o r.typed,
       IF l.val = <<>> \/ r.val = <<>> THEN <<>> ELSE Worth(o, l.val[1], r.val[1]), FALSE)

Joins(L(_), ops, R(_), n) ==
  UNION {{Join(l, o, r) : l \in L(k), o \in ops, r \in R(n - k - 1)} : k \in 1 .. n - 2}

(* The expressions, terms and factors of n tokens over these operands.     *)
RECURSIVE E(_, _), T(_, _), F(_, _)
F(n, operands) ==
  IF n = 1 THEN {Number(x) : x \in operands}
  ELSE {Plus(e) : e \in F(n - 1, operands)} \cup {Minus(e) : e \in F(n - 1, operands)}
       \cup (IF n > 2 THEN {Paren(e) : e \in E(n - 2, operands)} ELSE {})
T(n, operands) ==
  F(n, operands) \cup
  Joins(LAMBDA k : T(k, operands), {"*", "/"}, LAMBDA k : F(k, operands), n)
E(n, operands) ==
  T(n, operands) \cup
  Joins(LAMBDA k : E(k, operands), {"+", "-"}, LAMBDA k : T(k, operands), n)

(* Every shape of a tree with n operands, to the last parenthesis.         *)
RECURSIVE Trees(_)
Trees(n) ==
  IF n = 1 THEN {Number(1)}
  ELSE {Paren(e) : e \in Joins(Trees, {"-"}, Trees, n + 1)}

ValuesOf(exprs) == {e.val[1] : e \in {x \in exprs : x.val # <<>>}}
AnyFatal(exprs) == \E e \in exprs : e.val = <<>>

Input(typed, exprs, grammatical) ==
  [typed |-> typed, values |-> ValuesOf(exprs), fatal |-> AnyFatal(exprs),
   grammatical |-> grammatical]

(* Anything of at most four tokens, and of five without "+" and "/".       *)
Tokens == {Num(2)} \cup {Token(c) : c \in {"+", "-", "*", "/", "(", ")"}}
Typed ==
  UNION {[1 .. n -> Tokens] : n \in 1 .. 4}
  \cup [1 .. 5 -> Tokens \ {Token("+"), Token("/")}]
Expressions == UNION {E(n, {2, 3}) : n \in 1 .. 6} \cup UNION {E(n, {0}) : n \in 1 .. 5}
(* The expressions that are a part of what is typed.                       *)
Within(t, exprs) ==
  {e \in exprs : e.typed \in {SubSeq(t, i, j) : i, j \in DOMAIN t}}

Grammatical(exprs) == {Input(e.typed, {e}, TRUE) : e \in exprs}
Others(exprs) ==
  {Input(t, Within(t, exprs), FALSE) : t \in Typed \ {e.typed : e \in exprs}}

MCHeights == -1 .. 3
MCInputs ==
  UNION {Others(exprs) : exprs \in {{e \in Expressions : e.typed \in Typed}}}
  \cup Grammatical(Expressions \cup UNION {Trees(n) : n \in 4 .. 7})
=============================================================================
