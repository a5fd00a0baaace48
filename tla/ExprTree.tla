------------------------------ MODULE ExprTree ------------------------------
(***************************************************************************)
(* ExprTree: an expression as a binary tree laid out in an array (the      *)
(* children of node n are 2n and 2n+1), built from a postfix stack read    *)
(* from its end, turned back into a stack, and cut into pieces of bounded  *)
(* height.                                                                 *)
(***************************************************************************)
EXTENDS Computer, FiniteSetsExt

null_ == [kind |-> "N", value |-> 0]
isOp(e) == e.kind \in Operators

(* add and get *)
add(values, nth, v) ==
  [i \in 1 .. Max({nth, Len(values)}) |->
     IF i = nth THEN v ELSE IF i <= Len(values) THEN values[i] ELSE null_]
get(values, nth) == IF nth \in DOMAIN values THEN values[nth] ELSE null_

parentN(nth) == nth \div 2
(* Mutants: left and right exchanged. *)
leftAsRight(nth) == 2 * nth + 1
leftN(nth) == 2 * nth
rightN(nth) == 2 * nth + 1

(* log2(values_.size()) cut to an int; the log2 of an empty tree is minus  *)
(* infinity, which becomes the least int (TLC has no -2^31).               *)
height(values) ==
  IF values = <<>> THEN -2^30
  ELSE CHOOSE h \in 0 .. Len(values) : 2^h <= Len(values) /\ Len(values) < 2^(h+1)

-----------------------------------------------------------------------------
(* The locals of regenerate; bad marks a top() of an empty emptyBranch. *)
Build(values, parent, emptyBranch, wasOp, bad) ==
  [values |-> values, parent |-> parent, emptyBranch |-> emptyBranch,
   wasOp |-> wasOp, bad |-> bad]

(* Before the loop: the last element becomes the root, and is taken for an *)
(* operator whatever it is.                                                *)
buildRoot(stack) ==
  Build(IF stack = <<>> THEN <<>> ELSE add(<<>>, 1, Last(stack)),
        1, <<>>, TRUE, FALSE)

(* Below an operator: the element is its right child.                      *)
buildRight(b, v) ==
  Build(add(b.values, rightN(b.parent), v),
        IF isOp(v) THEN rightN(b.parent) ELSE b.parent,
        Append(b.emptyBranch, b.parent), isOp(v), b.bad)

(* After an operand: it is the left child of the last node left without.   *)
buildLeft(b, v) ==
  IF b.emptyBranch = <<>> THEN [b EXCEPT !.bad = TRUE]
  ELSE LET p == Last(b.emptyBranch)
       IN  Build(add(b.values, leftN(p), v),
                 IF isOp(v) THEN leftN(p) ELSE parentN(p),
                 Front(b.emptyBranch), isOp(v), b.bad)

buildStep(b, v) == IF b.wasOp THEN buildRight(b, v) ELSE buildLeft(b, v)

(* regenerate: the rest of the stack, from its end.                        *)
regenerate(stack) ==
  IF stack = <<>> THEN <<>>
  ELSE FoldLeft(buildStep, buildRoot(stack), Tail(Reverse(stack))).values

-----------------------------------------------------------------------------
(* The postfix stack of the subtree at node nth. *)
RECURSIVE toStack(_, _)
toStack(values, nth) ==
  LET below(n) == IF isOp(get(values, nth)) /\ get(values, n) # null_
                    THEN toStack(values, n) ELSE <<>>
  IN  below(leftN(nth)) \o below(rightN(nth)) \o <<get(values, nth)>>

(* Pieces of height at most maxH, with the operators that join them, in    *)
(* postfix order.                                                          *)
RECURSIVE chunk(_, _)
chunk(values, maxH) ==
  IF height(values) <= maxH THEN <<values>>
  ELSE chunk(regenerate(toStack(values, leftN(1))), maxH)
       \o chunk(regenerate(toStack(values, rightN(1))), maxH)
       \o << <<get(values, 1)>> >>

(* What dispatchTree takes for an item, copied to the stack of results;    *)
(* anything else is sent to a server.                                      *)
isItem(piece) == height(piece) = 0

(* dispatchTree never cuts below height 1.  Mutant: the limit is one off. *)
looseHeight(maxH) == maxH + 1
cutHeight(maxH) == IF maxH < 1 THEN 1 ELSE maxH
=============================================================================
