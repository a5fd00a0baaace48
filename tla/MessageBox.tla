----------------------------- MODULE MessageBox -----------------------------
(***************************************************************************)
(* dispcalc::MessageBox as a value: inbox_, a multimap from addressees to  *)
(* messages.  It is a sequence in the order of the keys; the library's     *)
(* multimap inserts behind the entries of the same key and finds the first *)
(* of them.  Both operations hold the box's mutex from start to end.       *)
(***************************************************************************)
EXTENDS Naturals, Sequences, SequencesExt

CONSTANT Keys     \* the addressees, in the order of their names

Entry(to, message) == [to |-> to, message |-> message]

Rank(d) == CHOOSE i \in DOMAIN Keys : Keys[i] = d

(* Where d's entries begin, and where the next key's do. *)
LowerBound(inbox, d) ==
  CHOOSE i \in 1 .. Len(inbox) + 1 :
    \A j \in DOMAIN inbox : Rank(inbox[j].to) < Rank(d) <=> j < i
UpperBound(inbox, d) ==
  CHOOSE i \in 1 .. Len(inbox) + 1 :
    \A j \in DOMAIN inbox : Rank(inbox[j].to) <= Rank(d) <=> j < i

(* Mutants: a new message is put before the others of its addressee, or in *)
(* the place of the last one, as in a map with one message per key.        *)
postFirst(inbox, d, m) == InsertAt(inbox, LowerBound(inbox, d), Entry(d, m))

postOver(inbox, d, m) ==
  IF UpperBound(inbox, d) = LowerBound(inbox, d)
  THEN InsertAt(inbox, UpperBound(inbox, d), Entry(d, m))
  ELSE [inbox EXCEPT ![UpperBound(inbox, d) - 1] = Entry(d, m)]

postMessage(inbox, d, m) == InsertAt(inbox, UpperBound(inbox, d), Entry(d, m))

Has(inbox, d) == \E i \in DOMAIN inbox : inbox[i].to = d

found(inbox, d) == inbox[LowerBound(inbox, d)].message

erased(inbox, d) == RemoveAt(inbox, LowerBound(inbox, d))

MessagesFor(inbox, d) == SubSeq(inbox, LowerBound(inbox, d), UpperBound(inbox, d) - 1)
=============================================================================
