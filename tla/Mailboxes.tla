----------------------------- MODULE Mailboxes -----------------------------
(***************************************************************************)
(* What a message box promises to the threads that talk through it: each   *)
(* addressee gets what was posted to it, everything, once, in order, and   *)
(* whatever is posted to others.                                           *)
(***************************************************************************)
EXTENDS Naturals, Sequences

CONSTANT Addressees

VARIABLES
  posted,   \* per addressee, all that was posted to it
  got       \* per addressee, what it has got

vars == <<posted, got>>

Init ==
  /\ posted = [a \in Addressees |-> <<>>]
  /\ got = [a \in Addressees |-> <<>>]

Post(a) ==
  /\ Len(posted'[a]) = Len(posted[a]) + 1
  /\ SubSeq(posted'[a], 1, Len(posted[a])) = posted[a]
  /\ posted' = [posted EXCEPT ![a] = posted'[a]]
  /\ UNCHANGED got

Take(a) ==
  /\ Len(got[a]) < Len(posted[a])
  /\ got' = [got EXCEPT ![a] = Append(@, posted[a][Len(@) + 1])]
  /\ UNCHANGED posted

Next == \E a \in Addressees : Post(a) \/ Take(a)

Spec == Init /\ [][Next]_vars
=============================================================================
