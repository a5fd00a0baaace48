---------------------------- MODULE RequestPool ----------------------------
(***************************************************************************)
(* What a pool of threads promises to whoever registers requests with it:  *)
(* they are taken up in the order of their registration, each one once and *)
(* by one thread; closing waits for the requests at work and drops those   *)
(* that were never taken up.                                               *)
(***************************************************************************)
EXTENDS Naturals, Sequences, FiniteSets

CONSTANTS
  Requests,
  Workers

VARIABLES
  pending,    \* registered, in order
  working,    \* taken up, no answer yet
  answered,
  dropped,
  open        \* may requests still be registered?

vars == <<pending, working, answered, dropped, open>>

Pending == {pending[i] : i \in 1 .. Len(pending)}
Fresh == Requests \ (Pending \cup working \cup answered \cup dropped)

Init ==
  /\ pending = <<>>
  /\ working = {}
  /\ answered = {}
  /\ dropped = {}
  /\ open = TRUE

Register(r) ==
  /\ open
  /\ r \in Fresh
  /\ pending' = Append(pending, r)
  /\ UNCHANGED <<working, answered, dropped, open>>

TakeUp ==
  /\ pending # <<>>
  /\ Cardinality(working) < Cardinality(Workers)
  /\ working' = working \cup {Head(pending)}
  /\ pending' = Tail(pending)
  /\ UNCHANGED <<answered, dropped, open>>

Answer(r) ==
  /\ r \in working
  /\ working' = working \ {r}
  /\ answered' = answered \cup {r}
  /\ UNCHANGED <<pending, dropped, open>>

StopAccepting ==
  /\ open
  /\ open' = FALSE
  /\ UNCHANGED <<pending, working, answered, dropped>>

Drop ==
  /\ ~open
  /\ working = {}
  /\ pending # <<>>
  /\ dropped' = dropped \cup Pending
  /\ pending' = <<>>
  /\ UNCHANGED <<working, answered, open>>

Next ==
  \/ \E r \in Requests : Register(r) \/ Answer(r)
  \/ TakeUp
  \/ StopAccepting
  \/ Drop

Spec == Init /\ [][Next]_vars
=============================================================================
