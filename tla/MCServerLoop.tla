---------------------------- MODULE MCServerLoop ----------------------------
(* A client that sends any two segments, and one that sends a call and     *)
(* that a firewall may refuse; descriptors for both, an interrupter that   *)
(* holds one byte.                                                         *)
EXTENDS ServerLoop, TLC

CONSTANTS c1, c2

S(kind, keep) == [kind |-> kind, keep_alive |-> keep]

MCClients == {c1, c2}
(* What else is set in a part or a bad packet does not matter; a call that *)
(* ends its connection is what the other client sends.                     *)
AnySegment ==
  {S(kind, FALSE) : kind \in {"part", "bad"}}
  \cup {S(kind, TRUE) : kind \in {"call", "stop", "unknown"}}
MCSegments == c1 :> AnySegment @@ c2 :> {S("call", FALSE)}
MCMaxSends == c1 :> 2 @@ c2 :> 1
MCDoubtful == {c2}
MCFds == {3, 4}
=============================================================================
