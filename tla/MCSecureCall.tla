---------------------------- MODULE MCSecureCall ----------------------------
(***************************************************************************)
(* SecureCall with three requests: one of two records, one of three, and   *)
(* one that the server finds too large; and with two of four records and   *)
(* of one length, and one that begins as the first and ends as the second. *)
(***************************************************************************)
EXTENDS SecureCall

Short == "short"
Long == "long"
TooLong == "too long"
Alpha == "alpha"
Beta == "beta"
Mixed == "mixed"
Pieces(m, n) == [i \in 1 .. n |-> [is |-> "piece", of |-> m, i |-> i]]
Size(m) == CASE m = Short -> 1 [] m = Long -> 3 [] m = TooLong -> 6 [] m \in {Alpha, Beta} -> 5

RequestPieces(req) ==
  IF req = Mixed THEN SubSeq(Pieces(Alpha, 5), 1, 3) \o SubSeq(Pieces(Beta, 5), 4, 5)
  ELSE Pieces(req, Size(req))
Result(req) == [is |-> "value", of |-> req]
ResponsePieces(resp) == Pieces(resp, IF resp.is = "value" /\ resp.of = Long THEN 3 ELSE 1)

ProgramRequests == {Short, Long, TooLong, Alpha, Beta, Mixed}

Session(keep, timeout, requests) ==
  [keep_alive |-> keep, timeout |-> timeout, requests |-> requests]
ProgramSessions ==
  {Session(keep, timeout, requests) : keep \in BOOLEAN, timeout \in BOOLEAN,
     requests \in {<<Short, Long>>, <<Long, Short>>, <<TooLong, Short>>}}
  \cup {Session(TRUE, timeout, <<TooLong, Short, Short>>) : timeout \in BOOLEAN}
  \cup {Session(TRUE, TRUE, requests) :
          requests \in {<<Long, Long>>, <<Alpha, Beta>>, <<Beta, Alpha>>, <<Long, Alpha, Short>>}}
=============================================================================
