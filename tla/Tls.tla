-------------------------------- MODULE Tls --------------------------------
(***************************************************************************)
(* OpenSSL as ssl::Connection calls it: one end of a connection is a       *)
(* value, and so are the records under way in either direction.  Each call *)
(* has a set of outcomes, each with the exception that throw_io_exception  *)
(* makes of it.                                                            *)
(*                                                                         *)
(* A write to a socket whose other end is closed is lost or fails; SIGPIPE *)
(* is taken to be ignored (the library does not ask for that here).        *)
(***************************************************************************)
EXTENDS Naturals, Sequences, SequencesExt

CONSTANTS
  max_record,   \* symbols that fit a record
  Room          \* records under way in either direction

ASSUME TlsAssumption == max_record \in Nat \ {0} /\ Room \in Nat \ {0}

Flight(n) == [is |-> "handshake", n |-> n]
Data(text) == [is |-> "data", text |-> text]
close_notify == [is |-> "close_notify"]
Reset == [is |-> "reset"]

(* Four flights make a handshake; the client begins. *)
Flights == 4
Mine(ssl, n) == (n % 2 = 1) <=> (ssl.role = "client")

(* buf tells which buffer the unsent records of a write were taken from. *)
SSL_new(role) ==
  [role |-> role, flights |-> 0, unsent |-> <<>>, buf |-> 0,
   sent_shutdown |-> FALSE, received_shutdown |-> FALSE]

SSL_in_init(ssl) == ssl.flights < Flights

(* An end of a connection: what it may read, what it may write to, and     *)
(* whether there is another end.                                           *)
End(ssl, in, out, peer) == [ssl |-> ssl, in |-> in, out |-> out, peer |-> peer]

Outcome(end, what) == [end |-> end, what |-> what, text |-> <<>>]
Got(end, text) == [end |-> end, what |-> "ok", text |-> text]

IsReset(end) == \E i \in DOMAIN end.in : end.in[i] = Reset

(* What may be left to read when something was written to a closed end, or *)
(* when the other end was closed before it had read everything.            *)
MayReset(in) == {in, Append(in, Reset), <<Reset>>}

(* A flight is written if there is room.  What a closed end is sent is     *)
(* lost.                                                                   *)
SendFlight(end, n) ==
  LET sent == [end EXCEPT !.ssl.flights = n]
  IN  IF IsReset(end) THEN {Outcome(end, "network_error")}
      ELSE IF ~end.peer
      THEN {Outcome([sent EXCEPT !.in = in], "need_read") : in \in MayReset(end.in)}
      ELSE IF Len(end.out) = Room THEN {Outcome(end, "need_write")}
      ELSE {Outcome([sent EXCEPT !.out = Append(@, Flight(n))],
                    IF n = Flights THEN "ok" ELSE "need_read")}

(* SSL_accept and SSL_connect go on until they have to wait. *)
Handshake(end) ==
  LET n == end.ssl.flights + 1
      read == [end EXCEPT !.ssl.flights = n, !.in = Tail(@)]
  IN  IF Mine(end.ssl, n) THEN SendFlight(end, n)
      ELSE IF end.in = <<>>
      THEN {Outcome(end, what) : what \in
              IF end.peer THEN {"need_read"} ELSE {"connection_close", "network_error"}}
      ELSE IF Head(end.in) = Reset THEN {Outcome(end, "network_error")}
      ELSE IF n = Flights THEN {Outcome(read, "ok")}
      ELSE SendFlight(read, n + 1)

(* A record at a time: buffers are not smaller.  An end that has the       *)
(* other's alert reads nothing more.                                       *)
SSL_read(end) ==
  IF end.ssl.received_shutdown THEN {Outcome(end, "connection_close")}
  ELSE IF end.in = <<>>
  THEN {Outcome(end, IF end.peer THEN "need_read" ELSE "connection_close")}
  ELSE LET record == Head(end.in)
           rest == [end EXCEPT !.in = Tail(@)]
       IN  CASE record = Reset -> {Outcome(end, "network_error")}
             [] record = close_notify ->
                  {Outcome([rest EXCEPT !.ssl.received_shutdown = TRUE], "connection_close")}
             [] OTHER -> {Got(rest, record.text)}

(* A text in records. *)
Records(text) ==
  [i \in 1 .. (Len(text) + max_record - 1) \div max_record |->
     Data(SubSeq(text, (i - 1) * max_record + 1, Min({i * max_record, Len(text)})))]

(* All of the text is written, or none of it yet.  A write that was begun  *)
(* goes on with the same buffer or not at all.                             *)
SSL_write(end, text, buf) ==
  LET records == IF end.ssl.unsent = <<>> THEN Records(text) ELSE end.ssl.unsent
      fit == Min({Len(records), Room - Len(end.out)})
      written == [end EXCEPT !.out = @ \o SubSeq(records, 1, fit),
                             !.ssl.unsent = SubSeq(records, fit + 1, Len(records)),
                             !.ssl.buf = IF fit = Len(records) THEN 0 ELSE buf]
  IN  IF end.ssl.sent_shutdown \/ end.ssl.buf \notin {0, buf} THEN {Outcome(end, "exception")}
      ELSE IF IsReset(end) THEN {Outcome(end, "network_error")}
      ELSE IF ~end.peer
      THEN {Outcome([end EXCEPT !.in = in, !.ssl.unsent = <<>>, !.ssl.buf = 0], "ok") :
              in \in MayReset(end.in)}
      ELSE {Outcome(written, IF fit = Len(records) THEN "ok" ELSE "need_write")}

(* The alert is sent when there is room; else it is lost, or the call is   *)
(* to be repeated, as the library's version has it.  The result says       *)
(* whether the other end's alert has come.                                 *)
SSL_shutdown(end) ==
  LET sent == [end EXCEPT !.ssl.sent_shutdown = TRUE]
      Done(e) == Outcome(e, IF e.ssl.received_shutdown THEN "ok" ELSE "one_way")
  IN  IF SSL_in_init(end.ssl) THEN {Outcome(end, "ok")}
      ELSE IF IsReset(end) THEN {Done(sent), Outcome(end, "network_error")}
      ELSE IF ~end.peer THEN {Done(sent)}
      ELSE IF Len(end.out) = Room THEN {Done(sent), Outcome(end, "need_write")}
      ELSE {Done([sent EXCEPT !.out = Append(@, close_notify)])}

(* The flags are replaced, not added to. *)
SSL_set_shutdown(ssl) == [ssl EXCEPT !.sent_shutdown = FALSE, !.received_shutdown = TRUE]
=============================================================================
