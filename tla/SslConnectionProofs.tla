------------------------- MODULE SslConnectionProofs -------------------------
(***************************************************************************)
(* What ssl::Reaction_connection and the calls of OpenSSL under it do, for *)
(* every size of a record and any room for records under way: what each of *)
(* them leaves of a connection and of the records in either direction,     *)
(* what it waits for, and what it reports.                                 *)
(***************************************************************************)
EXTENDS SslConnection, DataLemmas

(* Records under way: no more than there is room for, and a reset.         *)
HasReset(pipe) == \E i \in DOMAIN pipe : pipe[i] = Reset
Clean(pipe) == IsText(pipe) /\ Len(pipe) <= Room /\ ~HasReset(pipe)
Broken(pipe) == IsText(pipe) /\ Len(pipe) <= Room + 1 /\ HasReset(pipe)
Pipe(pipe) == Clean(pipe) \/ Broken(pipe)

IsSsl(ssl) ==
  /\ ssl \in [role : {"client", "server"}, flights : Nat, unsent : {ssl.unsent}, buf : {ssl.buf},
              sent_shutdown : BOOLEAN, received_shutdown : BOOLEAN]
  /\ IsText(ssl.unsent) /\ ~HasReset(ssl.unsent)

IsConnection(c) ==
  /\ c \in [state : States, mask : SUBSET {"INPUT", "OUTPUT"}, ssl : {c.ssl},
            send_buf : {c.send_buf}, buf : {c.buf}]
  /\ IsSsl(c.ssl) /\ IsText(c.send_buf)

(* The symbols that are in the first i records of a text.                  *)
Cut(text, i) == Min({i * max_record, Len(text)})
Number(text) == Len(Records(text))

(* Records m + 1 to k of a text are under way and nothing else is; or what *)
(* is left of those behind m, and the end of the stream.                   *)
Full(pipe, text, m, k) ==
  /\ k \in m .. Number(text) /\ Len(pipe) = k - m
  /\ \A i \in DOMAIN pipe : pipe[i] = Records(text)[m + i]

Remains(pipe, text, m) ==
  \A i \in DOMAIN pipe :
    \/ pipe[i] \in {close_notify, Reset}
    \/ m + i <= Number(text) /\ pipe[i] = Records(text)[m + i]

(* A write of a text, the first k records of which are sent.               *)
Rest(ssl, text) == IF ssl.unsent = <<>> THEN Records(text) ELSE ssl.unsent
Writes(c, text, k) ==
  /\ c.state = "WRITING" /\ c.send_buf = text /\ k \in 0 .. Number(text) - 1
  /\ Rest(c.ssl, text) = SubSeq(Records(text), k + 1, Number(text))

-----------------------------------------------------------------------------
(* Texts and records under way. *)

LEMMA CleanAppended ==
  ASSUME NEW pipe, Clean(pipe), Len(pipe) # Room, NEW e, e # Reset
  PROVE  Clean(Append(pipe, e))
<1> DEFINE t == Append(pipe, e)
<1>1. /\ IsText(t) /\ Len(t) = Len(pipe) + 1 /\ DOMAIN t = 1 .. Len(pipe) + 1
      /\ t[Len(pipe) + 1] = e /\ \A i \in 1 .. Len(pipe) : t[i] = pipe[i]
  BY TextAppended DEF Clean
<1>2. /\ Len(pipe) \in Nat /\ DOMAIN pipe = 1 .. Len(pipe) /\ Len(pipe) <= Room /\ Len(pipe) # Room
      /\ Room \in Nat
  BY TextIs, TlsAssumption DEF Clean
<1> HIDE DEF t
<1>3. Len(t) <= Room
  <2> DEFINE n == Len(pipe)
  <2>1. n \in Nat /\ Room \in Nat /\ n <= Room /\ n # Room
    BY <1>2
  <2> HIDE DEF n
  <2>2. n + 1 <= Room
    BY <2>1
  <2> QED BY <1>1, <2>2 DEF n
<1>4. ASSUME NEW i \in DOMAIN t PROVE t[i] # Reset
  <2>1. \A j \in 1 .. Len(pipe) : pipe[j] # Reset
    BY <1>2 DEF Clean, HasReset
  <2>2. i \in 1 .. Len(pipe) + 1 /\ Len(pipe) \in Nat
    BY <1>1, <1>2
  <2>3. CASE i = Len(pipe) + 1
    BY <1>1, <2>3
  <2>4. CASE i # Len(pipe) + 1
    <3>1. i \in 1 .. Len(pipe)
      BY <2>2, <2>4
    <3> QED BY <1>1, <2>1, <3>1
  <2> QED BY <2>3, <2>4
<1> QED BY <1>1, <1>3, <1>4 DEF Clean, HasReset, t

LEMMA CleanJoined ==
  ASSUME NEW pipe, Clean(pipe), NEW u, IsText(u), ~HasReset(u), Len(u) <= Room - Len(pipe)
  PROVE  Clean(pipe \o u)
<1> DEFINE t == pipe \o u
<1>1. Joined(t, pipe, u)
  <2>1. IsText(pipe)
    BY DEF Clean
  <2> QED BY <2>1, TextJoins
<1>2. Len(pipe) \in Nat /\ Len(u) \in Nat /\ Room \in Nat
  BY TextIs, TlsAssumption DEF Clean
<1> HIDE DEF t
<1>3. IsText(t) /\ Len(t) <= Room
  BY <1>1, <1>2 DEF Joined
<1>4. ~HasReset(t)
  BY <1>1 DEF Joined, Clean, HasReset
<1> QED BY <1>3, <1>4 DEF Clean, t

LEMMA PipeTail ==
  ASSUME NEW pipe, pipe # <<>>, Pipe(pipe), Head(pipe) # Reset
  PROVE  Pipe(Tail(pipe)) /\ (Clean(pipe) => Clean(Tail(pipe)))
<1> DEFINE t == Tail(pipe)
<1>1. IsText(pipe)
  BY DEF Pipe, Clean, Broken
<1>2. /\ IsText(t) /\ Len(t) = Len(pipe) - 1 /\ Len(pipe) > 0 /\ Len(pipe) \in Nat
      /\ \A i \in DOMAIN t : \E j \in DOMAIN pipe : t[i] = pipe[j]
  BY <1>1, TextTail, TextIs
<1> HIDE DEF t
<1>3. CASE Clean(pipe)
  <2>1. Len(t) <= Room
    BY <1>2, <1>3, TlsAssumption DEF Clean
  <2>2. ~HasReset(t)
    BY <1>2, <1>3 DEF Clean, HasReset
  <2>3. Clean(t)
    BY <1>2, <2>1, <2>2 DEF Clean
  <2> QED BY <2>3 DEF Pipe, t
<1>4. CASE Broken(pipe) /\ ~Clean(pipe)
  <2>1. Len(t) <= Room
    BY <1>2, <1>4, TlsAssumption DEF Broken
  <2>2. Len(t) <= Room + 1
    BY <1>2, <2>1, TlsAssumption
  <2>3. Pipe(t)
    BY <1>2, <2>1, <2>2 DEF Pipe, Clean, Broken
  <2> QED BY <1>4, <2>3 DEF t
<1> QED BY <1>3, <1>4 DEF Pipe

LEMMA ResetIs == HasReset(<<Reset>>) /\ IsText(<<Reset>>) /\ Len(<<Reset>>) = 1
<1>1. <<Reset>> \in Seq({Reset}) /\ Len(<<Reset>>) = 1 /\ <<Reset>>[1] = Reset /\ 1 \in DOMAIN <<Reset>>
  OBVIOUS
<1> QED BY <1>1, TextOf DEF HasReset

(* A reset comes behind what is under way, or in place of it.              *)
LEMMA ResetPipe ==
  ASSUME NEW pipe, Clean(pipe), NEW new \in MayReset(pipe)
  PROVE  Pipe(new) /\ Len(new) <= Len(pipe) + 1
<1>1. IsText(pipe) /\ Len(pipe) \in Nat /\ Len(pipe) <= Room /\ Room \in Nat
  BY TextIs, TlsAssumption DEF Clean
<1>2. CASE new = pipe
  BY <1>1, <1>2 DEF Pipe
<1>3. CASE new = Append(pipe, Reset)
  <2>1. /\ IsText(new) /\ Len(new) = Len(pipe) + 1 /\ DOMAIN new = 1 .. Len(pipe) + 1
        /\ new[Len(pipe) + 1] = Reset
    BY <1>1, <1>3, TextAppended
  <2>2. HasReset(new)
    BY <1>1, <2>1 DEF HasReset
  <2>3. Len(new) <= Room + 1 /\ Len(new) <= Len(pipe) + 1
    BY <1>1, <2>1
  <2> QED BY <2>1, <2>2, <2>3 DEF Pipe, Broken
<1>4. CASE new = <<Reset>>
  <2>1. Len(new) <= Room + 1 /\ Len(new) <= Len(pipe) + 1
    BY <1>1, <1>4, ResetIs
  <2> QED BY <1>4, <2>1, ResetIs DEF Pipe, Broken
<1> QED BY <1>2, <1>3, <1>4 DEF MayReset

LEMMA RecordsAre ==
  ASSUME NEW text, IsText(text)
  PROVE  IsText(Records(text)) /\ ~HasReset(Records(text))
<1> DEFINE n == (Len(text) + max_record - 1) \div max_record
           e(i) == Data(SubSeq(text, (i - 1) * max_record + 1, Min({i * max_record, Len(text)})))
           S == {e(i) : i \in 1 .. n}
           r == [i \in 1 .. n |-> e(i)]
<1>1. n \in Nat
  <2>1. Len(text) \in Nat /\ max_record \in Nat \ {0}
    BY TextIs, TlsAssumption
  <2>2. Len(text) + max_record - 1 \in Nat
    BY <2>1
  <2> QED BY <2>1, <2>2
<1>2. Records(text) = r
  BY DEF Records
<1>3. ASSUME NEW i PROVE e(i) # Reset
  BY DEF Data, Reset
<1> HIDE DEF n, e
<1>4. r \in [1 .. n -> S]
  OBVIOUS
<1>5. r \in Seq(S)
  BY <1>1, <1>4, SeqDef
<1>6. \A i \in DOMAIN r : r[i] # Reset
  BY <1>3
<1> HIDE DEF r, S
<1>7. IsText(r)
  BY <1>5, TextOf
<1> QED BY <1>2, <1>6, <1>7 DEF HasReset

-----------------------------------------------------------------------------
(* The calls of OpenSSL. *)

(* What every call leaves: an end, and records in either direction, of     *)
(* which nothing is added for an end that is closed.                       *)
Left(o, ssl, in, out, peer) ==
  /\ IsSsl(o.end.ssl) /\ o.end.ssl.role = ssl.role
  /\ Pipe(o.end.in) /\ (peer => Clean(o.end.in))
  /\ Clean(o.end.out) /\ (~ peer => o.end.out = out)

IsEnd(ssl, in, out, peer) ==
  IsSsl(ssl) /\ Pipe(in) /\ (peer => Clean(in)) /\ Clean(out) /\ peer \in BOOLEAN

LEMMA SslChanged ==
  ASSUME NEW ssl, IsSsl(ssl)
  PROVE  /\ \A n \in Nat : LET new == [ssl EXCEPT !.flights = n]
                           IN  /\ IsSsl(new) /\ new.role = ssl.role /\ new.flights = n
                               /\ new.sent_shutdown = ssl.sent_shutdown
                               /\ new.received_shutdown = ssl.received_shutdown
         /\ \A b \in BOOLEAN : LET new == [ssl EXCEPT !.sent_shutdown = b]
                               IN  /\ IsSsl(new) /\ new.role = ssl.role
                                   /\ new.received_shutdown = ssl.received_shutdown
         /\ \A b \in BOOLEAN : LET new == [ssl EXCEPT !.received_shutdown = b]
                               IN  /\ IsSsl(new) /\ new.role = ssl.role
                                   /\ new.sent_shutdown = ssl.sent_shutdown
         /\ \A u, b : IsText(u) /\ ~HasReset(u) =>
              LET new == [ssl EXCEPT !.unsent = u, !.buf = b]
              IN  /\ IsSsl(new) /\ new.role = ssl.role
                  /\ new.sent_shutdown = ssl.sent_shutdown
<1>1. /\ ssl \in [role : {"client", "server"}, flights : Nat, unsent : {ssl.unsent}, buf : {ssl.buf},
                  sent_shutdown : BOOLEAN, received_shutdown : BOOLEAN]
      /\ IsText(ssl.unsent) /\ ~HasReset(ssl.unsent)
  BY DEF IsSsl
<1>2. \A n \in Nat : LET new == [ssl EXCEPT !.flights = n]
                     IN  /\ IsSsl(new) /\ new.role = ssl.role /\ new.flights = n
                         /\ new.sent_shutdown = ssl.sent_shutdown
                         /\ new.received_shutdown = ssl.received_shutdown
  BY <1>1 DEF IsSsl
<1>3. \A b \in BOOLEAN : LET new == [ssl EXCEPT !.sent_shutdown = b]
                         IN  /\ IsSsl(new) /\ new.role = ssl.role
                             /\ new.received_shutdown = ssl.received_shutdown
  BY <1>1 DEF IsSsl
<1>4. \A b \in BOOLEAN : LET new == [ssl EXCEPT !.received_shutdown = b]
                         IN  /\ IsSsl(new) /\ new.role = ssl.role
                             /\ new.sent_shutdown = ssl.sent_shutdown
  BY <1>1 DEF IsSsl
<1>5. \A u, b : IsText(u) /\ ~HasReset(u) =>
        LET new == [ssl EXCEPT !.unsent = u, !.buf = b]
        IN  /\ IsSsl(new) /\ new.role = ssl.role
            /\ new.sent_shutdown = ssl.sent_shutdown
  <2> SUFFICES ASSUME NEW u, NEW b, IsText(u), ~HasReset(u)
               PROVE  LET new == [ssl EXCEPT !.unsent = u, !.buf = b]
                      IN  /\ IsSsl(new) /\ new.role = ssl.role
                          /\ new.sent_shutdown = ssl.sent_shutdown
    OBVIOUS
  <2> QED BY <1>1 DEF IsSsl
<1> QED BY <1>2, <1>3, <1>4, <1>5

LEMMA NoReset ==
  ASSUME NEW pipe, Pipe(pipe), ~HasReset(pipe)
  PROVE  Clean(pipe)
  BY DEF Pipe, Broken

LEMMA Sending ==
  ASSUME NEW ssl, NEW in, NEW out, NEW peer, IsEnd(ssl, in, out, peer), NEW n \in Nat,
         NEW o \in SendFlight(End(ssl, in, out, peer), n)
  PROVE  /\ Left(o, ssl, in, out, peer) /\ o.end.ssl.sent_shutdown = ssl.sent_shutdown
         /\ o.end.ssl.received_shutdown = ssl.received_shutdown
         /\ o.what \in {"ok", "need_read", "need_write", "network_error"}
         /\ o.what = "need_read" => o.end.ssl.flights = n
         /\ o.what = "need_write" => o.end.ssl = ssl
<1> DEFINE end == End(ssl, in, out, peer)
           new == [ssl EXCEPT !.flights = n]
<1>1. /\ end.ssl = ssl /\ end.in = in /\ end.out = out /\ end.peer = peer
      /\ IsReset(end) <=> HasReset(in)
  BY DEF End, IsReset, HasReset
<1>2. /\ IsSsl(ssl) /\ Pipe(in) /\ (peer => Clean(in)) /\ Clean(out) /\ peer \in BOOLEAN
      /\ IsSsl(new) /\ new.role = ssl.role /\ new.flights = n
      /\ new.sent_shutdown = ssl.sent_shutdown
      /\ new.received_shutdown = ssl.received_shutdown
  BY SslChanged DEF IsEnd
<1>3. \A in1, out1 : LET e == [[end EXCEPT !.ssl.flights = n] EXCEPT !.in = in1]
                         f == [[end EXCEPT !.ssl.flights = n] EXCEPT !.out = out1]
                     IN  /\ e.ssl = new /\ e.in = in1 /\ e.out = out
                         /\ f.ssl = new /\ f.in = in /\ f.out = out1
  BY DEF End
<1>4. CASE HasReset(in)
  <2>1. o = Outcome(end, "network_error")
    BY <1>1, <1>4 DEF SendFlight
  <2>2. o.end = end /\ o.what = "network_error"
    BY <2>1 DEF Outcome
  <2> QED BY <1>1, <1>2, <2>2 DEF Left
<1>5. CASE ~HasReset(in) /\ ~peer
  <2>1. PICK in1 \in MayReset(in) :
          o = Outcome([[end EXCEPT !.ssl.flights = n] EXCEPT !.in = in1], "need_read")
    BY <1>1, <1>5 DEF SendFlight
  <2>2. o.end.ssl = new /\ o.end.in = in1 /\ o.end.out = out /\ o.what = "need_read"
    BY <1>3, <2>1 DEF Outcome
  <2>3. Pipe(in1)
    BY <1>2, <1>5, NoReset, ResetPipe
  <2> QED BY <1>2, <1>5, <2>2, <2>3 DEF Left
<1>6. CASE ~HasReset(in) /\ peer /\ Len(out) = Room
  <2>1. o = Outcome(end, "need_write")
    BY <1>1, <1>6 DEF SendFlight
  <2>2. o.end = end /\ o.what = "need_write"
    BY <2>1 DEF Outcome
  <2> QED BY <1>1, <1>2, <2>2 DEF Left
<1>7. CASE ~HasReset(in) /\ peer /\ Len(out) # Room
  <2>1. o = Outcome([[end EXCEPT !.ssl.flights = n] EXCEPT !.out = Append(out, Flight(n))],
                    IF n = Flights THEN "ok" ELSE "need_read")
    BY <1>1, <1>7 DEF SendFlight, End
  <2>2. /\ o.end.ssl = new /\ o.end.in = in /\ o.end.out = Append(out, Flight(n))
        /\ o.what \in {"ok", "need_read"}
    BY <1>3, <2>1 DEF Outcome
  <2>3. Clean(Append(out, Flight(n)))
    <3>1. Flight(n) # Reset
      BY DEF Flight, Reset
    <3> QED BY <1>2, <1>7, <3>1, CleanAppended
  <2> QED BY <1>2, <1>7, <2>2, <2>3 DEF Left
<1> QED BY <1>2, <1>4, <1>5, <1>6, <1>7

LEMMA Parity ==
  ASSUME NEW n \in Nat
  PROVE  /\ n % 2 \in {0, 1} /\ n + 1 \in Nat
         /\ n % 2 = 0 => (n + 1) % 2 = 1
         /\ n % 2 = 1 => (n + 1) % 2 = 0
  OBVIOUS

(* A record has been read. *)
LEMMA ReadRest ==
  ASSUME NEW ssl, NEW in, NEW out, NEW peer, IsEnd(ssl, in, out, peer),
         in # <<>>, Head(in) # Reset, NEW new, IsSsl(new)
  PROVE  /\ IsEnd(new, Tail(in), out, peer)
         /\ Pipe(Tail(in)) /\ (peer => Clean(Tail(in)))
<1>1. Pipe(in) /\ (peer => Clean(in)) /\ Clean(out) /\ peer \in BOOLEAN
  BY DEF IsEnd
<1>2. Pipe(Tail(in)) /\ (Clean(in) => Clean(Tail(in)))
  BY <1>1, PipeTail
<1> QED BY <1>1, <1>2 DEF IsEnd

(* A handshake that waits to read has an even number of flights behind it, *)
(* at the server's end, and one that waits to write an odd number.         *)
LEMMA Handshaking ==
  ASSUME NEW ssl, NEW in, NEW out, NEW peer, IsEnd(ssl, in, out, peer),
         NEW o \in Handshake(End(ssl, in, out, peer))
  PROVE  /\ Left(o, ssl, in, out, peer) /\ o.end.ssl.sent_shutdown = ssl.sent_shutdown
         /\ o.end.ssl.received_shutdown = ssl.received_shutdown
         /\ o.what \in {"ok", "need_read", "need_write", "connection_close", "network_error"}
         /\ ssl.role = "server" /\ o.what = "need_read" => o.end.ssl.flights % 2 = 0
         /\ ssl.role = "server" /\ o.what = "need_write" => o.end.ssl.flights % 2 = 1
<1> DEFINE end == End(ssl, in, out, peer)
           n == ssl.flights + 1
           new == [ssl EXCEPT !.flights = n]
           read == [end EXCEPT !.ssl.flights = n, !.in = Tail(@)]
<1>1. end.ssl = ssl /\ end.in = in /\ end.out = out /\ end.peer = peer
  BY DEF End
<1>2. /\ IsSsl(ssl) /\ Pipe(in) /\ (peer => Clean(in)) /\ Clean(out) /\ peer \in BOOLEAN
      /\ ssl.flights \in Nat
  BY DEF IsEnd, IsSsl
<1>3. n \in Nat /\ n + 1 \in Nat /\ ssl.flights % 2 \in {0, 1}
      /\ (ssl.flights % 2 = 0 => n % 2 = 1) /\ (ssl.flights % 2 = 1 => n % 2 = 0)
      /\ (n % 2 = 1 => (n + 1) % 2 = 0)
  BY <1>2, Parity
<1>4. /\ IsSsl(new) /\ new.role = ssl.role /\ new.flights = n
      /\ new.sent_shutdown = ssl.sent_shutdown
      /\ new.received_shutdown = ssl.received_shutdown
  BY <1>2, <1>3, SslChanged
<1>5. read = End(new, Tail(in), out, peer)
  <2>1. read = [end EXCEPT !.ssl.flights = n, !.in = Tail(in)]
    BY <1>1
  <2> HIDE DEF n
  <2>2. [end EXCEPT !.ssl.flights = n, !.in = Tail(in)]
        = [[end EXCEPT !.ssl.flights = n] EXCEPT !.in = Tail(in)]
    BY DEF End
  <2>3. [end EXCEPT !.ssl.flights = n] = End(new, in, out, peer)
    BY DEF End
  <2> HIDE DEF new
  <2>4. \A t : [End(new, in, out, peer) EXCEPT !.in = t] = End(new, t, out, peer)
    BY DEF End
  <2> QED BY <2>1, <2>2, <2>3, <2>4
<1>6. ssl.role = "server" => (Mine(ssl, n) <=> n % 2 = 0)
  BY <1>3 DEF Mine
<1> HIDE DEF n, new
<1>7. CASE Mine(ssl, n)
  <2>1. o \in SendFlight(End(ssl, in, out, peer), n)
    BY <1>1, <1>7 DEF Handshake, n
  <2>2. /\ Left(o, ssl, in, out, peer) /\ o.end.ssl.sent_shutdown = ssl.sent_shutdown
        /\ o.end.ssl.received_shutdown = ssl.received_shutdown
        /\ o.what \in {"ok", "need_read", "need_write", "network_error"}
        /\ (o.what = "need_read" => o.end.ssl.flights = n)
        /\ (o.what = "need_write" => o.end.ssl = ssl)
    BY <1>3, <2>1, Sending
  <2>3. ssl.role = "server" => n % 2 = 0 /\ ssl.flights % 2 = 1
    BY <1>3, <1>6, <1>7
  <2> QED BY <2>2, <2>3
<1>8. CASE ~Mine(ssl, n) /\ in = <<>>
  <2>1. \E what \in {"need_read", "connection_close", "network_error"} : o = Outcome(end, what)
    BY <1>1, <1>8 DEF Handshake, n
  <2>2. o.end = end /\ o.what \in {"need_read", "connection_close", "network_error"}
    BY <2>1 DEF Outcome
  <2>3. ssl.role = "server" => ssl.flights % 2 = 0
    BY <1>3, <1>6, <1>8
  <2> QED BY <1>1, <1>2, <2>2, <2>3 DEF Left
<1>9. CASE ~Mine(ssl, n) /\ in # <<>> /\ Head(in) = Reset
  <2>1. o = Outcome(end, "network_error")
    BY <1>1, <1>9 DEF Handshake, n
  <2>2. o.end = end /\ o.what = "network_error"
    BY <2>1 DEF Outcome
  <2> QED BY <1>1, <1>2, <2>2 DEF Left
<1>10. CASE ~Mine(ssl, n) /\ in # <<>> /\ Head(in) # Reset
  <2>1. IsEnd(new, Tail(in), out, peer) /\ Pipe(Tail(in)) /\ (peer => Clean(Tail(in)))
    BY <1>4, <1>10, ReadRest
  <2>2. CASE n = Flights
    <3>1. o = Outcome(End(new, Tail(in), out, peer), "ok")
      BY <1>1, <1>5, <1>10, <2>2 DEF Handshake, n
    <3>2. o.end.ssl = new /\ o.end.in = Tail(in) /\ o.end.out = out /\ o.what = "ok"
      BY <3>1 DEF Outcome, End
    <3> QED BY <1>2, <1>4, <2>1, <3>2 DEF Left
  <2>3. CASE n # Flights
    <3>1. o \in SendFlight(End(new, Tail(in), out, peer), n + 1)
      BY <1>1, <1>5, <1>10, <2>3 DEF Handshake, n
    <3>2. /\ Left(o, new, Tail(in), out, peer) /\ o.end.ssl.sent_shutdown = new.sent_shutdown
          /\ o.end.ssl.received_shutdown = new.received_shutdown
          /\ o.what \in {"ok", "need_read", "need_write", "network_error"}
          /\ (o.what = "need_read" => o.end.ssl.flights = n + 1)
          /\ (o.what = "need_write" => o.end.ssl = new)
      BY <1>3, <2>1, <3>1, Sending
    <3>3. ssl.role = "server" => n % 2 = 1 /\ (n + 1) % 2 = 0
      BY <1>3, <1>6, <1>10
    <3> QED BY <1>4, <3>2, <3>3 DEF Left
  <2> QED BY <2>2, <2>3
<1> QED BY <1>7, <1>8, <1>9, <1>10

LEMMA Reading ==
  ASSUME NEW ssl, NEW in, NEW out, NEW peer, IsEnd(ssl, in, out, peer),
         NEW o \in SSL_read(End(ssl, in, out, peer))
  PROVE  /\ Left(o, ssl, in, out, peer) /\ o.end.ssl.sent_shutdown = ssl.sent_shutdown
         /\ o.what # "connection_close" => o.end.ssl.received_shutdown = ssl.received_shutdown
         /\ o.what \in {"ok", "need_read", "connection_close", "network_error"}
<1> DEFINE end == End(ssl, in, out, peer)
           new == [ssl EXCEPT !.received_shutdown = TRUE]
           rest == [end EXCEPT !.in = Tail(@)]
           closed == [rest EXCEPT !.ssl.received_shutdown = TRUE]
<1>1. end.ssl = ssl /\ end.in = in /\ end.out = out /\ end.peer = peer
  BY DEF End
<1>2. IsSsl(ssl) /\ Pipe(in) /\ (peer => Clean(in)) /\ Clean(out) /\ peer \in BOOLEAN
  BY DEF IsEnd
<1>3. /\ rest.ssl = ssl /\ rest.in = Tail(in) /\ rest.out = out
      /\ closed.ssl = new /\ closed.in = Tail(in) /\ closed.out = out
  <2>1. \A t : LET r == [end EXCEPT !.in = t]
                   c == [[end EXCEPT !.in = t] EXCEPT !.ssl.received_shutdown = TRUE]
               IN  /\ r.ssl = ssl /\ r.in = t /\ r.out = out
                   /\ c.ssl = new /\ c.in = t /\ c.out = out
    BY DEF End
  <2>2. rest = [end EXCEPT !.in = Tail(in)]
    BY <1>1
  <2>3. closed = [[end EXCEPT !.in = Tail(in)] EXCEPT !.ssl.received_shutdown = TRUE]
    BY <2>2
  <2> QED BY <2>1, <2>2, <2>3
<1>4. IsSsl(new) /\ new.role = ssl.role /\ new.sent_shutdown = ssl.sent_shutdown
  BY <1>2, SslChanged
<1> HIDE DEF new
<1>8. CASE ssl.received_shutdown
  <2>1. o = Outcome(end, "connection_close")
    BY <1>1, <1>8 DEF SSL_read
  <2>2. o.end = end /\ o.what = "connection_close"
    BY <2>1 DEF Outcome
  <2> QED BY <1>1, <1>2, <2>2 DEF Left
<1>5. CASE ~ ssl.received_shutdown /\ in = <<>>
  <2>1. \E what \in {"need_read", "connection_close"} : o = Outcome(end, what)
    BY <1>1, <1>5 DEF SSL_read
  <2>2. o.end = end /\ o.what \in {"need_read", "connection_close"}
    BY <2>1 DEF Outcome
  <2> QED BY <1>1, <1>2, <2>2 DEF Left
<1>6. CASE ~ ssl.received_shutdown /\ in # <<>> /\ Head(in) = Reset
  <2>1. o = Outcome(end, "network_error")
    <3>1. Reset # close_notify
      BY DEF Reset, close_notify
    <3> QED BY <1>1, <1>6, <3>1 DEF SSL_read
  <2>2. o.end = end /\ o.what = "network_error"
    BY <2>1 DEF Outcome
  <2> QED BY <1>1, <1>2, <2>2 DEF Left
<1>7. CASE ~ ssl.received_shutdown /\ in # <<>> /\ Head(in) # Reset
  <2>1. Pipe(Tail(in)) /\ (peer => Clean(Tail(in)))
    BY <1>2, <1>7, ReadRest
  <2>2. CASE Head(in) = close_notify
    <3>1. o = Outcome(closed, "connection_close")
      BY <1>1, <1>7, <2>2 DEF SSL_read
    <3>2. o.end = closed /\ o.what = "connection_close"
      BY <3>1 DEF Outcome
    <3> QED BY <1>2, <1>3, <1>4, <2>1, <3>2 DEF Left
  <2>3. CASE Head(in) # close_notify
    <3>1. o = Got(rest, Head(in).text)
      BY <1>1, <1>7, <2>3 DEF SSL_read
    <3>2. o.end = rest /\ o.what = "ok"
      BY <3>1 DEF Got
    <3> QED BY <1>2, <1>3, <2>1, <3>2 DEF Left
  <2> QED BY <2>2, <2>3
<1> QED BY <1>5, <1>6, <1>7, <1>8

LEMMA LesserOf ==
  ASSUME NEW a \in Nat, NEW b \in Nat
  PROVE  LET m == Min({a, b})
         IN  m \in Nat /\ m <= a /\ m <= b /\ m \in {a, b}
<1> DEFINE S == {a, b}
<1>1. \E m \in S : \A n \in S : m <= n
  <2>1. S \subseteq Nat /\ S # {}
    OBVIOUS
  <2> HIDE DEF S
  <2> QED BY <2>1, LeastExists
<1>2. Min(S) \in S /\ \A n \in S : Min(S) <= n
  <2> HIDE DEF S
  <2> QED BY <1>1 DEF Min
<1>3. a \in S /\ b \in S
  OBVIOUS
<1> DEFINE m == Min(S)
<1>4. m <= a /\ m <= b /\ m \in {a, b}
  BY <1>2, <1>3
<1> QED BY <1>4

(* A write that goes on takes what fits, and never waits to read.          *)
LEMMA Writing ==
  ASSUME NEW ssl, NEW in, NEW out, NEW peer, IsEnd(ssl, in, out, peer),
         NEW text, IsText(text), NEW buf, NEW o \in SSL_write(End(ssl, in, out, peer), text, buf)
  PROVE  /\ Left(o, ssl, in, out, peer) /\ o.end.ssl.sent_shutdown = ssl.sent_shutdown
         /\ o.end.ssl.received_shutdown = ssl.received_shutdown
         /\ o.what \in {"ok", "need_write", "network_error", "exception"}
<1> DEFINE end == End(ssl, in, out, peer)
           records == IF ssl.unsent = <<>> THEN Records(text) ELSE ssl.unsent
           fit == Min({Len(records), Room - Len(out)})
           more == SubSeq(records, 1, fit)
           unsent == SubSeq(records, fit + 1, Len(records))
           mark == IF fit = Len(records) THEN 0 ELSE buf
           written == [end EXCEPT !.out = @ \o more, !.ssl.unsent = unsent, !.ssl.buf = mark]
           lost(in1) == [end EXCEPT !.in = in1, !.ssl.unsent = <<>>, !.ssl.buf = 0]
<1>1. /\ end.ssl = ssl /\ end.in = in /\ end.out = out /\ end.peer = peer
      /\ IsReset(end) <=> HasReset(in)
  BY DEF End, IsReset, HasReset
<1>2. IsSsl(ssl) /\ Pipe(in) /\ (peer => Clean(in)) /\ Clean(out) /\ peer \in BOOLEAN
  BY DEF IsEnd
<1>4. CASE ssl.sent_shutdown \/ ssl.buf \notin {0, buf}
  <2>1. o = Outcome(end, "exception")
    BY <1>1, <1>4 DEF SSL_write
  <2>2. o.end = end /\ o.what = "exception"
    BY <2>1 DEF Outcome
  <2> QED BY <1>1, <1>2, <2>2 DEF Left
<1>5. CASE ~(ssl.sent_shutdown \/ ssl.buf \notin {0, buf}) /\ HasReset(in)
  <2>1. o = Outcome(end, "network_error")
    BY <1>1, <1>5 DEF SSL_write
  <2>2. o.end = end /\ o.what = "network_error"
    BY <2>1 DEF Outcome
  <2> QED BY <1>1, <1>2, <2>2 DEF Left
<1>6. CASE ~(ssl.sent_shutdown \/ ssl.buf \notin {0, buf}) /\ ~HasReset(in) /\ ~peer
  <2>1. PICK in1 \in MayReset(in) : o = Outcome(lost(in1), "ok")
    BY <1>1, <1>6 DEF SSL_write
  <2>2. o.end = lost(in1) /\ o.what = "ok"
    BY <2>1 DEF Outcome
  <2>3. Pipe(in1)
    BY <1>2, <1>6, NoReset, ResetPipe
  <2> DEFINE new == [ssl EXCEPT !.unsent = <<>>, !.buf = 0]
  <2>4. o.end.ssl = new /\ o.end.in = in1 /\ o.end.out = out
    BY <2>2 DEF End
  <2>5. IsText(<<>>) /\ ~HasReset(<<>>)
    BY EmptyText DEF HasReset
  <2>6. IsSsl(new) /\ new.role = ssl.role /\ new.sent_shutdown = ssl.sent_shutdown
        /\ new.received_shutdown = ssl.received_shutdown
    BY <1>2, <2>5 DEF IsSsl
  <2> HIDE DEF new
  <2> QED BY <1>2, <1>6, <2>2, <2>3, <2>4, <2>6 DEF Left
<1>7. CASE ~(ssl.sent_shutdown \/ ssl.buf \notin {0, buf}) /\ ~HasReset(in) /\ peer
  <2>1. IsText(records) /\ ~HasReset(records)
    <3>1. IsText(ssl.unsent) /\ ~HasReset(ssl.unsent)
      BY <1>2 DEF IsSsl
    <3> QED BY <3>1, RecordsAre
  <2>2. o = Outcome(written, IF fit = Len(records) THEN "ok" ELSE "need_write")
    BY <1>1, <1>7 DEF SSL_write
  <2> HIDE DEF records
  <2>3. /\ Len(records) \in Nat /\ Room - Len(out) \in Nat
    <3> DEFINE n == Len(out)
    <3>1. n \in Nat /\ n <= Room /\ Room \in Nat
      BY <1>2, TextIs, TlsAssumption DEF Clean
    <3>2. Room - n \in Nat
      <4> HIDE DEF n
      <4> QED BY <3>1
    <3> QED BY <2>1, <3>2, TextIs
  <2>4. fit \in Nat /\ fit <= Len(records) /\ fit <= Room - Len(out)
    BY <2>3, LesserOf
  <2> HIDE DEF fit
  <2>5. IsText(more) /\ Len(more) = fit /\ ~HasReset(more)
    <3>1. 1 \in 1 .. Len(records) + 1 /\ fit \in 1 - 1 .. Len(records) /\ fit - 1 + 1 = fit
      BY <2>3, <2>4
    <3>2. /\ IsText(more) /\ Len(more) = fit - 1 + 1
          /\ \A i \in DOMAIN more : \E j \in DOMAIN records : more[i] = records[j]
      BY <2>1, <3>1, TextWithin
    <3> QED BY <2>1, <3>1, <3>2 DEF HasReset
  <2>6. IsText(unsent) /\ ~HasReset(unsent)
    <3>1. fit + 1 \in 1 .. Len(records) + 1 /\ Len(records) \in (fit + 1) - 1 .. Len(records)
      BY <2>3, <2>4
    <3>2. /\ IsText(unsent)
          /\ \A i \in DOMAIN unsent : \E j \in DOMAIN records : unsent[i] = records[j]
      BY <2>1, <3>1, TextWithin
    <3> QED BY <2>1, <3>2 DEF HasReset
  <2> HIDE DEF more, unsent, mark
  <2>7. Clean(out \o more)
    <3>1. Len(more) <= Room - Len(out)
      BY <2>4, <2>5
    <3> QED BY <1>2, <2>5, <3>1, CleanJoined
  <2> DEFINE new == [ssl EXCEPT !.unsent = unsent, !.buf = mark]
  <2>9. written.ssl = new /\ written.in = in /\ written.out = out \o more
    BY DEF End
  <2>10. IsSsl(new) /\ new.role = ssl.role /\ new.sent_shutdown = ssl.sent_shutdown
        /\ new.received_shutdown = ssl.received_shutdown
    BY <1>2, <2>6 DEF IsSsl
  <2> HIDE DEF new, written
  <2>11. o.end = written /\ o.what \in {"ok", "need_write"}
    BY <2>2 DEF Outcome
  <2> QED BY <1>2, <1>7, <2>7, <2>9, <2>10, <2>11 DEF Left
<1> QED BY <1>2, <1>4, <1>5, <1>6, <1>7

(* The alert is sent, lost or to be sent again; it is never read.          *)
LEMMA Alerting ==
  ASSUME NEW ssl, NEW in, NEW out, NEW peer, IsEnd(ssl, in, out, peer),
         NEW o \in SSL_shutdown(End(ssl, in, out, peer))
  PROVE  /\ Left(o, ssl, in, out, peer)
         /\ o.what \in {"ok", "one_way", "need_write", "network_error"}
         /\ o.what = "need_write" => o.end.ssl = ssl
<1> DEFINE end == End(ssl, in, out, peer)
           new == [ssl EXCEPT !.sent_shutdown = TRUE]
           sent == [end EXCEPT !.ssl.sent_shutdown = TRUE]
           alerted == [sent EXCEPT !.out = Append(@, close_notify)]
           IsDone(e) == o.end = e /\ o.what \in {"ok", "one_way"}
<1>1. /\ end.ssl = ssl /\ end.in = in /\ end.out = out /\ end.peer = peer
      /\ IsReset(end) <=> HasReset(in)
  BY DEF End, IsReset, HasReset
<1>2. IsSsl(ssl) /\ Pipe(in) /\ (peer => Clean(in)) /\ Clean(out) /\ peer \in BOOLEAN
  BY DEF IsEnd
<1>3. IsSsl(new) /\ new.role = ssl.role
  BY <1>2, SslChanged
<1>4. /\ sent.ssl = new /\ sent.in = in /\ sent.out = out
      /\ alerted.ssl = new /\ alerted.in = in /\ alerted.out = Append(out, close_notify)
  <2>1. \A t : LET a == [sent EXCEPT !.out = t]
               IN  /\ sent.ssl = new /\ sent.in = in /\ sent.out = out
                   /\ a.ssl = new /\ a.in = in /\ a.out = t
    BY DEF End
  <2>2. alerted = [sent EXCEPT !.out = Append(out, close_notify)]
    BY <2>1
  <2> HIDE DEF sent, new
  <2> QED BY <2>1, <2>2
<1>5. \/ o.end = end /\ o.what \in {"ok", "need_write", "network_error"}
      \/ IsDone(sent)
      \/ IsDone(alerted) /\ peer /\ Len(out) # Room
  <2>1. \/ \E what \in {"ok", "need_write", "network_error"} : o = Outcome(end, what)
        \/ \E what \in {"ok", "one_way"} : o = Outcome(sent, what)
        \/ peer /\ Len(out) # Room /\ \E what \in {"ok", "one_way"} : o = Outcome(alerted, what)
    BY <1>1 DEF SSL_shutdown
  <2> HIDE DEF end, sent, alerted
  <2> QED BY <2>1 DEF Outcome
<1>6. CASE o.end = end /\ o.what \in {"ok", "need_write", "network_error"}
  BY <1>1, <1>2, <1>6 DEF Left
<1> HIDE DEF end, new, sent, alerted
<1>7. CASE IsDone(sent)
  BY <1>2, <1>3, <1>4, <1>7 DEF Left
<1>8. CASE IsDone(alerted) /\ peer /\ Len(out) # Room
  <2>1. Clean(Append(out, close_notify))
    <3>1. close_notify # Reset
      BY DEF close_notify, Reset
    <3> QED BY <1>2, <1>8, <3>1, CleanAppended
  <2> QED BY <1>2, <1>3, <1>4, <1>8, <2>1 DEF Left
<1> QED BY <1>5, <1>6, <1>7, <1>8

LEMMA Shutting ==
  ASSUME NEW c, NEW in, NEW out, NEW peer, IsEnd(c.ssl, in, out, peer),
         NEW o \in shutdown(c, End(c.ssl, in, out, peer))
  PROVE  /\ Left(o, c.ssl, in, out, peer)
         /\ o.what \in {"ok", "need_write", "network_error"}
         /\ o.what = "need_write" => o.end.ssl = c.ssl
<1> DEFINE end == End(c.ssl, in, out, peer)
<1>1. /\ end.ssl = c.ssl /\ end.in = in /\ end.out = out /\ end.peer = peer
  BY DEF End
<1>2. IsSsl(c.ssl) /\ Pipe(in) /\ (peer => Clean(in)) /\ Clean(out) /\ peer \in BOOLEAN
  BY DEF IsEnd
<1>3. CASE shutdown_performed(c)
  <2>1. o = Outcome(end, "ok")
    BY <1>3 DEF shutdown
  <2>2. o.end = end /\ o.what = "ok"
    BY <2>1 DEF Outcome
  <2> QED BY <1>1, <1>2, <2>2 DEF Left
<1>4. CASE ~ shutdown_performed(c)
  <2>1. PICK a \in SSL_shutdown(end) :
          o = IF a.what = "one_way"
              THEN Outcome([a.end EXCEPT !.ssl = SSL_set_shutdown(@)], "ok") ELSE a
    BY <1>4 DEF shutdown
  <2>2. /\ Left(a, c.ssl, in, out, peer)
        /\ a.what \in {"ok", "one_way", "need_write", "network_error"}
        /\ a.what = "need_write" => a.end.ssl = c.ssl
    BY Alerting
  <2>3. CASE a.what # "one_way"
    BY <2>1, <2>2, <2>3
  <2>4. CASE a.what = "one_way"
    <3> DEFINE old == a.end.ssl
               new == SSL_set_shutdown(old)
    <3>1. /\ IsSsl(old) /\ old.role = c.ssl.role
          /\ Pipe(a.end.in) /\ (peer => Clean(a.end.in))
          /\ Clean(a.end.out) /\ (~ peer => a.end.out = out)
      BY <2>2 DEF Left
    <3>2. IsSsl(new) /\ new.role = old.role
      <4> HIDE DEF old
      <4> QED BY <3>1 DEF IsSsl, SSL_set_shutdown
    <3>3. o.end = [a.end EXCEPT !.ssl = new] /\ o.what = "ok"
      BY <2>1, <2>4 DEF Outcome
    <3> QED BY <3>1, <3>2, <3>3 DEF Left
  <2> QED BY <2>3, <2>4
<1> QED BY <1>3, <1>4

(* What the calls of a state leave, and what they never wait for.          *)
LEMMA Calling ==
  ASSUME NEW c, IsConnection(c), NEW in, NEW out, NEW peer, IsEnd(c.ssl, in, out, peer),
         NEW o \in Call(c, End(c.ssl, in, out, peer))
  PROVE  /\ Left(o, c.ssl, in, out, peer)
         /\ o.what \in {"ok", "need_read", "need_write", "connection_close", "network_error",
                        "exception"}
         /\ c.state # "SHUTDOWN" => o.end.ssl.sent_shutdown = c.ssl.sent_shutdown
         /\ c.state # "SHUTDOWN" /\ o.what # "connection_close" =>
              o.end.ssl.received_shutdown = c.ssl.received_shutdown
         /\ c.state = "SHUTDOWN" /\ o.what = "need_write" => o.end.ssl = c.ssl
         /\ c.state \in {"WRITING", "SHUTDOWN"} => o.what \notin {"need_read", "connection_close"}
         /\ c.state = "READING" => o.what # "need_write"
         /\ c.state = "ACCEPTING" /\ c.ssl.role = "server" =>
              /\ o.what = "need_read" => o.end.ssl.flights % 2 = 0
              /\ o.what = "need_write" => o.end.ssl.flights % 2 = 1
<1> DEFINE end == End(c.ssl, in, out, peer)
<1>1. CASE c.state \in {"ACCEPTING", "CONNECTING"}
  <2>1. o \in Handshake(end)
    BY <1>1 DEF Call
  <2> QED BY <1>1, <2>1, Handshaking
<1>2. CASE c.state = "READING"
  <2>1. o \in SSL_read(end)
    BY <1>2 DEF Call
  <2> QED BY <1>2, <2>1, Reading
<1>3. CASE c.state = "WRITING"
  <2>1. o \in SSL_write(end, c.send_buf, c.buf) /\ IsText(c.send_buf)
    BY <1>3 DEF Call, IsConnection
  <2> QED BY <1>3, <2>1, Writing
<1>4. CASE c.state = "SHUTDOWN"
  <2>1. o \in shutdown(c, end)
    BY <1>4 DEF Call
  <2>2. /\ Left(o, c.ssl, in, out, peer)
        /\ o.what \in {"ok", "need_write", "network_error"}
        /\ o.what = "need_write" => o.end.ssl = c.ssl
    BY <2>1, Shutting
  <2> QED BY <1>4, <2>2
<1>5. CASE c.state = "EMPTY"
  <2>1. o = Outcome(end, "ok")
    BY <1>5 DEF Call
  <2>2. o.end = end /\ o.what = "ok"
    BY <2>1 DEF Outcome
  <2>3. end.ssl = c.ssl /\ end.in = in /\ end.out = out
    BY DEF End
  <2> QED BY <1>5, <2>2, <2>3 DEF Left, IsEnd
<1>6. c.state \in States
  BY DEF IsConnection
<1> QED BY <1>1, <1>2, <1>3, <1>4, <1>5, <1>6 DEF States

-----------------------------------------------------------------------------
(* A call of the handler. *)

LEMMA Unregistered ==
  ASSUME NEW c, IsConnection(c), NEW ssl, IsSsl(ssl)
  PROVE  LET new == [unregister_handler(c) EXCEPT !.ssl = ssl]
         IN  /\ IsConnection(new) /\ new.ssl = ssl /\ new.state = c.state /\ new.mask = {}
             /\ new.send_buf = c.send_buf /\ new.buf = c.buf
<1> DEFINE new == [unregister_handler(c) EXCEPT !.ssl = ssl]
<1>1. /\ c \in [state : States, mask : SUBSET {"INPUT", "OUTPUT"}, ssl : {c.ssl},
                send_buf : {c.send_buf}, buf : {c.buf}]
      /\ IsText(c.send_buf)
  BY DEF IsConnection
<1>2. /\ new \in [state : States, mask : SUBSET {"INPUT", "OUTPUT"}, ssl : {ssl},
                  send_buf : {c.send_buf}, buf : {c.buf}]
      /\ new.state = c.state /\ new.mask = {}
  BY <1>1 DEF unregister_handler
<1> HIDE DEF new
<1>3. new.ssl = ssl /\ new.send_buf = c.send_buf /\ new.buf = c.buf
  BY <1>2
<1> QED BY <1>1, <1>2, <1>3 DEF IsConnection, new

LEMMA Registered ==
  ASSUME NEW c, IsConnection(c), NEW state \in States, NEW event \in {"INPUT", "OUTPUT"}
  PROVE  LET new == [c EXCEPT !.state = state]
             waiting == register_handler(new, event)
         IN  /\ IsConnection(new) /\ new.ssl = c.ssl /\ new.state = state /\ new.mask = c.mask
             /\ new.send_buf = c.send_buf /\ waiting.send_buf = c.send_buf
             /\ new.buf = c.buf /\ waiting.buf = c.buf
             /\ IsConnection(waiting) /\ waiting.ssl = c.ssl /\ waiting.state = state
             /\ waiting.mask = c.mask \cup {event}
<1> DEFINE new == [c EXCEPT !.state = state]
           waiting == register_handler(new, event)
           T == [state : States, mask : SUBSET {"INPUT", "OUTPUT"}, ssl : {c.ssl},
                 send_buf : {c.send_buf}, buf : {c.buf}]
<1>1. c \in T /\ IsSsl(c.ssl) /\ IsText(c.send_buf)
  BY DEF IsConnection
<1>2. new \in T /\ new.state = state /\ new.mask = c.mask
  BY <1>1
<1>3. waiting \in T /\ waiting.state = state /\ waiting.mask = c.mask \cup {event}
  BY <1>1 DEF register_handler
<1> HIDE DEF new, waiting
<1>4. ASSUME NEW d \in T
      PROVE  IsConnection(d) /\ d.ssl = c.ssl /\ d.send_buf = c.send_buf /\ d.buf = c.buf
  <2>1. d.ssl = c.ssl /\ d.send_buf = c.send_buf /\ d.buf = c.buf
    OBVIOUS
  <2> QED BY <1>1, <2>1 DEF IsConnection
<1> QED BY <1>2, <1>3, <1>4 DEF new, waiting

LEMMA RegisteredAgain ==
  ASSUME NEW c, IsConnection(c), NEW event \in {"INPUT", "OUTPUT"}
  PROVE  LET same == register_handler(c, event)
         IN  /\ IsConnection(same) /\ same.ssl = c.ssl /\ same.state = c.state
             /\ same.mask = c.mask \cup {event} /\ same.send_buf = c.send_buf
             /\ same.buf = c.buf
<1> DEFINE same == register_handler(c, event)
           T == [state : States, mask : SUBSET {"INPUT", "OUTPUT"}, ssl : {c.ssl},
                 send_buf : {c.send_buf}, buf : {c.buf}]
<1>1. c \in T /\ IsSsl(c.ssl) /\ IsText(c.send_buf)
  BY DEF IsConnection
<1>2. same \in T /\ same.state = c.state /\ same.mask = c.mask \cup {event}
  BY <1>1 DEF register_handler
<1> HIDE DEF same
<1>3. same.ssl = c.ssl /\ same.send_buf = c.send_buf /\ same.buf = c.buf
  BY <1>2
<1> QED BY <1>1, <1>2, <1>3 DEF IsConnection, same

(* The member that is told, and what is registered again.                  *)
Switched(r, c, o) ==
  /\ r.in = o.end.in /\ r.out = o.end.out /\ IsConnection(r.conn) /\ r.conn.ssl = o.end.ssl
  /\ r.text = o.text /\ r.conn.send_buf = c.send_buf /\ r.conn.buf = c.buf
  /\ o.what = "ok" =>
       /\ r.what = Success(c.state)
       /\ r.conn.mask = {} /\ (c.state # "SHUTDOWN" => r.conn.state = "EMPTY")
  /\ o.what = "need_read" =>
       r.what = "again" /\ r.conn.mask = {"INPUT"} /\ r.conn.state = c.state
  /\ o.what = "need_write" =>
       r.what = "again" /\ r.conn.mask = {"OUTPUT"} /\ r.conn.state = c.state
  /\ o.what = "connection_close" =>
       /\ r.what = "again" /\ r.conn.state \in {"SHUTDOWN", "EMPTY"}
       /\ ~ o.end.ssl.sent_shutdown => r.conn.mask = {"OUTPUT"} /\ r.conn.state = "SHUTDOWN"
  /\ o.what \in {"network_error", "exception"} => r.what = o.what

LEMMA Switching ==
  ASSUME NEW c, IsConnection(c), NEW in, NEW out, NEW peer, IsEnd(c.ssl, in, out, peer),
         NEW r \in switch_state(c, in, out, peer)
  PROVE  \E o \in Call(c, End(c.ssl, in, out, peer)) : Switched(r, c, o)
<1> DEFINE old == unregister_handler(c)
           N(o) == [old EXCEPT !.ssl = o.end.ssl]
           D(o) == IF c.state = "SHUTDOWN" THEN N(o) ELSE [N(o) EXCEPT !.state = "EMPTY"]
           Then(o, next, what) ==
             [conn |-> next, in |-> o.end.in, out |-> o.end.out, what |-> what, text |-> o.text]
<1>1. PICK o \in Call(c, End(c.ssl, in, out, peer)) :
        r = CASE o.what = "ok" -> Then(o, D(o), Success(c.state))
              [] o.what = "need_read" -> Then(o, register_handler(N(o), "INPUT"), "again")
              [] o.what = "need_write" -> Then(o, register_handler(N(o), "OUTPUT"), "again")
              [] o.what = "connection_close" -> Then(o, reg_shutdown(N(o)), "again")
              [] OTHER -> Then(o, N(o), o.what)
  BY DEF switch_state
<1>2. /\ IsSsl(o.end.ssl)
      /\ o.what \in {"ok", "need_read", "need_write", "connection_close", "network_error",
                     "exception"}
  BY Calling DEF Left
<1> DEFINE new == N(o)
           done == D(o)
<1>3. /\ IsConnection(new) /\ new.ssl = o.end.ssl /\ new.state = c.state /\ new.mask = {}
      /\ new.send_buf = c.send_buf /\ new.buf = c.buf
  BY <1>2, Unregistered
<1>4. \E next, what : r = Then(o, next, what)
  BY <1>1, <1>2
<1>5. r.in = o.end.in /\ r.out = o.end.out /\ r.text = o.text
  BY <1>4
<1>6. CASE o.what = "ok"
  <2>1. r.conn = done /\ r.what = Success(c.state)
    BY <1>1, <1>6
  <2>2. "EMPTY" \in States
    BY DEF States
  <2> HIDE DEF new
  <2>3. done = IF c.state = "SHUTDOWN" THEN new ELSE [new EXCEPT !.state = "EMPTY"]
    BY DEF new
  <2> HIDE DEF done
  <2>4. /\ IsConnection(done) /\ done.ssl = o.end.ssl /\ done.mask = {}
        /\ done.send_buf = c.send_buf /\ done.buf = c.buf
        /\ c.state # "SHUTDOWN" => done.state = "EMPTY"
    BY <1>3, <2>2, <2>3, Registered
  <2> QED BY <1>5, <1>6, <2>1, <2>4 DEF Switched
<1>7. CASE o.what \in {"need_read", "need_write"}
  <2> DEFINE event == IF o.what = "need_read" THEN "INPUT" ELSE "OUTPUT"
  <2>1. r.conn = register_handler(new, event) /\ r.what = "again"
    BY <1>1, <1>7
  <2>2. event \in {"INPUT", "OUTPUT"} /\ c.state \in States
    BY DEF IsConnection
  <2> HIDE DEF new, event
  <2>3. LET w == register_handler(new, event)
        IN  /\ IsConnection(w) /\ w.ssl = new.ssl /\ w.state = new.state
            /\ w.mask = new.mask \cup {event} /\ w.send_buf = new.send_buf /\ w.buf = new.buf
    <3>1. IsConnection(new)
      BY <1>3
    <3> QED BY <2>2, <3>1, RegisteredAgain
  <2>4. /\ IsConnection(r.conn) /\ r.conn.ssl = o.end.ssl /\ r.conn.state = c.state
        /\ r.conn.mask = {event} /\ r.conn.send_buf = c.send_buf /\ r.conn.buf = c.buf
    BY <1>3, <2>1, <2>3
  <2> QED BY <1>5, <1>7, <2>1, <2>4 DEF Switched, event
<1>8. CASE o.what = "connection_close"
  <2>1. r.conn = reg_shutdown(new) /\ r.what = "again"
    BY <1>1, <1>8
  <2> HIDE DEF new
  <2>2. "SHUTDOWN" \in States /\ "EMPTY" \in States
    BY DEF States
  <2>3. CASE ~ o.end.ssl.sent_shutdown
    <3>1. r.conn = register_handler([new EXCEPT !.state = "SHUTDOWN"], "OUTPUT")
      BY <1>3, <2>1, <2>3 DEF reg_shutdown, shutdown_sent
    <3>2. LET w == register_handler([new EXCEPT !.state = "SHUTDOWN"], "OUTPUT")
          IN  /\ IsConnection(w) /\ w.ssl = new.ssl /\ w.state = "SHUTDOWN"
              /\ w.mask = new.mask \cup {"OUTPUT"} /\ w.send_buf = new.send_buf
              /\ w.buf = new.buf
      BY <1>3, <2>2, Registered
    <3>3. /\ IsConnection(r.conn) /\ r.conn.ssl = o.end.ssl /\ r.conn.state = "SHUTDOWN"
          /\ r.conn.mask = {"OUTPUT"} /\ r.conn.send_buf = c.send_buf /\ r.conn.buf = c.buf
      BY <1>3, <3>1, <3>2
    <3> QED BY <1>5, <1>8, <2>1, <3>3 DEF Switched
  <2>4. CASE o.end.ssl.sent_shutdown
    <3>1. \/ r.conn = register_handler([new EXCEPT !.state = "SHUTDOWN"], "INPUT")
          \/ r.conn = [new EXCEPT !.state = "EMPTY"]
      BY <1>3, <2>1, <2>4 DEF reg_shutdown, shutdown_sent
    <3>2. LET w == register_handler([new EXCEPT !.state = "SHUTDOWN"], "INPUT")
          IN  /\ IsConnection(w) /\ w.ssl = new.ssl /\ w.state = "SHUTDOWN"
              /\ w.send_buf = new.send_buf /\ w.buf = new.buf
      BY <1>3, <2>2, Registered
    <3>3. LET w == [new EXCEPT !.state = "EMPTY"]
          IN  /\ IsConnection(w) /\ w.ssl = new.ssl /\ w.state = "EMPTY"
              /\ w.send_buf = new.send_buf /\ w.buf = new.buf
      BY <1>3, <2>2, Registered
    <3>4. /\ IsConnection(r.conn) /\ r.conn.ssl = o.end.ssl
          /\ r.conn.state \in {"SHUTDOWN", "EMPTY"} /\ r.conn.send_buf = c.send_buf
          /\ r.conn.buf = c.buf
      BY <1>3, <3>1, <3>2, <3>3
    <3> QED BY <1>5, <1>8, <2>1, <2>4, <3>4 DEF Switched
  <2> QED BY <2>3, <2>4
<1>9. CASE o.what \in {"network_error", "exception"}
  <2>1. r.conn = new /\ r.what = o.what
    BY <1>1, <1>9
  <2> HIDE DEF new
  <2> QED BY <1>3, <1>5, <1>9, <2>1 DEF Switched
<1> QED BY <1>2, <1>6, <1>7, <1>8, <1>9

-----------------------------------------------------------------------------
(* Numbers, and the records of a text. *)

LEMMA Products ==
  ASSUME NEW M \in Nat, NEW a \in Nat, NEW b \in Nat, a <= b
  PROVE  /\ a * M \in Nat /\ b * M \in Nat /\ (a + 1) * M \in Nat /\ a * M <= b * M
         /\ (a + 1) * M = a * M + M
<1>1. (a + 1) * M = a * M + M
  OBVIOUS
<1>2. a * M <= b * M
  <2>1. b - a \in Nat /\ (b - a) * M \in Nat
    OBVIOUS
  <2>2. b * M = a * M + (b - a) * M
    OBVIOUS
  <2> QED BY <2>1, <2>2
<1> QED BY <1>1, <1>2

LEMMA Quotient ==
  ASSUME NEW M \in Nat \ {0}, NEW L \in Nat
  PROVE  LET q == (L + M - 1) \div M
         IN  /\ q \in Nat /\ L <= q * M /\ (q # 0 => (q - 1) * M < L) /\ (L # 0 => q # 0)
<1> DEFINE d == L + M - 1
           q == d \div M
           r == d % M
           p == q * M
<1>1. d \in Nat /\ d = L + M - 1
  OBVIOUS
<1> HIDE DEF d
<1>2. q \in Nat /\ r \in 0 .. M - 1 /\ d = M * q + r
  BY <1>1
<1> HIDE DEF q, r
<1>3. p \in Nat /\ M * q = p
  BY <1>2
<1>4. (q - 1) * M = p - M
  BY <1>2
<1>5. q = 0 => p = 0
  BY <1>2
<1>6. d = p + r
  BY <1>2, <1>3
<1> HIDE DEF p
<1>7. L <= p /\ p - M < L /\ (L # 0 => p # 0)
  BY <1>1, <1>2, <1>3, <1>6
<1>8. L <= q * M /\ (q # 0 => (q - 1) * M < L) /\ (L # 0 => q # 0)
  BY <1>4, <1>5, <1>7 DEF p
<1> QED BY <1>1, <1>2, <1>8 DEF q, d

LEMMA RecordsOf ==
  ASSUME NEW text, IsText(text)
  PROVE  /\ Number(text) \in Nat /\ DOMAIN Records(text) = 1 .. Number(text)
         /\ IsText(Records(text))
         /\ Cut(text, 0) = 0 /\ Cut(text, Number(text)) = Len(text)
         /\ \A i \in 0 .. Number(text) : Cut(text, i) \in 0 .. Len(text)
         /\ \A i \in 1 .. Number(text) :
              /\ Cut(text, i - 1) < Cut(text, i)
              /\ Records(text)[i] = Data(SubSeq(text, Cut(text, i - 1) + 1, Cut(text, i)))
         /\ Len(text) # 0 => Number(text) # 0
<1> DEFINE M == max_record
           L == Len(text)
           n == (L + M - 1) \div M
           e(i) == Data(SubSeq(text, (i - 1) * M + 1, Min({i * M, L})))
<1>1. M \in Nat \ {0} /\ L \in Nat
  BY TextIs, TlsAssumption
<1>2. Records(text) = [i \in 1 .. n |-> e(i)]
  BY DEF Records
<1>3. n \in Nat /\ L <= n * M /\ (n # 0 => (n - 1) * M < L) /\ (L # 0 => n # 0)
  <2> HIDE DEF M, L
  <2> QED BY <1>1, Quotient
<1>4. IsText(Records(text))
  BY RecordsAre
<1> HIDE DEF n, e
<1>5. DOMAIN Records(text) = 1 .. n /\ Number(text) = n
  <2>1. DOMAIN Records(text) = 1 .. n
    BY <1>2
  <2>2. Len(Records(text)) \in Nat /\ DOMAIN Records(text) = 1 .. Len(Records(text))
    BY <1>4, TextIs
  <2> QED BY <1>3, <2>1, <2>2 DEF Number
<1> HIDE DEF M
<1>6. ASSUME NEW i \in 0 .. n
      PROVE  /\ i * M \in Nat /\ Cut(text, i) = Min({i * M, L})
             /\ Cut(text, i) \in 0 .. L /\ Cut(text, i) <= i * M /\ Cut(text, i) \in {i * M, L}
  <2>1. i * M \in Nat
    BY <1>1
  <2>2. Cut(text, i) = Min({i * M, L})
    BY DEF Cut, M
  <2> HIDE DEF L
  <2> DEFINE p == i * M
  <2> HIDE DEF p
  <2>3. p \in Nat /\ Cut(text, i) = Min({p, L})
    BY <2>1, <2>2 DEF p
  <2>4. Cut(text, i) \in Nat /\ Cut(text, i) <= p /\ Cut(text, i) <= L /\ Cut(text, i) \in {p, L}
    BY <1>1, <2>3, LesserOf
  <2> QED BY <1>1, <2>1, <2>2, <2>4 DEF p
<1> HIDE DEF L
<1>7. ASSUME NEW i \in 1 .. n
      PROVE  /\ Cut(text, i - 1) = (i - 1) * M /\ Cut(text, i - 1) < Cut(text, i)
  <2> DEFINE p == (i - 1) * M
             q == i * M
             t == (n - 1) * M
  <2>1. p \in Nat /\ t \in Nat /\ p <= t
    <3>1. i - 1 \in Nat /\ n - 1 \in Nat /\ i - 1 <= n - 1 /\ M \in Nat
      BY <1>1, <1>3
    <3> QED BY <3>1, Products
  <2>2. q = p + M /\ q \in Nat
    <3>1. i - 1 \in Nat /\ M \in Nat /\ i - 1 <= i - 1 /\ (i - 1) + 1 = i
      BY <1>1
    <3>2. ((i - 1) + 1) * M = (i - 1) * M + M
      BY <3>1, Products
    <3> QED BY <1>1, <2>1, <3>1, <3>2
  <2>3. t < L
    BY <1>3
  <2>4. /\ Cut(text, i - 1) \in {p, L} /\ Cut(text, i - 1) <= p
        /\ Cut(text, i) \in {q, L}
    <3>1. i - 1 \in 0 .. n /\ i \in 0 .. n
      BY <1>3
    <3> QED BY <1>6, <3>1
  <2> HIDE DEF p, q, t
  <2>5. Cut(text, i - 1) = p /\ p < Cut(text, i)
    BY <1>1, <2>1, <2>2, <2>3, <2>4
  <2> QED BY <2>5 DEF p
<1>8. Cut(text, 0) = 0
  <2> DEFINE p == 0 * M
  <2>1. 0 \in 0 .. n /\ p = 0
    BY <1>1, <1>3
  <2>2. Cut(text, 0) \in 0 .. L /\ Cut(text, 0) <= p
    BY <1>6, <2>1
  <2> HIDE DEF p
  <2> QED BY <1>1, <2>1, <2>2
<1>9. Cut(text, n) = L
  <2> DEFINE p == n * M
  <2>1. Cut(text, n) \in 0 .. L /\ Cut(text, n) \in {p, L} /\ L <= p /\ p \in Nat
    <3>1. n \in 0 .. n /\ L <= p
      BY <1>3
    <3> QED BY <1>6, <3>1
  <2> HIDE DEF p
  <2> QED BY <1>1, <2>1
<1>10. ASSUME NEW i \in 1 .. n
       PROVE  Records(text)[i] = Data(SubSeq(text, Cut(text, i - 1) + 1, Cut(text, i)))
  <2>1. Records(text)[i] = e(i)
    BY <1>2
  <2>2. i \in 0 .. n
    BY <1>3
  <2> QED BY <1>6, <1>7, <2>1, <2>2 DEF e
<1> QED BY <1>3, <1>4, <1>5, <1>6, <1>7, <1>8, <1>9, <1>10 DEF L

-----------------------------------------------------------------------------
(* Records of a text that are under way. *)

LEMMA TailIs ==
  ASSUME NEW pipe, IsText(pipe), pipe # <<>>
  PROVE  /\ Head(pipe) = pipe[1] /\ 1 \in DOMAIN pipe
         /\ Len(pipe) \in Nat \ {0} /\ Len(Tail(pipe)) = Len(pipe) - 1
         /\ DOMAIN pipe = 1 .. Len(pipe)
         /\ IsText(Tail(pipe)) /\ DOMAIN Tail(pipe) = 1 .. Len(pipe) - 1
         /\ \A i \in 1 .. Len(pipe) - 1 : Tail(pipe)[i] = pipe[i + 1] /\ i + 1 \in DOMAIN pipe
<1>1. pipe \in Seq(Range(pipe)) /\ Len(pipe) \in Nat /\ DOMAIN pipe = 1 .. Len(pipe)
  BY TextIs
<1>2. /\ IsText(Tail(pipe)) /\ Len(Tail(pipe)) = Len(pipe) - 1 /\ Len(pipe) > 0
      /\ 1 \in DOMAIN pipe /\ Head(pipe) = pipe[1]
  BY TextTail
<1>3. \A i \in 1 .. Len(Tail(pipe)) : Tail(pipe)[i] = pipe[i + 1]
  BY <1>1, HeadTailProperties
<1>4. DOMAIN Tail(pipe) = 1 .. Len(Tail(pipe))
  BY <1>2, TextIs
<1> QED BY <1>1, <1>2, <1>3, <1>4

LEMMA FullTail ==
  ASSUME NEW pipe, IsText(pipe), pipe # <<>>, NEW text, IsText(text), NEW m \in Nat, NEW k,
         Full(pipe, text, m, k)
  PROVE  /\ m + 1 \in 1 .. Number(text) /\ Head(pipe) = Records(text)[m + 1]
         /\ k \in m + 1 .. Number(text) /\ Full(Tail(pipe), text, m + 1, k)
<1>1. /\ Head(pipe) = pipe[1] /\ 1 \in DOMAIN pipe
      /\ Len(pipe) \in Nat \ {0} /\ Len(Tail(pipe)) = Len(pipe) - 1
      /\ DOMAIN Tail(pipe) = 1 .. Len(pipe) - 1
      /\ \A i \in 1 .. Len(pipe) - 1 : Tail(pipe)[i] = pipe[i + 1] /\ i + 1 \in DOMAIN pipe
  BY TailIs
<1>2. Number(text) \in Nat
  BY RecordsOf
<1>3. /\ k \in m .. Number(text) /\ Len(pipe) = k - m
      /\ \A i \in DOMAIN pipe : pipe[i] = Records(text)[m + i]
  BY DEF Full
<1>4. m + 1 \in 1 .. Number(text) /\ k \in m + 1 .. Number(text)
      /\ Len(Tail(pipe)) = k - (m + 1)
  BY <1>1, <1>2, <1>3
<1>5. ASSUME NEW i \in DOMAIN Tail(pipe) PROVE Tail(pipe)[i] = Records(text)[(m + 1) + i]
  <2>1. Tail(pipe)[i] = Records(text)[m + (i + 1)]
    BY <1>1, <1>3
  <2>2. m + (i + 1) = (m + 1) + i
    BY <1>1
  <2> QED BY <2>1, <2>2
<1> QED BY <1>1, <1>3, <1>4, <1>5 DEF Full

LEMMA RemainsTail ==
  ASSUME NEW pipe, IsText(pipe), pipe # <<>>, NEW text, IsText(text), NEW m \in Nat,
         Remains(pipe, text, m), Head(pipe) \notin {close_notify, Reset}
  PROVE  /\ m + 1 \in 1 .. Number(text) /\ Head(pipe) = Records(text)[m + 1]
         /\ Remains(Tail(pipe), text, m + 1)
<1>1. /\ Head(pipe) = pipe[1] /\ 1 \in DOMAIN pipe
      /\ Len(pipe) \in Nat \ {0}
      /\ DOMAIN Tail(pipe) = 1 .. Len(pipe) - 1
      /\ \A i \in 1 .. Len(pipe) - 1 : Tail(pipe)[i] = pipe[i + 1] /\ i + 1 \in DOMAIN pipe
  BY TailIs
<1>2. Number(text) \in Nat
  BY RecordsOf
<1>3. m + 1 <= Number(text) /\ Head(pipe) = Records(text)[m + 1]
  BY <1>1 DEF Remains
<1>4. ASSUME NEW i \in DOMAIN Tail(pipe)
      PROVE  \/ Tail(pipe)[i] \in {close_notify, Reset}
             \/ (m + 1) + i <= Number(text) /\ Tail(pipe)[i] = Records(text)[(m + 1) + i]
  <2>1. \/ Tail(pipe)[i] \in {close_notify, Reset}
        \/ m + (i + 1) <= Number(text) /\ Tail(pipe)[i] = Records(text)[m + (i + 1)]
    BY <1>1 DEF Remains
  <2>2. m + (i + 1) = (m + 1) + i
    BY <1>1
  <2> QED BY <2>1, <2>2
<1> QED BY <1>2, <1>3, <1>4 DEF Remains

LEMMA FullRemains ==
  ASSUME NEW pipe, IsText(pipe), NEW text, IsText(text), NEW m \in Nat, NEW k,
         Full(pipe, text, m, k)
  PROVE  Remains(pipe, text, m) /\ \A i \in DOMAIN pipe : pipe[i] \notin {close_notify, Reset}
<1>1. Len(pipe) \in Nat /\ DOMAIN pipe = 1 .. Len(pipe)
  BY TextIs
<1>2. Number(text) \in Nat /\ \A i \in 1 .. Number(text) : \E t : Records(text)[i] = Data(t)
  BY RecordsOf
<1>3. /\ k \in m .. Number(text) /\ Len(pipe) = k - m
      /\ \A i \in DOMAIN pipe : pipe[i] = Records(text)[m + i]
  BY DEF Full
<1>4. ASSUME NEW i \in DOMAIN pipe
      PROVE  m + i <= Number(text) /\ pipe[i] \notin {close_notify, Reset}
  <2>1. m + i \in 1 .. Number(text)
    BY <1>1, <1>2, <1>3
  <2>2. PICK t : pipe[i] = Data(t)
    BY <1>2, <1>3, <2>1
  <2>3. pipe[i] \notin {close_notify, Reset}
    BY <2>2 DEF Data, close_notify, Reset
  <2> QED BY <1>2, <2>1, <2>3
<1> QED BY <1>3, <1>4 DEF Remains

LEMMA RemainsMore ==
  ASSUME NEW pipe, IsText(pipe), NEW text, NEW m, Remains(pipe, text, m),
         NEW e \in {close_notify, Reset}
  PROVE  Remains(Append(pipe, e), text, m) /\ Remains(<<e>>, text, m)
<1>1. LET t == Append(pipe, e)
      IN  /\ DOMAIN t = 1 .. Len(pipe) + 1 /\ t[Len(pipe) + 1] = e
          /\ \A i \in 1 .. Len(pipe) : t[i] = pipe[i]
  BY TextAppended
<1>2. Len(pipe) \in Nat /\ DOMAIN pipe = 1 .. Len(pipe)
  BY TextIs
<1> DEFINE t == Append(pipe, e)
<1>3. ASSUME NEW i \in DOMAIN t, i # Len(pipe) + 1 PROVE i \in DOMAIN pipe /\ t[i] = pipe[i]
  <2> HIDE DEF t
  <2>1. i \in 1 .. Len(pipe)
    BY <1>1, <1>2, <1>3 DEF t
  <2> QED BY <1>1, <1>2, <2>1 DEF t
<1>4. Remains(t, text, m)
  <2>1. t[Len(pipe) + 1] = e
    BY <1>1
  <2> HIDE DEF t
  <2> QED BY <1>3, <2>1 DEF Remains
<1>5. Remains(<<e>>, text, m)
  BY DEF Remains
<1> QED BY <1>4, <1>5

LEMMA RemainsReset ==
  ASSUME NEW pipe, IsText(pipe), NEW text, NEW m, Remains(pipe, text, m),
         NEW new \in MayReset(pipe)
  PROVE  Remains(new, text, m)
<1>1. Remains(Append(pipe, Reset), text, m) /\ Remains(<<Reset>>, text, m)
  BY RemainsMore
<1> QED BY <1>1 DEF MayReset

LEMMA FullJoined ==
  ASSUME NEW pipe, IsText(pipe), NEW text, IsText(text), NEW m \in Nat, NEW k,
         Full(pipe, text, m, k), NEW f \in Nat, k + f <= Number(text)
  PROVE  /\ k + f \in m .. Number(text)
         /\ Full(pipe \o SubSeq(Records(text), k + 1, k + f), text, m, k + f)
<1> DEFINE R == Records(text)
           u == SubSeq(R, k + 1, k + f)
           t == pipe \o u
<1>1. Number(text) \in Nat /\ IsText(R) /\ Len(R) = Number(text)
  BY RecordsOf DEF Number
<1>2. Len(pipe) \in Nat /\ DOMAIN pipe = 1 .. Len(pipe) /\ pipe \in Seq(Range(pipe))
  BY TextIs
<1>3. /\ k \in m .. Number(text) /\ Len(pipe) = k - m
      /\ \A i \in DOMAIN pipe : pipe[i] = R[m + i]
  BY DEF Full
<1>4. k \in Nat /\ k + f \in m .. Number(text)
  BY <1>1, <1>3
<1> HIDE DEF R
<1>5. u \in Seq(Range(R)) /\ Len(u) = f /\ \A i \in 1 .. f : u[i] = R[k + i]
  <2>1. /\ k + 1 \in 1 .. Len(R) + 1 /\ k + f \in (k + 1) - 1 .. Len(R)
        /\ (k + f) - (k + 1) + 1 = f /\ \A i \in 1 .. f : (k + 1) + i - 1 = k + i
    BY <1>1, <1>3, <1>4
  <2>2. u \in Seq(Range(R)) /\ Len(u) = (k + f) - (k + 1) + 1
        /\ \A i \in 1 .. (k + f) - (k + 1) + 1 : u[i] = R[(k + 1) + i - 1]
    BY <1>1, <2>1, PartOf, ZenonT(60)
  <2> HIDE DEF u
  <2> QED BY <2>1, <2>2
<1> HIDE DEF u
<1> DEFINE S == Range(pipe) \cup Range(R)
<1>6. pipe \in Seq(S) /\ u \in Seq(S)
  BY <1>2, <1>5, SeqMonotonic
<1>7. /\ t \in Seq(S) /\ Len(t) = Len(pipe) + Len(u)
      /\ \A i \in 1 .. Len(pipe) + Len(u) : t[i] = IF i <= Len(pipe) THEN pipe[i] ELSE u[i - Len(pipe)]
  BY <1>6, ConcatProperties
<1> HIDE DEF t, S
<1>8. DOMAIN t = 1 .. Len(t)
  BY <1>7, LenProperties
<1>9. Len(t) = (k + f) - m
  BY <1>2, <1>3, <1>4, <1>5, <1>7
<1>10. ASSUME NEW i \in DOMAIN t PROVE t[i] = R[m + i]
  <2>1. i \in 1 .. Len(pipe) + Len(u)
    BY <1>7, <1>8
  <2>2. CASE i <= Len(pipe)
    BY <1>2, <1>3, <1>7, <2>1, <2>2
  <2>3. CASE ~ (i <= Len(pipe))
    <3>1. i - Len(pipe) \in 1 .. f /\ k + (i - Len(pipe)) = m + i
      BY <1>2, <1>3, <1>4, <1>5, <2>1, <2>3
    <3>2. u[i - Len(pipe)] = R[m + i]
      BY <1>5, <3>1
    <3> QED BY <1>7, <2>1, <2>3, <3>2
  <2> QED BY <2>2, <2>3
<1> QED BY <1>4, <1>9, <1>10 DEF Full, R, u, t

-----------------------------------------------------------------------------
(* What the calls of OpenSSL do to the records. *)

LEMMA NoResetAhead ==
  ASSUME NEW ssl, NEW in, NEW out, NEW peer, IsEnd(ssl, in, out, peer), in # <<>>,
         Head(in) = Reset
  PROVE  ~ peer
<1>1. IsText(in) /\ (peer => ~ HasReset(in))
  BY DEF IsEnd, Pipe, Clean, Broken
<1>2. 1 \in DOMAIN in /\ in[1] = Reset
  BY <1>1, TextTail
<1> QED BY <1>1, <1>2 DEF HasReset

LEMMA ReadOutcome ==
  ASSUME NEW ssl, NEW in, NEW out, NEW peer, IsEnd(ssl, in, out, peer), ~ ssl.received_shutdown,
         NEW o \in SSL_read(End(ssl, in, out, peer))
  PROVE  /\ o.end.out = out /\ o.end.ssl.unsent = ssl.unsent
         /\ o.what = "ok" => /\ in # <<>> /\ Head(in) \notin {close_notify, Reset}
                             /\ o.text = Head(in).text /\ o.end.in = Tail(in)
         /\ o.what = "need_read" => in = <<>> /\ o.end.in = in
         /\ o.what = "connection_close" =>
              \/ in = <<>> /\ ~ peer
              \/ in # <<>> /\ Head(in) = close_notify
         /\ o.what = "network_error" => ~ peer
<1> DEFINE end == End(ssl, in, out, peer)
           rest == [end EXCEPT !.in = Tail(@)]
           new == [ssl EXCEPT !.received_shutdown = TRUE]
<1>1. end.ssl = ssl /\ end.in = in /\ end.out = out /\ end.peer = peer
  BY DEF End
<1>2. rest.ssl = ssl /\ rest.in = Tail(in) /\ rest.out = out
  BY DEF End
<1>3. LET e == [rest EXCEPT !.ssl.received_shutdown = TRUE]
      IN  e.ssl = new /\ e.in = Tail(in) /\ e.out = out
  BY DEF End
<1>4. new.unsent = ssl.unsent
  BY DEF IsEnd, IsSsl
<1> HIDE DEF end, rest, new
<1>5. CASE in = <<>>
  <2>1. o = Outcome(end, IF peer THEN "need_read" ELSE "connection_close")
    BY <1>1, <1>5 DEF SSL_read, end
  <2>2. o.end = end /\ o.what = IF peer THEN "need_read" ELSE "connection_close"
    BY <2>1 DEF Outcome
  <2> QED BY <1>1, <1>5, <2>2
<1>6. CASE in # <<>> /\ Head(in) = Reset
  <2>1. o = Outcome(end, "network_error")
    <3>1. Head(in) # close_notify
      BY <1>6 DEF close_notify, Reset
    <3>2. SSL_read(end) = {Outcome(end, "network_error")}
      BY <1>1, <1>6, <3>1 DEF SSL_read
    <3> QED BY <3>2 DEF end
  <2>2. o.end = end /\ o.what = "network_error"
    BY <2>1 DEF Outcome
  <2>3. ~ peer
    BY <1>6, NoResetAhead
  <2> QED BY <1>1, <2>2, <2>3
<1>7. CASE in # <<>> /\ Head(in) = close_notify
  <2>1. Head(in) # Reset
    BY <1>7 DEF close_notify, Reset
  <2>2. o = Outcome([rest EXCEPT !.ssl.received_shutdown = TRUE], "connection_close")
    BY <1>1, <1>7, <2>1 DEF SSL_read, end, rest
  <2>3. o.end = [rest EXCEPT !.ssl.received_shutdown = TRUE] /\ o.what = "connection_close"
    BY <2>2 DEF Outcome
  <2> QED BY <1>3, <1>4, <1>7, <2>3
<1>8. CASE in # <<>> /\ Head(in) \notin {Reset, close_notify}
  <2>1. o = Got(rest, Head(in).text)
    BY <1>1, <1>8 DEF SSL_read, end, rest
  <2>2. o.end = rest /\ o.what = "ok" /\ o.text = Head(in).text
    BY <2>1 DEF Got
  <2> QED BY <1>2, <1>8, <2>2
<1> QED BY <1>5, <1>6, <1>7, <1>8

(* The first f of the records rest have been sent. *)
Sends(o, in, out, rest, f) ==
  /\ f \in 0 .. Len(rest)
  /\ o.end.in = in /\ o.end.out = out \o SubSeq(rest, 1, f)
  /\ o.end.ssl.unsent = SubSeq(rest, f + 1, Len(rest))
  /\ o.what = "ok" <=> f = Len(rest)

LEMMA WriteOutcome ==
  ASSUME NEW ssl, NEW in, NEW out, NEW peer, IsEnd(ssl, in, out, peer),
         NEW text, IsText(text), NEW buf, NEW o \in SSL_write(End(ssl, in, out, peer), text, buf)
  PROVE  \/ /\ o.what \in {"network_error", "exception"}
            /\ o.end.ssl = ssl /\ o.end.in = in /\ o.end.out = out
         \/ /\ o.what \in {"ok", "need_write"} /\ peer
            /\ \E f : Sends(o, in, out, Rest(ssl, text), f)
         \/ /\ o.what = "ok" /\ ~ peer
            /\ o.end.in \in MayReset(in) /\ o.end.out = out
<1> DEFINE end == End(ssl, in, out, peer)
           records == Rest(ssl, text)
           fit == Min({Len(records), Room - Len(out)})
           written == [end EXCEPT !.out = @ \o SubSeq(records, 1, fit),
                                  !.ssl.unsent = SubSeq(records, fit + 1, Len(records)),
                                  !.ssl.buf = IF fit = Len(records) THEN 0 ELSE buf]
           lost(in1) == [end EXCEPT !.in = in1, !.ssl.unsent = <<>>, !.ssl.buf = 0]
<1>1. end.ssl = ssl /\ end.in = in /\ end.out = out /\ end.peer = peer
  BY DEF End
<1>2. /\ IsSsl(ssl) /\ Pipe(in) /\ (peer => Clean(in)) /\ Clean(out) /\ peer \in BOOLEAN
      /\ IsText(records)
  BY RecordsAre DEF IsEnd, Rest, IsSsl
<1>3. fit \in 0 .. Len(records)
  <2>1. Len(records) \in Nat /\ Room - Len(out) \in Nat
    BY <1>2, TextIs, TlsAssumption DEF Clean
  <2> DEFINE a == Len(records)
             b == Room - Len(out)
  <2>2. a \in Nat /\ b \in Nat
    BY <2>1
  <2> HIDE DEF a, b
  <2>3. Min({a, b}) \in 0 .. a
    BY <2>2, LesserOf
  <2> QED BY <2>3 DEF a, b
<1> HIDE DEF fit, records
<1>4. /\ written.ssl.unsent = SubSeq(records, fit + 1, Len(records)) /\ written.in = in
      /\ written.out = out \o SubSeq(records, 1, fit)
  BY <1>2 DEF End, IsSsl
<1>5. \A in1 : lost(in1).in = in1 /\ lost(in1).out = out
  BY DEF End
<1>6. \/ o = Outcome(end, "exception")
      \/ o = Outcome(end, "network_error")
      \/ ~ peer /\ \E in1 \in MayReset(in) : o = Outcome(lost(in1), "ok")
      \/ peer /\ o = Outcome(written, IF fit = Len(records) THEN "ok" ELSE "need_write")
  <2>1. CASE ssl.sent_shutdown \/ ssl.buf \notin {0, buf}
    BY <1>1, <2>1 DEF SSL_write
  <2>2. CASE ~ (ssl.sent_shutdown \/ ssl.buf \notin {0, buf}) /\ IsReset(end)
    BY <1>1, <2>2 DEF SSL_write
  <2>3. CASE ~ (ssl.sent_shutdown \/ ssl.buf \notin {0, buf}) /\ ~ IsReset(end) /\ ~ peer
    BY <1>1, <2>3 DEF SSL_write
  <2>4. CASE ~ (ssl.sent_shutdown \/ ssl.buf \notin {0, buf}) /\ ~ IsReset(end) /\ peer
    <3>1. records = IF end.ssl.unsent = <<>> THEN Records(text) ELSE end.ssl.unsent
      BY <1>1 DEF records, Rest
    <3>2. fit = Min({Len(records), Room - Len(end.out)})
      BY <1>1 DEF fit
    <3> QED BY <1>1, <2>4, <3>1, <3>2 DEF SSL_write
  <2> QED BY <2>1, <2>2, <2>3, <2>4
<1> HIDE DEF end, written, lost
<1>7. CASE o = Outcome(end, "exception") \/ o = Outcome(end, "network_error")
  <2>1. o.end = end /\ o.what \in {"exception", "network_error"}
    BY <1>7 DEF Outcome
  <2> QED BY <1>1, <2>1
<1>8. CASE ~ peer /\ \E in1 \in MayReset(in) : o = Outcome(lost(in1), "ok")
  <2>1. PICK in1 \in MayReset(in) : o.end = lost(in1) /\ o.what = "ok"
    BY <1>8 DEF Outcome
  <2> QED BY <1>5, <1>8, <2>1
<1>9. CASE peer /\ o = Outcome(written, IF fit = Len(records) THEN "ok" ELSE "need_write")
  <2>1. o.end = written /\ o.what = IF fit = Len(records) THEN "ok" ELSE "need_write"
    BY <1>9 DEF Outcome
  <2>2. Sends(o, in, out, records, fit)
    BY <1>3, <1>4, <2>1 DEF Sends
  <2> QED BY <1>9, <2>1, <2>2 DEF records
<1> QED BY <1>6, <1>7, <1>8, <1>9

(* A flight is written, or the end is as it was. *)
LEMMA SendOutcome ==
  ASSUME NEW ssl, NEW in, NEW out, NEW peer, IsEnd(ssl, in, out, peer), NEW n \in Nat,
         NEW o \in SendFlight(End(ssl, in, out, peer), n)
  PROVE  /\ o.end.ssl.unsent = ssl.unsent
         /\ o.what = "network_error" => o.end.out = out
         /\ ~ peer => o.what \in {"need_read", "network_error"}
         /\ peer /\ Len(out) # Room =>
              /\ o.end.ssl.flights = n /\ o.end.in = in /\ o.end.out = Append(out, Flight(n))
              /\ o.what = IF n = Flights THEN "ok" ELSE "need_read"
<1> DEFINE end == End(ssl, in, out, peer)
           new == [ssl EXCEPT !.flights = n]
<1>1. /\ end.ssl = ssl /\ end.in = in /\ end.out = out /\ end.peer = peer
      /\ IsReset(end) <=> HasReset(in)
  BY DEF End, IsReset, HasReset
<1>2. /\ peer => ~ HasReset(in)
      /\ new.flights = n /\ new.unsent = ssl.unsent
  BY DEF IsEnd, Clean, IsSsl
<1>3. \A in1, out1 : LET e == [[end EXCEPT !.ssl.flights = n] EXCEPT !.in = in1]
                         f == [[end EXCEPT !.ssl.flights = n] EXCEPT !.out = out1]
                     IN  /\ e.ssl = new /\ e.in = in1 /\ e.out = out
                         /\ f.ssl = new /\ f.in = in /\ f.out = out1
  BY DEF End
<1>4. CASE HasReset(in)
  <2>1. o = Outcome(end, "network_error")
    BY <1>1, <1>4 DEF SendFlight
  <2>2. o.end = end /\ o.what = "network_error"
    BY <2>1 DEF Outcome
  <2> QED BY <1>1, <1>2, <1>4, <2>2
<1>5. CASE ~ HasReset(in) /\ ~ peer
  <2>1. PICK in1 \in MayReset(in) :
          o = Outcome([[end EXCEPT !.ssl.flights = n] EXCEPT !.in = in1], "need_read")
    BY <1>1, <1>5 DEF SendFlight
  <2>2. o.end.ssl = new /\ o.what = "need_read"
    BY <1>3, <2>1 DEF Outcome
  <2> QED BY <1>2, <1>5, <2>2
<1>6. CASE ~ HasReset(in) /\ peer /\ Len(out) = Room
  <2>1. o = Outcome(end, "need_write")
    BY <1>1, <1>6 DEF SendFlight
  <2>2. o.end = end /\ o.what = "need_write"
    BY <2>1 DEF Outcome
  <2> QED BY <1>1, <1>6, <2>2
<1>7. CASE ~ HasReset(in) /\ peer /\ Len(out) # Room
  <2>1. o = Outcome([[end EXCEPT !.ssl.flights = n] EXCEPT !.out = Append(out, Flight(n))],
                    IF n = Flights THEN "ok" ELSE "need_read")
    BY <1>1, <1>7 DEF SendFlight, End
  <2>2. /\ o.end.ssl = new /\ o.end.in = in /\ o.end.out = Append(out, Flight(n))
        /\ o.what = IF n = Flights THEN "ok" ELSE "need_read"
    BY <1>3, <2>1 DEF Outcome
  <2> QED BY <1>2, <1>7, <2>2
<1> QED BY <1>4, <1>5, <1>6, <1>7

(* A step of a handshake: the end goes on with its own flight, waits, or   *)
(* reads the other's.                                                      *)
LEMMA ShakeOutcome ==
  ASSUME NEW ssl, NEW in, NEW out, NEW peer, IsEnd(ssl, in, out, peer),
         NEW o \in Handshake(End(ssl, in, out, peer))
  PROVE  LET n == ssl.flights + 1
             new == [ssl EXCEPT !.flights = n]
         IN  /\ n \in Nat
             /\ Mine(ssl, n) => o \in SendFlight(End(ssl, in, out, peer), n)
             /\ ~ Mine(ssl, n) /\ in = <<>> =>
                  /\ o.end = End(ssl, in, out, peer)
                  /\ peer => o.what = "need_read"
                  /\ ~ peer => o.what \in {"connection_close", "network_error"}
             /\ ~ Mine(ssl, n) /\ in # <<>> /\ Head(in) = Reset =>
                  o.end = End(ssl, in, out, peer) /\ o.what = "network_error" /\ ~ peer
             /\ ~ Mine(ssl, n) /\ in # <<>> /\ Head(in) # Reset =>
                  /\ IsEnd(new, Tail(in), out, peer) /\ new.flights = n /\ new.unsent = ssl.unsent
                  /\ n = Flights => o.end = End(new, Tail(in), out, peer) /\ o.what = "ok"
                  /\ n # Flights => o \in SendFlight(End(new, Tail(in), out, peer), n + 1)
<1> DEFINE end == End(ssl, in, out, peer)
           n == ssl.flights + 1
           new == [ssl EXCEPT !.flights = n]
           read == [end EXCEPT !.ssl.flights = n, !.in = Tail(@)]
<1>1. end.ssl = ssl /\ end.in = in /\ end.out = out /\ end.peer = peer
  BY DEF End
<1>2. /\ IsSsl(ssl) /\ Pipe(in) /\ (peer => Clean(in)) /\ Clean(out) /\ peer \in BOOLEAN
      /\ n \in Nat /\ IsSsl(new) /\ new.flights = n /\ new.unsent = ssl.unsent
  <2>1. ssl.flights \in Nat /\ IsSsl(ssl)
    BY DEF IsEnd, IsSsl
  <2>2. n \in Nat
    BY <2>1
  <2> HIDE DEF n
  <2>3. new.unsent = ssl.unsent
    BY <2>1 DEF IsSsl
  <2> QED BY <2>1, <2>2, <2>3, SslChanged DEF IsEnd
<1>3. read = End(new, Tail(in), out, peer)
  <2>1. read = [end EXCEPT !.ssl.flights = n, !.in = Tail(in)]
    BY <1>1
  <2> HIDE DEF n
  <2>2. [end EXCEPT !.ssl.flights = n, !.in = Tail(in)]
        = [[end EXCEPT !.ssl.flights = n] EXCEPT !.in = Tail(in)]
    BY DEF End
  <2>3. [end EXCEPT !.ssl.flights = n] = End(new, in, out, peer)
    BY DEF End
  <2> HIDE DEF new
  <2>4. \A t : [End(new, in, out, peer) EXCEPT !.in = t] = End(new, t, out, peer)
    BY DEF End
  <2> QED BY <2>1, <2>2, <2>3, <2>4
<1> HIDE DEF n, new
<1>4. CASE Mine(ssl, n)
  <2>1. o \in SendFlight(End(ssl, in, out, peer), n)
    BY <1>1, <1>4 DEF Handshake, n
  <2> QED BY <1>2, <1>4, <2>1 DEF n, new
<1>5. CASE ~ Mine(ssl, n) /\ in = <<>>
  <2>1. \E what \in IF peer THEN {"need_read"} ELSE {"connection_close", "network_error"} :
          o = Outcome(end, what)
    BY <1>1, <1>5 DEF Handshake, n
  <2>2. o.end = end /\ o.what \in IF peer THEN {"need_read"} ELSE {"connection_close", "network_error"}
    BY <2>1 DEF Outcome
  <2> QED BY <1>2, <1>5, <2>2 DEF n, new
<1>6. CASE ~ Mine(ssl, n) /\ in # <<>> /\ Head(in) = Reset
  <2>1. o = Outcome(end, "network_error")
    BY <1>1, <1>6 DEF Handshake, n
  <2>2. o.end = end /\ o.what = "network_error"
    BY <2>1 DEF Outcome
  <2>3. ~ peer
    BY <1>6, NoResetAhead
  <2> QED BY <1>2, <1>6, <2>2, <2>3 DEF n, new
<1>7. CASE ~ Mine(ssl, n) /\ in # <<>> /\ Head(in) # Reset
  <2>1. IsEnd(new, Tail(in), out, peer)
    BY <1>2, <1>7, ReadRest
  <2>2. CASE n = Flights
    <3>1. o = Outcome(End(new, Tail(in), out, peer), "ok")
      BY <1>1, <1>3, <1>7, <2>2 DEF Handshake, n
    <3>2. o.end = End(new, Tail(in), out, peer) /\ o.what = "ok"
      BY <3>1 DEF Outcome
    <3> QED BY <1>2, <1>7, <2>1, <2>2, <3>2 DEF n, new
  <2>3. CASE n # Flights
    <3>1. o \in SendFlight(End(new, Tail(in), out, peer), n + 1)
      BY <1>1, <1>3, <1>7, <2>3 DEF Handshake, n
    <3> QED BY <1>2, <1>7, <2>1, <2>3, <3>1 DEF n, new
  <2> QED BY <2>2, <2>3
<1> QED BY <1>4, <1>5, <1>6, <1>7 DEF n, new

(* The alert is all that is written. *)
LEMMA AlertOutcome ==
  ASSUME NEW c, NEW in, NEW out, NEW peer, NEW o \in shutdown(c, End(c.ssl, in, out, peer))
  PROVE  o.end.out \in {out, Append(out, close_notify)}
<1> DEFINE end == End(c.ssl, in, out, peer)
           sent == [end EXCEPT !.ssl.sent_shutdown = TRUE]
<1>1. /\ end.out = out /\ sent.out = out
      /\ \A t : [sent EXCEPT !.out = Append(@, t)].out = Append(out, t)
  BY DEF End
<1>2. ASSUME NEW o1 \in SSL_shutdown(end)
      PROVE  /\ o1.end.out \in {out, Append(out, close_notify)}
             /\ [o1.end EXCEPT !.ssl = SSL_set_shutdown(@)].out = o1.end.out
  <2> DEFINE told == [sent EXCEPT !.out = Append(@, close_notify)]
  <2>1. \E e \in {end, sent, told} : \E what : o1 = Outcome(e, what)
    BY DEF SSL_shutdown
  <2>2. o1.end \in {end, sent, told}
    BY <2>1 DEF Outcome
  <2>3. \A e \in {end, sent, told} : \A v : [e EXCEPT !.ssl = v].out = e.out
    BY DEF End
  <2> HIDE DEF end, sent
  <2> QED BY <1>1, <2>2, <2>3
<1> HIDE DEF end
<1>3. \/ o = Outcome(end, "ok")
      \/ \E o1 \in SSL_shutdown(end) :
           o = IF o1.what = "one_way" THEN Outcome([o1.end EXCEPT !.ssl = SSL_set_shutdown(@)], "ok")
               ELSE o1
  BY DEF shutdown, end
<1>4. CASE o = Outcome(end, "ok")
  <2>1. o.end = end
    BY <1>4 DEF Outcome
  <2> QED BY <1>1, <2>1
<1>5. CASE \E o1 \in SSL_shutdown(end) :
             o = IF o1.what = "one_way"
                 THEN Outcome([o1.end EXCEPT !.ssl = SSL_set_shutdown(@)], "ok") ELSE o1
  <2>1. PICK o1 \in SSL_shutdown(end) :
          o = IF o1.what = "one_way" THEN Outcome([o1.end EXCEPT !.ssl = SSL_set_shutdown(@)], "ok")
              ELSE o1
    BY <1>5
  <2>2. Outcome([o1.end EXCEPT !.ssl = SSL_set_shutdown(@)], "ok").end
        = [o1.end EXCEPT !.ssl = SSL_set_shutdown(@)]
    BY DEF Outcome
  <2>3. o.end.out = o1.end.out
    BY <1>2, <2>1, <2>2
  <2> QED BY <1>2, <2>3
<1> QED BY <1>3, <1>4, <1>5

-----------------------------------------------------------------------------
(* A write goes on with the buffer it was begun with.                      *)
Buffers(c, n) == c.ssl.buf \in {0, n} /\ (c.state = "WRITING" => c.buf = n)

(* No call of OpenSSL changes the buffer of a write but SSL_write, and     *)
(* none fails while the other end is there and has not shut down.          *)

LEMMA FlightKeeps ==
  ASSUME NEW ssl, IsSsl(ssl), NEW in, NEW out, NEW peer, NEW n,
         NEW o \in SendFlight(End(ssl, in, out, peer), n)
  PROVE  /\ o.end.ssl.buf = ssl.buf
         /\ ~ HasReset(in) => o.what \in {"ok", "need_read", "need_write"}
<1> DEFINE end == End(ssl, in, out, peer)
           sent == [end EXCEPT !.ssl.flights = n]
           new == [ssl EXCEPT !.flights = n]
<1>1. /\ end.ssl = ssl /\ sent.ssl = new /\ (IsReset(end) <=> HasReset(in))
      /\ \A in1 : [sent EXCEPT !.in = in1].ssl = new
      /\ \A out1 : [sent EXCEPT !.out = out1].ssl = new
  BY DEF End, IsReset, HasReset
<1>2. new.buf = ssl.buf
  BY DEF IsSsl
<1>3. \/ o = Outcome(end, "network_error") /\ IsReset(end)
      \/ o = Outcome(end, "need_write")
      \/ \E in1 : o = Outcome([sent EXCEPT !.in = in1], "need_read")
      \/ \E out1 : \E what \in {"ok", "need_read"} : o = Outcome([sent EXCEPT !.out = out1], what)
  <2>1. CASE IsReset(end)
    BY <2>1 DEF SendFlight
  <2>2. CASE ~ IsReset(end) /\ ~ end.peer
    BY <2>2 DEF SendFlight
  <2>3. CASE ~ IsReset(end) /\ end.peer /\ Len(end.out) = Room
    BY <2>3 DEF SendFlight
  <2>4. CASE ~ IsReset(end) /\ end.peer /\ Len(end.out) # Room
    <3>1. o = Outcome([sent EXCEPT !.out = Append(@, Flight(n))],
                      IF n = Flights THEN "ok" ELSE "need_read")
      BY <2>4 DEF SendFlight
    <3> HIDE DEF sent, end
    <3>2. [sent EXCEPT !.out = Append(@, Flight(n))] = [sent EXCEPT !.out = Append(sent.out, Flight(n))]
      OBVIOUS
    <3> QED BY <3>1, <3>2
  <2> QED BY <2>1, <2>2, <2>3, <2>4
<1> HIDE DEF end, new
<1>4. CASE \E in1 : o = Outcome([sent EXCEPT !.in = in1], "need_read")
  <2>1. PICK in1 : o = Outcome([sent EXCEPT !.in = in1], "need_read")
    BY <1>4
  <2>2. o.end = [sent EXCEPT !.in = in1] /\ o.what = "need_read"
    BY <2>1 DEF Outcome
  <2> QED BY <1>1, <1>2, <2>2
<1>5. CASE \E out1 : \E what \in {"ok", "need_read"} : o = Outcome([sent EXCEPT !.out = out1], what)
  <2>1. PICK out1 : \E what \in {"ok", "need_read"} : o = Outcome([sent EXCEPT !.out = out1], what)
    BY <1>5
  <2>2. o.end = [sent EXCEPT !.out = out1] /\ o.what \in {"ok", "need_read"}
    BY <2>1 DEF Outcome
  <2> QED BY <1>1, <1>2, <2>2
<1>6. CASE (o = Outcome(end, "network_error") /\ IsReset(end)) \/ o = Outcome(end, "need_write")
  <2> HIDE DEF sent
  <2> QED BY <1>1, <1>6 DEF Outcome
<1> QED BY <1>3, <1>4, <1>5, <1>6

LEMMA ShakeKeeps ==
  ASSUME NEW ssl, NEW in, NEW out, NEW peer, IsEnd(ssl, in, out, peer),
         NEW o \in Handshake(End(ssl, in, out, peer))
  PROVE  /\ o.end.ssl.buf = ssl.buf
         /\ peer => o.what \in {"ok", "need_read", "need_write"}
<1> DEFINE n == ssl.flights + 1
           new == [ssl EXCEPT !.flights = n]
<1>1. /\ n \in Nat
      /\ Mine(ssl, n) => o \in SendFlight(End(ssl, in, out, peer), n)
      /\ ~ Mine(ssl, n) /\ in = <<>> =>
           /\ o.end = End(ssl, in, out, peer)
           /\ peer => o.what = "need_read"
      /\ ~ Mine(ssl, n) /\ in # <<>> /\ Head(in) = Reset =>
           o.end = End(ssl, in, out, peer) /\ ~ peer
      /\ ~ Mine(ssl, n) /\ in # <<>> /\ Head(in) # Reset =>
           /\ IsEnd(new, Tail(in), out, peer)
           /\ n = Flights => o.end = End(new, Tail(in), out, peer) /\ o.what = "ok"
           /\ n # Flights => o \in SendFlight(End(new, Tail(in), out, peer), n + 1)
  BY ShakeOutcome
<1>2. /\ IsSsl(ssl) /\ new.buf = ssl.buf /\ (peer => ~ HasReset(in))
  BY DEF IsEnd, IsSsl, Clean
<1> HIDE DEF n, new
<1>3. End(ssl, in, out, peer).ssl = ssl /\ End(new, Tail(in), out, peer).ssl = new
  BY DEF End
<1>4. CASE Mine(ssl, n)
  BY <1>1, <1>2, <1>4, FlightKeeps
<1>5. CASE ~ Mine(ssl, n) /\ (in = <<>> \/ Head(in) = Reset)
  BY <1>1, <1>2, <1>3, <1>5
<1>6. CASE ~ Mine(ssl, n) /\ in # <<>> /\ Head(in) # Reset
  <2>1. IsSsl(new) /\ (peer => ~ HasReset(Tail(in)))
    BY <1>1, <1>6 DEF IsEnd, Clean
  <2>2. CASE n = Flights
    BY <1>1, <1>2, <1>3, <1>6, <2>2
  <2>3. CASE n # Flights
    <3>1. o \in SendFlight(End(new, Tail(in), out, peer), n + 1)
      BY <1>1, <1>6, <2>3
    <3> DEFINE rest == Tail(in)
               next == n + 1
    <3>2. o \in SendFlight(End(new, rest, out, peer), next) /\ (peer => ~ HasReset(rest))
      BY <2>1, <3>1
    <3> HIDE DEF rest, next
    <3>3. o.end.ssl.buf = new.buf /\ (peer => o.what \in {"ok", "need_read", "need_write"})
      BY <2>1, <3>2, FlightKeeps
    <3> QED BY <1>2, <3>3
  <2> QED BY <2>2, <2>3
<1> QED BY <1>4, <1>5, <1>6

LEMMA ReadKeeps ==
  ASSUME NEW ssl, IsSsl(ssl), NEW in, NEW out, NEW peer, NEW o \in SSL_read(End(ssl, in, out, peer))
  PROVE  o.end.ssl.buf = ssl.buf
<1> DEFINE end == End(ssl, in, out, peer)
           rest == [end EXCEPT !.in = Tail(@)]
           told == [rest EXCEPT !.ssl.received_shutdown = TRUE]
           new == [ssl EXCEPT !.received_shutdown = TRUE]
<1>1. end.ssl = ssl /\ rest.ssl = ssl /\ told.ssl = new
  <2>1. \A t : LET a == [end EXCEPT !.in = t]
               IN  end.ssl = ssl /\ a.ssl = ssl /\ [a EXCEPT !.ssl.received_shutdown = TRUE].ssl = new
    BY DEF End
  <2>2. rest = [end EXCEPT !.in = Tail(end.in)]
    <3> HIDE DEF end
    <3> QED OBVIOUS
  <2>3. /\ [end EXCEPT !.in = Tail(end.in)].ssl = ssl
        /\ [[end EXCEPT !.in = Tail(end.in)] EXCEPT !.ssl.received_shutdown = TRUE].ssl = new
    BY <2>1
  <2> QED BY <2>1, <2>2, <2>3
<1>2. new.buf = ssl.buf
  BY DEF IsSsl
<1>3. \E e \in {end, rest, told} : (\E what : o = Outcome(e, what)) \/ (\E text : o = Got(e, text))
  <2>1. CASE end.ssl.received_shutdown
    BY <2>1 DEF SSL_read
  <2>2. CASE ~ end.ssl.received_shutdown /\ end.in = <<>>
    BY <2>2 DEF SSL_read
  <2>3. CASE ~ end.ssl.received_shutdown /\ end.in # <<>> /\ Head(end.in) = Reset
    BY <2>3 DEF SSL_read
  <2>4. CASE /\ ~ end.ssl.received_shutdown /\ end.in # <<>> /\ Head(end.in) # Reset
             /\ Head(end.in) = close_notify
    BY <2>4 DEF SSL_read
  <2>5. CASE /\ ~ end.ssl.received_shutdown /\ end.in # <<>> /\ Head(end.in) # Reset
             /\ Head(end.in) # close_notify
    BY <2>5 DEF SSL_read
  <2> QED BY <2>1, <2>2, <2>3, <2>4, <2>5
<1> HIDE DEF end, rest, told, new
<1> QED BY <1>1, <1>2, <1>3 DEF Outcome, Got

LEMMA WriteKeeps ==
  ASSUME NEW ssl, IsSsl(ssl), NEW in, NEW out, NEW peer, NEW text, NEW buf,
         NEW o \in SSL_write(End(ssl, in, out, peer), text, buf)
  PROVE  /\ o.end.ssl.buf \in {0, buf, ssl.buf}
         /\ o.what = "exception" => ssl.sent_shutdown \/ ssl.buf \notin {0, buf}
         /\ o.what = "network_error" => HasReset(in)
<1> DEFINE end == End(ssl, in, out, peer)
           records == IF end.ssl.unsent = <<>> THEN Records(text) ELSE end.ssl.unsent
           fit == Min({Len(records), Room - Len(end.out)})
           more == SubSeq(records, 1, fit)
           unsent == SubSeq(records, fit + 1, Len(records))
           mark == IF fit = Len(records) THEN 0 ELSE buf
           written == [end EXCEPT !.out = @ \o more, !.ssl.unsent = unsent, !.ssl.buf = mark]
           lost(in1) == [end EXCEPT !.in = in1, !.ssl.unsent = <<>>, !.ssl.buf = 0]
<1>1. end.ssl = ssl /\ (IsReset(end) <=> HasReset(in))
  BY DEF End, IsReset, HasReset
<1>2. /\ \A u, b : [ssl EXCEPT !.unsent = u, !.buf = b].buf = b
  BY DEF IsSsl
<1>3. \A in1 : lost(in1).ssl = [ssl EXCEPT !.unsent = <<>>, !.buf = 0]
  BY DEF End
<1>4. CASE ssl.sent_shutdown \/ ssl.buf \notin {0, buf}
  <2>1. o = Outcome(end, "exception")
    BY <1>1, <1>4 DEF SSL_write
  <2> QED BY <1>1, <1>4, <2>1 DEF Outcome
<1>5. CASE ~(ssl.sent_shutdown \/ ssl.buf \notin {0, buf}) /\ IsReset(end)
  <2>1. o = Outcome(end, "network_error")
    BY <1>1, <1>5 DEF SSL_write
  <2> QED BY <1>1, <1>5, <2>1 DEF Outcome
<1>6. CASE ~(ssl.sent_shutdown \/ ssl.buf \notin {0, buf}) /\ ~ IsReset(end) /\ ~ end.peer
  <2>1. PICK in1 : o = Outcome(lost(in1), "ok")
    BY <1>1, <1>6 DEF SSL_write
  <2>2. o.end = lost(in1) /\ o.what = "ok"
    BY <2>1 DEF Outcome
  <2>3. o.end.ssl.buf = 0
    <3>1. o.end.ssl = [ssl EXCEPT !.unsent = <<>>, !.buf = 0]
      BY <1>3, <2>2
    <3> QED BY <1>2, <3>1
  <2> QED BY <2>2, <2>3
<1>7. CASE ~(ssl.sent_shutdown \/ ssl.buf \notin {0, buf}) /\ ~ IsReset(end) /\ end.peer
  <2>1. o = Outcome(written, IF fit = Len(records) THEN "ok" ELSE "need_write")
    BY <1>1, <1>7 DEF SSL_write
  <2> HIDE DEF records, fit
  <2>2. mark \in {0, buf}
    OBVIOUS
  <2> HIDE DEF more, unsent, mark
  <2>3. written.ssl = [ssl EXCEPT !.unsent = unsent, !.buf = mark]
    BY DEF End
  <2> HIDE DEF written
  <2>4. o.end = written /\ o.what \in {"ok", "need_write"}
    BY <2>1 DEF Outcome
  <2>5. o.end.ssl.buf = mark
    <3>1. o.end.ssl = [ssl EXCEPT !.unsent = unsent, !.buf = mark]
      BY <2>3, <2>4
    <3> QED BY <1>2, <3>1
  <2> QED BY <2>2, <2>4, <2>5
<1> QED BY <1>4, <1>5, <1>6, <1>7

LEMMA AlertKeeps ==
  ASSUME NEW c, IsSsl(c.ssl), NEW in, NEW out, NEW peer,
         NEW o \in shutdown(c, End(c.ssl, in, out, peer))
  PROVE  /\ o.end.ssl.buf = c.ssl.buf /\ o.end.in = in
         /\ ~ HasReset(in) => o.what \in {"ok", "need_write"}
<1> DEFINE end == End(c.ssl, in, out, peer)
           sent == [end EXCEPT !.ssl.sent_shutdown = TRUE]
           told == [sent EXCEPT !.out = Append(@, close_notify)]
           Kin(e) == IsSsl(e.ssl) /\ e.ssl.buf = c.ssl.buf /\ e.in = in
           set(e) == [e EXCEPT !.ssl = SSL_set_shutdown(@)]
<1>1. Kin(end) /\ (IsReset(end) <=> HasReset(in))
  BY DEF End, IsReset, HasReset
<1>2. Kin(sent) /\ Kin(told)
  <2> DEFINE new == [c.ssl EXCEPT !.sent_shutdown = TRUE]
  <2>1. IsSsl(new) /\ new.buf = c.ssl.buf
    <3>1. new.buf = c.ssl.buf
      BY DEF IsSsl
    <3> QED BY <3>1, SslChanged
  <2>2. sent.ssl = new /\ sent.in = in
    BY DEF End
  <2>3. \A t : LET a == [sent EXCEPT !.out = t] IN a.ssl = new /\ a.in = in
    BY DEF End
  <2>4. told = [sent EXCEPT !.out = Append(sent.out, close_notify)]
    <3> HIDE DEF sent
    <3> QED OBVIOUS
  <2> HIDE DEF sent, told, new
  <2> QED BY <2>1, <2>2, <2>3, <2>4
<1>3. \A e \in {end, sent, told} : set(e).ssl.buf = e.ssl.buf /\ set(e).in = e.in
  <2>1. \A e \in {end, sent, told} : set(e).ssl = SSL_set_shutdown(e.ssl) /\ set(e).in = e.in
    BY DEF End
  <2>2. \A e \in {end, sent, told} : SSL_set_shutdown(e.ssl).buf = e.ssl.buf
    <3> SUFFICES ASSUME NEW e \in {end, sent, told} PROVE SSL_set_shutdown(e.ssl).buf = e.ssl.buf
      OBVIOUS
    <3>1. IsSsl(e.ssl)
      BY <1>1, <1>2
    <3> QED BY <3>1 DEF SSL_set_shutdown, IsSsl
  <2> HIDE DEF set
  <2> QED BY <2>1, <2>2
<1>4. ASSUME NEW o1 \in SSL_shutdown(end)
      PROVE  \E e \in {end, sent, told} : \E what \in {"ok", "one_way", "need_write", "network_error"} :
               o1 = Outcome(e, what) /\ (what = "network_error" => IsReset(end))
  BY DEF SSL_shutdown
<1> HIDE DEF end, sent, told, set
<1>5. \/ o = Outcome(end, "ok")
      \/ \E o1 \in SSL_shutdown(end) :
           o = IF o1.what = "one_way" THEN Outcome(set(o1.end), "ok") ELSE o1
  BY DEF shutdown, end, set
<1>6. CASE o = Outcome(end, "ok")
  BY <1>1, <1>6 DEF Outcome
<1>7. CASE \E o1 \in SSL_shutdown(end) :
             o = IF o1.what = "one_way" THEN Outcome(set(o1.end), "ok") ELSE o1
  <2>1. PICK o1 \in SSL_shutdown(end) :
          o = IF o1.what = "one_way" THEN Outcome(set(o1.end), "ok") ELSE o1
    BY <1>7
  <2>2. PICK e \in {end, sent, told} : \E what \in {"ok", "one_way", "need_write", "network_error"} :
          o1 = Outcome(e, what) /\ (what = "network_error" => IsReset(end))
    BY <1>4
  <2>3. o1.end = e /\ o1.what \in {"ok", "one_way", "need_write", "network_error"}
        /\ (o1.what = "network_error" => IsReset(end))
    BY <2>2 DEF Outcome
  <2>4. o.end \in {e, set(e)} /\ o.what \in {"ok", "need_write", "network_error"}
        /\ (o.what = "network_error" => IsReset(end))
    BY <2>1, <2>3 DEF Outcome
  <2>5. Kin(e)
    BY <1>1, <1>2
  <2> QED BY <1>1, <1>3, <2>4, <2>5
<1> QED BY <1>5, <1>6, <1>7

(* What a handler's call leaves of the buffer. *)
LEMMA CallKeeps ==
  ASSUME NEW c, IsConnection(c), NEW in, NEW out, NEW peer, IsEnd(c.ssl, in, out, peer),
         NEW o \in Call(c, End(c.ssl, in, out, peer)), NEW n, Buffers(c, n)
  PROVE  o.end.ssl.buf \in {0, n}
<1> DEFINE end == End(c.ssl, in, out, peer)
           buf == c.buf
           ssl == c.ssl
<1>1. IsSsl(ssl) /\ c.state \in States /\ IsEnd(ssl, in, out, peer)
  BY DEF IsConnection
<1>2. CASE c.state \in {"ACCEPTING", "CONNECTING"}
  <2>1. o \in Handshake(End(ssl, in, out, peer))
    BY <1>2 DEF Call
  <2> HIDE DEF ssl
  <2>2. o.end.ssl.buf = ssl.buf
    BY <1>1, <2>1, ShakeKeeps
  <2> QED BY <2>2 DEF Buffers, ssl
<1>3. CASE c.state = "READING"
  <2>1. o \in SSL_read(End(ssl, in, out, peer))
    BY <1>3 DEF Call
  <2> HIDE DEF ssl
  <2>2. o.end.ssl.buf = ssl.buf
    BY <1>1, <2>1, ReadKeeps
  <2> QED BY <2>2 DEF Buffers, ssl
<1>4. CASE c.state = "WRITING"
  <2> DEFINE text == c.send_buf
  <2>1. o \in SSL_write(End(ssl, in, out, peer), text, buf)
    BY <1>4 DEF Call
  <2>2. buf = n /\ ssl.buf \in {0, n}
    BY <1>4 DEF Buffers
  <2> HIDE DEF ssl, buf, text
  <2>3. o.end.ssl.buf \in {0, buf, ssl.buf}
    BY <1>1, <2>1, WriteKeeps
  <2> QED BY <2>2, <2>3
<1>5. CASE c.state = "SHUTDOWN"
  <2>1. o \in shutdown(c, end)
    BY <1>5 DEF Call
  <2>2. o.end.ssl.buf = c.ssl.buf
    BY <1>1, <2>1, AlertKeeps
  <2> QED BY <2>2 DEF Buffers
<1>6. CASE c.state = "EMPTY"
  <2>1. o = Outcome(end, "ok")
    BY <1>6 DEF Call
  <2>2. o.end = end /\ end.ssl = c.ssl
    BY <2>1 DEF Outcome, End
  <2> QED BY <2>2 DEF Buffers
<1> QED BY <1>1, <1>2, <1>3, <1>4, <1>5, <1>6 DEF States
==============================================================================
