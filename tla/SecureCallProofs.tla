-------------------------- MODULE SecureCallProofs --------------------------
(***************************************************************************)
(* For every number of calls, of records and every size of a packet: no    *)
(* connection of the HTTPS server is forgotten by the reactor, and, when   *)
(* no connection is kept, the answer to a call is its own and a call fails *)
(* for a cause.                                                            *)
(***************************************************************************)
EXTENDS SecureCall, SslConnectionProofs, FiniteSetTheorems

IsClient(cl) ==
  /\ cl \in [ssl : {cl.ssl}, preader : {cl.preader}, out_str : {cl.out_str},
             established : {cl.established}, finished : BOOLEAN]
  /\ IsConnection(cl.ssl) /\ IsText(cl.out_str)

IsServer(s) ==
  /\ s \in [ssl : {s.ssl}, preader : {s.preader}, open : BOOLEAN,
            keep_alive : {s.keep_alive}, executing : {s.executing}]
  /\ IsConnection(s.ssl)
  /\ s.executing = {} \/ \E req \in Requests : s.executing = {req}

Objects ==
  /\ opts \in Sessions /\ phase \in {"idle", "events"} /\ IsText(results)
  /\ IsClient(client)
  /\ IsText(server) /\ IsText(to_server) /\ IsText(to_client)
  /\ Len(to_server) = Len(server) /\ Len(to_client) = Len(server)
  /\ \A c \in Conns : IsServer(server[c])

(* Which sockets are open.                                                 *)
Sockets ==
  /\ conn \in 0 .. Len(server) /\ (conn = 0 => phase = "idle")
  /\ left \subseteq Conns
  /\ conn # 0 => (client.finished <=> conn \in left)
  /\ conn = 0 => ~ client.finished
  /\ \A c \in Conns : c # conn => c \in left

(* What was sent to an end that is open is no reset, and nothing is under  *)
(* way to a client that has gone from a server that has not.  ts and tc    *)
(* are what is under way to either end, open and gone tell of the server's *)
(* socket and the client's, and kept whether the client has the object.    *)
UnderWay(ts, tc, open, gone, kept) ==
  /\ Pipe(ts) /\ Pipe(tc)
  /\ ~ gone => Clean(ts)
  /\ open => Clean(tc)
  /\ open /\ gone => tc = <<>>
  /\ ~ open => Len(ts) <= IF ~ gone THEN 0 ELSE IF kept THEN 1 ELSE 2

Pipes == \A c \in Conns : UnderWay(to_server[c], to_client[c], Open(c), c \in left, c = conn)

(* An end that has the other's alert answers it. *)
Heard(s) == s.ssl.received_shutdown => s.state = "SHUTDOWN"

(* What the server's end of a connection is doing, and what it waits for.  *)
(* The even flights of a handshake are the server's own.                   *)
Waiting(s) ==
  \/ s.state = "ACCEPTING" /\ s.mask = {"INPUT"} /\ s.ssl.flights % 2 = 0
  \/ s.state = "ACCEPTING" /\ s.mask = {"OUTPUT"} /\ s.ssl.flights % 2 = 1
  \/ s.state = "READING" /\ s.mask = {"INPUT"}
  \/ s.state \in {"WRITING", "SHUTDOWN"} /\ s.mask = {"OUTPUT"}

Attended(s) ==
  IF s.open
  THEN /\ s.ssl.ssl.role = "server" /\ ~ s.ssl.ssl.sent_shutdown /\ Heard(s.ssl)
       /\ IF s.executing # {} THEN s.ssl.mask = {} /\ s.ssl.state = "EMPTY" ELSE Waiting(s.ssl)
  ELSE s.executing = {}

IInv == Objects /\ Sockets /\ Pipes /\ \A c \in Conns : Attended(server[c])

-----------------------------------------------------------------------------
(* A step of the server. *)

LEMMA ServerSwitching ==
  ASSUME IInv, NEW c \in Conns, NEW r \in ServerSteps(c)
  PROVE  /\ Open(c) /\ server[c].executing = {} /\ IsServer(server[c])
         /\ IsConnection(r.conn) /\ r.conn.ssl.role = "server"
         /\ UnderWay(r.in, r.out, TRUE, c \in left, c = conn)
         /\ r.what = "again" => Waiting(r.conn) /\ ~ r.conn.ssl.sent_shutdown /\ Heard(r.conn)
         /\ r.what \in {"accept_succeed", "recv_succeed", "send_succeed"} =>
              r.conn.mask = {} /\ r.conn.state = "EMPTY" /\ ~ r.conn.ssl.sent_shutdown
              /\ ~ r.conn.ssl.received_shutdown
<1> DEFINE s == server[c].ssl
           in == to_server[c]
           out == to_client[c]
           peer == c \notin left
<1>1. Open(c) /\ Ready(s.mask, in, out, peer) /\ r \in switch_state(s, in, out, peer)
  BY DEF ServerSteps
<1>2. IsServer(server[c]) /\ Attended(server[c]) /\ UnderWay(in, out, TRUE, ~ peer, c = conn)
  <2>1. IsServer(server[c]) /\ Attended(server[c])
    BY DEF IInv, Objects
  <2>2. UnderWay(to_server[c], to_client[c], Open(c), c \in left, c = conn)
    BY DEF IInv, Pipes
  <2>3. UnderWay(to_server[c], to_client[c], TRUE, ~ peer, c = conn)
    BY <1>1, <2>2 DEF UnderWay
  <2> QED BY <2>1, <2>3
<1>3. server[c].executing = {}
  <2>1. s.mask # {}
    BY <1>1 DEF Ready
  <2> QED BY <1>1, <1>2, <2>1 DEF Attended, Open
<1>4. Waiting(s) /\ s.ssl.role = "server" /\ ~ s.ssl.sent_shutdown /\ Heard(s)
  BY <1>1, <1>2, <1>3 DEF Attended, Open
<1>5. IsConnection(s) /\ IsEnd(s.ssl, in, out, peer)
  BY <1>2 DEF IsServer, IsConnection, IsEnd, UnderWay
<1> HIDE DEF s, in, out, peer
<1>6. PICK o \in Call(s, End(s.ssl, in, out, peer)) : Switched(r, s, o)
  BY <1>1, <1>5, Switching
<1>7. /\ Left(o, s.ssl, in, out, peer)
      /\ o.what \in {"ok", "need_read", "need_write", "connection_close", "network_error",
                     "exception"}
      /\ s.state # "SHUTDOWN" => o.end.ssl.sent_shutdown = s.ssl.sent_shutdown
      /\ s.state # "SHUTDOWN" /\ o.what # "connection_close" =>
           o.end.ssl.received_shutdown = s.ssl.received_shutdown
      /\ s.state = "SHUTDOWN" /\ o.what = "need_write" => o.end.ssl = s.ssl
      /\ s.state \in {"WRITING", "SHUTDOWN"} => o.what \notin {"need_read", "connection_close"}
      /\ s.state = "READING" => o.what # "need_write"
      /\ s.state = "ACCEPTING" /\ s.ssl.role = "server" =>
           /\ o.what = "need_read" => o.end.ssl.flights % 2 = 0
           /\ o.what = "need_write" => o.end.ssl.flights % 2 = 1
  BY <1>5, Calling
<1>8. IsConnection(r.conn) /\ r.conn.ssl = o.end.ssl /\ r.conn.ssl.role = "server"
  BY <1>4, <1>6, <1>7 DEF Switched, Left
<1>9. UnderWay(r.in, r.out, TRUE, c \in left, c = conn)
  <2>1. /\ r.in = o.end.in /\ r.out = o.end.out
        /\ Pipe(r.in) /\ (peer => Clean(r.in)) /\ Clean(r.out) /\ (~ peer => r.out = out)
    BY <1>6, <1>7 DEF Switched, Left
  <2>2. ~ peer => out = <<>>
    BY <1>2 DEF UnderWay
  <2> QED BY <2>1, <2>2 DEF UnderWay, Pipe, peer
<1>10. s.state \in {"ACCEPTING", "READING", "WRITING", "SHUTDOWN"}
  BY <1>4 DEF Waiting
<1>11. r.what = "again" => Waiting(r.conn) /\ ~ r.conn.ssl.sent_shutdown /\ Heard(r.conn)
  <2> SUFFICES ASSUME r.what = "again" PROVE Waiting(r.conn) /\ ~ r.conn.ssl.sent_shutdown /\ Heard(r.conn)
    OBVIOUS
  <2>1. o.what \in {"need_read", "need_write", "connection_close"}
    <3>1. Success(s.state) # "again"
      BY <1>10 DEF Success
    <3> QED BY <1>6, <1>7, <3>1 DEF Switched
  <2>2. CASE o.what = "connection_close"
    <3>1. s.state \in {"ACCEPTING", "READING"} /\ ~ o.end.ssl.sent_shutdown
      BY <1>4, <1>7, <1>10, <2>2
    <3>2. r.conn.mask = {"OUTPUT"} /\ r.conn.state = "SHUTDOWN"
      BY <1>6, <2>2, <3>1 DEF Switched
    <3> QED BY <1>8, <3>1, <3>2 DEF Waiting, Heard
  <2>3. CASE o.what = "need_read"
    <3>1. s.state \in {"ACCEPTING", "READING"} /\ ~ o.end.ssl.sent_shutdown
      BY <1>4, <1>7, <1>10, <2>3
    <3>2. r.conn.mask = {"INPUT"} /\ r.conn.state = s.state
      BY <1>6, <2>3 DEF Switched
    <3>3. s.state = "ACCEPTING" => r.conn.ssl.flights % 2 = 0
      BY <1>4, <1>7, <1>8, <2>3
    <3>4. Heard(r.conn)
      BY <1>4, <1>7, <1>8, <2>3, <3>2 DEF Heard
    <3> QED BY <1>8, <3>1, <3>2, <3>3, <3>4 DEF Waiting
  <2>4. CASE o.what = "need_write"
    <3>1. s.state \in {"ACCEPTING", "WRITING", "SHUTDOWN"} /\ ~ o.end.ssl.sent_shutdown
      BY <1>4, <1>7, <1>10, <2>4
    <3>2. r.conn.mask = {"OUTPUT"} /\ r.conn.state = s.state
      BY <1>6, <2>4 DEF Switched
    <3>3. s.state = "ACCEPTING" => r.conn.ssl.flights % 2 = 1
      BY <1>4, <1>7, <1>8, <2>4
    <3>4. Heard(r.conn)
      BY <1>4, <1>7, <1>8, <2>4, <3>2 DEF Heard
    <3> QED BY <1>8, <3>1, <3>2, <3>3, <3>4 DEF Waiting
  <2> QED BY <2>1, <2>2, <2>3, <2>4
<1>12. r.what \in {"accept_succeed", "recv_succeed", "send_succeed"} =>
         r.conn.mask = {} /\ r.conn.state = "EMPTY" /\ ~ r.conn.ssl.sent_shutdown
              /\ ~ r.conn.ssl.received_shutdown
  <2> SUFFICES ASSUME r.what \in {"accept_succeed", "recv_succeed", "send_succeed"}
               PROVE  r.conn.mask = {} /\ r.conn.state = "EMPTY" /\ ~ r.conn.ssl.sent_shutdown
              /\ ~ r.conn.ssl.received_shutdown
    OBVIOUS
  <2>1. o.what = "ok" /\ r.what = Success(s.state) /\ r.conn.mask = {}
    BY <1>6, <1>7 DEF Switched
  <2>2. s.state # "SHUTDOWN"
    BY <2>1 DEF Success
  <2>3. r.conn.state = "EMPTY"
    BY <1>6, <2>1, <2>2 DEF Switched
  <2>4. s.state # "SHUTDOWN" => ~ s.ssl.received_shutdown
    BY <1>4 DEF Heard
  <2> QED BY <1>4, <1>7, <1>8, <2>1, <2>2, <2>3, <2>4
<1> QED BY <1>1, <1>2, <1>3, <1>8, <1>9, <1>11, <1>12 DEF s, in, out, peer

(* The connection c, and what is under way on it, have changed.            *)
LEMMA ServerChanged ==
  ASSUME IInv, NEW c \in Conns, NEW new, NEW ts, NEW tc, UNCHANGED clientVars,
         server' = [server EXCEPT ![c] = new],
         to_server' = [to_server EXCEPT ![c] = ts], to_client' = [to_client EXCEPT ![c] = tc],
         IsServer(new), Attended(new),
         UnderWay(ts, tc, new.open, c \in left, c = conn)
  PROVE  IInv'
<1>1. /\ opts' = opts /\ phase' = phase /\ conn' = conn /\ client' = client /\ results' = results
      /\ left' = left
  BY DEF clientVars
<1>2. /\ IsText(server) /\ IsText(to_server) /\ IsText(to_client)
      /\ DOMAIN server = 1 .. Len(server)
      /\ DOMAIN to_server = DOMAIN server /\ DOMAIN to_client = DOMAIN server
      /\ Len(to_server) = Len(server) /\ Len(to_client) = Len(server)
  BY TextIs DEF IInv, Objects
<1>3. /\ IsText(server') /\ Len(server') = Len(server) /\ DOMAIN server' = DOMAIN server
      /\ server'[c] = new /\ \A d \in DOMAIN server : d # c => server'[d] = server[d]
  BY <1>2, TextReplaced DEF Conns
<1>4. /\ IsText(to_server') /\ Len(to_server') = Len(to_server)
      /\ to_server'[c] = ts /\ \A d \in DOMAIN server : d # c => to_server'[d] = to_server[d]
  <2>1. c \in DOMAIN to_server
    BY <1>2 DEF Conns
  <2> QED BY <1>2, <2>1, TextReplaced
<1>5. /\ IsText(to_client') /\ Len(to_client') = Len(to_client)
      /\ to_client'[c] = tc /\ \A d \in DOMAIN server : d # c => to_client'[d] = to_client[d]
  <2>1. c \in DOMAIN to_client
    BY <1>2 DEF Conns
  <2> QED BY <1>2, <2>1, TextReplaced
<1>6. Objects'
  <2>1. \A d \in DOMAIN server : IsServer(server'[d])
    BY <1>3 DEF IInv, Objects, Conns
  <2> QED BY <1>1, <1>2, <1>3, <1>4, <1>5, <2>1 DEF IInv, Objects, Conns
<1>7. Sockets'
  BY <1>1, <1>3 DEF IInv, Sockets, Conns
<1>8. Pipes'
  <2>1. ASSUME NEW d \in DOMAIN server
        PROVE  UnderWay(to_server'[d], to_client'[d], server'[d].open, d \in left, d = conn)
    <3>1. CASE d = c
      BY <1>3, <1>4, <1>5, <3>1
    <3>2. CASE d # c
      BY <1>3, <1>4, <1>5, <3>2 DEF IInv, Pipes, Conns, Open
    <3> QED BY <3>1, <3>2
  <2> QED BY <1>1, <1>3, <2>1 DEF Pipes, Conns, Open
<1>9. \A d \in DOMAIN server : Attended(server'[d])
  BY <1>3 DEF IInv, Conns
<1> QED BY <1>3, <1>6, <1>7, <1>8, <1>9 DEF IInv, Conns

(* A member that registers, called where no event is registered.           *)
LEMMA Sent ==
  ASSUME NEW c, IsConnection(c), NEW text, IsText(text), NEW buf
  PROVE  LET new == reg_send(c, text, buf)
         IN  /\ IsConnection(new) /\ new.ssl = c.ssl /\ new.state = "WRITING"
             /\ new.mask = c.mask \cup {"OUTPUT"}
<1> DEFINE new == reg_send(c, text, buf)
<1>1. /\ c \in [state : States, mask : SUBSET {"INPUT", "OUTPUT"}, ssl : {c.ssl},
                send_buf : {c.send_buf}, buf : {c.buf}]
      /\ IsSsl(c.ssl)
  BY DEF IsConnection
<1>2. /\ new \in [state : States, mask : SUBSET {"INPUT", "OUTPUT"}, ssl : {c.ssl},
                  send_buf : {text}, buf : {buf}]
      /\ new.state = "WRITING" /\ new.mask = c.mask \cup {"OUTPUT"}
  BY <1>1 DEF reg_send, register_handler, States
<1> HIDE DEF new
<1>3. new.ssl = c.ssl /\ new.send_buf = text /\ new.buf = buf
  BY <1>2
<1> QED BY <1>1, <1>2, <1>3 DEF IsConnection, new

LEMMA Received ==
  ASSUME NEW c, IsConnection(c)
  PROVE  LET new == reg_recv(c)
         IN  /\ IsConnection(new) /\ new.ssl = c.ssl /\ new.state = "READING"
             /\ new.mask = c.mask \cup {"INPUT"}
<1>1. "READING" \in States
  BY DEF States
<1> QED BY <1>1, Registered DEF reg_recv

LEMMA Alerted ==
  ASSUME NEW c, IsConnection(c), ~ c.ssl.sent_shutdown
  PROVE  LET new == reg_shutdown(c)
         IN  /\ IsConnection(new) /\ new.ssl = c.ssl /\ new.state = "SHUTDOWN"
             /\ new.mask = c.mask \cup {"OUTPUT"}
<1>1. "SHUTDOWN" \in States
  BY DEF States
<1> QED BY <1>1, Registered DEF reg_shutdown, shutdown_sent

(* The members of a connection of the server, one by one.                  *)
LEMMA ServerMembers ==
  ASSUME NEW s, IsServer(s)
  PROVE  /\ \A c : IsConnection(c) =>
              LET new == [s EXCEPT !.ssl = c]
              IN  /\ IsServer(new) /\ new.ssl = c /\ new.open = s.open
                  /\ new.executing = s.executing
         /\ \A r : LET new == [s EXCEPT !.preader = r]
                   IN  /\ IsServer(new) /\ new.ssl = s.ssl /\ new.open = s.open
                       /\ new.executing = s.executing
         /\ \A k : LET new == [s EXCEPT !.keep_alive = k]
                   IN  /\ IsServer(new) /\ new.ssl = s.ssl /\ new.open = s.open
                       /\ new.executing = s.executing
         /\ \A e : e = {} \/ (\E req \in Requests : e = {req}) =>
              LET new == [s EXCEPT !.executing = e]
              IN  /\ IsServer(new) /\ new.ssl = s.ssl /\ new.open = s.open
                  /\ new.executing = e
<1>1. /\ s \in [ssl : {s.ssl}, preader : {s.preader}, open : BOOLEAN,
                keep_alive : {s.keep_alive}, executing : {s.executing}]
      /\ IsConnection(s.ssl)
      /\ s.executing = {} \/ \E req \in Requests : s.executing = {req}
  BY DEF IsServer
<1>2. ASSUME NEW c, IsConnection(c)
      PROVE  LET new == [s EXCEPT !.ssl = c]
             IN  IsServer(new) /\ new.ssl = c /\ new.open = s.open /\ new.executing = s.executing
  BY <1>1, <1>2 DEF IsServer
<1>3. ASSUME NEW r
      PROVE  LET new == [s EXCEPT !.preader = r]
             IN  IsServer(new) /\ new.ssl = s.ssl /\ new.open = s.open /\ new.executing = s.executing
  BY <1>1 DEF IsServer
<1>4. ASSUME NEW k
      PROVE  LET new == [s EXCEPT !.keep_alive = k]
             IN  IsServer(new) /\ new.ssl = s.ssl /\ new.open = s.open /\ new.executing = s.executing
  BY <1>1 DEF IsServer
<1>5. ASSUME NEW e, e = {} \/ \E req \in Requests : e = {req}
      PROVE  LET new == [s EXCEPT !.executing = e]
             IN  IsServer(new) /\ new.ssl = s.ssl /\ new.open = s.open /\ new.executing = e
  BY <1>1, <1>5 DEF IsServer
<1> QED BY <1>2, <1>3, <1>4, <1>5

(* A connection that no event is registered for and no thread works for    *)
(* is attended to again when it registers, or goes to a thread.            *)
Between(s) ==
  /\ IsServer(s) /\ s.open /\ s.executing = {}
  /\ s.ssl.mask = {} /\ s.ssl.state = "EMPTY"
  /\ s.ssl.ssl.role = "server" /\ ~ s.ssl.ssl.sent_shutdown /\ ~ s.ssl.ssl.received_shutdown

Afterwards(s) == IsServer(s) /\ s.open /\ Attended(s)

LEMMA Registering ==
  ASSUME NEW s, Between(s)
  PROVE  /\ Afterwards([s EXCEPT !.ssl = reg_recv(@)])
         /\ Afterwards([s EXCEPT !.ssl = reg_shutdown(@)])
<1> DEFINE c == s.ssl
<1>1. IsServer(s) /\ IsConnection(c)
  BY DEF Between, IsServer
<1>2. ASSUME NEW d, IsConnection(d), d.ssl = c.ssl, Waiting(d)
      PROVE  Afterwards([s EXCEPT !.ssl = d])
  <2> DEFINE new == [s EXCEPT !.ssl = d]
  <2>1. IsServer(new) /\ new.ssl = d /\ new.open = s.open /\ new.executing = s.executing
    BY <1>1, <1>2, ServerMembers
  <2> HIDE DEF new
  <2> QED BY <1>2, <2>1 DEF Between, Afterwards, Attended, Heard, new
<1>3. IsConnection(reg_recv(c)) /\ reg_recv(c).ssl = c.ssl /\ Waiting(reg_recv(c))
  BY <1>1, Received DEF Between, Waiting
<1>4. IsConnection(reg_shutdown(c)) /\ reg_shutdown(c).ssl = c.ssl /\ Waiting(reg_shutdown(c))
  BY <1>1, Alerted DEF Between, Waiting
<1> QED BY <1>2, <1>3, <1>4

LEMMA Scheduling ==
  ASSUME NEW s, Between(s), NEW code, NEW content, IsText(content)
  PROVE  Afterwards(schedule_response(s, code, content))
<1> DEFINE c == s.ssl
           text == dump(code, set_conn_keep_alive(Header, s.keep_alive), content)
           d == reg_send(c, text, 1)
           new == [s EXCEPT !.ssl = d]
<1>1. IsServer(s) /\ IsConnection(c)
  BY DEF Between, IsServer
<1>2. IsText(text)
  <2> DEFINE h == Head_(code, set_content_length(set_conn_keep_alive(Header, s.keep_alive),
                                                 Len(content)))
  <2>1. text = <<h, CR_LF, CR_LF>> \o content
    BY DEF dump
  <2> HIDE DEF h
  <2>2. <<h, CR_LF, CR_LF>> \in Seq({h, CR_LF})
    OBVIOUS
  <2>3. IsText(<<h, CR_LF, CR_LF>>)
    BY <2>2, TextOf
  <2> QED BY <2>1, <2>3, TextJoined
<1> HIDE DEF text
<1>3. IsConnection(d) /\ d.ssl = c.ssl /\ d.state = "WRITING" /\ d.mask = c.mask \cup {"OUTPUT"}
  BY <1>1, <1>2, Sent
<1>4. schedule_response(s, code, content) = new
  BY DEF schedule_response, text
<1> HIDE DEF d
<1>5. IsServer(new) /\ new.ssl = d /\ new.open = s.open /\ new.executing = s.executing
  BY <1>1, <1>3, ServerMembers
<1> HIDE DEF new
<1> QED BY <1>3, <1>4, <1>5 DEF Between, Afterwards, Attended, Heard, Waiting

LEMMA OneRequest ==
  ASSUME NEW content
  PROVE  RequestOf(content) = {} \/ \E req \in Requests : RequestOf(content) = {req}
  BY ContentsAssumption DEF RequestOf

LEMMA ContentsAreTexts ==
  /\ IsText(ResponseContent(Fault))
  /\ \A req \in Requests : IsText(ResponseContent(Run(req)))
<1>1. Fault \in Responses /\ \A req \in Requests : Run(req) \in Responses
  BY DEF Responses
<1> QED BY <1>1, ContentsAssumption

LEMMA Executing ==
  ASSUME NEW s, Between(s), NEW content
  PROVE  Afterwards(schedule_execute(s, content))
<1> DEFINE e == RequestOf(content)
           new == [s EXCEPT !.executing = e]
<1>1. CASE e = {}
  BY <1>1, ContentsAreTexts, Scheduling DEF schedule_execute
<1>2. CASE e # {}
  <2>1. schedule_execute(s, content) = new
    BY <1>2 DEF schedule_execute
  <2>2. \E req \in Requests : e = {req}
    BY <1>2, OneRequest
  <2> HIDE DEF e
  <2>3. IsServer(new) /\ new.ssl = s.ssl /\ new.open = s.open /\ new.executing = e
    BY <2>2, ServerMembers, ZenonT(60) DEF Between
  <2> HIDE DEF new
  <2> QED BY <1>2, <2>1, <2>3 DEF Between, Afterwards, Attended, Heard
<1> QED BY <1>1, <1>2

(* A handler of the server that has come to an end of a call.              *)
LEMMA ServerReturns ==
  ASSUME IInv, NEW c \in Conns, NEW r \in ServerSteps(c)
  PROVE  LET s == ServerNow(c, r)
         IN  /\ IsServer(s) /\ s.open /\ s.ssl = r.conn
             /\ r.what \in {"accept_succeed", "recv_succeed", "send_succeed"} => Between(s)
             /\ r.what = "again" => Afterwards(s)
<1> DEFINE s == ServerNow(c, r)
<1>1. /\ Open(c) /\ server[c].executing = {} /\ IsServer(server[c])
      /\ IsConnection(r.conn) /\ r.conn.ssl.role = "server"
      /\ r.what = "again" => Waiting(r.conn) /\ ~ r.conn.ssl.sent_shutdown /\ Heard(r.conn)
      /\ r.what \in {"accept_succeed", "recv_succeed", "send_succeed"} =>
           r.conn.mask = {} /\ r.conn.state = "EMPTY" /\ ~ r.conn.ssl.sent_shutdown
           /\ ~ r.conn.ssl.received_shutdown
  BY ServerSwitching
<1>2. IsServer(s) /\ s.ssl = r.conn /\ s.open = Open(c) /\ s.executing = {}
  <2> DEFINE old == server[c]
             d == r.conn
             new == [old EXCEPT !.ssl = d]
  <2>1. IsServer(old) /\ IsConnection(d) /\ old.executing = {}
    BY <1>1
  <2>2. s = new /\ Open(c) = old.open
    BY DEF ServerNow, Open
  <2> HIDE DEF s, old, d
  <2>3. IsServer(new) /\ new.ssl = d /\ new.open = old.open /\ new.executing = old.executing
    BY <2>1, ServerMembers
  <2> QED BY <2>1, <2>2, <2>3 DEF d
<1> HIDE DEF s
<1> QED BY <1>1, <1>2 DEF Between, Afterwards, Attended, s

LEMMA Serving ==
  ASSUME IInv, NEW c \in Conns, NEW r \in ServerSteps(c), NEW new, Afterwards(new),
         Serve(c, new, r), ServerOthers
  PROVE  IInv'
<1>1. UnderWay(r.in, r.out, TRUE, c \in left, c = conn)
  BY ServerSwitching
<1>2. IsServer(new) /\ new.open /\ Attended(new)
  BY DEF Afterwards
<1>3. new.open = TRUE
  BY <1>2 DEF IsServer
<1>4. UnderWay(r.in, r.out, new.open, c \in left, c = conn)
  BY <1>1, <1>3
<1> QED BY <1>2, <1>4, ServerChanged DEF Serve, ServerOthers

LEMMA NewConnection ==
  ASSUME NEW role \in {"client", "server"}
  PROVE  /\ IsConnection(Reaction_connection(role))
         /\ Reaction_connection(role).ssl.role = role
         /\ ~ Reaction_connection(role).ssl.sent_shutdown
         /\ ~ Reaction_connection(role).ssl.received_shutdown
         /\ Reaction_connection(role).ssl.flights = 0
         /\ Reaction_connection(role).mask = {}
<1> DEFINE c == Reaction_connection(role)
           ssl == SSL_new(role)
<1>1. IsText(<<>>) /\ ~ HasReset(<<>>)
  BY EmptyText DEF HasReset
<1>2. IsSsl(ssl) /\ ssl.role = role /\ ~ ssl.sent_shutdown /\ ~ ssl.received_shutdown /\ ssl.flights = 0
  BY <1>1 DEF IsSsl, SSL_new
<1> HIDE DEF ssl
<1>3. c = [state |-> "EMPTY", mask |-> {}, ssl |-> ssl, send_buf |-> <<>>, buf |-> 0]
  BY DEF Reaction_connection, ssl
<1> HIDE DEF c
<1>4. IsConnection(c) /\ c.ssl = ssl /\ c.mask = {}
  BY <1>1, <1>2, <1>3 DEF IsConnection, States
<1> QED BY <1>2, <1>4 DEF c

LEMMA NewServer ==
  /\ IsServer(Accepted) /\ Accepted.open /\ Attended(Accepted)
  /\ LET gone == [Accepted EXCEPT !.open = FALSE, !.ssl = Reaction_connection("server")]
     IN  IsServer(gone) /\ ~ gone.open /\ Attended(gone)
<1> DEFINE c == Reaction_connection("server")
           d == reg_accept(c)
           gone == [Accepted EXCEPT !.open = FALSE, !.ssl = c]
<1>1. /\ IsConnection(c) /\ c.ssl.role = "server" /\ ~ c.ssl.sent_shutdown /\ ~ c.ssl.received_shutdown
      /\ c.ssl.flights = 0 /\ c.mask = {}
  BY NewConnection
<1>2. "ACCEPTING" \in States
  BY DEF States
<1> HIDE DEF c
<1>3. IsConnection(d) /\ d.ssl = c.ssl /\ d.state = "ACCEPTING" /\ d.mask = c.mask \cup {"INPUT"}
  BY <1>1, <1>2, Registered DEF reg_accept
<1>4. Accepted = [ssl |-> d, preader |-> NewReader, open |-> TRUE, keep_alive |-> FALSE,
                  executing |-> {}]
  BY DEF Accepted, c
<1> HIDE DEF d
<1>5. IsServer(Accepted) /\ Accepted.open /\ Accepted.ssl = d /\ Accepted.executing = {}
  BY <1>3, <1>4 DEF IsServer
<1>6. Waiting(d)
  BY <1>1, <1>3 DEF Waiting
<1>7. Attended(Accepted)
  BY <1>1, <1>3, <1>5, <1>6 DEF Attended, Heard
<1>8. gone \in [ssl : {c}, preader : {NewReader}, open : {FALSE}, keep_alive : {FALSE},
                executing : {{}}]
  BY <1>4
<1> HIDE DEF gone
<1>9. IsServer(gone) /\ ~ gone.open /\ Attended(gone)
  <2>1. gone.ssl = c /\ gone.open = FALSE /\ gone.executing = {}
    BY <1>8
  <2>2. gone \in [ssl : {gone.ssl}, preader : {gone.preader}, open : BOOLEAN,
                  keep_alive : {gone.keep_alive}, executing : {gone.executing}]
    BY <1>8
  <2> QED BY <1>1, <2>1, <2>2 DEF IsServer, Attended
<1> QED BY <1>5, <1>7, <1>9 DEF gone, c

LEMMA Deleting ==
  ASSUME IInv, NEW c \in Conns, NEW r \in ServerSteps(c), Delete(c, r), ServerOthers
  PROVE  IInv'
<1> DEFINE gone == [Accepted EXCEPT !.open = FALSE, !.ssl = Reaction_connection("server")]
<1>1. IsServer(gone) /\ ~ gone.open /\ Attended(gone)
  BY NewServer
<1> HIDE DEF gone
<1>2. PICK pipe \in Resets(r.in, r.out) : to_client' = [to_client EXCEPT ![c] = pipe]
  BY DEF Delete
<1>3. server' = [server EXCEPT ![c] = gone] /\ to_server' = [to_server EXCEPT ![c] = <<>>]
  BY DEF Delete, gone
<1>4. Clean(r.out)
  BY ServerSwitching DEF UnderWay
<1>5. Pipe(pipe)
  BY <1>4, ResetPipe DEF Resets, Pipe
<1>6. Pipe(<<>>) /\ Clean(<<>>) /\ Len(<<>>) = 0
  BY EmptyText, TlsAssumption DEF Pipe, Clean, HasReset
<1>7. UnderWay(<<>>, pipe, gone.open, c \in left, c = conn)
  BY <1>1, <1>5, <1>6 DEF UnderWay
<1> QED BY <1>1, <1>2, <1>3, <1>7, ServerChanged DEF ServerOthers

(* Each step of the server keeps the invariant.                            *)
LEMMA AcceptSucceedStep ==
  ASSUME IInv, NEW c \in Conns, accept_succeed(c)
  PROVE  IInv'
<1>1. PICK r \in ServerSteps(c) :
        /\ r.what = "accept_succeed"
        /\ Serve(c, [ServerNow(c, r) EXCEPT !.ssl = reg_recv(@)], r)
  BY DEF accept_succeed
<1>2. Between(ServerNow(c, r))
  BY <1>1, ServerReturns
<1>3. Afterwards([ServerNow(c, r) EXCEPT !.ssl = reg_recv(@)])
  BY <1>2, Registering
<1> QED BY <1>1, <1>3, Serving DEF accept_succeed

LEMMA RecvSucceedStep ==
  ASSUME IInv, NEW c \in Conns, recv_succeed(c)
  PROVE  IInv'
<1>1. ServerOthers
  BY DEF recv_succeed
<1>2. PICK r \in ServerSteps(c) : \E read :
       LET s == [ServerNow(c, r) EXCEPT !.preader = read.reader]
           packet == read.outcome
       IN  /\ r.what = "recv_succeed"
           /\ Serve(c, CASE packet.is = "packet" ->
                              schedule_execute(
                                [s EXCEPT !.keep_alive = conn_keep_alive(packet.header.options)],
                                packet.content)
                         [] packet.is = "error" ->
                              schedule_response([s EXCEPT !.keep_alive = FALSE], packet.code, <<>>)
                         [] OTHER -> [s EXCEPT !.ssl = reg_recv(@)], r)
  BY DEF recv_succeed
<1>2a. PICK read :
       LET s == [ServerNow(c, r) EXCEPT !.preader = read.reader]
           packet == read.outcome
       IN  /\ r.what = "recv_succeed"
           /\ Serve(c, CASE packet.is = "packet" ->
                              schedule_execute(
                                [s EXCEPT !.keep_alive = conn_keep_alive(packet.header.options)],
                                packet.content)
                         [] packet.is = "error" ->
                              schedule_response([s EXCEPT !.keep_alive = FALSE], packet.code, <<>>)
                         [] OTHER -> [s EXCEPT !.ssl = reg_recv(@)], r)
  BY <1>2
<1> DEFINE old == ServerNow(c, r)
           p == read.reader
           packet == read.outcome
           k == conn_keep_alive(packet.header.options)
           s == [old EXCEPT !.preader = p]
           new == CASE packet.is = "packet" ->
                         schedule_execute([s EXCEPT !.keep_alive = k], packet.content)
                    [] packet.is = "error" ->
                         schedule_response([s EXCEPT !.keep_alive = FALSE], packet.code, <<>>)
                    [] OTHER -> [s EXCEPT !.ssl = reg_recv(@)]
<1>3. r.what = "recv_succeed" /\ Serve(c, new, r)
  BY <1>2a
<1>4. Between(old)
  BY <1>3, ServerReturns
<1> HIDE DEF old, p, packet, k
<1>5. Between(s)
  <2>1. IsServer(s) /\ s.ssl = old.ssl /\ s.open = old.open /\ s.executing = old.executing
    BY <1>4, ServerMembers DEF Between
  <2> HIDE DEF s
  <2> QED BY <1>4, <2>1 DEF Between
<1> HIDE DEF s
<1>6. ASSUME NEW b PROVE Between([s EXCEPT !.keep_alive = b])
  <2> DEFINE t == [s EXCEPT !.keep_alive = b]
  <2>1. IsServer(t) /\ t.ssl = s.ssl /\ t.open = s.open /\ t.executing = s.executing
    BY <1>5, ServerMembers, ZenonT(60) DEF Between
  <2> HIDE DEF t
  <2>2. Between(t)
    BY <1>5, <2>1 DEF Between
  <2> QED BY <2>2 DEF t
<1>7. CASE packet.is = "packet"
  <2>1. new = schedule_execute([s EXCEPT !.keep_alive = k], packet.content)
    BY <1>7
  <2>2. Afterwards(new)
    <3>1. Between([s EXCEPT !.keep_alive = k])
      BY <1>6
    <3> QED BY <2>1, <3>1, Executing
  <2> HIDE DEF new
  <2> QED BY <1>1, <1>3, <2>2, Serving
<1>8. CASE packet.is = "error"
  <2>1. new = schedule_response([s EXCEPT !.keep_alive = FALSE], packet.code, <<>>)
    BY <1>8
  <2>2. Afterwards(new)
    <3>1. Between([s EXCEPT !.keep_alive = FALSE]) /\ IsText(<<>>)
      BY <1>6, EmptyText
    <3> QED BY <2>1, <3>1, Scheduling
  <2> HIDE DEF new
  <2> QED BY <1>1, <1>3, <2>2, Serving
<1>9. CASE packet.is # "packet" /\ packet.is # "error"
  <2>1. new = [s EXCEPT !.ssl = reg_recv(@)]
    BY <1>9
  <2>2. Afterwards(new)
    BY <1>5, <2>1, Registering
  <2> HIDE DEF new
  <2> QED BY <1>1, <1>3, <2>2, Serving
<1> QED BY <1>7, <1>8, <1>9

LEMMA SendSucceedStep ==
  ASSUME IInv, NEW c \in Conns, send_succeed(c)
  PROVE  IInv'
<1>1. ServerOthers
  BY DEF send_succeed
<1>2. PICK r \in ServerSteps(c) :
        LET s == ServerNow(c, r)
        IN  /\ r.what = "send_succeed"
            /\ IF s.keep_alive THEN Serve(c, [s EXCEPT !.ssl = reg_recv(@)], r)
               ELSE IF shutdown_performed(s.ssl) THEN Delete(c, r)
               ELSE Serve(c, [s EXCEPT !.ssl = reg_shutdown(@)], r)
  BY DEF send_succeed
<1> DEFINE s == ServerNow(c, r)
<1>3. Between(s)
  BY <1>2, ServerReturns
<1>4. Afterwards([s EXCEPT !.ssl = reg_recv(@)]) /\ Afterwards([s EXCEPT !.ssl = reg_shutdown(@)])
  BY <1>3, Registering
<1>5. \/ Serve(c, [s EXCEPT !.ssl = reg_recv(@)], r)
      \/ Delete(c, r)
      \/ Serve(c, [s EXCEPT !.ssl = reg_shutdown(@)], r)
  BY <1>2
<1> HIDE DEF s
<1>6. CASE Serve(c, [s EXCEPT !.ssl = reg_recv(@)], r)
  BY <1>1, <1>4, <1>6, Serving
<1>7. CASE Delete(c, r)
  BY <1>1, <1>7, Deleting
<1>8. CASE Serve(c, [s EXCEPT !.ssl = reg_shutdown(@)], r)
  BY <1>1, <1>4, <1>8, Serving
<1> QED BY <1>5, <1>6, <1>7, <1>8

LEMMA ServerWaitsStep ==
  ASSUME IInv, NEW c \in Conns, server_waits(c)
  PROVE  IInv'
<1>1. PICK r \in ServerSteps(c) : r.what = "again" /\ Serve(c, ServerNow(c, r), r)
  BY DEF server_waits
<1>2. Afterwards(ServerNow(c, r))
  BY <1>1, ServerReturns
<1> QED BY <1>1, <1>2, Serving DEF server_waits

LEMMA ServerTerminatesStep ==
  ASSUME IInv, NEW c \in Conns, server_terminates(c)
  PROVE  IInv'
  BY Deleting DEF server_terminates

LEMMA ProcessStep ==
  ASSUME IInv, NEW c \in Conns, process_actual_execution(c)
  PROVE  IInv'
<1> DEFINE old == server[c]
           idle == [old EXCEPT !.executing = {}]
           ts == to_server[c]
           tc == to_client[c]
<1>1. PICK req \in old.executing :
        server' = [server EXCEPT ![c] = schedule_response(idle, 200, ResponseContent(Run(req)))]
  BY DEF process_actual_execution
<1>2. UNCHANGED clientVars /\ UNCHANGED <<to_server, to_client>>
  BY DEF process_actual_execution, ServerOthers
<1>3. IsServer(old) /\ Attended(old) /\ UnderWay(ts, tc, Open(c), c \in left, c = conn)
  BY DEF IInv, Objects, Pipes
<1>4. req \in Requests /\ old.executing # {} /\ Open(c) = old.open
  BY <1>3 DEF IsServer, Open
<1>4a. IsText(ResponseContent(Run(req)))
  BY <1>4, ContentsAreTexts
<1>5. IsServer(idle) /\ idle.ssl = old.ssl /\ idle.open = old.open /\ idle.executing = {}
  <2> HIDE DEF old
  <2> QED BY <1>3, ServerMembers
<1> DEFINE new == schedule_response(idle, 200, ResponseContent(Run(req)))
<1>6. server' = [server EXCEPT ![c] = new]
  BY <1>1
<1>7. to_server' = [to_server EXCEPT ![c] = ts] /\ to_client' = [to_client EXCEPT ![c] = tc]
  <2>1. IsText(to_server) /\ IsText(to_client)
    BY DEF IInv, Objects
  <2>2. to_server = [to_server EXCEPT ![c] = to_server[c]]
    BY <2>1, TextIs
  <2>3. to_client = [to_client EXCEPT ![c] = to_client[c]]
    BY <2>1, TextIs
  <2> QED BY <1>2, <2>2, <2>3
<1>8. Open(c)
  BY <1>3, <1>4 DEF Attended
<1>9. Between(idle)
  <2> HIDE DEF old, idle
  <2> QED BY <1>3, <1>4, <1>5, <1>8 DEF Between, Attended, Heard
<1> HIDE DEF idle
<1>10. Afterwards(new)
  BY <1>4a, <1>9, Scheduling
<1> HIDE DEF new, old, ts, tc
<1>11. IsServer(new) /\ new.open = TRUE /\ Attended(new)
  BY <1>10 DEF Afterwards, IsServer
<1>12. UnderWay(ts, tc, new.open, c \in left, c = conn)
  BY <1>3, <1>8, <1>11 DEF UnderWay
<1> QED BY <1>2, <1>6, <1>7, <1>11, <1>12, ServerChanged

-----------------------------------------------------------------------------
(* A step of the client. *)

LEMMA ClientMembers ==
  ASSUME NEW cl, IsClient(cl)
  PROVE  /\ \A c : IsConnection(c) =>
              LET new == [cl EXCEPT !.ssl = c]
              IN  /\ IsClient(new) /\ new.ssl = c /\ new.finished = cl.finished
                  /\ new.out_str = cl.out_str
         /\ \A r : LET new == [cl EXCEPT !.preader = r]
                   IN  IsClient(new) /\ new.ssl = cl.ssl /\ new.finished = cl.finished
         /\ \A t : IsText(t) =>
              LET new == [cl EXCEPT !.out_str = t]
              IN  /\ IsClient(new) /\ new.ssl = cl.ssl /\ new.finished = cl.finished
                  /\ new.out_str = t
         /\ \A b : LET new == [cl EXCEPT !.established = b]
                   IN  /\ IsClient(new) /\ new.ssl = cl.ssl /\ new.finished = cl.finished
                       /\ new.out_str = cl.out_str
         /\ LET new == [cl EXCEPT !.finished = TRUE]
            IN  IsClient(new) /\ new.finished
<1>1. /\ cl \in [ssl : {cl.ssl}, preader : {cl.preader}, out_str : {cl.out_str},
                 established : {cl.established}, finished : BOOLEAN]
      /\ IsConnection(cl.ssl) /\ IsText(cl.out_str)
  BY DEF IsClient
<1>2. ASSUME NEW c, IsConnection(c)
      PROVE  LET new == [cl EXCEPT !.ssl = c]
             IN  /\ IsClient(new) /\ new.ssl = c /\ new.finished = cl.finished
                 /\ new.out_str = cl.out_str
  BY <1>1, <1>2 DEF IsClient
<1>3. ASSUME NEW r
      PROVE  LET new == [cl EXCEPT !.preader = r]
             IN  IsClient(new) /\ new.ssl = cl.ssl /\ new.finished = cl.finished
  BY <1>1 DEF IsClient
<1>4. ASSUME NEW t, IsText(t)
      PROVE  LET new == [cl EXCEPT !.out_str = t]
             IN  /\ IsClient(new) /\ new.ssl = cl.ssl /\ new.finished = cl.finished
                 /\ new.out_str = t
  BY <1>1, <1>4 DEF IsClient
<1>5. ASSUME NEW b
      PROVE  LET new == [cl EXCEPT !.established = b]
             IN  /\ IsClient(new) /\ new.ssl = cl.ssl /\ new.finished = cl.finished
                 /\ new.out_str = cl.out_str
  BY <1>1 DEF IsClient
<1>6. LET new == [cl EXCEPT !.finished = TRUE]
      IN  IsClient(new) /\ new.finished
  BY <1>1 DEF IsClient
<1> QED BY <1>2, <1>3, <1>4, <1>5, <1>6

LEMMA ClientSwitching ==
  ASSUME IInv, NEW r \in ClientSteps
  PROVE  /\ conn \in Conns /\ phase = "events" /\ ~ client.finished /\ conn \notin left
         /\ LET cl == ClientNow(r)
            IN  IsClient(cl) /\ cl.ssl = r.conn /\ ~ cl.finished /\ cl.out_str = client.out_str
         /\ UnderWay(r.out, r.in, Open(conn), FALSE, TRUE)
<1> DEFINE s == client.ssl
           in == to_client[conn]
           out == to_server[conn]
           peer == Open(conn)
<1>1. phase = "events" /\ ~ client.finished /\ r \in switch_state(s, in, out, peer)
  BY DEF ClientSteps, ClientReady
<1>2. conn # 0 /\ conn \in Conns /\ conn \notin left
  <2>1. conn # 0 /\ conn \in 0 .. Len(server)
    BY <1>1 DEF IInv, Sockets
  <2>2. IsText(server) /\ Len(server) \in Nat /\ DOMAIN server = 1 .. Len(server)
    BY TextIs DEF IInv, Objects
  <2> QED BY <1>1, <2>1, <2>2 DEF IInv, Sockets, Conns
<1>3. IsClient(client) /\ IsServer(server[conn]) /\ UnderWay(out, in, peer, FALSE, TRUE)
  <2>1. UnderWay(out, in, peer, conn \in left, conn = conn)
    BY <1>2 DEF IInv, Pipes
  <2>2. UnderWay(out, in, peer, FALSE, TRUE)
    BY <1>2, <2>1 DEF UnderWay
  <2> QED BY <1>2, <2>2 DEF IInv, Objects
<1>4. IsConnection(s) /\ IsEnd(s.ssl, in, out, peer)
  BY <1>3 DEF IsClient, IsConnection, IsServer, IsEnd, UnderWay, Open
<1> HIDE DEF s, in, out, peer
<1>5. PICK o \in Call(s, End(s.ssl, in, out, peer)) : Switched(r, s, o)
  BY <1>1, <1>4, Switching
<1>6. Left(o, s.ssl, in, out, peer)
  BY <1>4, Calling
<1>7. /\ IsConnection(r.conn) /\ Pipe(r.in) /\ (peer => Clean(r.in)) /\ Clean(r.out)
      /\ ~ peer => r.out = out
  BY <1>5, <1>6 DEF Switched, Left
<1>8. UnderWay(r.out, r.in, peer, FALSE, TRUE)
  BY <1>3, <1>7 DEF UnderWay, Pipe
<1>9. LET cl == ClientNow(r)
      IN  /\ IsClient(cl) /\ cl.ssl = r.conn /\ cl.finished = client.finished
          /\ cl.out_str = client.out_str
  <2> DEFINE d == r.conn
             new == [client EXCEPT !.ssl = d]
  <2>1. IsConnection(d) /\ ClientNow(r) = new
    BY <1>7 DEF ClientNow
  <2> HIDE DEF d
  <2>2. /\ IsClient(new) /\ new.ssl = d /\ new.finished = client.finished
        /\ new.out_str = client.out_str
    BY <1>3, <2>1, ClientMembers
  <2> QED BY <2>1, <2>2 DEF d
<1> QED BY <1>1, <1>2, <1>8, <1>9 DEF peer

(* The client's connection, and what is under way on it, have changed.     *)
LEMMA ClientChanged ==
  ASSUME IInv, conn \in Conns, NEW ts, NEW tc,
         UNCHANGED <<opts, server, executed>>,
         to_server' = [to_server EXCEPT ![conn] = ts], to_client' = [to_client EXCEPT ![conn] = tc],
         phase' \in {"idle", "events"}, IsText(results'), IsClient(client'),
         conn' \in {0, conn}, left' \in {left, left \cup {conn}},
         conn' = 0 => phase' = "idle" /\ conn \in left' /\ ~ client'.finished,
         conn' # 0 => (client'.finished <=> conn \in left'),
         UnderWay(ts, tc, Open(conn), conn \in left', conn' = conn)
  PROVE  IInv'
<1>1. opts' = opts /\ server' = server
  OBVIOUS
<1>2. /\ IsText(server) /\ IsText(to_server) /\ IsText(to_client)
      /\ DOMAIN server = 1 .. Len(server) /\ Len(server) \in Nat
      /\ DOMAIN to_server = DOMAIN server /\ DOMAIN to_client = DOMAIN server
      /\ Len(to_server) = Len(server) /\ Len(to_client) = Len(server)
      /\ conn \in DOMAIN server
  BY TextIs DEF IInv, Objects, Conns
<1>4. /\ IsText(to_server') /\ Len(to_server') = Len(to_server)
      /\ to_server'[conn] = ts /\ \A d \in DOMAIN server : d # conn => to_server'[d] = to_server[d]
  BY <1>2, TextReplaced, ZenonT(60)
<1>5. /\ IsText(to_client') /\ Len(to_client') = Len(to_client)
      /\ to_client'[conn] = tc /\ \A d \in DOMAIN server : d # conn => to_client'[d] = to_client[d]
  <2>1. /\ conn \in DOMAIN to_client /\ IsText(to_client) /\ DOMAIN server = DOMAIN to_client
        /\ to_client' = [to_client EXCEPT ![conn] = tc]
    BY <1>2
  <2> QED BY ONLY <2>1, TextReplaced
<1>6. Objects'
  BY <1>1, <1>2, <1>4, <1>5 DEF IInv, Objects, Conns
<1>7. Sockets'
  <2>1. conn' \in 0 .. Len(server) /\ left' \subseteq DOMAIN server
    BY <1>2 DEF IInv, Sockets, Conns
  <2>2. conn' = 0 => phase' = "idle" /\ ~ client'.finished
    OBVIOUS
  <2>3. conn' # 0 => (client'.finished <=> conn' \in left')
    BY <1>2
  <2>4. \A d \in DOMAIN server : d # conn' => d \in left'
    BY DEF IInv, Sockets, Conns
  <2> QED BY <1>1, <2>1, <2>2, <2>3, <2>4 DEF Sockets, Conns
<1>8. Pipes'
  <2>1. ASSUME NEW d \in DOMAIN server
        PROVE  UnderWay(to_server'[d], to_client'[d], server[d].open, d \in left', d = conn')
    <3>1. CASE d = conn
      <4>1. UnderWay(ts, tc, server[d].open, d \in left', d = conn')
        BY <3>1 DEF UnderWay, Open
      <4> QED BY <1>4, <1>5, <3>1, <4>1
    <3>2. CASE d # conn
      <4>1. UnderWay(to_server[d], to_client[d], server[d].open, d \in left, d = conn)
        BY DEF IInv, Pipes, Conns, Open
      <4>2. (d \in left' <=> d \in left) /\ d # conn /\ d # conn'
        <5>1. d # 0
          BY <1>2
        <5> QED BY <3>2, <5>1
      <4>3. UnderWay(to_server[d], to_client[d], server[d].open, d \in left', d = conn')
        BY <4>1, <4>2 DEF UnderWay
      <4> QED BY <1>4, <1>5, <3>2, <4>3
    <3> QED BY <3>1, <3>2
  <2> QED BY <1>1, <2>1 DEF Pipes, Conns, Open
<1> QED BY <1>1, <1>6, <1>7, <1>8 DEF IInv, Conns

LEMMA ClientGoesOn ==
  ASSUME IInv, conn \in Conns, NEW cl, IsClient(cl), cl.finished <=> conn \in left,
         NEW in, NEW out, UnderWay(out, in, Open(conn), conn \in left, TRUE),
         GoOn(cl, in, out), ClientOthers
  PROVE  IInv'
<1>1. /\ phase' = phase /\ conn' = conn /\ results' = results /\ left' = left /\ client' = cl
      /\ to_client' = [to_client EXCEPT ![conn] = in] /\ to_server' = [to_server EXCEPT ![conn] = out]
      /\ UNCHANGED <<opts, server, executed>>
  BY DEF GoOn, ClientOthers
<1>2. conn # 0 /\ phase \in {"idle", "events"} /\ IsText(results)
  BY TextIs DEF IInv, Objects, Conns
<1>3. UnderWay(out, in, Open(conn), conn \in left', conn' = conn)
  BY <1>1
<1>4. conn' # 0 => (client'.finished <=> conn \in left')
  BY <1>1
<1> QED BY <1>1, <1>2, <1>3, <1>4, ClientChanged

(* A closed socket of the client: what is left on the way to the server.   *)
LEMMA Closing ==
  ASSUME NEW in, NEW out, NEW open \in BOOLEAN, NEW gone \in BOOLEAN,
         UnderWay(out, in, open, gone, TRUE), NEW pipe \in Resets(in, out)
  PROVE  /\ UnderWay(pipe, <<>>, open, TRUE, FALSE)
         /\ ~ gone => UnderWay(pipe, <<>>, open, TRUE, TRUE)
<1>1. /\ Pipe(out) /\ (~ gone => Clean(out)) /\ (open /\ gone => in = <<>>)
      /\ ~ open => Len(out) <= IF ~ gone THEN 0 ELSE 1
  BY DEF UnderWay
<1>2. pipe = out \/ (pipe \in MayReset(out) /\ in # <<>>)
  BY DEF Resets
<1>3. IsText(out) /\ Len(out) \in Nat /\ Room \in Nat /\ Room >= 1
  BY <1>1, TextIs, TlsAssumption DEF Pipe, Clean, Broken
<1>4. Pipe(pipe) /\ (pipe = out \/ Len(pipe) <= Len(out) + 1)
  <2>1. CASE pipe = out
    BY <1>1, <2>1
  <2>2. CASE pipe \in MayReset(out) /\ Clean(out)
    BY <2>2, ResetPipe
  <2>3. CASE pipe \in MayReset(out) /\ in # <<>> /\ ~ Clean(out)
    <3>1. ~ open /\ Len(out) <= 1
      BY <1>1, <2>3
    <3>2. CASE pipe = Append(out, Reset)
      <4>1. /\ IsText(pipe) /\ Len(pipe) = Len(out) + 1 /\ DOMAIN pipe = 1 .. Len(out) + 1
            /\ pipe[Len(out) + 1] = Reset
        BY <1>3, <3>2, TextAppended
      <4>2. HasReset(pipe)
        BY <1>3, <4>1 DEF HasReset
      <4>3. Len(pipe) <= Room + 1 /\ Len(pipe) <= Len(out) + 1
        BY <1>3, <3>1, <4>1
      <4> QED BY <4>1, <4>2, <4>3 DEF Pipe, Broken
    <3>3. CASE pipe = <<Reset>>
      <4>1. Len(pipe) <= Room + 1 /\ Len(pipe) <= Len(out) + 1
        BY <1>3, <3>3, ResetIs
      <4> QED BY <3>3, <4>1, ResetIs DEF Pipe, Broken
    <3> QED BY <1>1, <2>3, <3>2, <3>3 DEF MayReset
  <2> QED BY <1>2, <2>1, <2>2, <2>3
<1>5. Pipe(<<>>) /\ Clean(<<>>)
  BY EmptyText, TlsAssumption DEF Pipe, Clean, HasReset
<1>6. IsText(pipe) /\ Len(pipe) \in Nat
  BY <1>4, TextIs DEF Pipe, Clean, Broken
<1>7. ~ open => Len(pipe) <= 2 /\ (~ gone => Len(pipe) <= 1)
  <2> SUFFICES ASSUME ~ open PROVE Len(pipe) <= 2 /\ (~ gone => Len(pipe) <= 1)
    OBVIOUS
  <2> DEFINE m == Len(pipe)
             n == Len(out)
  <2>1. m \in Nat /\ n \in Nat /\ m <= n + 1
    <3>1. CASE pipe = out
      BY <1>3, <3>1
    <3>2. CASE pipe # out
      BY <1>3, <1>4, <1>6, <3>2
    <3> QED BY <3>1, <3>2
  <2>2. n <= 1 /\ (~ gone => n <= 0)
    BY <1>1, <1>3
  <2> HIDE DEF m, n
  <2>3. m <= 2
    BY <2>1, <2>2
  <2>4. n <= 0 => m <= 1
    BY <2>1
  <2> QED BY <2>2, <2>3, <2>4 DEF m
<1> QED BY <1>4, <1>5, <1>7 DEF UnderWay

LEMMA NewClient == IsClient(Connected) /\ ~ Connected.finished
<1> DEFINE c == Reaction_connection("client")
           d == reg_connect(c)
<1>1. IsConnection(c)
  BY NewConnection
<1>2. "CONNECTING" \in States
  BY DEF States
<1> HIDE DEF c
<1>3. IsConnection(d)
  BY <1>1, <1>2, Registered DEF reg_connect
<1>4. Connected = [ssl |-> d, preader |-> NewReader, out_str |-> <<>>, established |-> FALSE,
                   finished |-> FALSE]
  BY DEF Connected, c
<1> HIDE DEF d
<1> QED BY <1>3, <1>4, EmptyText DEF IsClient

LEMMA ClientEnds ==
  ASSUME IInv, conn \in Conns, NEW cl, IsClient(cl), cl.finished <=> conn \in left,
         NEW in, NEW out, UnderWay(out, in, Open(conn), conn \in left, TRUE),
         NEW result, EndCall(result, cl, in, out), ClientOthers
  PROVE  IInv'
<1>1. /\ phase' = "idle" /\ results' = Append(results, result)
      /\ UNCHANGED <<opts, server, executed>>
  BY DEF EndCall, ClientOthers
<1>2. conn # 0 /\ IsText(results')
  <2>1. IsText(results) /\ IsText(server)
    BY DEF IInv, Objects
  <2>2. IsText(results')
    BY <1>1, <2>1, TextAppended
  <2>3. conn # 0
    BY <2>1, TextIs DEF Conns
  <2> QED BY <2>2, <2>3
<1>3. CASE opts.keep_alive
  <2>1. /\ client' = cl /\ conn' = conn /\ left' = left
        /\ to_client' = [to_client EXCEPT ![conn] = in]
        /\ to_server' = [to_server EXCEPT ![conn] = out]
    BY <1>3 DEF EndCall
  <2>2. UnderWay(out, in, Open(conn), conn \in left', conn' = conn)
    BY <2>1
  <2>3. conn' # 0 => (client'.finished <=> conn \in left')
    BY <2>1
  <2> QED BY <1>1, <1>2, <2>1, <2>2, <2>3, ClientChanged
<1>4. CASE ~ opts.keep_alive
  <2>1. /\ client' = Connected /\ conn' = 0 /\ left' = left \cup {conn}
        /\ to_client' = [to_client EXCEPT ![conn] = <<>>]
        /\ \E pipe \in Resets(in, out) : to_server' = [to_server EXCEPT ![conn] = pipe]
    BY <1>4 DEF EndCall
  <2>2. PICK pipe \in Resets(in, out) : to_server' = [to_server EXCEPT ![conn] = pipe]
    BY <2>1
  <2>3. Open(conn) \in BOOLEAN
    BY DEF IInv, Objects, IsServer, Open
  <2>4. UnderWay(pipe, <<>>, Open(conn), TRUE, FALSE)
    <3> DEFINE gone == conn \in left
               open == Open(conn)
    <3>0. gone \in BOOLEAN
      OBVIOUS
    <3>1. open \in BOOLEAN /\ UnderWay(out, in, open, gone, TRUE)
      BY <2>3
    <3> HIDE DEF gone, open
    <3>2. UnderWay(pipe, <<>>, open, TRUE, FALSE)
      BY <3>0, <3>1, Closing
    <3> QED BY <3>2 DEF open
  <2>5. conn \in left' /\ conn' # conn /\ conn' \in {0, conn} /\ left' \in {left, left \cup {conn}}
    BY <1>2, <2>1
  <2>6. UnderWay(pipe, <<>>, Open(conn), conn \in left', conn' = conn)
    BY <2>4, <2>5 DEF UnderWay
  <2>7. IsClient(client') /\ ~ client'.finished
    BY <2>1, NewClient
  <2> QED BY <1>1, <1>2, <2>1, <2>2, <2>5, <2>6, <2>7, ClientChanged
<1> QED BY <1>3, <1>4

LEMMA RequestPacket ==
  ASSUME IInv, Len(results) < Len(opts.requests)
  PROVE  IsText(request_packet)
<1> DEFINE n == Len(results) + 1
           content == RequestContent(opts.requests[n])
           h == Head_(0, set_content_length(set_conn_keep_alive(Header, opts.keep_alive),
                                            Len(content)))
<1>1. opts.requests \in Seq(Requests)
  BY SecureCallAssumption DEF IInv, Objects
<1>2. n \in 1 .. Len(opts.requests)
  <2>1. Len(results) \in Nat /\ Len(opts.requests) \in Nat
    BY <1>1, TextIs, LenProperties DEF IInv, Objects
  <2> QED BY <2>1
<1>3. IsText(content)
  <2>1. opts.requests[n] \in Requests
    BY <1>1, <1>2, ElementOfSeq
  <2> QED BY <2>1, ContentsAssumption
<1>4. request_packet = <<h, CR_LF, CR_LF>> \o content
  BY DEF request_packet, dump
<1> HIDE DEF h, content
<1>5. <<h, CR_LF, CR_LF>> \in Seq({h, CR_LF})
  OBVIOUS
<1>6. IsText(<<h, CR_LF, CR_LF>>)
  BY <1>5, TextOf
<1> QED BY <1>3, <1>4, <1>6, TextJoined

LEMMA SendingRequest ==
  ASSUME NEW cl, IsClient(cl), NEW text, IsText(text)
  PROVE  LET new == reg_send_request(cl, text)
         IN  IsClient(new) /\ new.finished = cl.finished
<1> DEFINE c == cl.ssl
           d == reg_send(c, text, Len(results) + 1)
           new == [cl EXCEPT !.ssl = d]
<1>1. IsConnection(c)
  BY DEF IsClient
<1>2. IsConnection(d)
  BY <1>1, Sent
<1>3. reg_send_request(cl, text) = new
  BY DEF reg_send_request
<1> HIDE DEF d
<1>4. IsClient(new) /\ new.finished = cl.finished
  BY <1>2, ClientMembers
<1> QED BY <1>3, <1>4

(* A write that goes on in another string is of records still.             *)
LEMMA ResetJoined ==
  ASSUME NEW s, IsText(s), ~HasReset(s), NEW u, IsText(u), ~HasReset(u)
  PROVE  IsText(s \o u) /\ ~HasReset(s \o u)
<1> DEFINE t == s \o u
<1>1. Joined(t, s, u)
  BY TextJoins
<1> HIDE DEF t
<1>2. IsText(t) /\ ~HasReset(t)
  BY <1>1 DEF Joined, HasReset
<1> QED BY <1>2 DEF t

LEMMA Overwriting ==
  ASSUME NEW cl, IsClient(cl), NEW text, IsText(text), NEW new \in OverwrittenBy(cl, text)
  PROVE  IsClient(new) /\ new.finished = cl.finished
<1> DEFINE c == cl.ssl
           ssl == c.ssl
           unsent == ssl.unsent
           old == dump(0, set_conn_keep_alive(Header, opts.keep_alive),
                       RequestContent(opts.requests[ssl.buf]))
           unmade == FoldLeft(LAMBDA n, record : n + Len(record.text), 0, Tail(unsent))
           first == <<Head(unsent)>>
           rest(made) == Records(SubSeq(text, made + 1, Len(text)))
           sent(made) == [ssl EXCEPT !.unsent = first \o rest(made), !.buf = Len(results) + 1]
           writes(made) == [c EXCEPT !.ssl = sent(made)]
           after(made) == [cl EXCEPT !.ssl = writes(made)]
<1>1. PICK made \in 0 .. Len(text) : unsent # <<>> /\ new = after(made)
  <2>1. PICK made \in {m \in 0 .. Len(text) : unsent # <<>> /\ m + unmade = Len(old)} :
          new = [cl EXCEPT !.ssl.ssl = [@ EXCEPT !.unsent = first \o rest(made),
                                                 !.buf = Len(results) + 1]]
    BY DEF OverwrittenBy
  <2> HIDE DEF unmade, old, first, rest
  <2>2. made \in 0 .. Len(text) /\ unsent # <<>>
    BY <2>1
  <2>3. new = after(made)
    BY <2>1
  <2> QED BY <2>2, <2>3
<1>2. IsConnection(c) /\ IsSsl(ssl) /\ IsText(unsent) /\ ~ HasReset(unsent)
  BY DEF IsClient, IsConnection, IsSsl
<1>3. IsText(first) /\ ~ HasReset(first)
  <2>1. 1 \in DOMAIN unsent /\ Head(unsent) = unsent[1]
    BY <1>1, <1>2, TextIs, TextTail, EmptySeq DEF IsText
  <2>2. Head(unsent) # Reset
    BY <1>2, <2>1 DEF HasReset
  <2> DEFINE h == Head(unsent)
  <2> HIDE DEF h
  <2>3. <<h>> \in Seq({h}) /\ DOMAIN <<h>> = 1 .. 1 /\ <<h>>[1] = h
    OBVIOUS
  <2>4. IsText(<<h>>)
    BY <2>3, TextOf
  <2> QED BY <2>2, <2>3, <2>4 DEF HasReset, h
<1>4. IsText(rest(made)) /\ ~ HasReset(rest(made))
  <2>1. made + 1 \in 1 .. Len(text) + 1 /\ Len(text) \in Nat
    BY <1>1, TextIs
  <2>2. IsText(SubSeq(text, made + 1, Len(text)))
    BY <2>1, TextWithin
  <2> QED BY <2>2, RecordsAre
<1> DEFINE u == first \o rest(made)
<1> HIDE DEF first, rest
<1>5. IsText(u) /\ ~ HasReset(u)
  <2> DEFINE more == rest(made)
  <2>1. IsText(more) /\ ~ HasReset(more)
    BY <1>4
  <2> HIDE DEF more
  <2>2. IsText(first \o more) /\ ~ HasReset(first \o more)
    BY <1>3, <2>1, ResetJoined
  <2> QED BY <2>2 DEF more
<1> HIDE DEF u
<1>6. IsSsl(sent(made))
  BY <1>2, <1>5, SslChanged DEF u
<1> HIDE DEF sent
<1>7. IsConnection(writes(made))
  BY <1>2, <1>6 DEF IsConnection
<1> HIDE DEF writes
<1>8. IsClient(after(made)) /\ after(made).finished = cl.finished
  BY <1>7, ClientMembers
<1> QED BY <1>1, <1>8

(* Each step of the client keeps the invariant.                            *)
LEMMA ExecuteOnNewStep ==
  ASSUME IInv, execute_on_new
  PROVE  IInv'
<1> DEFINE n == Len(server) + 1
<1>1. /\ Len(results) < Len(opts.requests) /\ conn = 0 /\ conn' = n
      /\ server' = Append(server, Accepted)
      /\ to_server' = Append(to_server, <<>>) /\ to_client' = Append(to_client, <<>>)
      /\ client' = [Connected EXCEPT !.out_str = request_packet]
      /\ phase' = "events" /\ opts' = opts /\ results' = results /\ left' = left
  BY DEF execute_on_new
<1>2. /\ IsText(server) /\ IsText(to_server) /\ IsText(to_client)
      /\ DOMAIN server = 1 .. Len(server) /\ Len(server) \in Nat
      /\ Len(to_server) = Len(server) /\ Len(to_client) = Len(server)
  BY TextIs DEF IInv, Objects, Conns
<1>3. /\ IsText(server') /\ Len(server') = n /\ DOMAIN server' = 1 .. n
      /\ server'[n] = Accepted /\ \A c \in 1 .. Len(server) : server'[c] = server[c]
  BY <1>1, <1>2, TextAppended
<1>4. /\ IsText(to_server') /\ Len(to_server') = n
      /\ to_server'[n] = <<>> /\ \A c \in 1 .. Len(server) : to_server'[c] = to_server[c]
  BY <1>1, <1>2, TextAppended
<1>5. /\ IsText(to_client') /\ Len(to_client') = n
      /\ to_client'[n] = <<>> /\ \A c \in 1 .. Len(server) : to_client'[c] = to_client[c]
  BY <1>1, <1>2, TextAppended
<1>6. /\ \A c \in 1 .. n : c = n \/ (c \in 1 .. Len(server) /\ c # n)
      /\ n # 0 /\ n \in 0 .. n /\ n \in 1 .. n /\ n \notin 1 .. Len(server)
  BY <1>2
<1> HIDE DEF n
<1>7. IsClient(client') /\ ~ client'.finished
  <2> DEFINE text == request_packet
             new == [Connected EXCEPT !.out_str = text]
  <2>1. IsText(text) /\ IsClient(Connected) /\ ~ Connected.finished
    BY <1>1, RequestPacket, NewClient
  <2>2. client' = new
    BY <1>1
  <2> HIDE DEF text
  <2>3. IsClient(new) /\ new.finished = Connected.finished
    BY <2>1, ClientMembers
  <2> HIDE DEF new
  <2> QED BY <2>1, <2>2, <2>3
<1>8. Objects'
  <2>1. \A c \in 1 .. n : IsServer(server'[c])
    BY <1>2, <1>3, <1>6, NewServer DEF IInv, Objects, Conns
  <2> QED BY <1>1, <1>3, <1>4, <1>5, <1>7, <2>1 DEF IInv, Objects, Conns
<1>9. \A c \in 1 .. Len(server) : c \in left
  BY <1>1, <1>2 DEF IInv, Sockets, Conns
<1>10. left \subseteq 1 .. n /\ n \notin left
  BY <1>2, <1>6 DEF IInv, Sockets, Conns, n
<1>11. Sockets'
  BY <1>1, <1>3, <1>6, <1>7, <1>9, <1>10 DEF Sockets, Conns
<1>12. Pipes'
  <2>1. Pipe(<<>>) /\ Clean(<<>>)
    BY EmptyText, TlsAssumption DEF Pipe, Clean, HasReset
  <2>2. UnderWay(to_server'[n], to_client'[n], server'[n].open, n \in left, n = conn')
    BY <1>1, <1>3, <1>4, <1>5, <1>10, <2>1, NewServer DEF UnderWay
  <2>3. ASSUME NEW c \in 1 .. Len(server)
        PROVE  UnderWay(to_server'[c], to_client'[c], server'[c].open, c \in left, c = conn')
    <3>1. UnderWay(to_server[c], to_client[c], server[c].open, c \in left, c = conn)
      BY <1>2 DEF IInv, Pipes, Conns, Open
    <3>2. c # conn /\ c # conn'
      BY <1>1, <1>2, <1>6
    <3>3. UnderWay(to_server[c], to_client[c], server[c].open, c \in left, c = conn')
      BY <3>1, <3>2 DEF UnderWay
    <3> QED BY <1>3, <1>4, <1>5, <3>3
  <2> QED BY <1>1, <1>3, <1>6, <2>2, <2>3 DEF Pipes, Conns, Open
<1>13. \A c \in 1 .. n : Attended(server'[c])
  BY <1>2, <1>3, <1>6, NewServer DEF IInv, Conns
<1> QED BY <1>3, <1>8, <1>11, <1>12, <1>13 DEF IInv, Conns

LEMMA Kept ==
  ASSUME IInv, conn # 0
  PROVE  /\ conn \in Conns /\ IsClient(client) /\ (client.finished <=> conn \in left)
         /\ UnderWay(to_server[conn], to_client[conn], Open(conn), conn \in left, TRUE)
         /\ to_server = [to_server EXCEPT ![conn] = to_server[conn]]
         /\ to_client = [to_client EXCEPT ![conn] = to_client[conn]]
<1>1. /\ IsText(server) /\ IsText(to_server) /\ IsText(to_client)
      /\ DOMAIN server = 1 .. Len(server) /\ Len(server) \in Nat
  BY TextIs DEF IInv, Objects, Conns
<1>2. conn \in Conns
  BY <1>1 DEF IInv, Sockets, Conns
<1>3. UnderWay(to_server[conn], to_client[conn], Open(conn), conn \in left, TRUE)
  <2>1. UnderWay(to_server[conn], to_client[conn], Open(conn), conn \in left, conn = conn)
    BY <1>2 DEF IInv, Pipes
  <2> QED BY <2>1 DEF UnderWay
<1>4. /\ to_server = [to_server EXCEPT ![conn] = to_server[conn]]
      /\ to_client = [to_client EXCEPT ![conn] = to_client[conn]]
  BY <1>1, TextIs
<1>5. IsClient(client) /\ (client.finished <=> conn \in left)
  BY DEF IInv, Objects, Sockets
<1> QED BY <1>2, <1>3, <1>4, <1>5

LEMMA ExecuteOnKeptStep ==
  ASSUME IInv, execute_on_kept
  PROVE  IInv'
<1> DEFINE text == request_packet
           ts == to_server[conn]
           tc == to_client[conn]
           asking(c) == [c EXCEPT !.out_str = text]
<1>1. /\ Len(results) < Len(opts.requests) /\ conn # 0
      /\ phase' = "events"
      /\ UNCHANGED <<opts, conn, results, left, to_server, to_client, server, executed>>
  BY DEF execute_on_kept
<1>2. /\ conn \in Conns /\ IsClient(client) /\ (client.finished <=> conn \in left)
      /\ UnderWay(ts, tc, Open(conn), conn \in left, TRUE)
      /\ to_server = [to_server EXCEPT ![conn] = ts]
      /\ to_client = [to_client EXCEPT ![conn] = tc]
  BY <1>1, Kept
<1>3. IsText(text) /\ IsText(results)
  BY <1>1, RequestPacket DEF IInv, Objects
<1>4. PICK cl \in {client} \cup OverwrittenBy(client, text) :
        client' = IF asking(cl).established THEN reg_send_request(asking(cl), text) ELSE asking(cl)
  BY DEF execute_on_kept
<1> HIDE DEF text
<1>5. IsClient(cl) /\ cl.finished = client.finished
  BY <1>2, <1>3, <1>4, Overwriting
<1>6. IsClient(asking(cl)) /\ asking(cl).finished = client.finished
  <2>1. IsClient(cl)
    BY <1>5
  <2>2. IsClient(asking(cl)) /\ asking(cl).finished = cl.finished
    BY <1>3, <2>1 DEF IsClient
  <2> QED BY <1>5, <2>2
<1> HIDE DEF asking
<1>7. IsClient(client') /\ client'.finished = client.finished
  <2>1. LET new == reg_send_request(asking(cl), text)
        IN  IsClient(new) /\ new.finished = asking(cl).finished
    BY <1>3, <1>6, SendingRequest
  <2> QED BY <1>4, <1>6, <2>1
<1> HIDE DEF ts, tc
<1>8. UnderWay(ts, tc, Open(conn), conn \in left', conn' = conn)
  BY <1>1, <1>2
<1>9. conn' \in {0, conn} /\ conn' # 0 /\ left' = left /\ phase' \in {"idle", "events"}
  BY <1>1
<1>10. /\ to_server' = [to_server EXCEPT ![conn] = ts]
       /\ to_client' = [to_client EXCEPT ![conn] = tc]
  BY <1>1, <1>2
<1>11. IsText(results') /\ (client'.finished <=> conn \in left')
  BY <1>1, <1>2, <1>3, <1>7
<1> QED BY <1>1, <1>2, <1>7, <1>8, <1>9, <1>10, <1>11, ClientChanged

(* What a handler of the client leaves, in the terms of the lemmas above.  *)
LEMMA ClientReturns ==
  ASSUME IInv, NEW r \in ClientSteps
  PROVE  LET cl == ClientNow(r)
         IN  /\ conn \in Conns /\ phase = "events" /\ conn \notin left
             /\ IsClient(cl) /\ (cl.finished <=> conn \in left)
             /\ IsConnection(cl.ssl) /\ IsText(cl.out_str)
             /\ UnderWay(r.out, r.in, Open(conn), conn \in left, TRUE)
<1> DEFINE cl == ClientNow(r)
<1>1. /\ conn \in Conns /\ phase = "events" /\ ~ client.finished /\ conn \notin left
      /\ IsClient(cl) /\ cl.ssl = r.conn /\ ~ cl.finished
      /\ UnderWay(r.out, r.in, Open(conn), FALSE, TRUE)
  BY ClientSwitching
<1> HIDE DEF cl
<1>2. UnderWay(r.out, r.in, Open(conn), conn \in left, TRUE)
  BY <1>1 DEF UnderWay
<1> QED BY <1>1, <1>2 DEF IsClient, cl

LEMMA ConnectSucceedStep ==
  ASSUME IInv, connect_succeed
  PROVE  IInv'
<1>1. PICK r \in ClientSteps :
        GoOn(reg_send_request([ClientNow(r) EXCEPT !.established = TRUE], client.out_str),
             r.in, r.out)
  BY DEF connect_succeed
<1> DEFINE cl == ClientNow(r)
           up == [cl EXCEPT !.established = TRUE]
           new == reg_send_request(up, client.out_str)
<1>2. /\ conn \in Conns /\ IsClient(cl) /\ (cl.finished <=> conn \in left)
      /\ UnderWay(r.out, r.in, Open(conn), conn \in left, TRUE)
  BY ClientReturns
<1>3. GoOn(new, r.in, r.out) /\ ClientOthers
  BY <1>1 DEF connect_succeed
<1>4. IsText(client.out_str)
  BY DEF IInv, Objects, IsClient
<1> HIDE DEF cl
<1>5. IsClient(up) /\ up.finished = cl.finished
  BY <1>2 DEF IsClient
<1> HIDE DEF up
<1>6. IsClient(new) /\ new.finished = up.finished
  BY <1>4, <1>5, SendingRequest
<1> HIDE DEF new
<1>7. new.finished <=> conn \in left
  BY <1>2, <1>5, <1>6
<1> QED BY <1>2, <1>3, <1>6, <1>7, ClientGoesOn

(* The client waits for what comes next. *)
LEMMA ReceivingMore ==
  ASSUME NEW cl, IsClient(cl)
  PROVE  LET new == [cl EXCEPT !.ssl = reg_recv(@)]
         IN  IsClient(new) /\ new.finished = cl.finished
<1> DEFINE c == cl.ssl
           d == reg_recv(c)
           new == [cl EXCEPT !.ssl = d]
<1>1. IsConnection(c)
  BY DEF IsClient
<1>2. IsConnection(d)
  BY <1>1, Received
<1> HIDE DEF d
<1>3. IsClient(new) /\ new.finished = cl.finished
  BY <1>2, ClientMembers
<1> QED BY <1>3 DEF d

LEMMA ClientSendSucceedStep ==
  ASSUME IInv, client_send_succeed
  PROVE  IInv'
<1>1. PICK r \in ClientSteps : GoOn([ClientNow(r) EXCEPT !.ssl = reg_recv(@)], r.in, r.out)
  BY DEF client_send_succeed
<1> DEFINE cl == ClientNow(r)
           new == [cl EXCEPT !.ssl = reg_recv(@)]
<1>2. /\ conn \in Conns /\ IsClient(cl) /\ (cl.finished <=> conn \in left)
      /\ UnderWay(r.out, r.in, Open(conn), conn \in left, TRUE)
  BY ClientReturns
<1>3. GoOn(new, r.in, r.out) /\ ClientOthers
  BY <1>1 DEF client_send_succeed
<1> HIDE DEF cl
<1>4. IsClient(new) /\ new.finished = cl.finished
  BY <1>2, ReceivingMore
<1> HIDE DEF new
<1>5. new.finished <=> conn \in left
  BY <1>2, <1>4
<1> QED BY <1>2, <1>3, <1>4, <1>5, ClientGoesOn

LEMMA ClientRecvSucceedStep ==
  ASSUME IInv, client_recv_succeed
  PROVE  IInv'
<1>1. ClientOthers
  BY DEF client_recv_succeed
<1>2. PICK r \in ClientSteps : \E read :
        LET cl == [ClientNow(r) EXCEPT !.preader = read.reader]
        IN  CASE read.outcome.is = "packet" ->
                   EndCall(Returned(read.outcome), cl, r.in, r.out)
              [] read.outcome.is = "error" ->
                   EndCall(Threw("malformed", 0), cl, r.in, r.out)
              [] OTHER -> GoOn([cl EXCEPT !.ssl = reg_recv(@)], r.in, r.out)
  BY DEF client_recv_succeed
<1>3. PICK read :
        LET cl == [ClientNow(r) EXCEPT !.preader = read.reader]
        IN  CASE read.outcome.is = "packet" ->
                   EndCall(Returned(read.outcome), cl, r.in, r.out)
              [] read.outcome.is = "error" ->
                   EndCall(Threw("malformed", 0), cl, r.in, r.out)
              [] OTHER -> GoOn([cl EXCEPT !.ssl = reg_recv(@)], r.in, r.out)
  BY <1>2
<1> DEFINE old == ClientNow(r)
           p == read.reader
           cl == [old EXCEPT !.preader = p]
           new == [cl EXCEPT !.ssl = reg_recv(@)]
<1>4. /\ conn \in Conns /\ IsClient(old) /\ (old.finished <=> conn \in left)
      /\ UnderWay(r.out, r.in, Open(conn), conn \in left, TRUE)
  BY ClientReturns
<1>5. (\E result : EndCall(result, cl, r.in, r.out)) \/ GoOn(new, r.in, r.out)
  BY <1>3
<1> HIDE DEF old, p
<1>6. IsClient(cl) /\ cl.finished = old.finished
  BY <1>4, ClientMembers, ZenonT(60)
<1> HIDE DEF cl
<1>7. cl.finished <=> conn \in left
  BY <1>4, <1>6
<1>8. IsClient(new) /\ new.finished = cl.finished
  BY <1>6, ReceivingMore
<1> HIDE DEF new
<1>9. new.finished <=> conn \in left
  BY <1>7, <1>8
<1>10. CASE \E result : EndCall(result, cl, r.in, r.out)
  <2>1. PICK result : EndCall(result, cl, r.in, r.out)
    BY <1>10
  <2> QED BY <1>1, <1>4, <1>6, <1>7, <2>1, ClientEnds
<1>11. CASE GoOn(new, r.in, r.out)
  BY <1>1, <1>4, <1>8, <1>9, <1>11, ClientGoesOn
<1> QED BY <1>5, <1>10, <1>11

LEMMA ClientWaitsStep ==
  ASSUME IInv, client_waits
  PROVE  IInv'
<1>1. PICK r \in ClientSteps : GoOn(ClientNow(r), r.in, r.out)
  BY DEF client_waits
<1> DEFINE cl == ClientNow(r)
<1>2. /\ conn \in Conns /\ IsClient(cl) /\ (cl.finished <=> conn \in left)
      /\ UnderWay(r.out, r.in, Open(conn), conn \in left, TRUE)
  BY ClientReturns
<1>3. GoOn(cl, r.in, r.out) /\ ClientOthers
  BY <1>1 DEF client_waits
<1> HIDE DEF cl
<1> QED BY <1>2, <1>3, ClientGoesOn

LEMMA ClientTerminatesStep ==
  ASSUME IInv, client_terminates
  PROVE  IInv'
<1>1. PICK r \in ClientSteps :
        /\ client' = [ClientNow(r) EXCEPT !.finished = TRUE]
        /\ left' = left \cup {conn}
        /\ to_client' = [to_client EXCEPT ![conn] = <<>>]
        /\ \E pipe \in Resets(r.in, r.out) : to_server' = [to_server EXCEPT ![conn] = pipe]
  BY DEF client_terminates
<1>2. PICK pipe \in Resets(r.in, r.out) : to_server' = [to_server EXCEPT ![conn] = pipe]
  BY <1>1
<1> DEFINE cl == ClientNow(r)
           new == [cl EXCEPT !.finished = TRUE]
<1>3. /\ conn \in Conns /\ phase = "events" /\ conn \notin left /\ IsClient(cl)
      /\ UnderWay(r.out, r.in, Open(conn), FALSE, TRUE)
  BY ClientReturns, ClientSwitching
<1>4. client' = new
  BY <1>1
<1> HIDE DEF cl
<1>5. IsClient(new) /\ new.finished
  BY <1>3, ClientMembers
<1> HIDE DEF new
<1>6. /\ UNCHANGED <<opts, server, executed>> /\ phase' = phase /\ conn' = conn
      /\ results' = results
  BY DEF client_terminates, ClientOthers
<1>7. conn # 0 /\ IsText(results)
  BY <1>3, TextIs DEF IInv, Objects, Conns
<1>8. UnderWay(pipe, <<>>, Open(conn), TRUE, TRUE)
  <2>1. Open(conn) \in BOOLEAN
    BY <1>3 DEF IInv, Objects, IsServer, Open
  <2> QED BY <1>3, <2>1, Closing
<1>9. conn \in left' /\ conn' # 0 /\ left' \in {left, left \cup {conn}}
  BY <1>1, <1>6, <1>7
<1>10. UnderWay(pipe, <<>>, Open(conn), conn \in left', conn' = conn)
  BY <1>6, <1>8, <1>9 DEF UnderWay
<1>11. IsClient(client') /\ (client'.finished <=> conn \in left')
  BY <1>4, <1>5, <1>9
<1>12. to_client' = [to_client EXCEPT ![conn] = <<>>] /\ phase' \in {"idle", "events"}
       /\ IsText(results') /\ conn' \in {0, conn}
  BY <1>1, <1>3, <1>6, <1>7
<1> QED BY <1>2, <1>3, <1>6, <1>9, <1>10, <1>11, <1>12, ClientChanged

LEMMA ClientThrowsStep ==
  ASSUME IInv, client_throws
  PROVE  IInv'
<1>1. PICK r \in ClientSteps : EndCall(Threw(r.what, 0), ClientNow(r), r.in, r.out)
  BY DEF client_throws
<1> DEFINE cl == ClientNow(r)
<1>2. /\ conn \in Conns /\ IsClient(cl) /\ (cl.finished <=> conn \in left)
      /\ UnderWay(r.out, r.in, Open(conn), conn \in left, TRUE)
  BY ClientReturns
<1>3. EndCall(Threw(r.what, 0), cl, r.in, r.out) /\ ClientOthers
  BY <1>1 DEF client_throws
<1> HIDE DEF cl
<1> QED BY <1>2, <1>3, ClientEnds

LEMMA ClientTimeoutStep ==
  ASSUME IInv, Client_timeout
  PROVE  IInv'
<1>1. /\ phase = "events" /\ ClientOthers
      /\ EndCall(Threw("timeout", 0), client, to_client[conn], to_server[conn])
  BY DEF Client_timeout
<1>2. conn # 0
  BY <1>1 DEF IInv, Sockets
<1>3. /\ conn \in Conns /\ IsClient(client) /\ (client.finished <=> conn \in left)
      /\ UnderWay(to_server[conn], to_client[conn], Open(conn), conn \in left, TRUE)
  BY <1>2, Kept
<1> QED BY <1>1, <1>3, ClientEnds

-----------------------------------------------------------------------------
LEMMA Starting ==
  ASSUME Init
  PROVE  IInv
<1>1. /\ opts \in Sessions /\ phase = "idle" /\ conn = 0 /\ client = Connected
      /\ results = <<>> /\ to_server = <<>> /\ to_client = <<>> /\ left = {} /\ server = <<>>
  BY DEF Init
<1>2. IsText(<<>>) /\ Len(<<>>) = 0 /\ DOMAIN <<>> = {}
  BY EmptyText
<1>3. Conns = {}
  BY <1>1, <1>2 DEF Conns
<1>4. Objects
  BY <1>1, <1>2, <1>3, NewClient DEF Objects
<1>5. Sockets
  BY <1>1, <1>2, <1>3, NewClient DEF Sockets
<1> QED BY <1>3, <1>4, <1>5 DEF IInv, Pipes

LEMMA InvariantStep ==
  ASSUME IInv, [Next]_vars
  PROVE  IInv'
<1>1. CASE UNCHANGED vars
  BY <1>1 DEF vars, clientVars, IInv, Objects, Sockets, Pipes, Conns, Open
<1>2. CASE Client
  BY <1>2, ExecuteOnNewStep, ExecuteOnKeptStep, ConnectSucceedStep, ClientSendSucceedStep,
     ClientRecvSucceedStep, ClientWaitsStep, ClientTerminatesStep, ClientThrowsStep,
     ClientTimeoutStep DEF Client
<1>3. ASSUME NEW c \in Conns, Server(c)
      PROVE  IInv'
  BY <1>3, AcceptSucceedStep, RecvSucceedStep, SendSucceedStep, ServerWaitsStep,
     ServerTerminatesStep, ProcessStep DEF Server
<1> QED BY <1>1, <1>2, <1>3 DEF Next

LEMMA Invariance == Spec => []IInv
<1>1. Init => IInv
  BY Starting
<1>2. IInv /\ [Next]_vars => IInv'
  BY InvariantStep
<1> QED BY <1>1, <1>2, PTL DEF Spec

(* The state, mask and object of a connection go together: TypeOK, for any *)
(* requests, calls and sizes (ssl::Reaction_connection and the connections *)
(* made of it, whatever the order in which the two reactors call them).    *)
THEOREM TypeCorrect == Spec => []TypeOK
<1>1. ASSUME IInv PROVE TypeOK
  <2>1. /\ opts \in Sessions /\ phase \in {"idle", "events"} /\ (conn = 0 => phase = "idle")
        /\ conn \in 0 .. Len(server) /\ left \subseteq Conns
        /\ client.finished => conn \in left
    BY <1>1 DEF IInv, Objects, Sockets
  <2>2. client.ssl.state \in States /\ client.ssl.mask \subseteq {"INPUT", "OUTPUT"}
    BY <1>1 DEF IInv, Objects, IsClient, IsConnection
  <2>3. ASSUME NEW c \in Conns
        PROVE  /\ server[c].ssl.state \in States /\ server[c].ssl.mask \subseteq {"INPUT", "OUTPUT"}
               /\ Len(to_client[c]) <= Room + 1 /\ Len(to_server[c]) <= Room + 1
               /\ Cardinality(server[c].executing) <= 1
    <3>1. IsServer(server[c]) /\ Pipe(to_server[c]) /\ Pipe(to_client[c])
      BY <1>1 DEF IInv, Objects, Pipes, UnderWay
    <3>2. server[c].ssl.state \in States /\ server[c].ssl.mask \subseteq {"INPUT", "OUTPUT"}
      BY <3>1 DEF IsServer, IsConnection
    <3>3. ASSUME NEW pipe, Pipe(pipe) PROVE Len(pipe) <= Room + 1
      <4>1. IsText(pipe) /\ (Len(pipe) <= Room \/ Len(pipe) <= Room + 1)
        BY <3>3 DEF Pipe, Clean, Broken
      <4>2. Len(pipe) \in Nat /\ Room \in Nat
        BY <4>1, TextIs, TlsAssumption
      <4> QED BY <4>1, <4>2
    <3>4. Cardinality(server[c].executing) <= 1
      <4>1. server[c].executing = {} \/ \E req \in Requests : server[c].executing = {req}
        BY <3>1 DEF IsServer
      <4>2. CASE server[c].executing = {}
        BY <4>2, FS_EmptySet
      <4>3. CASE \E req \in Requests : server[c].executing = {req}
        <5>1. PICK req : server[c].executing = {req}
          BY <4>3
        <5>2. Cardinality({req}) = 1
          BY FS_Singleton
        <5> QED BY <5>1, <5>2
      <4> QED BY <4>1, <4>2, <4>3
    <3> QED BY <3>1, <3>2, <3>3, <3>4
  <2> QED BY <2>1, <2>2, <2>3 DEF TypeOK
<1> QED BY <1>1, Invariance, PTL

-----------------------------------------------------------------------------
(* What is waited for is what the call needs. *)

LEMMA WaitsToRead ==
  ASSUME NEW s, NEW out, s.state = "ACCEPTING" \/ s.state = "READING", s.ssl.role = "server",
         s.state = "READING" => ~ s.ssl.received_shutdown,
         s.state = "ACCEPTING" => s.ssl.flights \in Nat /\ s.ssl.flights % 2 = 0
  PROVE  \E end : Call(s, End(s.ssl, <<>>, out, TRUE)) = {Outcome(end, "need_read")}
<1> DEFINE end == End(s.ssl, <<>>, out, TRUE)
<1>1. end.ssl = s.ssl /\ end.in = <<>> /\ end.peer = TRUE
  BY DEF End
<1> HIDE DEF end
<1>2. CASE s.state = "ACCEPTING"
  <2>1. (s.ssl.flights + 1) % 2 = 1
    BY <1>2, Parity
  <2>2. ~ Mine(end.ssl, end.ssl.flights + 1)
    BY <1>1, <2>1 DEF Mine
  <2>3. Handshake(end) = {Outcome(end, "need_read")}
    BY <1>1, <2>2 DEF Handshake
  <2>4. Call(s, end) = {Outcome(end, "need_read")}
    BY <1>2, <2>3 DEF Call
  <2> QED BY <2>4 DEF end
<1>3. CASE s.state = "READING"
  <2>1. SSL_read(end) = {Outcome(end, "need_read")}
    BY <1>1, <1>3 DEF SSL_read
  <2>2. Call(s, end) = {Outcome(end, "need_read")}
    BY <1>3, <2>1 DEF Call
  <2> QED BY <2>2 DEF end
<1> QED BY <1>2, <1>3

LEMMA WaitsToAccept ==
  ASSUME NEW s, NEW in, NEW out, ~ HasReset(in), Len(out) = Room,
         s.state = "ACCEPTING", s.ssl.role = "server", s.ssl.flights \in Nat,
         s.ssl.flights % 2 = 1
  PROVE  \E end : Call(s, End(s.ssl, in, out, TRUE)) = {Outcome(end, "need_write")}
<1> DEFINE end == End(s.ssl, in, out, TRUE)
<1>1. end.ssl = s.ssl /\ end.out = out /\ end.peer = TRUE /\ ~ IsReset(end)
  BY DEF End, IsReset, HasReset
<1> HIDE DEF end
<1>2. (s.ssl.flights + 1) % 2 = 0
  BY Parity
<1>3. Mine(end.ssl, end.ssl.flights + 1)
  BY <1>1, <1>2 DEF Mine
<1>4. SendFlight(end, end.ssl.flights + 1) = {Outcome(end, "need_write")}
  BY <1>1 DEF SendFlight
<1>5. Handshake(end) = {Outcome(end, "need_write")}
  BY <1>3, <1>4 DEF Handshake
<1>6. Call(s, end) = {Outcome(end, "need_write")}
  BY <1>5 DEF Call
<1> QED BY <1>6 DEF end

(* These calls can always be made. *)
LEMMA CallsReturn ==
  ASSUME NEW s, NEW in, NEW out, s.state = "WRITING" \/ s.state = "SHUTDOWN"
  PROVE  \E o : o \in Call(s, End(s.ssl, in, out, TRUE))
<1> DEFINE end == End(s.ssl, in, out, TRUE)
<1>1. end.peer = TRUE
  BY DEF End
<1> HIDE DEF end
<1>2. CASE s.state = "WRITING"
  <2> DEFINE records == IF end.ssl.unsent = <<>> THEN Records(s.send_buf) ELSE end.ssl.unsent
             fit == Min({Len(records), Room - Len(end.out)})
             written == [end EXCEPT !.out = @ \o SubSeq(records, 1, fit),
                                    !.ssl.unsent = SubSeq(records, fit + 1, Len(records)),
                                    !.ssl.buf = IF fit = Len(records) THEN 0 ELSE s.buf]
  <2>0. \/ SSL_write(end, s.send_buf, s.buf) = {Outcome(end, "exception")}
        \/ SSL_write(end, s.send_buf, s.buf) = {Outcome(end, "network_error")}
        \/ SSL_write(end, s.send_buf, s.buf)
           = {Outcome(written, IF fit = Len(records) THEN "ok" ELSE "need_write")}
    BY <1>1 DEF SSL_write
  <2> HIDE DEF written, fit, records
  <2>1. \E o : o \in SSL_write(end, s.send_buf, s.buf)
    BY <2>0
  <2>2. Call(s, end) = SSL_write(end, s.send_buf, s.buf)
    BY <1>2 DEF Call
  <2> QED BY <2>1, <2>2 DEF end
<1>3. CASE s.state = "SHUTDOWN"
  <2>1. \E o : o \in SSL_shutdown(end)
    BY <1>1 DEF SSL_shutdown
  <2>2. \E o : o \in shutdown(s, end)
    BY <2>1 DEF shutdown
  <2>3. Call(s, end) = shutdown(s, end)
    BY <1>3 DEF Call
  <2> QED BY <2>2, <2>3 DEF end
<1> QED BY <1>2, <1>3

(* No connection of the HTTPS server is forgotten: NeverForgotten, for any *)
(* number of calls, requests of any length and any room for records.  What *)
(* a handler leaves registered is what the call of OpenSSL that it repeats *)
(* will need, whichever way that call was interrupted, and the alert is    *)
(* never sent but by the handler that deletes the connection               *)
(* (Reaction_connection::switch_state, reg_shutdown and                    *)
(* Https_server_connection).                                               *)
THEOREM NoneForgotten == Spec => []NeverForgotten
<1>1. ASSUME IInv, NEW c \in Conns, Open(c)
      PROVE  LET s == server[c].ssl
             IN  IF server[c].executing # {} THEN s.mask = {} /\ s.state = "EMPTY"
                 ELSE /\ s.mask # {} /\ s.state # "EMPTY"
                      /\ Ready(s.mask, to_server[c], to_client[c], c \notin left) \/ Needs(c) = s.mask
  <2> DEFINE s == server[c].ssl
             in == to_server[c]
             out == to_client[c]
             peer == c \notin left
             calls == Call(s, End(s.ssl, in, out, peer))
             need(o) == IF o.what = "need_read" THEN "INPUT" ELSE "OUTPUT"
  <2>1. IsServer(server[c]) /\ Attended(server[c])
    BY <1>1 DEF IInv, Objects
  <2>2. UnderWay(in, out, TRUE, ~ peer, c = conn)
    <3>1. UnderWay(in, out, Open(c), c \in left, c = conn)
      BY <1>1 DEF IInv, Pipes
    <3> QED BY <1>1, <3>1 DEF UnderWay
  <2>3. CASE server[c].executing # {}
    BY <1>1, <2>1, <2>3 DEF Attended, Open
  <2>4. CASE server[c].executing = {}
    <3>1. s.ssl.role = "server" /\ Waiting(s) /\ IsConnection(s) /\ Heard(s)
      BY <1>1, <2>1, <2>4 DEF Attended, Open, IsServer
    <3>2. s.mask # {} /\ s.state # "EMPTY"
      BY <3>1 DEF Waiting
    <3>3. Needs(c) = {need(o) : o \in calls}
      BY DEF Needs
    <3>4. ASSUME ~ Ready(s.mask, in, out, peer) PROVE Needs(c) = s.mask
      <4>1. IsEnd(s.ssl, in, out, peer)
        BY <2>2, <3>1 DEF IsEnd, IsConnection, UnderWay
      <4>2. s.ssl.flights \in Nat
        BY <3>1 DEF IsConnection, IsSsl
      <4>3. "INPUT" \in s.mask => in = <<>> /\ peer
        BY <3>4 DEF Ready
      <4>4. "OUTPUT" \in s.mask => Len(out) = Room /\ peer /\ ~ HasReset(in)
        <5>1. "OUTPUT" \in s.mask => ~ (Len(out) < Room) /\ peer /\ ~ HasReset(in)
          BY <3>4 DEF Ready, HasReset
        <5>2. Len(out) \in Nat /\ Len(out) <= Room /\ Room \in Nat
          BY <4>1, TextIs, TlsAssumption DEF IsEnd, Clean
        <5>3. ~ (Len(out) < Room) => Len(out) = Room
          BY <5>2
        <5> QED BY <5>1, <5>3
      <4> HIDE DEF s, in, out
      <4>5. CASE s.state \in {"ACCEPTING", "READING"} /\ s.mask = {"INPUT"}
        <5>1. s.state = "ACCEPTING" => s.ssl.flights % 2 = 0
          BY <3>1, <4>5 DEF Waiting
        <5>2. calls = Call(s, End(s.ssl, <<>>, out, TRUE))
          BY <4>3, <4>5
        <5>3. \E end : calls = {Outcome(end, "need_read")}
          <6>1. \E end : Call(s, End(s.ssl, <<>>, out, TRUE)) = {Outcome(end, "need_read")}
            <7>1. s.state = "ACCEPTING" \/ s.state = "READING"
              BY <4>5
            <7>2. s.state = "READING" => ~ s.ssl.received_shutdown
              BY <3>1 DEF Heard
            <7> QED BY <3>1, <4>2, <5>1, <7>1, <7>2, WaitsToRead
          <6> HIDE DEF calls
          <6> QED BY <5>2, <6>1
        <5> HIDE DEF calls
        <5>4. {need(o) : o \in calls} = {"INPUT"}
          BY <5>3 DEF Outcome
        <5> QED BY <3>3, <4>5, <5>4 DEF calls
      <4>6. CASE s.state = "ACCEPTING" /\ s.mask = {"OUTPUT"}
        <5>1. s.ssl.flights % 2 = 1
          BY <3>1, <4>6 DEF Waiting
        <5>2. calls = Call(s, End(s.ssl, in, out, TRUE)) /\ Len(out) = Room /\ ~ HasReset(in)
          BY <4>4, <4>6
        <5>3. \E end : calls = {Outcome(end, "need_write")}
          BY <3>1, <4>2, <4>6, <5>1, <5>2, WaitsToAccept
        <5> HIDE DEF calls
        <5>4. {need(o) : o \in calls} = {"OUTPUT"}
          BY <5>3 DEF Outcome
        <5> QED BY <3>3, <4>6, <5>4 DEF calls
      <4>7. CASE s.state \in {"WRITING", "SHUTDOWN"} /\ s.mask = {"OUTPUT"}
        <5>1. calls = Call(s, End(s.ssl, in, out, TRUE))
          BY <4>4, <4>7
        <5>2. \E o : o \in calls
          <6>1. \E o : o \in Call(s, End(s.ssl, in, out, TRUE))
            <7>1. s.state = "WRITING" \/ s.state = "SHUTDOWN"
              BY <4>7
            <7> QED BY <7>1, CallsReturn
          <6> HIDE DEF calls
          <6> QED BY <5>1, <6>1
        <5>3. \A o \in calls : o.what # "need_read"
          BY <3>1, <4>1, <4>7, Calling
        <5> HIDE DEF calls
        <5>4. {need(o) : o \in calls} = {"OUTPUT"}
          BY <5>2, <5>3
        <5> QED BY <3>3, <4>7, <5>4 DEF calls
      <4> QED BY <3>1, <4>5, <4>6, <4>7 DEF Waiting
    <3> QED BY <2>4, <3>2, <3>4
  <2> QED BY <2>3, <2>4
<1>2. IInv => NeverForgotten
  BY <1>1 DEF NeverForgotten
<1> QED BY <1>2, Invariance, PTL

-----------------------------------------------------------------------------
(* A client that keeps no connection: the n-th connection is that of the   *)
(* n-th call, which asks for req.                                          *)

Closes == set_conn_keep_alive(Header, FALSE)
PacketOf(req) == dump(0, Closes, RequestContent(req))

(* What may be answered: the response, when the method has run, or a       *)
(* refusal, when the request is too large.                                 *)
Answers(req, runs) ==
  {dump(200, Closes, ResponseContent(Run(ran))) : ran \in {req} \cap Range(runs)}
Refusals(req) == IF Large(req) THEN {dump(413, Closes, <<>>)} ELSE {}
Replies(req, runs) == Answers(req, runs) \cup Refusals(req)

(* A reader that has been given the first k symbols of a packet.           *)
Members(r, header_cache, content_cache, header) ==
  r \in [header_cache : {header_cache}, content_cache : {content_cache}, header : {header},
         constructed : {FALSE}, total_sz : {r.total_sz}]

Holds(r, packet, k) ==
  IF k < 3 THEN Members(r, SubSeq(packet, 1, k), <<>>, NoHeader)
  ELSE Members(r, <<packet[1]>>, SubSeq(packet, 4, k), packet[1])

Given(r, packet, k) == Holds(r, packet, k) /\ r.total_sz \in 0 .. k

(* A packet with this content is refused for its size.                     *)
TooLarge(content, max) == max # 0 /\ 3 + Len(content) >= max

At(r, packet, m) == m \in 0 .. Number(packet) - 1 /\ Given(r, packet, Cut(packet, m))

(* The flights of a handshake behind the client and the server, and those  *)
(* under way.                                                              *)
Greeting(mine, theirs, ts, tc) ==
  \/ mine = 0 /\ theirs = 0 /\ ts = <<>> /\ tc = <<>>
  \/ mine = 1 /\ theirs = 0 /\ ts = <<Flight(1)>> /\ tc = <<>>
  \/ mine = 1 /\ theirs = 2 /\ ts = <<>> /\ tc = <<Flight(2)>>
  \/ mine = 3 /\ theirs = 2 /\ ts = <<Flight(3)>> /\ tc = <<>>

Stage(s) ==
  IF ~s.open THEN "ended"
  ELSE IF s.executing # {} THEN "executes"
  ELSE CASE s.ssl.state = "ACCEPTING" -> "accepts"
         [] s.ssl.state = "READING" -> "reads"
         [] s.ssl.state = "WRITING" -> "writes"
         [] OTHER -> "ended"

Past(s) == Stage(s) \in {"writes", "ended"}

(* The client still works for a call; and it has what it takes to.         *)
Working(cl) == ~cl.finished /\ cl.ssl.state \notin {"SHUTDOWN", "EMPTY"}
Connects(cl) ==
  cl.ssl.state = "CONNECTING" /\ cl.ssl.ssl.role = "client" /\ cl.ssl.ssl.unsent = <<>>
Later(cl) == cl.ssl.state \in {"WRITING", "READING"}

(* A call, while the server accepts its connection, reads its packet,      *)
(* executes it, and writes: cl is the client, and act says whether it is   *)
(* working for this call.                                                  *)
Accepting(s, ts, tc, act, cl) ==
  /\ s.preader = NewReader /\ s.ssl.ssl.unsent = <<>>
  /\ act => /\ Connects(cl) /\ cl.preader = NewReader
            /\ Greeting(cl.ssl.ssl.flights, s.ssl.ssl.flights, ts, tc)

(* The client, the first k records of the packet of which are sent.        *)
Asking(cl, text, k, tc) ==
  /\ cl.preader = NewReader
  /\ \/ Connects(cl) /\ k = 0 /\ cl.ssl.ssl.flights = 3 /\ tc = <<Flight(4)>>
     \/ Writes(cl.ssl, text, k) /\ tc = <<>>
     \/ cl.ssl.state = "READING" /\ k = Number(text) /\ tc = <<>>

Receiving(text, s, ts, tc, act, cl) ==
  /\ s.ssl.ssl.unsent = <<>>
  /\ \E m \in 0 .. Number(text) - 1 :
       /\ At(s.preader, text, m)
       /\ Remains(ts, text, m)
       /\ act => \E k \in m .. Number(text) : Full(ts, text, m, k) /\ Asking(cl, text, k, tc)

Running(req, s, tc, act, cl) ==
  /\ s.executing = {req} /\ s.ssl.ssl.unsent = <<>>
  /\ act => Later(cl) /\ cl.preader = NewReader /\ tc = <<>>

Replying(req, s, tc, act, cl, runs) ==
  act => /\ Later(cl)
         /\ \E text \in Replies(req, runs) : \E m, k \in 0 .. Number(text) - 1 :
              Writes(s.ssl, text, k) /\ Full(tc, text, m, k) /\ At(cl.preader, text, m)

Ending(req, tc, act, cl, runs) ==
  act => /\ Later(cl)
         /\ \E text \in Replies(req, runs) : \E m \in 0 .. Number(text) - 1 :
              Remains(tc, text, m) /\ At(cl.preader, text, m)

Exchange(req, s, ts, tc, act, gone, cl, runs) ==
  /\ s.keep_alive = FALSE
  /\ act => ~gone /\ cl.out_str = PacketOf(req)
  /\ Stage(s) \in {"accepts", "reads"} => act \/ gone
  /\ Stage(s) = "accepts" => Accepting(s, ts, tc, act, cl)
  /\ Stage(s) = "reads" => Receiving(PacketOf(req), s, ts, tc, act, cl)
  /\ Stage(s) = "executes" => Running(req, s, tc, act, cl)
  /\ Stage(s) = "writes" => Replying(req, s, tc, act, cl, runs)
  /\ Stage(s) = "ended" => Ending(req, tc, act, cl, runs)

Exchanges ==
  \A c \in Conns : \A act, gone \in BOOLEAN :
    (act <=> c = conn /\ Working(client)) /\ (gone <=> c \in left) =>
      Exchange(opts.requests[c], server[c], to_server[c], to_client[c], act, gone, client, executed)

(* A method has run on no more connections than are past it.               *)
RunOnce == IsText(executed) /\ Len(executed) <= Cardinality({c \in Conns : Past(server[c])})

Answered ==
  \A n \in DOMAIN results :
    results[n].is # "exception" =>
      results[n] = Run(opts.requests[n]) /\ opts.requests[n] \in Range(executed)

(* A connection for each call. *)
Counted ==
  /\ Len(server) = call /\ call <= Len(opts.requests)
  /\ conn = IF phase = "idle" THEN 0 ELSE call

OwnInv == ~opts.keep_alive => Counted /\ RunOnce /\ Answered /\ Exchanges

-----------------------------------------------------------------------------
(* Packets and their reader. *)

(* Nothing is against the header of such a packet.                         *)
LEMMA Parsed ==
  ASSUME NEW n, NEW ver_level \in Levels
  PROVE  parse(set_content_length(Closes, n), ver_level) = 0
<1> DEFINE options == set_content_length(Closes, n)
           Against(v) ==
             v.level <= ver_level /\ options[v.name].word \notin v.words \cup {"none"}
           I == {i \in 1 .. Len(validators_) : Against(validators_[i])}
<1>1. /\ options.authorization = NoValue /\ options.connection.word = "close"
      /\ options.content_length.word = "digits" /\ options.content_type.word \in {"none", "text/xml"}
  BY DEF set_content_length, Closes, set_conn_keep_alive, Header, NoValue, Word, Digits
<1> HIDE DEF options
<1>2. I = {}
  <2> SUFFICES ASSUME NEW i \in 1 .. 3 PROVE ~ Against(validators_[i])
    BY DEF validators_
  <2>1. CASE i = 1
    BY <1>1, <2>1 DEF validators_
  <2>2. CASE i = 2
    BY <1>1, <2>2 DEF validators_
  <2>3. CASE i = 3
    BY <1>1, <2>3 DEF validators_
  <2> QED BY <2>1, <2>2, <2>3
<1>3. NewLine \notin Range(options.authorization.base64)
  <2>1. options.authorization.base64 = <<>>
    BY <1>1 DEF NoValue, Word
  <2>2. DOMAIN <<>> = {}
    OBVIOUS
  <2> QED BY <2>1, <2>2 DEF Range
<1>4. SelectInSeq(validators_, LAMBDA v : Against(v)) = 0
  <2>1. I = {i \in 1 .. Len(validators_) : Against(validators_[i])}
    OBVIOUS
  <2> HIDE DEF Against, I
  <2> QED BY <1>2, <2>1 DEF SelectInSeq
<1> QED BY <1>3, <1>4 DEF parse, options

LEMMA PacketIs ==
  ASSUME NEW code, NEW content, IsText(content)
  PROVE  LET p == dump(code, Closes, content)
         IN  /\ IsText(p) /\ Len(p) = Len(content) + 3 /\ Len(content) \in Nat
             /\ p[1].is = "head" /\ p[1].code = code /\ p[1] # CR_LF /\ p[1] # LF
             /\ p[2] = CR_LF /\ p[3] = CR_LF /\ CR_LF # LF
             /\ SubSeq(p, 4, Len(p)) = content
             /\ content_length(p[1].options) = Len(content)
             /\ ~ conn_keep_alive(p[1].options)
<1> DEFINE h == Head_(code, set_content_length(Closes, Len(content)))
           front == <<h, CR_LF, CR_LF>>
           p == front \o content
           S == Range(content) \cup {h, CR_LF}
<1>1. dump(code, Closes, content) = p
  BY DEF dump
<1>2. content \in Seq(Range(content)) /\ Len(content) \in Nat
  BY TextIs
<1>3. /\ h.is = "head" /\ h.code = code /\ h # CR_LF /\ h # LF /\ CR_LF # LF
      /\ content_length(h.options) = Len(content)
      /\ ~ conn_keep_alive(h.options)
  BY DEF Head_, set_content_length, Closes, set_conn_keep_alive, Header, content_length,
     conn_keep_alive, Digits, Word, NoValue, CR_LF, LF
<1> HIDE DEF h
<1>4. front \in Seq({h, CR_LF}) /\ Len(front) = 3 /\ front[1] = h /\ front[2] = CR_LF /\ front[3] = CR_LF
  OBVIOUS
<1> HIDE DEF front
<1>5. front \in Seq(S) /\ content \in Seq(S)
  BY <1>2, <1>4, SeqMonotonic
<1>6. /\ p \in Seq(S) /\ Len(p) = Len(front) + Len(content)
      /\ \A i \in 1 .. Len(front) + Len(content) :
           p[i] = IF i <= Len(front) THEN front[i] ELSE content[i - Len(front)]
  BY <1>5, ConcatProperties
<1> HIDE DEF p, S
<1>7. IsText(p) /\ Len(p) = Len(content) + 3
  BY <1>2, <1>4, <1>6, TextOf
<1>8. p[1] = h /\ p[2] = CR_LF /\ p[3] = CR_LF /\ \A i \in 1 .. Len(content) : p[i + 3] = content[i]
  BY <1>2, <1>4, <1>6
<1>9. SubSeq(p, 4, Len(p)) = content
  <2> DEFINE t == SubSeq(p, 4, Len(p))
             n == Len(content)
  <2>1. n \in Nat /\ Len(p) = n + 3
    BY <1>2, <1>7
  <2>2. 4 \in 1 .. Len(p) + 1 /\ Len(p) \in 4 - 1 .. Len(p) /\ Len(p) - 4 + 1 = n
    BY <2>1
  <2>3. IsText(t) /\ Len(t) = Len(p) - 4 + 1 /\ \A i \in 1 .. Len(p) - 4 + 1 : t[i] = p[4 + i - 1]
    BY <1>7, <2>2, PartOf
  <2> HIDE DEF t
  <2>4. \A i \in 1 .. n : t[i] = content[i]
    <3>1. \A i \in 1 .. n : 4 + i - 1 = i + 3
      BY <2>1
    <3> QED BY <1>8, <2>2, <2>3, <3>1
  <2>5. t \in Seq(Range(t)) /\ Len(t) = Len(content) /\ \A i \in 1 .. Len(t) : t[i] = content[i]
    BY <2>2, <2>3, <2>4 DEF IsText
  <2>6. t = content
    BY <1>2, <2>5, SeqEqual
  <2> QED BY <2>6 DEF t
<1> QED BY <1>1, <1>2, <1>3, <1>7, <1>8, <1>9

LEMMA FirstSymbol ==
  ASSUME NEW code, NEW content, IsText(content)
  PROVE  dump(code, Closes, content)[1] = Head_(code, set_content_length(Closes, Len(content)))
<1> DEFINE h == Head_(code, set_content_length(Closes, Len(content)))
           front == <<h, CR_LF, CR_LF>>
           S == Range(content) \cup {h, CR_LF}
<1>1. content \in Seq(S) /\ Len(content) \in Nat
  BY TextIs, SeqMonotonic
<1> HIDE DEF h
<1>2. front \in Seq(S) /\ Len(front) = 3 /\ front[1] = h
  BY <1>1
<1> HIDE DEF front, S
<1>3. (front \o content)[1] = front[1]
  BY <1>1, <1>2, ConcatProperties
<1> QED BY <1>2, <1>3 DEF dump, front, h

(* The members of a reader that changes.                                   *)
LEMMA MembersAre ==
  ASSUME NEW r, NEW a, NEW b, NEW c, Members(r, a, b, c)
  PROVE  r.header_cache = a /\ r.content_cache = b /\ r.header = c /\ ~ r.constructed
  BY DEF Members

LEMMA MemberChanged ==
  ASSUME NEW r, NEW a, NEW b, NEW c, Members(r, a, b, c), NEW v
  PROVE  /\ Members([r EXCEPT !.total_sz = v], a, b, c)
         /\ [r EXCEPT !.total_sz = v].total_sz = v
         /\ Members([r EXCEPT !.header_cache = v], v, b, c)
         /\ [r EXCEPT !.header_cache = v].total_sz = r.total_sz
         /\ Members([r EXCEPT !.content_cache = v], a, v, c)
         /\ [r EXCEPT !.content_cache = v].total_sz = r.total_sz
         /\ Members([r EXCEPT !.header = v], a, b, v)
         /\ [r EXCEPT !.header = v].total_sz = r.total_sz
  BY DEF Members

LEMMA CachesChanged ==
  ASSUME NEW r, NEW a, NEW b, NEW c, Members(r, a, b, c), NEW v, NEW w
  PROVE  /\ Members([r EXCEPT !.header_cache = v, !.content_cache = w], v, w, c)
         /\ [r EXCEPT !.header_cache = v, !.content_cache = w].total_sz = r.total_sz
  BY DEF Members

(* A header ends behind the third symbol of a packet.                      *)
LEMMA HeaderEnds ==
  ASSUME NEW code, NEW content, IsText(content),
         NEW j \in 0 .. Len(dump(code, Closes, content))
  PROVE  header_end(SubSeq(dump(code, Closes, content), 1, j)) = IF j < 3 THEN 0 ELSE 2
<1> DEFINE p == dump(code, Closes, content)
           s == SubSeq(p, 1, j)
<1>1. /\ IsText(p) /\ Len(p) \in Nat /\ Len(p) >= 3 /\ p[1] # CR_LF /\ p[1] # LF
      /\ p[2] = CR_LF /\ p[3] = CR_LF /\ CR_LF # LF
  BY PacketIs
<1> HIDE DEF p
<1>2. j \in Nat /\ j <= Len(p)
  BY <1>1 DEF p
<1>3. Len(s) = j /\ \A i \in 1 .. j : s[i] = p[i]
  <2>1. 1 \in 1 .. Len(p) + 1 /\ j \in 1 - 1 .. Len(p) /\ j - 1 + 1 = j
        /\ \A i \in 1 .. j : 1 + i - 1 = i
    BY <1>1, <1>2
  <2>2. Len(s) = j - 1 + 1 /\ \A i \in 1 .. j - 1 + 1 : s[i] = p[1 + i - 1]
    BY <1>1, <2>1, PartOf
  <2> QED BY <2>1, <2>2
<1> HIDE DEF s
<1>4. CASE j < 3
  <2>1. Ends(s, CR_LF) = {} /\ Ends(s, LF) = {}
    <3>1. ASSUME NEW i \in 1 .. Len(s) - 1 PROVE i = 1 /\ s[i] = p[1]
      BY <1>2, <1>3, <1>4
    <3> QED BY <1>1, <3>1 DEF Ends
  <2> QED BY <1>4, <2>1 DEF header_end, First, p, s
<1>5. CASE ~ (j < 3)
  <2> DEFINE E == Ends(s, CR_LF)
  <2>1. 2 \in E
    <3>1. 2 \in 1 .. Len(s) - 1 /\ s[2] = p[2] /\ s[2 + 1] = p[3]
      BY <1>2, <1>3, <1>5
    <3> QED BY <1>1, <3>1 DEF Ends
  <2>2. \A i \in E : 2 <= i
    <3> SUFFICES ASSUME NEW i \in E PROVE 2 <= i
      OBVIOUS
    <3>1. i \in 1 .. Len(s) - 1 /\ s[i] = CR_LF
      BY DEF Ends
    <3>2. i # 1
      BY <1>1, <1>2, <1>3, <1>5, <3>1
    <3> QED BY <3>1, <3>2
  <2>3. E \subseteq Int
    BY <1>2, <1>3 DEF Ends
  <2> HIDE DEF E
  <2>4. First(E) = 2
    <3>1. \A i \in E : (\A n \in E : i <= n) => i = 2
      BY <2>1, <2>2, <2>3
    <3> QED BY <2>1, <2>2, <3>1 DEF First
  <2> QED BY <1>5, <2>1, <2>4 DEF header_end, E, p, s
<1> QED BY <1>4, <1>5

(* What a reader that does not refuse a piece makes of it. *)
Storing(r, s, ver_level) ==
  IF r.header = NoHeader THEN read_header(r, s, ver_level)
  ELSE [reader |-> [r EXCEPT !.content_cache = @ \o s], outcome |-> NoPacket]

(* What is stored, when a piece that follows what was given comes.         *)
LEMMA Stored ==
  ASSUME NEW code, NEW content, IsText(content), NEW k \in Nat, NEW j \in Nat,
         k < j, j <= Len(dump(code, Closes, content)), NEW ver_level \in Levels, NEW r,
         Holds(r, dump(code, Closes, content), k)
  PROVE  LET p == dump(code, Closes, content)
             next == Storing(r, SubSeq(p, k + 1, j), ver_level)
         IN  /\ next.outcome = NoPacket /\ Holds(next.reader, p, j)
             /\ next.reader.total_sz = r.total_sz
<1> DEFINE p == dump(code, Closes, content)
           s == SubSeq(p, k + 1, j)
           next == IF r.header = NoHeader THEN read_header(r, s, ver_level)
                   ELSE [reader |-> [r EXCEPT !.content_cache = @ \o s], outcome |-> NoPacket]
           cache == SubSeq(p, 1, j)
           end == header_end(cache)
<1>0. next = Storing(r, s, ver_level)
  BY DEF Storing
<1> HIDE DEF next, s, p, cache, end
<1> SUFFICES /\ next.outcome = NoPacket /\ Holds(next.reader, p, j)
             /\ next.reader.total_sz = r.total_sz
  BY <1>0 DEF p, s
<1> USE DEF next, s, p, cache, end
<1>1. /\ IsText(p) /\ Len(p) \in Nat /\ Len(p) >= 3 /\ p[1].is = "head"
      /\ parse(p[1].options, ver_level) = 0
  <2>1. p[1] = Head_(code, set_content_length(Closes, Len(content)))
    BY FirstSymbol
  <2>2. p[1].options = set_content_length(Closes, Len(content))
    BY <2>1 DEF Head_
  <2> QED BY <2>2, PacketIs, Parsed
<1>2. end = IF j < 3 THEN 0 ELSE 2
  <2>1. j \in 0 .. Len(p)
    BY <1>1
  <2> QED BY <2>1, HeaderEnds
<1> HIDE DEF end
<1>3. Holds(r, p, k) /\ j <= Len(p)
  OBVIOUS
<1> HIDE DEF p
<1>4. CASE k >= 3
  <2>1. Members(r, <<p[1]>>, SubSeq(p, 4, k), p[1])
    BY <1>3, <1>4 DEF Holds
  <2>2. r.header # NoHeader /\ r.content_cache = SubSeq(p, 4, k)
    <3>1. r.header = p[1] /\ r.content_cache = SubSeq(p, 4, k)
      BY <2>1, MembersAre
    <3>2. p[1] # NoHeader
      BY <1>1 DEF NoHeader
    <3> QED BY <3>1, <3>2
  <2> DEFINE more == r.content_cache \o s
             q == [r EXCEPT !.content_cache = more]
  <2>3. more = SubSeq(p, 4, j)
    <3>1. 4 \in 1 .. Len(p) + 1 /\ k \in 4 - 1 .. Len(p) /\ j \in k .. Len(p)
      BY <1>1, <1>3, <1>4
    <3>2. SubSeq(p, 4, k) \o s = SubSeq(p, 4, j)
      BY <1>1, <3>1, PartsJoined
    <3> QED BY <2>2, <3>2
  <2>4. next.reader = q /\ next.outcome = NoPacket
    BY <2>2
  <2> HIDE DEF next, more
  <2>5. Members(q, <<p[1]>>, more, p[1]) /\ q.total_sz = r.total_sz
    BY <2>1, MemberChanged
  <2> HIDE DEF q
  <2>6. Holds(q, p, j)
    BY <1>4, <2>3, <2>5 DEF Holds
  <2> QED BY <2>4, <2>5, <2>6 DEF next, s, p
<1>5. CASE k < 3
  <2>1. Members(r, SubSeq(p, 1, k), <<>>, NoHeader)
    BY <1>3, <1>5 DEF Holds
  <2>1a. /\ r.header = NoHeader /\ r.header_cache = SubSeq(p, 1, k) /\ r.content_cache = <<>>
    BY <2>1, MembersAre
  <2>2. r.header_cache \o s = cache
    <3>1. 1 \in 1 .. Len(p) + 1 /\ k \in 1 - 1 .. Len(p) /\ j \in k .. Len(p)
      BY <1>1, <1>3, <1>5
    <3> QED BY <1>1, <2>1a, <3>1, PartsJoined
  <2>3. next = read_header(r, s, ver_level)
    BY <2>1a
  <2> HIDE DEF s, cache, next
  <2>4. CASE j < 3
    <3> DEFINE q == [r EXCEPT !.header_cache = cache]
    <3>1. next = [reader |-> q, outcome |-> NoPacket]
      BY <1>2, <2>2, <2>3, <2>4 DEF read_header, end
    <3>2. Members(q, cache, <<>>, NoHeader) /\ q.total_sz = r.total_sz
      BY <2>1, MemberChanged
    <3>3. next.reader = q /\ next.outcome = NoPacket
      BY <3>1
    <3> HIDE DEF q
    <3>4. Holds(q, p, j)
      BY <2>4, <3>2 DEF Holds, cache
    <3> QED BY <3>2, <3>3, <3>4 DEF next, s, p
  <2>5. CASE ~ (j < 3)
    <3> DEFINE front == SubSeq(cache, 1, end - 1)
               rest == SubSeq(cache, end + 2, Len(cache))
               split == [r EXCEPT !.header_cache = front, !.content_cache = r.content_cache \o rest]
               refusal == Refusal(split.header_cache, ver_level)
               full == [split EXCEPT !.header = split.header_cache[1]]
    <3>1. next = IF refusal # 0 THEN [reader |-> split, outcome |-> Error(refusal)]
                 ELSE [reader |-> full, outcome |-> NoPacket]
      BY <1>2, <2>2, <2>3, <2>5 DEF read_header, end
    <3>2. IsText(cache) /\ Len(cache) = j /\ cache[1] = p[1]
      <4>1. 1 \in 1 .. Len(p) + 1 /\ j \in 1 - 1 .. Len(p) /\ j - 1 + 1 = j /\ 1 \in 1 .. j
            /\ 1 + 1 - 1 = 1
        BY <1>1, <1>3, <2>5
      <4>2. IsText(cache) /\ Len(cache) = j - 1 + 1 /\ \A i \in 1 .. j - 1 + 1 : cache[i] = p[1 + i - 1]
        BY <1>1, <4>1, PartOf DEF cache
      <4> QED BY <4>1, <4>2
    <3>3. front = <<p[1]>>
      <4>1. end - 1 = 1 /\ 1 \in 1 .. Len(cache) + 1 /\ 1 \in 1 - 1 .. Len(cache)
        BY <1>2, <2>5, <3>2
      <4>2. front \in Seq(Range(cache)) /\ Len(front) = 1 - 1 + 1
            /\ \A i \in 1 .. 1 - 1 + 1 : front[i] = cache[1 + i - 1]
        BY <3>2, <4>1, PartOf
      <4> HIDE DEF front
      <4>3. Len(front) = 1 /\ front[1] = p[1]
        BY <3>2, <4>2
      <4> QED BY <4>2, <4>3
    <3>4. r.content_cache \o rest = SubSeq(p, 4, j)
      <4>1. end + 2 = 4 /\ 4 \in 1 .. j + 1 /\ j \in 4 - 1 .. j /\ j \in 0 .. Len(p)
        BY <1>1, <1>2, <1>3, <2>5
      <4>2. rest = SubSeq(p, 4, j)
        BY <1>1, <3>2, <4>1, PartOfPart DEF cache
      <4>3. IsText(rest)
        <5>1. 4 \in 1 .. Len(p) + 1 /\ j \in 4 - 1 .. Len(p)
          BY <1>1, <1>3, <2>5
        <5> QED BY <1>1, <4>2, <5>1, PartOf
      <4> HIDE DEF rest
      <4>4. <<>> \o rest = rest
        BY <4>3, ConcatEmptySeq DEF IsText
      <4> QED BY <2>1a, <4>2, <4>4
    <3> DEFINE more == r.content_cache \o rest
    <3> HIDE DEF front, more
    <3>5. Members(split, front, more, NoHeader) /\ split.total_sz = r.total_sz
      <4>1. split = [r EXCEPT !.header_cache = front, !.content_cache = more]
        BY DEF more
      <4> HIDE DEF split
      <4>2. /\ Members([r EXCEPT !.header_cache = front, !.content_cache = more], front, more, NoHeader)
            /\ [r EXCEPT !.header_cache = front, !.content_cache = more].total_sz = r.total_sz
        BY <2>1, CachesChanged
      <4> QED BY <4>1, <4>2
    <3>5a. split.header_cache = <<p[1]>> /\ split.header = NoHeader
      <4> HIDE DEF split
      <4> QED BY <3>3, <3>5, MembersAre
    <3>6. Members(full, front, more, p[1]) /\ full.total_sz = r.total_sz
      <4>1. <<p[1]>>[1] = p[1]
        OBVIOUS
      <4>2. full = [split EXCEPT !.header = p[1]]
        BY <3>5a, <4>1
      <4> HIDE DEF split, full
      <4>3. /\ Members([split EXCEPT !.header = p[1]], front, more, p[1])
            /\ [split EXCEPT !.header = p[1]].total_sz = split.total_sz
        BY <3>5, MemberChanged
      <4> QED BY <3>5, <4>2, <4>3
    <3> HIDE DEF split, full
    <3>7. refusal = 0
      <4>1. Len(<<p[1]>>) = 1 /\ <<p[1]>>[1] = p[1]
        OBVIOUS
      <4> QED BY <1>1, <3>5a, <4>1 DEF Refusal
    <3> HIDE DEF refusal
    <3>8. next.outcome = NoPacket /\ next.reader = full
      BY <3>1, <3>7
    <3>9. Holds(full, p, j)
      BY <2>5, <3>3, <3>4, <3>6 DEF Holds, more
    <3> QED BY <3>6, <3>8, <3>9 DEF next, s, p
  <2> QED BY <2>4, <2>5
<1> QED BY <1>4, <1>5

(* A piece that follows what a reader was given is read as that: more of   *)
(* the packet, or all of it, if it is not refused.                         *)
LEMMA PieceRead ==
  ASSUME NEW code, NEW content, IsText(content), NEW k \in Nat, NEW j \in Nat,
         k < j, j <= Len(dump(code, Closes, content)), NEW max \in Nat, NEW ver_level \in Levels, NEW r,
         Given(r, dump(code, Closes, content), k)
  PROVE  LET p == dump(code, Closes, content)
             read == read_packet(r, SubSeq(p, k + 1, j), max, ver_level)
         IN  \/ read.outcome = Error(413) /\ TooLarge(content, max)
             \/ /\ read.outcome.is = "incomplete" /\ j < Len(p)
                /\ Given(read.reader, p, j)
             \/ j = Len(p) /\ read.outcome = Packet(p[1], content)
<1> DEFINE p == dump(code, Closes, content)
           s == SubSeq(p, k + 1, j)
           read == read_packet(r, s, max, ver_level)
           sized == check_sz(r, Len(s), max)
           q == sized.reader
           next == IF q.header = NoHeader THEN read_header(q, s, ver_level)
                   ELSE [reader |-> [q EXCEPT !.content_cache = @ \o s], outcome |-> NoPacket]
<1>1. /\ IsText(p) /\ Len(p) = Len(content) + 3 /\ Len(content) \in Nat /\ p[1].is = "head"
      /\ SubSeq(p, 4, Len(p)) = content /\ content_length(p[1].options) = Len(content)
  BY PacketIs
<1>2. j <= Len(p) /\ Given(r, p, k)
  OBVIOUS
<1>3. ~ r.constructed
  BY <1>2, MembersAre DEF Given, Holds
<1>4. q = r \/ (max # 0 /\ q = [r EXCEPT !.total_sz = r.total_sz + Len(s)])
  BY DEF check_sz
<1>5. Len(s) = j - k
  <2>1. k + 1 \in 1 .. Len(p) + 1 /\ j \in (k + 1) - 1 .. Len(p) /\ j - (k + 1) + 1 = j - k
    BY <1>1, <1>2
  <2> QED BY <1>1, <2>1, PartOf
<1>5a. Holds(q, p, k) /\ q.total_sz \in 0 .. j
  <2>1. CASE q = r
    BY <1>2, <2>1 DEF Given
  <2>2. CASE q # r
    <3> DEFINE t == r.total_sz + Len(s)
    <3>1. t \in 0 .. j
      BY <1>2, <1>5 DEF Given
    <3>2. ASSUME NEW a, NEW b, NEW c, Members(r, a, b, c)
          PROVE  Members(q, a, b, c) /\ q.total_sz = t
      <4>1. Members([r EXCEPT !.total_sz = t], a, b, c) /\ [r EXCEPT !.total_sz = t].total_sz = t
        <5> HIDE DEF t
        <5> QED BY <3>2, MemberChanged
      <4>2. q = [r EXCEPT !.total_sz = t]
        BY <1>4, <2>2
      <4> HIDE DEF q, t
      <4> QED BY <4>1, <4>2
    <3> HIDE DEF q, p, t
    <3> QED BY <1>2, <3>1, <3>2 DEF Given, Holds
  <2> QED BY <2>1, <2>2
<1>6. s # <<>>
  <2>1. j - k # 0
    OBVIOUS
  <2>2. Len(<<>>) = 0
    OBVIOUS
  <2> HIDE DEF s
  <2> QED BY <1>5, <2>1, <2>2
<1>6a. ~sized.fits => TooLarge(content, max)
  <2> SUFFICES ASSUME ~sized.fits PROVE 3 + Len(content) >= max /\ max # 0
    BY DEF TooLarge
  <2> DEFINE announced == IF r.header = NoHeader THEN 0
                          ELSE content_length(r.header.options) + Len(r.header_cache)
             total == r.total_sz + Len(s)
  <2>1. max # 0 /\ (announced >= max \/ ~ (total < max))
    BY DEF check_sz
  <2>2. announced \in {0, Len(content) + 1}
    <3>1. CASE k < 3
      <4>1. r.header = NoHeader
        BY <1>2, <3>1, MembersAre DEF Given, Holds
      <4> QED BY <4>1
    <3>2. CASE ~ (k < 3)
      <4>1. r.header = p[1] /\ r.header_cache = <<p[1]>>
        BY <1>2, <3>2, MembersAre DEF Given, Holds
      <4>2. Len(<<p[1]>>) = 1
        OBVIOUS
      <4> QED BY <1>1, <4>1, <4>2
    <3> QED BY <3>1, <3>2
  <2>3. total \in 0 .. Len(content) + 3
    BY <1>1, <1>2, <1>5 DEF Given
  <2> HIDE DEF announced, total
  <2> QED BY <1>1, <2>1, <2>2, <2>3
<1>7. read = IF ~sized.fits THEN [reader |-> q, outcome |-> Request_too_large]
             ELSE IF q.header = NoHeader /\ s = <<>>
             THEN [reader |-> q, outcome |-> Malformed_packet]
             ELSE IF next.reader.header # NoHeader /\ ready(next.reader)
             THEN complete(next.reader)
             ELSE next
  BY <1>3 DEF read_packet
<1>8. next.outcome = NoPacket /\ Given(next.reader, p, j)
  <2> HIDE DEF q
  <2>1. Holds(q, dump(code, Closes, content), k) /\ j <= Len(dump(code, Closes, content))
    BY <1>2, <1>5a
  <2>2. /\ Storing(q, s, ver_level).outcome = NoPacket
        /\ Holds(Storing(q, s, ver_level).reader, p, j)
        /\ Storing(q, s, ver_level).reader.total_sz = q.total_sz
    BY <2>1, Stored
  <2>3. next = Storing(q, s, ver_level)
    BY DEF Storing
  <2> HIDE DEF next, p
  <2> QED BY <1>5a, <2>2, <2>3 DEF Given
<1> HIDE DEF p, s, read, q, next
<1>9. CASE ~sized.fits
  <2>1. read.outcome = Error(413)
    BY <1>7, <1>9 DEF Request_too_large
  <2> QED BY <1>6a, <1>9, <2>1 DEF read, s, p
<1>10. CASE sized.fits /\ next.reader.header = NoHeader
  <2>1. read = next
    BY <1>6, <1>7, <1>10
  <2>2. j < 3
    <3> SUFFICES ASSUME ~ (j < 3) PROVE FALSE
      OBVIOUS
    <3>1. next.reader.header = p[1]
      BY <1>8, MembersAre DEF Given, Holds
    <3> QED BY <1>1, <1>10, <3>1 DEF NoHeader
  <2> QED BY <1>1, <1>2, <1>8, <2>1, <2>2 DEF NoPacket, read, s, p
<1>11. CASE sized.fits /\ next.reader.header # NoHeader
  <2> DEFINE n == next.reader
  <2>1. next.outcome = NoPacket /\ Given(n, p, j)
    BY <1>8, <1>11
  <2>2. ~ (j < 3)
    BY <1>11, <2>1, MembersAre DEF Given, Holds
  <2>3. n.header = p[1] /\ n.content_cache = SubSeq(p, 4, j)
    <3>1. Members(n, <<p[1]>>, SubSeq(p, 4, j), p[1])
      BY <2>1, <2>2 DEF Given, Holds
    <3> HIDE DEF n
    <3> QED BY <3>1, MembersAre
  <2>4. Len(n.content_cache) = j - 3
    <3>1. 4 \in 1 .. Len(p) + 1 /\ j \in 4 - 1 .. Len(p) /\ j - 4 + 1 = j - 3
      BY <1>1, <1>2, <2>2
    <3> QED BY <1>1, <2>3, <3>1, PartOf
  <2>5. ready(n) <=> j = Len(p)
    BY <1>1, <1>2, <2>2, <2>3, <2>4 DEF ready
  <2>6. CASE ready(n)
    <3>1. read = complete(n)
      BY <1>6, <1>7, <1>11, <2>6
    <3>2. n.content_cache = content /\ content_length(n.header.options) = Len(content)
      BY <1>1, <2>3, <2>5, <2>6
    <3>3. read.outcome = Packet(p[1], SubSeq(content, 1, Len(content)))
      BY <2>3, <3>1, <3>2 DEF complete
    <3>4. read.outcome = Packet(p[1], content)
      BY <3>3, WholeText
    <3> QED BY <2>5, <2>6, <3>4 DEF read, s, p
  <2>7. CASE ~ ready(n)
    <3>1. read = next
      BY <1>6, <1>7, <1>11, <2>7
    <3>2. j < Len(p)
      BY <1>1, <1>2, <2>5, <2>7
    <3> QED BY <2>1, <3>1, <3>2 DEF NoPacket, read, s, p
  <2> QED BY <2>6, <2>7
<1> QED BY <1>9, <1>10, <1>11

(* A reader that has the first m records of a packet is given the next.    *)
LEMMA RecordRead ==
  ASSUME NEW code, NEW content, IsText(content), NEW m, NEW r,
         At(r, dump(code, Closes, content), m), NEW max \in Nat, NEW ver_level \in Levels
  PROVE  LET p == dump(code, Closes, content)
             read == read_packet(r, Records(p)[m + 1].text, max, ver_level)
         IN  \/ read.outcome = Error(413) /\ TooLarge(content, max)
             \/ read.outcome.is = "incomplete" /\ At(read.reader, p, m + 1)
             \/ read.outcome = Packet(p[1], content) /\ m + 1 = Number(p)
<1> DEFINE p == dump(code, Closes, content)
           k == Cut(p, m)
           j == Cut(p, m + 1)
           read == read_packet(r, Records(p)[m + 1].text, max, ver_level)
<1>1. IsText(p)
  BY PacketIs
<1>2. /\ Number(p) \in Nat /\ Cut(p, Number(p)) = Len(p)
      /\ \A i \in 0 .. Number(p) : Cut(p, i) \in 0 .. Len(p)
      /\ \A i \in 1 .. Number(p) :
           /\ Cut(p, i - 1) < Cut(p, i)
           /\ Records(p)[i] = Data(SubSeq(p, Cut(p, i - 1) + 1, Cut(p, i)))
  BY <1>1, RecordsOf
<1>3. m \in 0 .. Number(p) - 1 /\ Given(r, p, k)
  BY DEF At
<1>4. m + 1 \in 1 .. Number(p) /\ (m + 1) - 1 = m /\ m \in 0 .. Number(p) /\ m + 1 \in 0 .. Number(p)
  BY <1>2, <1>3
<1>5. Len(p) \in Nat
  BY <1>1, TextIs
<1>6. k \in Nat /\ j \in Nat /\ k < j /\ j <= Len(p)
  <2>1. k \in 0 .. Len(p) /\ j \in 0 .. Len(p)
    BY <1>2, <1>4
  <2>2. Cut(p, (m + 1) - 1) < j
    BY <1>2, <1>4
  <2>3. k < j
    BY <1>4, <2>2
  <2> QED BY <1>5, <2>1, <2>3
<1>7. Records(p)[m + 1].text = SubSeq(p, k + 1, j)
  <2>1. Records(p)[m + 1] = Data(SubSeq(p, Cut(p, (m + 1) - 1) + 1, j))
    BY <1>2, <1>4
  <2> DEFINE t == SubSeq(p, k + 1, j)
  <2>2. Records(p)[m + 1] = Data(t)
    BY <1>4, <2>1
  <2>3. Data(t).text = t
    <3> HIDE DEF t
    <3> QED BY DEF Data
  <2> QED BY <2>2, <2>3
<1>8. read = read_packet(r, SubSeq(p, k + 1, j), max, ver_level)
  BY <1>7
<1> HIDE DEF read, k, j
<1>9. \/ read.outcome = Error(413) /\ TooLarge(content, max)
      \/ read.outcome.is = "incomplete" /\ j < Len(p) /\ Given(read.reader, p, j)
      \/ read.outcome = Packet(p[1], content) /\ j = Len(p)
  BY <1>3, <1>6, <1>8, PieceRead
<1>10. j < Len(p) => m + 1 \in 0 .. Number(p) - 1
  <2> SUFFICES ASSUME j < Len(p) PROVE m + 1 # Number(p)
    BY <1>2, <1>4
  <2>1. m + 1 = Number(p) => j = Len(p)
    BY <1>2 DEF j
  <2> QED BY <1>5, <1>6, <2>1
<1>11. j = Len(p) => m + 1 = Number(p)
  <2> SUFFICES ASSUME j = Len(p), m + 1 # Number(p) PROVE FALSE
    OBVIOUS
  <2> DEFINE i == m + 2
  <2>1. i \in 1 .. Number(p) /\ i \in 0 .. Number(p) /\ i - 1 = m + 1
    BY <1>2, <1>4
  <2> HIDE DEF i, p
  <2>2. Cut(p, i - 1) < Cut(p, i) /\ Cut(p, i) \in 0 .. Len(p)
    BY <1>2, <2>1
  <2>3. j = Cut(p, i - 1)
    BY <2>1 DEF j
  <2> QED BY <1>5, <1>6, <2>2, <2>3
<1> QED BY <1>9, <1>10, <1>11 DEF At, read, j

LEMMA NothingRead ==
  ASSUME NEW code, NEW content, IsText(content)
  PROVE  /\ At(NewReader, dump(code, Closes, content), 0)
         /\ Number(dump(code, Closes, content)) \in Nat \ {0}
<1> DEFINE p == dump(code, Closes, content)
<1>1. IsText(p) /\ Len(p) \in Nat /\ Len(p) # 0
  BY PacketIs
<1>2. Number(p) \in Nat /\ Number(p) # 0 /\ Cut(p, 0) = 0
  BY <1>1, RecordsOf
<1> HIDE DEF p
<1>3. SubSeq(p, 1, 0) = <<>>
  <2>1. 1 \in 1 .. Len(p) + 1 /\ 0 \in 1 - 1 .. Len(p) /\ 0 - 1 + 1 = 0
    BY <1>1
  <2>2. SubSeq(p, 1, 0) \in Seq(Range(p)) /\ Len(SubSeq(p, 1, 0)) = 0
    BY <1>1, <2>1, PartOf
  <2> QED BY <2>2, EmptySeq
<1>4. Given(NewReader, p, 0)
  BY <1>3 DEF Given, Holds, Members, NewReader
<1>5. 0 \in 0 .. Number(p) - 1
  BY <1>2
<1> QED BY <1>2, <1>4, <1>5 DEF At, p

-----------------------------------------------------------------------------
(* The handshake. *)

LEMMA OneRecord ==
  ASSUME NEW e
  PROVE  /\ Append(<<>>, e) = <<e>> /\ <<e>> # <<>> /\ Head(<<e>>) = e /\ Tail(<<e>>) = <<>>
         /\ Len(<<>>) # Room
<1>1. Len(<<>>) = 0 /\ Room # 0
  BY TlsAssumption
<1> QED BY <1>1

(* Whose a flight is. *)
LEMMA Turns ==
  ASSUME NEW ssl
  PROVE  /\ ssl.role = "server" => /\ ~ Mine(ssl, 1) /\ Mine(ssl, 2) /\ ~ Mine(ssl, 3) /\ Mine(ssl, 4)
                                   /\ \A n \in Nat : ~ Mine(ssl, n) => n # Flights
         /\ ssl.role = "client" => Mine(ssl, 1) /\ ~ Mine(ssl, 2) /\ Mine(ssl, 3) /\ ~ Mine(ssl, 4)
<1>1. 1 % 2 = 1 /\ 2 % 2 = 0 /\ 3 % 2 = 1 /\ 4 % 2 = 0
  OBVIOUS
<1> QED BY <1>1 DEF Mine, Flights

LEMMA ServerShaking ==
  ASSUME NEW ssl, NEW in, NEW out, NEW peer, IsEnd(ssl, in, out, peer), ssl.role = "server",
         NEW o \in Handshake(End(ssl, in, out, peer))
  PROVE  /\ o.end.ssl.unsent = ssl.unsent
         /\ ~ peer => o.what # "ok"
         /\ \A mine : peer /\ Greeting(mine, ssl.flights, in, out) =>
              \/ o.what = "need_read" /\ Greeting(mine, o.end.ssl.flights, o.end.in, o.end.out)
              \/ o.what = "ok" /\ mine = 3 /\ o.end.in = <<>> /\ o.end.out = <<Flight(4)>>
<1> DEFINE n == ssl.flights + 1
           new == [ssl EXCEPT !.flights = n]
           rest == Tail(in)
           end(s, i) == End(s, i, out, peer)
<1>1. \A s, i : end(s, i).ssl = s /\ end(s, i).in = i /\ end(s, i).out = out
  BY DEF End
<1>2. /\ n \in Nat
      /\ Mine(ssl, n) => o \in SendFlight(End(ssl, in, out, peer), n)
      /\ ~ Mine(ssl, n) /\ in = <<>> =>
           /\ o.end = end(ssl, in)
           /\ peer => o.what = "need_read"
           /\ ~ peer => o.what \in {"connection_close", "network_error"}
      /\ ~ Mine(ssl, n) /\ in # <<>> /\ Head(in) = Reset =>
           o.end = end(ssl, in) /\ o.what = "network_error" /\ ~ peer
      /\ ~ Mine(ssl, n) /\ in # <<>> /\ Head(in) # Reset =>
           /\ IsEnd(new, rest, out, peer) /\ new.flights = n /\ new.unsent = ssl.unsent
           /\ n # Flights => o \in SendFlight(End(new, rest, out, peer), n + 1)
  BY ShakeOutcome
<1>3. ~ Mine(ssl, n) => n # Flights
  BY <1>2, Turns
<1> HIDE DEF n, new, rest, end
<1>4. CASE Mine(ssl, n)
  <2>1. /\ o.end.ssl.unsent = ssl.unsent
        /\ ~ peer => o.what \in {"need_read", "network_error"}
    BY <1>2, <1>4, SendOutcome
  <2>2. ASSUME NEW mine, Greeting(mine, ssl.flights, in, out) PROVE FALSE
    <3>1. ssl.flights \in {0, 2}
      BY <2>2 DEF Greeting
    <3>2. n = 1 \/ n = 3
      BY <3>1 DEF n
    <3> QED BY <1>4, <3>2, Turns
  <2> QED BY <2>1, <2>2
<1>5. CASE ~ Mine(ssl, n) /\ in = <<>>
  <2>1. o.end.ssl = ssl /\ o.end.in = in /\ o.end.out = out
    BY <1>1, <1>2, <1>5
  <2> QED BY <1>2, <1>5, <2>1
<1>6. CASE ~ Mine(ssl, n) /\ in # <<>> /\ Head(in) = Reset
  <2>1. o.end.ssl = ssl /\ o.what = "network_error" /\ ~ peer
    BY <1>1, <1>2, <1>6
  <2> QED BY <2>1
<1>7. CASE ~ Mine(ssl, n) /\ in # <<>> /\ Head(in) # Reset
  <2>1. /\ IsEnd(new, rest, out, peer) /\ new.flights = n /\ new.unsent = ssl.unsent
        /\ n + 1 \in Nat /\ o \in SendFlight(End(new, rest, out, peer), n + 1)
    BY <1>2, <1>3, <1>7
  <2>2. /\ o.end.ssl.unsent = new.unsent
        /\ ~ peer => o.what \in {"need_read", "network_error"}
        /\ peer /\ Len(out) # Room =>
             /\ o.end.ssl.flights = n + 1 /\ o.end.in = rest
             /\ o.end.out = Append(out, Flight(n + 1))
             /\ o.what = IF n + 1 = Flights THEN "ok" ELSE "need_read"
    <3> DEFINE k == n + 1
    <3>1. k \in Nat /\ o \in SendFlight(End(new, rest, out, peer), k)
      BY <2>1
    <3> HIDE DEF k
    <3>2. /\ o.end.ssl.unsent = new.unsent /\ (o.what = "network_error" => o.end.out = out)
          /\ ~ peer => o.what \in {"need_read", "network_error"}
          /\ peer /\ Len(out) # Room =>
               /\ o.end.ssl.flights = k /\ o.end.in = rest /\ o.end.out = Append(out, Flight(k))
               /\ o.what = IF k = Flights THEN "ok" ELSE "need_read"
      BY <2>1, <3>1, SendOutcome
    <3> QED BY <3>2 DEF k
  <2>3. ASSUME NEW mine, peer, Greeting(mine, ssl.flights, in, out)
        PROVE  \/ o.what = "need_read" /\ Greeting(mine, o.end.ssl.flights, o.end.in, o.end.out)
               \/ o.what = "ok" /\ mine = 3 /\ o.end.in = <<>> /\ o.end.out = <<Flight(4)>>
    <3>1. \/ mine = 1 /\ ssl.flights = 0 /\ in = <<Flight(1)>> /\ out = <<>>
          \/ mine = 3 /\ ssl.flights = 2 /\ in = <<Flight(3)>> /\ out = <<>>
      BY <1>7, <2>3 DEF Greeting
    <3>2. rest = <<>> /\ Append(out, Flight(n + 1)) = <<Flight(n + 1)>> /\ Len(out) # Room
      BY <3>1, OneRecord DEF rest
    <3>3. /\ o.end.ssl.flights = n + 1 /\ o.end.in = <<>> /\ o.end.out = <<Flight(n + 1)>>
          /\ o.what = IF n + 1 = Flights THEN "ok" ELSE "need_read"
      BY <2>2, <2>3, <3>2
    <3>4. CASE mine = 1 /\ ssl.flights = 0
      <4>1. n + 1 = 2 /\ n + 1 # Flights
        BY <3>4 DEF n, Flights
      <4> QED BY <3>3, <3>4, <4>1 DEF Greeting
    <3>5. CASE mine = 3 /\ ssl.flights = 2
      <4>1. n + 1 = 4 /\ n + 1 = Flights
        BY <3>5 DEF n, Flights
      <4> QED BY <3>3, <3>5, <4>1
    <3> QED BY <3>1, <3>4, <3>5
  <2> QED BY <2>1, <2>2, <2>3
<1> QED BY <1>4, <1>5, <1>6, <1>7

LEMMA ServerShakes ==
  ASSUME NEW ssl, NEW in, NEW out, NEW peer, IsEnd(ssl, in, out, peer), ssl.role = "server",
         NEW o \in Handshake(End(ssl, in, out, peer))
  PROVE  o.end.ssl.unsent = ssl.unsent /\ (~ peer => o.what # "ok")
  BY ServerShaking

LEMMA ServerGreets ==
  ASSUME NEW ssl, NEW in, NEW out, IsEnd(ssl, in, out, TRUE), ssl.role = "server",
         NEW o \in Handshake(End(ssl, in, out, TRUE)),
         NEW mine, Greeting(mine, ssl.flights, in, out)
  PROVE  \/ o.what = "need_read" /\ Greeting(mine, o.end.ssl.flights, o.end.in, o.end.out)
         \/ o.what = "ok" /\ mine = 3 /\ o.end.in = <<>> /\ o.end.out = <<Flight(4)>>
  BY ServerShaking

LEMMA ClientShaking ==
  ASSUME NEW ssl, NEW in, NEW out, NEW peer, IsEnd(ssl, in, out, peer), ssl.role = "client",
         NEW o \in Handshake(End(ssl, in, out, peer))
  PROVE  /\ o.end.ssl.unsent = ssl.unsent
         /\ o.what = "network_error" => o.end.out = out
         /\ \A theirs : peer /\ Greeting(ssl.flights, theirs, out, in) =>
              o.what = "need_read" /\ Greeting(o.end.ssl.flights, theirs, o.end.out, o.end.in)
         /\ peer /\ ssl.flights = 3 /\ in = <<Flight(4)>> =>
              o.what = "ok" /\ o.end.in = <<>> /\ o.end.out = out
<1> DEFINE n == ssl.flights + 1
           new == [ssl EXCEPT !.flights = n]
           rest == Tail(in)
           end(s, i) == End(s, i, out, peer)
<1>1. \A s, i : end(s, i).ssl = s /\ end(s, i).in = i /\ end(s, i).out = out
  BY DEF End
<1>2. /\ n \in Nat
      /\ Mine(ssl, n) => o \in SendFlight(End(ssl, in, out, peer), n)
      /\ ~ Mine(ssl, n) /\ in = <<>> =>
           /\ o.end = end(ssl, in)
           /\ peer => o.what = "need_read"
      /\ ~ Mine(ssl, n) /\ in # <<>> /\ Head(in) = Reset =>
           o.end = end(ssl, in) /\ o.what = "network_error" /\ ~ peer
      /\ ~ Mine(ssl, n) /\ in # <<>> /\ Head(in) # Reset =>
           /\ IsEnd(new, rest, out, peer) /\ new.flights = n /\ new.unsent = ssl.unsent
           /\ n = Flights => o.end = end(new, rest) /\ o.what = "ok"
           /\ n # Flights => o \in SendFlight(End(new, rest, out, peer), n + 1)
  BY ShakeOutcome
<1> HIDE DEF new, rest, end
<1>3. n \in Nat /\ n = ssl.flights + 1
  BY <1>2
<1> HIDE DEF n
<1>4. CASE Mine(ssl, n)
  <2>1. /\ o.end.ssl.unsent = ssl.unsent /\ (o.what = "network_error" => o.end.out = out)
        /\ peer /\ Len(out) # Room =>
             /\ o.end.ssl.flights = n /\ o.end.in = in /\ o.end.out = Append(out, Flight(n))
             /\ o.what = IF n = Flights THEN "ok" ELSE "need_read"
    BY <1>2, <1>4, SendOutcome
  <2>2. ASSUME NEW theirs, peer, Greeting(ssl.flights, theirs, out, in)
        PROVE  o.what = "need_read" /\ Greeting(o.end.ssl.flights, theirs, o.end.out, o.end.in)
    <3>1. ssl.flights = 0
      <4>1. ssl.flights \in {0, 1, 3}
        BY <2>2 DEF Greeting
      <4>2. n = 2 \/ n = 4 \/ ssl.flights = 0
        BY <1>3, <4>1
      <4> QED BY <1>4, <4>2, Turns
    <3>2. theirs = 0 /\ out = <<>> /\ in = <<>> /\ n = 1 /\ n # Flights
      BY <1>3, <2>2, <3>1 DEF Greeting, Flights
    <3>3. Append(out, Flight(n)) = <<Flight(1)>> /\ Len(out) # Room
      BY <3>2, OneRecord
    <3> QED BY <2>1, <2>2, <3>2, <3>3 DEF Greeting
  <2>3. ssl.flights # 3
    <3>1. ~ Mine(ssl, 4)
      BY Turns
    <3> QED BY <1>3, <1>4, <3>1
  <2> QED BY <2>1, <2>2, <2>3
<1>5. CASE ~ Mine(ssl, n) /\ in = <<>>
  <2>1. o.end.ssl = ssl /\ o.end.in = in /\ o.end.out = out
    BY <1>1, <1>2, <1>5
  <2>2. in # <<Flight(4)>>
    BY <1>5, OneRecord
  <2> QED BY <1>2, <1>5, <2>1, <2>2
<1>6. CASE ~ Mine(ssl, n) /\ in # <<>> /\ Head(in) = Reset
  <2>1. o.end.ssl = ssl /\ o.end.out = out /\ ~ peer
    BY <1>1, <1>2, <1>6
  <2> QED BY <2>1
<1>7. CASE ~ Mine(ssl, n) /\ in # <<>> /\ Head(in) # Reset /\ n = Flights
  <2>1. o.end.ssl = new /\ o.end.in = rest /\ o.end.out = out /\ new.unsent = ssl.unsent
        /\ o.what = "ok"
    BY <1>1, <1>2, <1>7
  <2>2. ASSUME NEW theirs, Greeting(ssl.flights, theirs, out, in) PROVE FALSE
    <3>1. ssl.flights = 3
      <4>1. ssl.flights \in {0, 1, 3}
        BY <2>2 DEF Greeting
      <4> QED BY <1>3, <1>7, <4>1 DEF Flights
    <3> QED BY <1>7, <2>2, <3>1 DEF Greeting
  <2>3. in = <<Flight(4)>> => rest = <<>>
    BY OneRecord DEF rest
  <2> QED BY <2>1, <2>2, <2>3
<1>8. CASE ~ Mine(ssl, n) /\ in # <<>> /\ Head(in) # Reset /\ n # Flights
  <2>1. /\ IsEnd(new, rest, out, peer) /\ new.flights = n /\ new.unsent = ssl.unsent
        /\ n + 1 \in Nat /\ o \in SendFlight(End(new, rest, out, peer), n + 1)
    BY <1>2, <1>8
  <2>2. /\ o.end.ssl.unsent = new.unsent /\ (o.what = "network_error" => o.end.out = out)
        /\ peer /\ Len(out) # Room =>
             /\ o.end.ssl.flights = n + 1 /\ o.end.in = rest
             /\ o.end.out = Append(out, Flight(n + 1))
             /\ o.what = IF n + 1 = Flights THEN "ok" ELSE "need_read"
    <3> DEFINE k == n + 1
    <3>1. k \in Nat /\ o \in SendFlight(End(new, rest, out, peer), k)
      BY <2>1
    <3> HIDE DEF k
    <3>2. /\ o.end.ssl.unsent = new.unsent /\ (o.what = "network_error" => o.end.out = out)
          /\ ~ peer => o.what \in {"need_read", "network_error"}
          /\ peer /\ Len(out) # Room =>
               /\ o.end.ssl.flights = k /\ o.end.in = rest /\ o.end.out = Append(out, Flight(k))
               /\ o.what = IF k = Flights THEN "ok" ELSE "need_read"
      BY <2>1, <3>1, SendOutcome
    <3> QED BY <3>2 DEF k
  <2>3. ASSUME NEW theirs, peer, Greeting(ssl.flights, theirs, out, in)
        PROVE  o.what = "need_read" /\ Greeting(o.end.ssl.flights, theirs, o.end.out, o.end.in)
    <3>1. ssl.flights = 1 /\ theirs = 2 /\ in = <<Flight(2)>> /\ out = <<>>
      BY <1>8, <2>3 DEF Greeting
    <3>2. n + 1 = 3 /\ n + 1 # Flights
      BY <1>3, <3>1 DEF Flights
    <3>3. rest = <<>> /\ Append(out, Flight(n + 1)) = <<Flight(3)>> /\ Len(out) # Room
      BY <3>1, <3>2, OneRecord DEF rest
    <3> QED BY <2>2, <2>3, <3>1, <3>2, <3>3 DEF Greeting
  <2>4. ssl.flights # 3
    BY <1>3, <1>8 DEF Flights
  <2> QED BY <2>1, <2>2, <2>3, <2>4
<1> QED BY <1>4, <1>5, <1>6, <1>7, <1>8

-----------------------------------------------------------------------------
(* A write that goes on. *)

LEMMA WriteSent ==
  ASSUME NEW ssl, NEW in, NEW out, NEW peer, IsEnd(ssl, in, out, peer), peer,
         NEW text, IsText(text), NEW buf,
         NEW o \in SSL_write(End(ssl, in, out, peer), text, buf), o.what \in {"ok", "need_write"}
  PROVE  \E f : Sends(o, in, out, Rest(ssl, text), f)
  BY WriteOutcome

(* A write that had sent k records of a text sends f more. *)
Onward(rest, text, k, f) ==
  /\ k + f \in k .. Number(text) /\ k \in Nat
  /\ SubSeq(rest, 1, f) = SubSeq(Records(text), k + 1, k + f)
  /\ SubSeq(rest, f + 1, Len(rest)) = SubSeq(Records(text), k + f + 1, Number(text))
  /\ f = Len(rest) <=> k + f = Number(text)
  /\ f # Len(rest) => SubSeq(rest, f + 1, Len(rest)) # <<>>

LEMMA WriteGoesOn ==
  ASSUME NEW c, NEW text, IsText(text), NEW k, Writes(c, text, k),
         NEW f \in 0 .. Len(Rest(c.ssl, text))
  PROVE  Onward(Rest(c.ssl, text), text, k, f)
<1> DEFINE R == Records(text)
           n == Number(text)
           rest == Rest(c.ssl, text)
<1>1. n \in Nat /\ IsText(R) /\ Len(R) = n
  BY RecordsOf DEF Number
<1>2. k \in 0 .. n - 1 /\ rest = SubSeq(R, k + 1, Len(R))
  BY <1>1 DEF Writes
<1> HIDE DEF R, n, rest
<1>3. IsText(rest) /\ Len(rest) = n - k
  <2>1. 0 \in 0 .. Len(R) - k /\ k \in 0 .. Len(R)
    BY <1>1, <1>2
  <2> QED BY <1>1, <1>2, <2>1, PartsOfTail
<1>4. f \in 0 .. n - k
  BY <1>3 DEF rest
<1>5. /\ SubSeq(rest, 1, f) = SubSeq(R, k + 1, k + f)
      /\ SubSeq(rest, f + 1, Len(rest)) = SubSeq(R, k + f + 1, n)
  <2>1. k \in 0 .. Len(R) /\ f \in 0 .. Len(R) - k
    BY <1>1, <1>2, <1>4
  <2> QED BY <1>1, <1>2, <2>1, PartsOfTail
<1>6. k + f \in k .. n /\ k \in Nat /\ (f = Len(rest) <=> k + f = n)
  BY <1>1, <1>2, <1>3, <1>4
<1>7. ASSUME f # Len(rest) PROVE SubSeq(rest, f + 1, Len(rest)) # <<>>
  <2>1. Len(rest) \in Nat /\ f + 1 \in 1 .. Len(rest) + 1 /\ Len(rest) \in (f + 1) - 1 .. Len(rest)
        /\ Len(rest) - (f + 1) + 1 # 0
    BY <1>1, <1>2, <1>3, <1>4, <1>7
  <2>2. Len(SubSeq(rest, f + 1, Len(rest))) = Len(rest) - (f + 1) + 1
    BY <1>3, <2>1, PartOf
  <2> QED BY <2>1, <2>2, EmptyText
<1> QED BY <1>5, <1>6, <1>7 DEF Onward, R, n, rest

-----------------------------------------------------------------------------
(* A call of the server's handler, and what it leaves of the exchange. *)

Served(s, ts, tc, peer, r) ==
  /\ IsServer(s) /\ s.open /\ s.executing = {} /\ s.ssl.ssl.role = "server"
  /\ s.ssl.state \in {"ACCEPTING", "READING", "WRITING", "SHUTDOWN"}
  /\ ~ s.ssl.ssl.sent_shutdown /\ Heard(s.ssl)
  /\ peer \in BOOLEAN /\ IsEnd(s.ssl.ssl, ts, tc, peer)
  /\ r \in switch_state(s.ssl, ts, tc, peer)

LEMMA Stages ==
  ASSUME NEW s
  PROVE  /\ ~ s.open => Stage(s) = "ended"
         /\ s.open /\ s.executing # {} => Stage(s) = "executes"
         /\ s.open /\ s.executing = {} =>
              /\ s.ssl.state = "ACCEPTING" => Stage(s) = "accepts"
              /\ s.ssl.state = "READING" => Stage(s) = "reads"
              /\ s.ssl.state = "WRITING" => Stage(s) = "writes"
              /\ s.ssl.state \in {"SHUTDOWN", "EMPTY"} => Stage(s) = "ended"
  BY DEF Stage

(* What the handler says tells what OpenSSL did. *)
LEMMA Told ==
  ASSUME NEW c, IsConnection(c), NEW in, NEW out, NEW peer, IsEnd(c.ssl, in, out, peer),
         NEW r \in switch_state(c, in, out, peer)
  PROVE  \E o \in Call(c, End(c.ssl, in, out, peer)) :
           /\ Switched(r, c, o)
           /\ r.what = "again" => o.what \in {"need_read", "need_write", "connection_close"}
           /\ r.what \in {"network_error", "exception"} => o.what = r.what
           /\ r.what \in {"accept_succeed", "connect_succeed", "recv_succeed", "send_succeed",
                          "terminate"} => o.what = "ok" /\ r.what = Success(c.state)
           /\ r.what \in {"again", "network_error", "exception", "terminate", "accept_succeed",
                          "connect_succeed", "recv_succeed", "send_succeed"}
<1>1. PICK o \in Call(c, End(c.ssl, in, out, peer)) : Switched(r, c, o)
  BY Switching
<1>2. o.what \in {"ok", "need_read", "need_write", "connection_close", "network_error", "exception"}
  BY Calling
<1>3. Success(c.state) \in {"terminate", "accept_succeed", "connect_succeed", "recv_succeed",
                            "send_succeed"}
  BY DEF Success
<1> QED BY <1>1, <1>2, <1>3 DEF Switched

LEMMA Successes ==
  /\ Success("ACCEPTING") = "accept_succeed" /\ Success("CONNECTING") = "connect_succeed"
  /\ Success("READING") = "recv_succeed" /\ Success("WRITING") = "send_succeed"
  /\ Success("SHUTDOWN") = "terminate" /\ Success("EMPTY") = "terminate"
  BY DEF Success

LEMMA PacketIsText ==
  ASSUME NEW req \in Requests
  PROVE  IsText(RequestContent(req)) /\ IsText(PacketOf(req))
<1>1. IsText(RequestContent(req))
  BY ContentsAssumption
<1> QED BY <1>1, PacketIs DEF PacketOf

LEMMA AcceptsOn ==
  ASSUME NEW req \in Requests, NEW s, NEW ts, NEW tc, NEW act \in BOOLEAN, NEW gone, NEW cl, NEW runs,
         NEW peer, gone <=> ~ peer, NEW r, Served(s, ts, tc, peer, r), s.ssl.state = "ACCEPTING",
         Exchange(req, s, ts, tc, act, gone, cl, runs)
  PROVE  /\ r.what \in {"again", "accept_succeed"} \/ ~ act
         /\ \A new : new.open /\ new.executing = {} /\ new.preader = s.preader
              /\ new.keep_alive = s.keep_alive /\ new.ssl.ssl = r.conn.ssl
              /\ \/ r.what = "again" /\ new.ssl.state = r.conn.state
                 \/ r.what = "accept_succeed" /\ new.ssl.state = "READING"
              => Exchange(req, new, r.in, r.out, act, gone, cl, runs)
<1> DEFINE c == s.ssl
           end == End(c.ssl, ts, tc, peer)
<1>1. IsConnection(c) /\ IsEnd(c.ssl, ts, tc, peer) /\ c.ssl.role = "server"
      /\ peer \in BOOLEAN /\ r \in switch_state(c, ts, tc, peer)
  BY DEF Served, IsServer
<1>2. Stage(s) = "accepts" /\ Accepting(s, ts, tc, act, cl) /\ (act \/ gone) /\ (act => ~ gone)
      /\ s.keep_alive = FALSE /\ (act => cl.out_str = PacketOf(req))
  BY Stages DEF Served, Exchange
<1>3. PICK o \in Call(c, end) :
        /\ Switched(r, c, o)
        /\ r.what = "again" => o.what \in {"need_read", "need_write", "connection_close"}
        /\ r.what \in {"network_error", "exception"} => o.what = r.what
        /\ r.what \in {"accept_succeed", "connect_succeed", "recv_succeed", "send_succeed",
                       "terminate"} => o.what = "ok" /\ r.what = Success(c.state)
        /\ r.what \in {"again", "network_error", "exception", "terminate", "accept_succeed",
                       "connect_succeed", "recv_succeed", "send_succeed"}
  BY <1>1, Told
<1>4. /\ o.end.ssl.unsent = c.ssl.unsent
      /\ gone => o.what # "ok"
      /\ \A mine : ~ gone /\ Greeting(mine, c.ssl.flights, ts, tc) =>
           \/ o.what = "need_read" /\ Greeting(mine, o.end.ssl.flights, o.end.in, o.end.out)
           \/ o.what = "ok" /\ mine = 3 /\ o.end.in = <<>> /\ o.end.out = <<Flight(4)>>
  <2> DEFINE ssl == c.ssl
  <2>1. o \in Handshake(End(ssl, ts, tc, peer)) /\ IsEnd(ssl, ts, tc, peer) /\ ssl.role = "server"
    BY <1>1 DEF Call, Served
  <2> HIDE DEF ssl
  <2>2. o.end.ssl.unsent = ssl.unsent /\ (~ peer => o.what # "ok")
    BY <2>1, ServerShakes
  <2>3. ASSUME NEW mine, peer, Greeting(mine, ssl.flights, ts, tc)
        PROVE  \/ o.what = "need_read" /\ Greeting(mine, o.end.ssl.flights, o.end.in, o.end.out)
               \/ o.what = "ok" /\ mine = 3 /\ o.end.in = <<>> /\ o.end.out = <<Flight(4)>>
    <3>1. peer = TRUE
      BY <1>1, <2>3
    <3> QED BY <2>1, <2>3, <3>1, ServerGreets
  <2> QED BY <1>1, <2>2, <2>3 DEF ssl
<1>5. /\ r.in = o.end.in /\ r.out = o.end.out /\ r.conn.ssl = o.end.ssl
      /\ o.what = "need_read" => r.what = "again" /\ r.conn.state = c.state
      /\ o.what = "need_write" => r.what = "again" /\ r.conn.state = c.state
      /\ o.what = "connection_close" => r.what = "again" /\ r.conn.state \in {"SHUTDOWN", "EMPTY"}
      /\ o.what = "ok" => r.what = "accept_succeed"
  BY <1>3, Successes DEF Switched
<1>6. c.state = "ACCEPTING" /\ c.ssl.unsent = <<>> /\ s.preader = NewReader
  BY <1>2 DEF Accepting
<1> HIDE DEF c, end
<1>7. CASE act
  <2> DEFINE mine == cl.ssl.ssl.flights
  <2>1. Connects(cl) /\ cl.preader = NewReader /\ Greeting(mine, c.ssl.flights, ts, tc)
    BY <1>2, <1>7 DEF Accepting, c
  <2>2. CASE o.what = "need_read" /\ Greeting(mine, o.end.ssl.flights, o.end.in, o.end.out)
    <3> SUFFICES ASSUME NEW new, new.open, new.executing = {}, new.preader = s.preader,
                        new.keep_alive = s.keep_alive, new.ssl.ssl = r.conn.ssl,
                        new.ssl.state = r.conn.state
                 PROVE  Exchange(req, new, r.in, r.out, act, gone, cl, runs)
      BY <1>5, <2>2
    <3>1. new.ssl.state = "ACCEPTING"
      BY <1>5, <1>6, <2>2
    <3>2. Stage(new) = "accepts"
      BY <3>1, Stages
    <3>3. Accepting(new, r.in, r.out, act, cl)
      BY <1>4, <1>5, <1>6, <2>1, <2>2 DEF Accepting
    <3> QED BY <1>2, <3>2, <3>3 DEF Exchange
  <2>3. CASE o.what = "ok" /\ mine = 3 /\ o.end.in = <<>> /\ o.end.out = <<Flight(4)>>
    <3> SUFFICES ASSUME NEW new, new.open, new.executing = {}, new.preader = s.preader,
                        new.keep_alive = s.keep_alive, new.ssl.ssl = r.conn.ssl,
                        new.ssl.state = "READING"
                 PROVE  Exchange(req, new, r.in, r.out, act, gone, cl, runs)
      BY <1>5, <2>3
    <3> DEFINE text == PacketOf(req)
    <3>1. Stage(new) = "reads"
      BY Stages
    <3>2. At(NewReader, text, 0) /\ Number(text) \in Nat \ {0}
      BY PacketIsText, NothingRead DEF PacketOf
    <3>3. Full(<<>>, text, 0, 0) /\ Remains(<<>>, text, 0)
      <4>1. Len(<<>>) = 0 /\ DOMAIN <<>> = {} /\ 0 \in 0 .. Number(text) /\ 0 - 0 = 0
        BY <3>2, EmptyText
      <4> HIDE DEF text
      <4> QED BY <4>1 DEF Full, Remains
    <3>4. Asking(cl, text, 0, <<Flight(4)>>)
      BY <2>1, <2>3 DEF Asking
    <3>5. 0 \in 0 .. Number(text) - 1 /\ 0 \in 0 .. Number(text)
      BY <3>2
    <3> HIDE DEF text
    <3>6. Receiving(text, new, r.in, r.out, act, cl)
      BY <1>4, <1>5, <1>6, <2>3, <3>2, <3>3, <3>4, <3>5 DEF Receiving
    <3> QED BY <1>2, <3>1, <3>6 DEF Exchange, text
  <2> QED BY <1>2, <1>4, <1>5, <1>7, <2>1, <2>2, <2>3
<1>8. CASE ~ act
  <2> SUFFICES ASSUME NEW new, new.open, new.executing = {}, new.preader = s.preader,
                      new.keep_alive = s.keep_alive, new.ssl.ssl = r.conn.ssl,
                      \/ r.what = "again" /\ new.ssl.state = r.conn.state
                      \/ r.what = "accept_succeed" /\ new.ssl.state = "READING"
               PROVE  Exchange(req, new, r.in, r.out, act, gone, cl, runs)
    BY <1>8
  <2>1. gone /\ o.what # "ok"
    BY <1>2, <1>4, <1>8
  <2>2. r.what = "again" /\ o.what \in {"need_read", "need_write", "connection_close"}
    BY <1>3, <2>1
  <2>3. new.ssl.state \in {"ACCEPTING", "SHUTDOWN", "EMPTY"}
    BY <1>5, <1>6, <2>2
  <2>4. Stage(new) \in {"accepts", "ended"}
    BY <2>3, Stages
  <2>5. Accepting(new, r.in, r.out, act, cl) /\ Ending(req, r.out, act, cl, runs)
    BY <1>4, <1>5, <1>6, <1>8 DEF Accepting, Ending
  <2> QED BY <1>2, <1>8, <2>1, <2>4, <2>5 DEF Exchange
<1> QED BY <1>7, <1>8

(* A connection that is past a request has nothing more to read. *)
LEMMA Ended ==
  ASSUME NEW req, NEW s, NEW ts, NEW tc, NEW act, NEW gone, NEW cl, NEW runs,
         Exchange(req, s, ts, tc, act, gone, cl, runs),
         NEW new, Stage(new) = "ended", new.keep_alive = FALSE,
         NEW to_s, NEW to_c, Ending(req, to_c, act, cl, runs)
  PROVE  Exchange(req, new, to_s, to_c, act, gone, cl, runs)
<1>1. act => ~ gone /\ cl.out_str = PacketOf(req)
  BY DEF Exchange
<1> QED BY <1>1 DEF Exchange

(* The record m + 1 of the request has been read. *)
HasRead(req, s, r, tc, act, cl) ==
  LET text == PacketOf(req)
  IN  /\ s.keep_alive = FALSE /\ r.conn.ssl.unsent = <<>> /\ r.out = tc
      /\ \E m \in 0 .. Number(text) - 1 :
           /\ At(s.preader, text, m) /\ r.text = Records(text)[m + 1].text
           /\ Remains(r.in, text, m + 1)
           /\ act => \E k \in m + 1 .. Number(text) :
                       Full(r.in, text, m + 1, k) /\ Asking(cl, text, k, tc)

LEMMA ReadsOn ==
  ASSUME NEW req \in Requests, NEW s, NEW ts, NEW tc, NEW act \in BOOLEAN, NEW gone, NEW cl, NEW runs,
         NEW peer, gone <=> ~ peer, NEW r, Served(s, ts, tc, peer, r), s.ssl.state = "READING",
         Exchange(req, s, ts, tc, act, gone, cl, runs)
  PROVE  /\ r.what \in {"again", "recv_succeed"} \/ ~ act
         /\ r.what \in {"again", "recv_succeed", "network_error", "exception"}
         /\ r.what = "again" =>
              \A new : new.open /\ new.executing = {} /\ new.preader = s.preader
                       /\ new.keep_alive = s.keep_alive /\ new.ssl = r.conn =>
                Exchange(req, new, r.in, r.out, act, gone, cl, runs)
         /\ r.what = "recv_succeed" => HasRead(req, s, r, tc, act, cl)
<1> DEFINE c == s.ssl
           text == PacketOf(req)
<1>1. IsConnection(c) /\ IsEnd(c.ssl, ts, tc, peer) /\ c.state = "READING"
      /\ peer \in BOOLEAN /\ r \in switch_state(c, ts, tc, peer) /\ IsText(ts)
      /\ ~ c.ssl.received_shutdown
  BY DEF Served, Heard, IsServer, IsEnd, Pipe, Clean, Broken
<1>2. Stage(s) = "reads" /\ Receiving(text, s, ts, tc, act, cl) /\ (act \/ gone) /\ (act => ~ gone)
      /\ s.keep_alive = FALSE /\ (act => cl.out_str = text)
  BY Stages DEF Served, Exchange
<1>3. IsText(text) /\ Number(text) \in Nat
  BY PacketIsText, RecordsOf
<1>4. /\ c.ssl.unsent = <<>>
      /\ \E m \in 0 .. Number(text) - 1 :
           /\ At(s.preader, text, m) /\ Remains(ts, text, m)
           /\ act => \E k \in m .. Number(text) : Full(ts, text, m, k) /\ Asking(cl, text, k, tc)
  BY <1>2 DEF Receiving
<1> HIDE DEF c, text
<1>5. PICK m \in 0 .. Number(text) - 1 :
        /\ At(s.preader, text, m) /\ Remains(ts, text, m)
        /\ act => \E k \in m .. Number(text) : Full(ts, text, m, k) /\ Asking(cl, text, k, tc)
  BY <1>4
<1>6. m \in Nat
  BY <1>3
<1>7. PICK o \in Call(c, End(c.ssl, ts, tc, peer)) :
        /\ Switched(r, c, o)
        /\ r.what = "again" => o.what \in {"need_read", "need_write", "connection_close"}
        /\ r.what \in {"network_error", "exception"} => o.what = r.what
        /\ r.what \in {"accept_succeed", "connect_succeed", "recv_succeed", "send_succeed",
                       "terminate"} => o.what = "ok" /\ r.what = Success(c.state)
        /\ r.what \in {"again", "network_error", "exception", "terminate", "accept_succeed",
                       "connect_succeed", "recv_succeed", "send_succeed"}
  BY <1>1, Told
<1>8. o \in SSL_read(End(c.ssl, ts, tc, peer))
  BY <1>1, <1>7 DEF Call
<1>9. /\ o.end.out = tc /\ o.end.ssl.unsent = c.ssl.unsent
      /\ o.what = "ok" => /\ ts # <<>> /\ Head(ts) \notin {close_notify, Reset}
                          /\ o.text = Head(ts).text /\ o.end.in = Tail(ts)
      /\ o.what = "need_read" => ts = <<>> /\ o.end.in = ts
      /\ o.what = "connection_close" =>
           \/ ts = <<>> /\ ~ peer
           \/ ts # <<>> /\ Head(ts) = close_notify
      /\ o.what = "network_error" => ~ peer
  <2> DEFINE ssl == c.ssl
  <2>1. /\ IsEnd(ssl, ts, tc, peer) /\ o \in SSL_read(End(ssl, ts, tc, peer))
        /\ ~ ssl.received_shutdown
    BY <1>1, <1>8
  <2> HIDE DEF ssl
  <2>2. /\ o.end.out = tc /\ o.end.ssl.unsent = ssl.unsent
        /\ o.what = "ok" => /\ ts # <<>> /\ Head(ts) \notin {close_notify, Reset}
                            /\ o.text = Head(ts).text /\ o.end.in = Tail(ts)
        /\ o.what = "need_read" => ts = <<>> /\ o.end.in = ts
        /\ o.what = "connection_close" =>
             \/ ts = <<>> /\ ~ peer
             \/ ts # <<>> /\ Head(ts) = close_notify
        /\ o.what = "network_error" => ~ peer
    BY <2>1, ReadOutcome
  <2> QED BY <2>2 DEF ssl
<1>10. /\ r.in = o.end.in /\ r.out = tc /\ r.conn.ssl.unsent = <<>> /\ r.text = o.text
       /\ o.what = "need_read" => r.what = "again" /\ r.conn.state = "READING"
       /\ o.what = "need_write" => r.what = "again"
       /\ o.what = "connection_close" => r.what = "again" /\ r.conn.state \in {"SHUTDOWN", "EMPTY"}
       /\ o.what = "ok" => r.what = "recv_succeed"
       /\ o.what \in {"network_error", "exception"} => r.what = o.what
  BY <1>1, <1>4, <1>7, <1>9, Successes DEF Switched
<1>11. o.what \in {"ok", "need_read", "connection_close", "network_error"}
  <2>1. IsEnd(c.ssl, ts, tc, peer) /\ o \in SSL_read(End(c.ssl, ts, tc, peer))
    BY <1>1, <1>8
  <2> QED BY <2>1, Reading
<1>12. act /\ ts # <<>> => Head(ts) # close_notify
  <2> SUFFICES ASSUME act, ts # <<>> PROVE Head(ts) # close_notify
    OBVIOUS
  <2>1. PICK k \in m .. Number(text) : Full(ts, text, m, k)
    BY <1>5
  <2>2. \A i \in DOMAIN ts : ts[i] \notin {close_notify, Reset}
    BY <1>1, <1>3, <1>6, <2>1, FullRemains
  <2>3. Head(ts) = ts[1] /\ 1 \in DOMAIN ts
    BY <1>1, TailIs
  <2> QED BY <2>2, <2>3
<1>13. act => o.what \in {"ok", "need_read"}
  BY <1>2, <1>9, <1>11, <1>12
<1>14. ASSUME r.what = "again", NEW new, new.open, new.executing = {}, new.preader = s.preader,
              new.keep_alive = s.keep_alive, new.ssl = r.conn
       PROVE  Exchange(req, new, r.in, r.out, act, gone, cl, runs)
  <2>1. CASE o.what = "need_read"
    <3>1. Stage(new) = "reads" /\ new.ssl.ssl.unsent = <<>>
      BY <1>10, <1>14, <2>1, Stages
    <3>2. r.in = ts /\ r.out = tc
      BY <1>9, <1>10, <2>1
    <3>3. Receiving(text, new, r.in, r.out, act, cl)
      BY <1>2, <1>14, <3>1, <3>2 DEF Receiving
    <3> QED BY <1>2, <1>14, <3>1, <3>3 DEF Exchange, text
  <2>2. CASE o.what = "connection_close"
    <3>1. Stage(new) = "ended" /\ new.keep_alive = FALSE
      BY <1>2, <1>10, <1>14, <2>2, Stages
    <3>2. Ending(req, r.out, act, cl, runs)
      BY <1>13, <2>2 DEF Ending
    <3> QED BY <3>1, <3>2, Ended
  <2> QED BY <1>7, <1>11, <1>14, <2>1, <2>2
<1>15. ASSUME r.what = "recv_succeed"
       PROVE  \E n \in 0 .. Number(text) - 1 :
                /\ At(s.preader, text, n) /\ r.text = Records(text)[n + 1].text
                /\ Remains(r.in, text, n + 1)
                /\ act => \E k \in n + 1 .. Number(text) :
                            Full(r.in, text, n + 1, k) /\ Asking(cl, text, k, tc)
  <2>1. o.what = "ok" /\ ts # <<>> /\ Head(ts) \notin {close_notify, Reset}
        /\ r.text = Head(ts).text /\ r.in = Tail(ts)
    BY <1>7, <1>9, <1>10, <1>15
  <2>2. Head(ts) = Records(text)[m + 1] /\ Remains(r.in, text, m + 1)
    BY <1>1, <1>3, <1>5, <1>6, <2>1, RemainsTail
  <2>3. act => \E k \in m + 1 .. Number(text) : Full(r.in, text, m + 1, k) /\ Asking(cl, text, k, tc)
    <3> SUFFICES ASSUME act
                 PROVE  \E k \in m + 1 .. Number(text) :
                          Full(r.in, text, m + 1, k) /\ Asking(cl, text, k, tc)
      OBVIOUS
    <3>1. PICK k \in m .. Number(text) : Full(ts, text, m, k) /\ Asking(cl, text, k, tc)
      BY <1>5
    <3>2. k \in m + 1 .. Number(text) /\ Full(r.in, text, m + 1, k)
      BY <1>1, <1>3, <1>6, <2>1, <3>1, FullTail
    <3> QED BY <3>1, <3>2
  <2>4. r.text = Records(text)[m + 1].text
    BY <2>1, <2>2
  <2> QED BY <1>5, <2>2, <2>3, <2>4
<1>16. r.what = "recv_succeed" => r.conn.ssl.unsent = <<>> /\ r.out = tc /\ s.keep_alive = FALSE
  BY <1>2, <1>10
<1>17. /\ r.what \in {"again", "recv_succeed"} \/ ~ act
       /\ r.what \in {"again", "recv_succeed", "network_error", "exception"}
  BY <1>10, <1>11, <1>13
<1>18. r.what = "recv_succeed" => HasRead(req, s, r, tc, act, cl)
  BY <1>15, <1>16 DEF HasRead, text
<1> QED BY <1>14, <1>17, <1>18

(* A reply is begun when nothing is under way. *)
LEMMA ReplyBegins ==
  ASSUME NEW req, NEW runs, NEW code, NEW content, IsText(content),
         dump(code, Closes, content) \in Replies(req, runs), NEW s, NEW cl, NEW act, NEW tc,
         s.ssl.state = "WRITING", s.ssl.send_buf = dump(code, Closes, content),
         s.ssl.ssl.unsent = <<>>, act => Later(cl) /\ cl.preader = NewReader /\ tc = <<>>
  PROVE  Replying(req, s, tc, act, cl, runs)
<1> SUFFICES ASSUME act
             PROVE  /\ Later(cl)
                    /\ \E text \in Replies(req, runs) : \E m, k \in 0 .. Number(text) - 1 :
                         Writes(s.ssl, text, k) /\ Full(tc, text, m, k) /\ At(cl.preader, text, m)
  BY DEF Replying
<1> DEFINE text == dump(code, Closes, content)
<1>1. At(NewReader, text, 0) /\ Number(text) \in Nat \ {0}
  BY NothingRead
<1>2. IsText(text)
  BY PacketIs
<1>3. s.ssl.send_buf = text /\ text \in Replies(req, runs)
  OBVIOUS
<1> HIDE DEF text
<1>4. Full(<<>>, text, 0, 0)
  <2>1. Len(<<>>) = 0 /\ DOMAIN <<>> = {} /\ 0 \in 0 .. Number(text) /\ 0 - 0 = 0
    BY <1>1, EmptyText
  <2> QED BY <2>1 DEF Full
<1>5. Rest(s.ssl.ssl, text) = SubSeq(Records(text), 0 + 1, Number(text))
  <2>1. IsText(Records(text)) /\ Number(text) = Len(Records(text))
    BY <1>2, RecordsOf DEF Number
  <2>2. SubSeq(Records(text), 1, Len(Records(text))) = Records(text)
    BY <2>1, WholeText
  <2> QED BY <2>1, <2>2 DEF Rest
<1>6. 0 \in 0 .. Number(text) - 1
  BY <1>1
<1>7. Writes(s.ssl, text, 0)
  BY <1>3, <1>5, <1>6 DEF Writes
<1> QED BY <1>1, <1>3, <1>4, <1>6, <1>7

(* What the reader makes of a record of a request, and what follows. *)
ReadAs(req, read, ts, tc, act, gone, cl, runs) ==
  \/ /\ read.outcome.is = "error"
     /\ \A new : Stage(new) = "writes" /\ new.keep_alive = FALSE
                 /\ new.ssl.state = "WRITING" /\ new.ssl.ssl.unsent = <<>>
                 /\ new.ssl.send_buf = dump(read.outcome.code, Closes, <<>>)
           => Exchange(req, new, ts, tc, act, gone, cl, runs)
  \/ /\ read.outcome.is = "incomplete"
     /\ \A new : Stage(new) = "reads" /\ new.keep_alive = FALSE
                 /\ new.preader = read.reader /\ new.ssl.ssl.unsent = <<>>
           => Exchange(req, new, ts, tc, act, gone, cl, runs)
  \/ /\ read.outcome = Packet(PacketOf(req)[1], RequestContent(req))
     /\ \A new : Stage(new) = "executes" /\ new.keep_alive = FALSE
                 /\ new.executing = {req} /\ new.ssl.ssl.unsent = <<>>
           => Exchange(req, new, ts, tc, act, gone, cl, runs)

LEMMA RecordServed ==
  ASSUME NEW req \in Requests, NEW s, NEW ts, NEW tc, NEW act \in BOOLEAN, NEW gone, NEW cl, NEW runs,
         NEW m \in 0 .. Number(PacketOf(req)) - 1, At(s.preader, PacketOf(req), m),
         act \/ gone, act => ~ gone /\ cl.out_str = PacketOf(req),
         Remains(ts, PacketOf(req), m + 1),
         act => \E k \in m + 1 .. Number(PacketOf(req)) :
                  Full(ts, PacketOf(req), m + 1, k) /\ Asking(cl, PacketOf(req), k, tc)
  PROVE  ReadAs(req, read_packet(s.preader, Records(PacketOf(req))[m + 1].text, max_request_sz,
                                 HTTP_CHECK_WEAK), ts, tc, act, gone, cl, runs)
<1> DEFINE content == RequestContent(req)
           text == PacketOf(req)
           n == m + 1
           read == read_packet(s.preader, Records(text)[n].text, max_request_sz, HTTP_CHECK_WEAK)
<1>1. IsText(content) /\ IsText(text) /\ Number(text) \in Nat /\ text = dump(0, Closes, content)
  BY PacketIsText, RecordsOf DEF PacketOf
<1>2. /\ m \in 0 .. Number(text) - 1 /\ At(s.preader, text, m) /\ n = m + 1
      /\ Remains(ts, text, n)
      /\ act => \E k \in n .. Number(text) : Full(ts, text, n, k) /\ Asking(cl, text, k, tc)
  OBVIOUS
<1>3. \/ read.outcome = Error(413) /\ Large(req)
      \/ read.outcome.is = "incomplete" /\ At(read.reader, text, n)
      \/ read.outcome = Packet(text[1], content)
  <2> DEFINE p == dump(0, Closes, content)
             word == read_packet(s.preader, Records(p)[m + 1].text, max_request_sz, HTTP_CHECK_WEAK)
  <2>1. p = text
    BY <1>1
  <2>2. At(s.preader, p, m)
    BY <1>2, <2>1
  <2>3. max_request_sz \in Nat /\ HTTP_CHECK_WEAK \in Levels
    BY SecureCallAssumption DEF Levels
  <2>4. TooLarge(content, max_request_sz) => Large(req)
    BY DEF TooLarge, Large
  <2> HIDE DEF content
  <2>5. \/ word.outcome = Error(413) /\ TooLarge(content, max_request_sz)
        \/ word.outcome.is = "incomplete" /\ At(word.reader, p, m + 1)
        \/ word.outcome = Packet(p[1], content) /\ m + 1 = Number(p)
    BY <1>1, <2>2, <2>3, RecordRead
  <2>6. word = read
    BY <2>1
  <2> QED BY <2>1, <2>4, <2>5, <2>6
<1>4. act => ~ gone /\ cl.out_str = text
  OBVIOUS
<1> HIDE DEF text, read, n
<1>5. act => Later(cl) /\ cl.preader = NewReader /\ tc = <<>>
  <2> SUFFICES ASSUME act PROVE Later(cl) /\ cl.preader = NewReader /\ tc = <<>>
    OBVIOUS
  <2>1. PICK k \in n .. Number(text) : Asking(cl, text, k, tc)
    BY <1>2
  <2>2. k # 0
    BY <1>1, <1>2
  <2> QED BY <2>1, <2>2 DEF Asking, Writes, Later
<1>6. CASE read.outcome = Error(413) /\ Large(req)
  <2>0. read.outcome.is = "error" /\ read.outcome.code = 413
    BY <1>6 DEF Error
  <2> SUFFICES ASSUME NEW new, Stage(new) = "writes", new.keep_alive = FALSE,
                      new.ssl.state = "WRITING", new.ssl.ssl.unsent = <<>>,
                      new.ssl.send_buf = dump(read.outcome.code, Closes, <<>>)
               PROVE  Exchange(req, new, ts, tc, act, gone, cl, runs)
    BY <2>0 DEF ReadAs, text, read, n
  <2> DEFINE code == read.outcome.code
  <2>1. dump(code, Closes, <<>>) \in Replies(req, runs) /\ IsText(<<>>)
    BY <1>6, <2>0, EmptyText DEF Replies, Refusals
  <2> HIDE DEF code
  <2>2. new.ssl.send_buf = dump(code, Closes, <<>>)
    BY DEF code
  <2>3. Replying(req, new, tc, act, cl, runs)
    BY <1>5, <2>1, <2>2, ReplyBegins
  <2> QED BY <1>4, <2>3 DEF Exchange, text
<1>7. CASE read.outcome.is = "incomplete" /\ At(read.reader, text, n)
  <2> SUFFICES ASSUME NEW new, Stage(new) = "reads", new.keep_alive = FALSE,
                      new.preader = read.reader, new.ssl.ssl.unsent = <<>>
               PROVE  Exchange(req, new, ts, tc, act, gone, cl, runs)
    BY <1>7 DEF ReadAs, text, read, n
  <2>1. At(new.preader, text, n) /\ n \in 0 .. Number(text) - 1
    BY <1>7 DEF At
  <2>2. Receiving(text, new, ts, tc, act, cl)
    BY <1>2, <2>1 DEF Receiving
  <2> QED BY <1>4, <2>2 DEF Exchange, text
<1>8. CASE read.outcome = Packet(text[1], content)
  <2> SUFFICES ASSUME NEW new, Stage(new) = "executes", new.keep_alive = FALSE,
                      new.executing = {req}, new.ssl.ssl.unsent = <<>>
               PROVE  Exchange(req, new, ts, tc, act, gone, cl, runs)
    BY <1>8 DEF ReadAs, text, read, n, content
  <2>1. Running(req, new, tc, act, cl)
    BY <1>5 DEF Running
  <2> QED BY <1>4, <2>1 DEF Exchange, text
<1> QED BY <1>3, <1>6, <1>7, <1>8

(* The method has run, and its response is to be written. *)
LEMMA Executed ==
  ASSUME NEW req \in Requests, NEW s, NEW ts, NEW tc, NEW act \in BOOLEAN, NEW gone, NEW cl, NEW runs,
         Stage(s) = "executes", Exchange(req, s, ts, tc, act, gone, cl, runs),
         NEW ran, req \in Range(ran),
         NEW new, Stage(new) = "writes", new.keep_alive = FALSE, new.ssl.state = "WRITING",
         new.ssl.ssl = s.ssl.ssl,
         new.ssl.send_buf = dump(200, Closes, ResponseContent(Run(req)))
  PROVE  Exchange(req, new, ts, tc, act, gone, cl, ran)
<1> DEFINE content == ResponseContent(Run(req))
<1>1. /\ s.ssl.ssl.unsent = <<>>
      /\ act => Later(cl) /\ cl.preader = NewReader /\ tc = <<>>
      /\ act => ~ gone /\ cl.out_str = PacketOf(req)
  BY DEF Exchange, Running
<1>2. dump(200, Closes, content) \in Replies(req, ran)
  BY DEF Replies, Answers
<1>3. IsText(content)
  BY ContentsAreTexts
<1>4. new.ssl.send_buf = dump(200, Closes, content) /\ new.ssl.ssl.unsent = <<>>
  BY <1>1
<1> HIDE DEF content
<1>5. Replying(req, new, tc, act, cl, ran)
  BY <1>1, <1>2, <1>3, <1>4, ReplyBegins
<1> QED BY <1>1, <1>5 DEF Exchange

LEMMA RepliesAre ==
  ASSUME NEW req \in Requests, NEW runs, NEW text \in Replies(req, runs)
  PROVE  \E code, content : IsText(content) /\ text = dump(code, Closes, content)
<1>1. CASE text \in Answers(req, runs)
  <2>1. text = dump(200, Closes, ResponseContent(Run(req)))
    BY <1>1 DEF Answers
  <2> QED BY <2>1, ContentsAreTexts
<1>2. CASE text \in Refusals(req)
  <2>1. text = dump(413, Closes, <<>>)
    BY <1>2 DEF Refusals
  <2> QED BY <2>1, EmptyText
<1> QED BY <1>1, <1>2 DEF Replies

LEMMA WritesOn ==
  ASSUME NEW req \in Requests, NEW s, NEW ts, NEW tc, NEW act \in BOOLEAN, NEW gone, NEW cl, NEW runs,
         NEW peer, gone <=> ~ peer, NEW r, Served(s, ts, tc, peer, r), s.ssl.state = "WRITING",
         Exchange(req, s, ts, tc, act, gone, cl, runs)
  PROVE  /\ r.what = "again" =>
              \A new : new.open /\ new.executing = {} /\ new.preader = s.preader
                       /\ new.keep_alive = s.keep_alive /\ new.ssl = r.conn =>
                Stage(new) = "writes" /\ Exchange(req, new, r.in, r.out, act, gone, cl, runs)
         /\ r.what # "again" => Ending(req, r.out, act, cl, runs)
<1> DEFINE c == s.ssl
<1>1. IsConnection(c) /\ IsEnd(c.ssl, ts, tc, peer) /\ c.state = "WRITING"
      /\ peer \in BOOLEAN /\ r \in switch_state(c, ts, tc, peer) /\ IsText(tc)
  BY DEF Served, IsServer, IsEnd, Pipe, Clean, Broken
<1>2. Stage(s) = "writes" /\ Replying(req, s, tc, act, cl, runs) /\ (act => ~ gone)
      /\ s.keep_alive = FALSE /\ (act => cl.out_str = PacketOf(req))
  BY Stages DEF Served, Exchange
<1>3. act => /\ Later(cl)
             /\ \E text \in Replies(req, runs) : \E m, k \in 0 .. Number(text) - 1 :
                  Writes(c, text, k) /\ Full(tc, text, m, k) /\ At(cl.preader, text, m)
  BY <1>2 DEF Replying
<1> HIDE DEF c
<1>4. PICK o \in Call(c, End(c.ssl, ts, tc, peer)) :
        /\ Switched(r, c, o)
        /\ r.what = "again" => o.what \in {"need_read", "need_write", "connection_close"}
        /\ r.what \in {"network_error", "exception"} => o.what = r.what
        /\ r.what \in {"accept_succeed", "connect_succeed", "recv_succeed", "send_succeed",
                       "terminate"} => o.what = "ok" /\ r.what = Success(c.state)
        /\ r.what \in {"again", "network_error", "exception", "terminate", "accept_succeed",
                       "connect_succeed", "recv_succeed", "send_succeed"}
  BY <1>1, Told
<1>5. o \in SSL_write(End(c.ssl, ts, tc, peer), c.send_buf, c.buf) /\ IsText(c.send_buf)
  BY <1>1, <1>4 DEF Call, IsConnection
<1>6. o.what \in {"ok", "need_write", "network_error", "exception"}
  BY <1>1, <1>5, Writing
<1>7. /\ r.in = o.end.in /\ r.out = o.end.out /\ r.conn.ssl = o.end.ssl
      /\ r.conn.send_buf = c.send_buf
      /\ o.what = "need_write" => r.what = "again" /\ r.conn.state = "WRITING"
      /\ o.what = "ok" => r.what = "send_succeed"
      /\ o.what \in {"network_error", "exception"} => r.what = o.what
  BY <1>1, <1>4, Successes DEF Switched
<1>8. r.what = "again" <=> o.what = "need_write"
  BY <1>6, <1>7
<1>9. CASE ~ act
  <2>1. Ending(req, r.out, act, cl, runs)
    BY <1>9 DEF Ending
  <2>2. ASSUME r.what = "again", NEW new, new.open, new.executing = {}, new.preader = s.preader,
               new.keep_alive = s.keep_alive, new.ssl = r.conn
        PROVE  Stage(new) = "writes" /\ Exchange(req, new, r.in, r.out, act, gone, cl, runs)
    <3>1. Stage(new) = "writes"
      BY <1>7, <1>8, <2>2, Stages
    <3>2. Replying(req, new, r.out, act, cl, runs)
      BY <1>9 DEF Replying
    <3> QED BY <1>2, <1>9, <2>2, <3>1, <3>2 DEF Exchange
  <2> QED BY <2>1, <2>2
<1>10. CASE act
  <2>1. peer /\ Later(cl)
    BY <1>1, <1>2, <1>3, <1>10
  <2>2. PICK text \in Replies(req, runs) : \E m, k \in 0 .. Number(text) - 1 :
          Writes(c, text, k) /\ Full(tc, text, m, k) /\ At(cl.preader, text, m)
    BY <1>3, <1>10
  <2>3. PICK m, k \in 0 .. Number(text) - 1 :
          Writes(c, text, k) /\ Full(tc, text, m, k) /\ At(cl.preader, text, m)
    BY <2>2
  <2>4. IsText(text)
    BY RepliesAre, PacketIs
  <2>5. Number(text) \in Nat /\ m \in Nat /\ k \in Nat /\ text = c.send_buf
    BY <2>3, <2>4, RecordsOf DEF Writes
  <2>6. CASE o.what \in {"network_error", "exception"}
    <3>1. r.what # "again" /\ r.out = tc
      <4> DEFINE ssl == c.ssl
                 buf == c.buf
      <4>1. IsEnd(ssl, ts, tc, peer) /\ o \in SSL_write(End(ssl, ts, tc, peer), text, buf)
        BY <1>1, <1>5, <2>5
      <4> HIDE DEF ssl, buf
      <4>2. o.end.out = tc
        BY <2>4, <2>6, <4>1, WriteOutcome
      <4> QED BY <1>7, <1>8, <2>6, <4>2
    <3>2. Remains(tc, text, m)
      BY <1>1, <2>3, <2>4, <2>5, FullRemains
    <3> QED BY <2>1, <2>3, <3>1, <3>2 DEF Ending
  <2>7. CASE o.what \in {"ok", "need_write"}
    <3> DEFINE rest == Rest(c.ssl, text)
    <3>1. PICK f : Sends(o, ts, tc, rest, f)
      <4> DEFINE ssl == c.ssl
                 buf == c.buf
      <4>1. IsEnd(ssl, ts, tc, peer) /\ o \in SSL_write(End(ssl, ts, tc, peer), text, buf)
        BY <1>1, <1>5, <2>5
      <4> HIDE DEF ssl, buf
      <4>2. \E f : Sends(o, ts, tc, Rest(ssl, text), f)
        BY <2>1, <2>4, <2>7, <4>1, WriteSent
      <4> QED BY <4>2 DEF ssl
    <3>2. Onward(rest, text, k, f)
      <4>1. f \in 0 .. Len(Rest(c.ssl, text))
        BY <3>1 DEF Sends
      <4> HIDE DEF rest
      <4>2. Onward(Rest(c.ssl, text), text, k, f)
        BY <2>3, <2>4, <4>1, WriteGoesOn
      <4> QED BY <4>2 DEF rest
    <3> HIDE DEF rest
    <3>3. f \in Nat /\ k + f <= Number(text) /\ k + f \in Nat
      <4>1. f \in Int /\ f >= 0 /\ k + f \in k .. Number(text)
        BY <3>1, <3>2 DEF Sends, Onward
      <4> QED BY <2>5, <4>1
    <3>4. Full(r.out, text, m, k + f)
      <4>1. r.out = tc \o SubSeq(Records(text), k + 1, k + f)
        BY <1>7, <3>1, <3>2 DEF Sends, Onward
      <4> QED BY <1>1, <2>3, <2>4, <2>5, <3>3, <4>1, FullJoined
    <3>5. CASE o.what = "ok"
      <4>1. IsText(r.out)
        <5>1. Left(o, c.ssl, ts, tc, peer)
          BY <1>1, <1>5, Writing
        <5> QED BY <1>7, <5>1 DEF Left, Clean
      <4>2. Remains(r.out, text, m)
        BY <2>4, <2>5, <3>4, <4>1, FullRemains
      <4>3. Ending(req, r.out, act, cl, runs)
        BY <2>1, <2>3, <4>2 DEF Ending
      <4> QED BY <1>8, <3>5, <4>3
    <3>6. CASE o.what = "need_write"
      <4>1. k + f # Number(text) /\ o.end.ssl.unsent # <<>>
        BY <3>1, <3>2, <3>6 DEF Sends, Onward
      <4>2. k + f \in 0 .. Number(text) - 1
        BY <2>5, <3>3, <4>1
      <4>3. Rest(r.conn.ssl, text) = SubSeq(Records(text), k + f + 1, Number(text))
        BY <1>7, <3>1, <3>2, <4>1 DEF Rest, Sends, Onward
      <4>4. Writes(r.conn, text, k + f)
        BY <1>7, <2>5, <3>6, <4>2, <4>3 DEF Writes
      <4> SUFFICES ASSUME NEW new, new.open, new.executing = {}, new.preader = s.preader,
                          new.keep_alive = s.keep_alive, new.ssl = r.conn
                   PROVE  Stage(new) = "writes" /\ Exchange(req, new, r.in, r.out, act, gone, cl, runs)
        BY <1>8, <3>6
      <4>5. Stage(new) = "writes"
        BY <1>7, <3>6, Stages
      <4>6. Replying(req, new, r.out, act, cl, runs)
        BY <2>1, <2>3, <3>4, <4>2, <4>4 DEF Replying
      <4> QED BY <1>2, <4>5, <4>6 DEF Exchange
    <3> QED BY <2>7, <3>5, <3>6
  <2> QED BY <1>6, <2>6, <2>7
<1> QED BY <1>9, <1>10

(* The alert is sent. *)
LEMMA EndsOn ==
  ASSUME NEW req \in Requests, NEW s, NEW ts, NEW tc, NEW act \in BOOLEAN, NEW gone, NEW cl, NEW runs,
         NEW peer, NEW r, Served(s, ts, tc, peer, r), s.ssl.state = "SHUTDOWN",
         Exchange(req, s, ts, tc, act, gone, cl, runs)
  PROVE  /\ Ending(req, r.out, act, cl, runs)
         /\ r.what = "again" => r.conn.state = "SHUTDOWN"
<1> DEFINE c == s.ssl
<1>1. IsConnection(c) /\ IsEnd(c.ssl, ts, tc, peer) /\ c.state = "SHUTDOWN"
      /\ r \in switch_state(c, ts, tc, peer) /\ IsText(tc)
  BY DEF Served, IsServer, IsEnd, Pipe, Clean, Broken
<1>2. Ending(req, tc, act, cl, runs)
  BY Stages DEF Served, Exchange
<1> HIDE DEF c
<1>3. PICK o \in Call(c, End(c.ssl, ts, tc, peer)) : Switched(r, c, o)
  BY <1>1, Switching
<1>4. o \in shutdown(c, End(c.ssl, ts, tc, peer))
  BY <1>1 DEF Call
<1>5. r.out \in {tc, Append(tc, close_notify)}
  BY <1>3, <1>4, AlertOutcome DEF Switched
<1>6. o.what \in {"ok", "need_write", "network_error"}
  BY <1>1, <1>4, Shutting
<1>7. r.what = "again" => r.conn.state = "SHUTDOWN"
  BY <1>1, <1>3, <1>6, Successes DEF Switched
<1>8. Ending(req, r.out, act, cl, runs)
  <2> SUFFICES ASSUME act
               PROVE  Later(cl) /\ \E text \in Replies(req, runs) : \E m \in 0 .. Number(text) - 1 :
                        Remains(r.out, text, m) /\ At(cl.preader, text, m)
    BY DEF Ending
  <2>1. PICK text \in Replies(req, runs) : \E m \in 0 .. Number(text) - 1 :
          Remains(tc, text, m) /\ At(cl.preader, text, m)
    BY <1>2 DEF Ending
  <2>2. PICK m \in 0 .. Number(text) - 1 : Remains(tc, text, m) /\ At(cl.preader, text, m)
    BY <2>1
  <2>3. Remains(Append(tc, close_notify), text, m)
    BY <1>1, <2>2, RemainsMore
  <2>4. Remains(r.out, text, m)
    BY <1>5, <2>2, <2>3
  <2>5. Later(cl)
    BY <1>2 DEF Ending
  <2> QED BY <2>2, <2>4, <2>5
<1> QED BY <1>7, <1>8

(* The connection is deleted, and what had been sent may be lost. *)
LEMMA EndingReset ==
  ASSUME NEW req, NEW tc, IsText(tc), NEW act, NEW cl, NEW runs, Ending(req, tc, act, cl, runs),
         NEW in, NEW new \in Resets(in, tc)
  PROVE  Ending(req, new, act, cl, runs)
<1> SUFFICES ASSUME act
             PROVE  Later(cl) /\ \E text \in Replies(req, runs) : \E m \in 0 .. Number(text) - 1 :
                      Remains(new, text, m) /\ At(cl.preader, text, m)
  BY DEF Ending
<1>1. Later(cl)
  BY DEF Ending
<1>2. PICK text \in Replies(req, runs) : \E m \in 0 .. Number(text) - 1 :
        Remains(tc, text, m) /\ At(cl.preader, text, m)
  BY DEF Ending
<1>3. PICK m \in 0 .. Number(text) - 1 : Remains(tc, text, m) /\ At(cl.preader, text, m)
  BY <1>2
<1>4. Remains(new, text, m)
  BY <1>3, RemainsReset DEF Resets
<1> QED BY <1>1, <1>3, <1>4

-----------------------------------------------------------------------------
(* A step of the server, as the exchanges have it. *)

Fields(s) ==
  s \in [ssl : {s.ssl}, preader : {s.preader}, open : {s.open}, keep_alive : {s.keep_alive},
         executing : {s.executing}]

LEMMA SslField ==
  ASSUME NEW s, Fields(s), NEW v, NEW new, new = [s EXCEPT !.ssl = v]
  PROVE  /\ Fields(new) /\ new.ssl = v /\ new.preader = s.preader /\ new.open = s.open
         /\ new.keep_alive = s.keep_alive /\ new.executing = s.executing
<1>1. new \in [ssl : {v}, preader : {s.preader}, open : {s.open},
              keep_alive : {s.keep_alive}, executing : {s.executing}]
  BY DEF Fields
<1>2. /\ new.ssl = v /\ new.preader = s.preader /\ new.open = s.open
      /\ new.keep_alive = s.keep_alive /\ new.executing = s.executing
  BY <1>1
<1> QED BY <1>1, <1>2 DEF Fields

LEMMA PreaderField ==
  ASSUME NEW s, Fields(s), NEW v, NEW new, new = [s EXCEPT !.preader = v]
  PROVE  /\ Fields(new) /\ new.ssl = s.ssl /\ new.preader = v /\ new.open = s.open
         /\ new.keep_alive = s.keep_alive /\ new.executing = s.executing
<1>1. new \in [ssl : {s.ssl}, preader : {v}, open : {s.open},
              keep_alive : {s.keep_alive}, executing : {s.executing}]
  BY DEF Fields
<1>2. /\ new.ssl = s.ssl /\ new.preader = v /\ new.open = s.open
      /\ new.keep_alive = s.keep_alive /\ new.executing = s.executing
  BY <1>1
<1> QED BY <1>1, <1>2 DEF Fields

LEMMA KeepAliveField ==
  ASSUME NEW s, Fields(s), NEW v, NEW new, new = [s EXCEPT !.keep_alive = v]
  PROVE  /\ Fields(new) /\ new.ssl = s.ssl /\ new.preader = s.preader /\ new.open = s.open
         /\ new.keep_alive = v /\ new.executing = s.executing
<1>1. new \in [ssl : {s.ssl}, preader : {s.preader}, open : {s.open},
              keep_alive : {v}, executing : {s.executing}]
  BY DEF Fields
<1>2. /\ new.ssl = s.ssl /\ new.preader = s.preader /\ new.open = s.open
      /\ new.keep_alive = v /\ new.executing = s.executing
  BY <1>1
<1> QED BY <1>1, <1>2 DEF Fields

LEMMA ExecutingField ==
  ASSUME NEW s, Fields(s), NEW v, NEW new, new = [s EXCEPT !.executing = v]
  PROVE  /\ Fields(new) /\ new.ssl = s.ssl /\ new.preader = s.preader /\ new.open = s.open
         /\ new.keep_alive = s.keep_alive /\ new.executing = v
<1>1. new \in [ssl : {s.ssl}, preader : {s.preader}, open : {s.open},
              keep_alive : {s.keep_alive}, executing : {v}]
  BY DEF Fields
<1>2. /\ new.ssl = s.ssl /\ new.preader = s.preader /\ new.open = s.open
      /\ new.keep_alive = s.keep_alive /\ new.executing = v
  BY <1>1
<1> QED BY <1>1, <1>2 DEF Fields

LEMMA FieldsOf ==
  ASSUME NEW s, IsServer(s)
  PROVE  Fields(s)
  BY DEF IsServer, Fields

(* Its connection registers, to write or to read. *)
LEMMA Buffered ==
  ASSUME NEW c, IsConnection(c), NEW text, NEW buf
  PROVE  LET new == reg_send(c, text, buf)
         IN  new.ssl = c.ssl /\ new.state = "WRITING" /\ new.send_buf = text
<1>1. c \in [state : States, mask : SUBSET {"INPUT", "OUTPUT"}, ssl : {c.ssl},
             send_buf : {c.send_buf}, buf : {c.buf}]
  BY DEF IsConnection
<1> QED BY <1>1 DEF reg_send, register_handler

LEMMA MoreRuns ==
  ASSUME NEW req, NEW s, NEW ts, NEW tc, NEW act, NEW gone, NEW cl, NEW runs, NEW ran,
         Range(runs) \subseteq Range(ran), Exchange(req, s, ts, tc, act, gone, cl, runs)
  PROVE  Exchange(req, s, ts, tc, act, gone, cl, ran)
<1>1. Replies(req, runs) \subseteq Replies(req, ran)
  BY DEF Replies, Answers, Refusals
<1>2. Replying(req, s, tc, act, cl, runs) => Replying(req, s, tc, act, cl, ran)
  BY <1>1 DEF Replying
<1>3. Ending(req, tc, act, cl, runs) => Ending(req, tc, act, cl, ran)
  BY <1>1 DEF Ending
<1> QED BY <1>2, <1>3 DEF Exchange

LEMMA RangeGrows ==
  ASSUME NEW s, IsText(s), NEW e
  PROVE  LET t == Append(s, e)
         IN  Range(s) \subseteq Range(t) /\ e \in Range(t)
<1> DEFINE t == Append(s, e)
<1>1. /\ DOMAIN t = 1 .. Len(s) + 1 /\ t[Len(s) + 1] = e /\ \A i \in 1 .. Len(s) : t[i] = s[i]
      /\ Len(s) \in Nat /\ DOMAIN s = 1 .. Len(s)
  BY TextAppended, TextIs
<1> HIDE DEF t
<1>2. Len(s) + 1 \in DOMAIN t /\ \A i \in DOMAIN s : i \in DOMAIN t /\ t[i] = s[i]
  BY <1>1
<1> QED BY <1>1, <1>2 DEF Range, t

LEMMA OwnRequest ==
  ASSUME IInv, Counted, NEW c \in Conns
  PROVE  c \in DOMAIN opts.requests /\ opts.requests[c] \in Requests
<1>1. opts \in Sessions /\ IsText(server)
  BY DEF IInv, Objects
<1>2. opts.requests \in Seq(Requests)
  BY <1>1, SecureCallAssumption
<1>3. c \in 1 .. Len(server) /\ Len(server) \in Nat /\ Len(server) <= Len(opts.requests)
      /\ Len(opts.requests) \in Nat
  BY <1>1, <1>2, TextIs DEF Counted, Conns
<1>4. c \in 1 .. Len(opts.requests)
  BY <1>3
<1> QED BY <1>2, <1>4

LEMMA ServerServes ==
  ASSUME IInv, Counted, Exchanges, NEW c \in Conns, NEW r \in ServerSteps(c),
         NEW act \in BOOLEAN, NEW gone \in BOOLEAN, NEW peer \in BOOLEAN,
         act <=> c = conn /\ Working(client), gone <=> c \in left, gone <=> ~ peer
  PROVE  /\ opts.requests[c] \in Requests
         /\ Served(server[c], to_server[c], to_client[c], peer, r)
         /\ Exchange(opts.requests[c], server[c], to_server[c], to_client[c], act, gone, client,
                     executed)
<1> DEFINE s == server[c].ssl
           in == to_server[c]
           out == to_client[c]
<1>1. (c \notin left) = peer
  OBVIOUS
<1>2. Open(c) /\ Ready(s.mask, in, out, peer) /\ r \in switch_state(s, in, out, peer)
  BY <1>1 DEF ServerSteps
<1>3. IsServer(server[c]) /\ Attended(server[c]) /\ Open(c) /\ server[c].executing = {}
  BY ServerSwitching DEF IInv
<1>4. Waiting(s) /\ s.ssl.role = "server" /\ ~ s.ssl.sent_shutdown /\ Heard(s)
  BY <1>2, <1>3 DEF Attended, Open
<1>5. UnderWay(in, out, Open(c), c \in left, c = conn)
  BY DEF IInv, Pipes
<1>6. IsEnd(s.ssl, in, out, peer)
  BY <1>2, <1>3, <1>5 DEF IsServer, IsConnection, IsEnd, UnderWay
<1>7. Served(server[c], in, out, peer, r)
  BY <1>2, <1>3, <1>4, <1>6 DEF Served, Waiting, Open
<1>8. Exchange(opts.requests[c], server[c], in, out, act, gone, client, executed)
  BY DEF Exchanges
<1> QED BY <1>7, <1>8, OwnRequest

(* What a step of the server does to one connection. *)
Exchanged(c, new, ts, tc) ==
  \A act, gone \in BOOLEAN :
    (act <=> c = conn /\ Working(client)) /\ (gone <=> c \in left) =>
      Exchange(opts.requests[c], new, ts, tc, act, gone, client, executed')

Ran(c, new) ==
  \/ executed' = executed /\ (Past(server[c]) => Past(new))
  \/ ~ Past(server[c]) /\ Past(new) /\ \E req : executed' = Append(executed, req)

LEMMA OwnServed ==
  ASSUME IInv, Counted, RunOnce, Answered, Exchanges, NEW c \in Conns, NEW new, NEW ts, NEW tc,
         UNCHANGED clientVars, server' = [server EXCEPT ![c] = new],
         to_server' = [to_server EXCEPT ![c] = ts], to_client' = [to_client EXCEPT ![c] = tc],
         Exchanged(c, new, ts, tc), Ran(c, new)
  PROVE  Counted' /\ RunOnce' /\ Answered' /\ Exchanges'
<1>1. /\ opts' = opts /\ phase' = phase /\ conn' = conn /\ client' = client /\ results' = results
      /\ left' = left
  BY DEF clientVars
<1>2. /\ IsText(server) /\ IsText(to_server) /\ IsText(to_client) /\ IsText(executed)
      /\ DOMAIN server = 1 .. Len(server) /\ Len(server) \in Nat
      /\ DOMAIN to_server = DOMAIN server /\ DOMAIN to_client = DOMAIN server
  BY TextIs DEF IInv, Objects, RunOnce
<1>3. /\ Len(server') = Len(server) /\ DOMAIN server' = DOMAIN server
      /\ server'[c] = new /\ \A d \in DOMAIN server : d # c => server'[d] = server[d]
  BY <1>2, TextReplaced DEF Conns
<1>4. /\ to_server'[c] = ts /\ \A d \in DOMAIN server : d # c => to_server'[d] = to_server[d]
  <2>1. c \in DOMAIN to_server
    BY <1>2 DEF Conns
  <2> QED BY <1>2, <2>1, TextReplaced
<1>5. /\ to_client'[c] = tc /\ \A d \in DOMAIN server : d # c => to_client'[d] = to_client[d]
  <2>1. c \in DOMAIN to_client
    BY <1>2 DEF Conns
  <2> QED BY <1>2, <2>1, TextReplaced
<1>6. Range(executed) \subseteq Range(executed')
  BY <1>2, RangeGrows DEF Ran
<1>7. Counted'
  BY <1>1, <1>3 DEF Counted, call
<1>8. Answered'
  BY <1>1, <1>6 DEF Answered
<1>9. Exchanges'
  <2> SUFFICES ASSUME NEW d \in DOMAIN server, NEW act \in BOOLEAN, NEW gone \in BOOLEAN,
                      act <=> d = conn /\ Working(client), gone <=> d \in left
               PROVE  Exchange(opts.requests[d], server'[d], to_server'[d], to_client'[d], act, gone,
                               client, executed')
    BY <1>1, <1>3 DEF Exchanges, Conns
  <2>1. CASE d = c
    BY <1>3, <1>4, <1>5, <2>1 DEF Exchanged
  <2>2. CASE d # c
    <3>1. Exchange(opts.requests[d], server[d], to_server[d], to_client[d], act, gone, client, executed)
      BY DEF Exchanges, Conns
    <3>2. Exchange(opts.requests[d], server[d], to_server[d], to_client[d], act, gone, client, executed')
      BY <1>6, <3>1, MoreRuns
    <3> QED BY <1>3, <1>4, <1>5, <2>2, <3>2
  <2> QED BY <2>1, <2>2
<1>10. RunOnce'
  <2> DEFINE P == {d \in Conns : Past(server[d])}
             Q == {d \in DOMAIN server : Past(server'[d])}
  <2>1. IsFiniteSet(P) /\ IsFiniteSet(Q) /\ c \in Conns
    BY <1>2, FS_Interval, FS_Subset DEF Conns
  <2>2. RunOnce' <=> IsText(executed') /\ Len(executed') <= Cardinality(Q)
    BY <1>3 DEF RunOnce, Conns
  <2>3. IsText(executed) /\ Len(executed) <= Cardinality(P) /\ Len(executed) \in Nat
    BY <1>2, TextIs DEF RunOnce
  <2>4. \A d \in P : d # c => d \in Q
    BY <1>3 DEF Conns
  <2>5. (Past(server[c]) <=> c \in P) /\ (Past(new) <=> c \in Q)
    BY <1>3 DEF Conns
  <2> HIDE DEF P, Q
  <2>6. CASE executed' = executed /\ (Past(server[c]) => Past(new))
    <3>1. P \subseteq Q
      BY <2>4, <2>5, <2>6
    <3>2. Cardinality(P) <= Cardinality(Q) /\ Cardinality(P) \in Nat /\ Cardinality(Q) \in Nat
      BY <2>1, <3>1, FS_Subset, FS_CardinalityType
    <3> QED BY <2>2, <2>3, <2>6, <3>2
  <2>7. CASE ~ Past(server[c]) /\ Past(new) /\ \E req : executed' = Append(executed, req)
    <3>1. c \notin P /\ P \cup {c} \subseteq Q
      BY <2>4, <2>5, <2>7
    <3>2. /\ IsFiniteSet(P \cup {c}) /\ Cardinality(P \cup {c}) = Cardinality(P) + 1
          /\ Cardinality(P) \in Nat
      BY <2>1, <3>1, FS_AddElement, FS_CardinalityType
    <3>3. Cardinality(P \cup {c}) <= Cardinality(Q) /\ Cardinality(Q) \in Nat
      BY <2>1, <3>1, <3>2, FS_Subset, FS_CardinalityType
    <3>4. IsText(executed') /\ Len(executed') = Len(executed) + 1
      BY <2>3, <2>7, TextAppended
    <3> QED BY <2>2, <2>3, <3>2, <3>3, <3>4
  <2> QED BY <2>6, <2>7 DEF Ran
<1> QED BY <1>7, <1>8, <1>9, <1>10

Owned == Counted /\ RunOnce /\ Answered /\ Exchanges

(* What the handler says tells the state it was called in. *)
LEMMA StateTold ==
  ASSUME NEW s, NEW ts, NEW tc, NEW peer, NEW r, Served(s, ts, tc, peer, r)
  PROVE  /\ r.what = "accept_succeed" => s.ssl.state = "ACCEPTING"
         /\ r.what = "recv_succeed" => s.ssl.state = "READING"
         /\ r.what = "send_succeed" => s.ssl.state = "WRITING"
         /\ IsConnection(r.conn) /\ IsText(r.out) /\ s.open = TRUE /\ Fields(s)
<1> DEFINE c == s.ssl
<1>1. IsConnection(c) /\ IsEnd(c.ssl, ts, tc, peer) /\ r \in switch_state(c, ts, tc, peer)
      /\ c.state \in {"ACCEPTING", "READING", "WRITING", "SHUTDOWN"}
      /\ s.open = TRUE /\ Fields(s)
  BY FieldsOf DEF Served, IsServer
<1> HIDE DEF c
<1>2. PICK o \in Call(c, End(c.ssl, ts, tc, peer)) :
        /\ Switched(r, c, o)
        /\ r.what = "again" => o.what \in {"need_read", "need_write", "connection_close"}
        /\ r.what \in {"network_error", "exception"} => o.what = r.what
        /\ r.what \in {"accept_succeed", "connect_succeed", "recv_succeed", "send_succeed",
                       "terminate"} => o.what = "ok" /\ r.what = Success(c.state)
        /\ r.what \in {"again", "network_error", "exception", "terminate", "accept_succeed",
                       "connect_succeed", "recv_succeed", "send_succeed"}
  BY <1>1, Told
<1>3. Left(o, c.ssl, ts, tc, peer)
  BY <1>1, Calling
<1>4. IsConnection(r.conn) /\ IsText(r.out)
  BY <1>2, <1>3 DEF Switched, Left, Clean
<1>5. /\ r.what = "accept_succeed" => c.state = "ACCEPTING"
      /\ r.what = "recv_succeed" => c.state = "READING"
      /\ r.what = "send_succeed" => c.state = "WRITING"
  BY <1>1, <1>2, Successes
<1> QED BY <1>1, <1>4, <1>5 DEF c

(* What the handler does is enough to know of a step. *)
Carried(c, r, new, ts, tc) ==
  \A act, gone, peer \in BOOLEAN :
    /\ gone <=> ~ peer
    /\ opts.requests[c] \in Requests
    /\ Served(server[c], to_server[c], to_client[c], peer, r)
    /\ Exchange(opts.requests[c], server[c], to_server[c], to_client[c], act, gone, client, executed)
    => /\ Exchange(opts.requests[c], new, ts, tc, act, gone, client, executed)
       /\ Past(server[c]) => Past(new)

LEMMA OwnStep ==
  ASSUME IInv, Owned, NEW c \in Conns, NEW r \in ServerSteps(c), NEW new, NEW ts, NEW tc,
         Carried(c, r, new, ts, tc), UNCHANGED clientVars, executed' = executed,
         server' = [server EXCEPT ![c] = new],
         to_server' = [to_server EXCEPT ![c] = ts], to_client' = [to_client EXCEPT ![c] = tc]
  PROVE  Owned'
<1>1. ASSUME NEW act \in BOOLEAN, NEW gone \in BOOLEAN,
             act <=> c = conn /\ Working(client), gone <=> c \in left
      PROVE  /\ Exchange(opts.requests[c], new, ts, tc, act, gone, client, executed)
             /\ Past(server[c]) => Past(new)
  <2>1. PICK peer \in BOOLEAN : gone <=> ~ peer
    OBVIOUS
  <2>2. /\ opts.requests[c] \in Requests
        /\ Served(server[c], to_server[c], to_client[c], peer, r)
        /\ Exchange(opts.requests[c], server[c], to_server[c], to_client[c], act, gone, client,
                    executed)
    BY <1>1, <2>1, ServerServes DEF Owned
  <2> QED BY <2>1, <2>2 DEF Carried
<1>2. PICK act, gone \in BOOLEAN : (act <=> c = conn /\ Working(client)) /\ (gone <=> c \in left)
  <2>1. (c = conn /\ Working(client)) \in BOOLEAN /\ (c \in left) \in BOOLEAN
    OBVIOUS
  <2> QED BY <2>1
<1>3. Past(server[c]) => Past(new)
  BY <1>1, <1>2
<1>4. Exchanged(c, new, ts, tc) /\ Ran(c, new)
  BY <1>1, <1>3 DEF Exchanged, Ran
<1> QED BY <1>4, OwnServed DEF Owned

(* The members of the connection when the handler has returned. *)
LEMMA Now ==
  ASSUME NEW c \in Conns, NEW r, Fields(server[c])
  PROVE  LET s == ServerNow(c, r)
         IN  /\ Fields(s) /\ s.ssl = r.conn /\ s.preader = server[c].preader
             /\ s.open = server[c].open /\ s.keep_alive = server[c].keep_alive
             /\ s.executing = server[c].executing
<1> DEFINE old == server[c]
           d == r.conn
           s == [old EXCEPT !.ssl = d]
<1>1. Fields(old)
  OBVIOUS
<1>2. /\ Fields(s) /\ s.ssl = d /\ s.preader = old.preader
      /\ s.open = old.open /\ s.keep_alive = old.keep_alive /\ s.executing = old.executing
  <2> HIDE DEF old, d
  <2> QED BY <1>1, SslField
<1>3. ServerNow(c, r) = s
  BY DEF ServerNow
<1> QED BY <1>2, <1>3

LEMMA OwnAcceptSucceed ==
  ASSUME IInv, Owned, NEW c \in Conns, accept_succeed(c)
  PROVE  Owned'
<1>1. PICK r \in ServerSteps(c) :
        r.what = "accept_succeed" /\ Serve(c, [ServerNow(c, r) EXCEPT !.ssl = reg_recv(@)], r)
  BY DEF accept_succeed
<1> DEFINE old == server[c]
           now == ServerNow(c, r)
           ssl == reg_recv(r.conn)
           new == [now EXCEPT !.ssl = ssl]
<1>2. /\ Fields(now) /\ now.ssl = r.conn /\ now.preader = old.preader /\ now.open = old.open
      /\ now.keep_alive = old.keep_alive /\ now.executing = old.executing
  BY FieldsOf, Now DEF IInv, Objects
<1>3. Serve(c, new, r)
  BY <1>1, <1>2
<1> HIDE DEF now, ssl
<1>4. /\ new.ssl = ssl /\ new.preader = old.preader /\ new.open = old.open
      /\ new.keep_alive = old.keep_alive /\ new.executing = old.executing
  <2> HIDE DEF old
  <2> QED BY <1>2, SslField
<1> HIDE DEF new
<1>5. Carried(c, r, new, r.in, r.out)
  <2> DEFINE req == opts.requests[c]
             ts == to_server[c]
             tc == to_client[c]
  <2> SUFFICES ASSUME NEW act \in BOOLEAN, NEW gone \in BOOLEAN, NEW peer \in BOOLEAN,
                      gone <=> ~ peer, req \in Requests, Served(old, ts, tc, peer, r),
                      Exchange(req, old, ts, tc, act, gone, client, executed)
               PROVE  /\ Exchange(req, new, r.in, r.out, act, gone, client, executed)
                      /\ Past(old) => Past(new)
    BY DEF Carried
  <2> HIDE DEF req, ts, tc, old
  <2>1. old.ssl.state = "ACCEPTING" /\ IsConnection(r.conn)
    BY <1>1, StateTold
  <2>2. ssl.ssl = r.conn.ssl /\ ssl.state = "READING"
    BY <2>1, Received DEF ssl
  <2>3. new.open /\ new.executing = {} /\ new.ssl.ssl = r.conn.ssl /\ new.ssl.state = "READING"
    BY <1>4, <2>2 DEF Served
  <2>4. Exchange(req, new, r.in, r.out, act, gone, client, executed)
    BY <1>1, <1>4, <2>1, <2>3, AcceptsOn
  <2>5. ~ Past(old)
    BY <2>1, Stages DEF Served, Past
  <2> QED BY <2>4, <2>5
<1>6. executed' = executed /\ UNCHANGED clientVars
  BY DEF accept_succeed, ServerOthers
<1> DEFINE in == r.in
           out == r.out
<1>7. /\ server' = [server EXCEPT ![c] = new] /\ to_server' = [to_server EXCEPT ![c] = in]
      /\ to_client' = [to_client EXCEPT ![c] = out] /\ Carried(c, r, new, in, out)
  BY <1>3, <1>5 DEF Serve
<1> HIDE DEF in, out
<1> QED BY <1>6, <1>7, OwnStep

LEMMA AfterHandler ==
  ASSUME IInv, NEW c \in Conns, NEW r
  PROVE  LET s == ServerNow(c, r)
         IN  /\ Fields(s) /\ s.ssl = r.conn /\ s.preader = server[c].preader
             /\ s.open = server[c].open /\ s.keep_alive = server[c].keep_alive
             /\ s.executing = server[c].executing
  BY FieldsOf, Now DEF IInv, Objects

LEMMA OwnServerWaits ==
  ASSUME IInv, Owned, NEW c \in Conns, server_waits(c)
  PROVE  Owned'
<1>1. PICK r \in ServerSteps(c) : r.what = "again" /\ Serve(c, ServerNow(c, r), r)
  BY DEF server_waits
<1> DEFINE old == server[c]
           new == ServerNow(c, r)
           in == r.in
           out == r.out
<1>2. /\ Fields(new) /\ new.ssl = r.conn /\ new.preader = old.preader /\ new.open = old.open
      /\ new.keep_alive = old.keep_alive /\ new.executing = old.executing
  BY AfterHandler
<1> HIDE DEF new
<1>3. Carried(c, r, new, in, out)
  <2> DEFINE req == opts.requests[c]
             ts == to_server[c]
             tc == to_client[c]
  <2> SUFFICES ASSUME NEW act \in BOOLEAN, NEW gone \in BOOLEAN, NEW peer \in BOOLEAN,
                      gone <=> ~ peer, req \in Requests, Served(old, ts, tc, peer, r),
                      Exchange(req, old, ts, tc, act, gone, client, executed)
               PROVE  /\ Exchange(req, new, r.in, r.out, act, gone, client, executed)
                      /\ Past(old) => Past(new)
    BY DEF Carried
  <2> HIDE DEF req, ts, tc, old
  <2>1. /\ old.open /\ old.executing = {} /\ new.open /\ new.executing = {}
        /\ old.ssl.state \in {"ACCEPTING", "READING", "WRITING", "SHUTDOWN"}
    BY <1>2 DEF Served
  <2>2. CASE old.ssl.state = "ACCEPTING"
    <3>1. Exchange(req, new, r.in, r.out, act, gone, client, executed)
      BY <1>1, <1>2, <2>1, <2>2, AcceptsOn
    <3>2. ~ Past(old)
      BY <2>1, <2>2, Stages DEF Past
    <3> QED BY <3>1, <3>2
  <2>3. CASE old.ssl.state = "READING"
    <3>1. Exchange(req, new, r.in, r.out, act, gone, client, executed)
      BY <1>1, <1>2, <2>1, <2>3, ReadsOn
    <3>2. ~ Past(old)
      BY <2>1, <2>3, Stages DEF Past
    <3> QED BY <3>1, <3>2
  <2>4. CASE old.ssl.state = "WRITING"
    <3>1. Stage(new) = "writes" /\ Exchange(req, new, r.in, r.out, act, gone, client, executed)
      BY <1>1, <1>2, <2>1, <2>4, WritesOn
    <3> QED BY <3>1 DEF Past
  <2>5. CASE old.ssl.state = "SHUTDOWN"
    <3>1. Ending(req, r.out, act, client, executed) /\ new.ssl.state = "SHUTDOWN"
      BY <1>1, <1>2, <2>5, EndsOn
    <3>2. Stage(new) = "ended" /\ new.keep_alive = FALSE
      BY <1>2, <2>1, <3>1, Stages DEF Exchange
    <3>3. Exchange(req, new, r.in, r.out, act, gone, client, executed)
      BY <3>1, <3>2, Ended
    <3> QED BY <3>2, <3>3 DEF Past
  <2> QED BY <2>1, <2>2, <2>3, <2>4, <2>5
<1>4. executed' = executed /\ UNCHANGED clientVars
  BY DEF server_waits, ServerOthers
<1>5. /\ server' = [server EXCEPT ![c] = new] /\ to_server' = [to_server EXCEPT ![c] = in]
      /\ to_client' = [to_client EXCEPT ![c] = out]
  BY <1>1 DEF Serve, new
<1> HIDE DEF in, out
<1> QED BY <1>3, <1>4, <1>5, OwnStep

(* What is left when the handler asks for the end of the connection. *)
LEMMA LastSent ==
  ASSUME NEW req \in Requests, NEW s, NEW ts, NEW tc, NEW act \in BOOLEAN, NEW gone, NEW cl, NEW runs,
         NEW peer, gone <=> ~ peer, NEW r, Served(s, ts, tc, peer, r),
         Exchange(req, s, ts, tc, act, gone, cl, runs),
         r.what \in {"send_succeed", "terminate", "network_error", "exception"}
  PROVE  Ending(req, r.out, act, cl, runs)
<1>1. s.ssl.state \in {"ACCEPTING", "READING", "WRITING", "SHUTDOWN"}
  BY DEF Served
<1>2. CASE s.ssl.state = "ACCEPTING"
  <2>1. ~ act
    BY <1>2, AcceptsOn
  <2> QED BY <2>1 DEF Ending
<1>3. CASE s.ssl.state = "READING"
  <2>1. ~ act
    BY <1>3, ReadsOn
  <2> QED BY <2>1 DEF Ending
<1>4. CASE s.ssl.state = "WRITING"
  BY <1>4, WritesOn
<1>5. CASE s.ssl.state = "SHUTDOWN"
  BY <1>5, EndsOn
<1> QED BY <1>1, <1>2, <1>3, <1>4, <1>5

LEMMA OwnDeletes ==
  ASSUME IInv, Owned, NEW c \in Conns, NEW r \in ServerSteps(c),
         r.what \in {"send_succeed", "terminate", "network_error", "exception"},
         Delete(c, r), UNCHANGED clientVars, executed' = executed
  PROVE  Owned'
<1> DEFINE old == server[c]
           new == [Accepted EXCEPT !.open = FALSE, !.ssl = Reaction_connection("server")]
           in == <<>>
<1>1. PICK out \in Resets(r.in, r.out) : to_client' = [to_client EXCEPT ![c] = out]
  BY DEF Delete
<1>2. new.open = FALSE /\ new.keep_alive = FALSE
  BY DEF Accepted
<1>3. server' = [server EXCEPT ![c] = new] /\ to_server' = [to_server EXCEPT ![c] = in]
  BY DEF Delete
<1> HIDE DEF new, in
<1>4. Stage(new) = "ended" /\ Past(new)
  BY <1>2, Stages DEF Past
<1>5. Carried(c, r, new, in, out)
  <2> DEFINE req == opts.requests[c]
             ts == to_server[c]
             tc == to_client[c]
  <2> SUFFICES ASSUME NEW act \in BOOLEAN, NEW gone \in BOOLEAN, NEW peer \in BOOLEAN,
                      gone <=> ~ peer, req \in Requests, Served(old, ts, tc, peer, r),
                      Exchange(req, old, ts, tc, act, gone, client, executed)
               PROVE  Exchange(req, new, in, out, act, gone, client, executed)
    BY <1>4 DEF Carried
  <2> HIDE DEF req, ts, tc, old
  <2>1. Ending(req, r.out, act, client, executed)
    BY LastSent
  <2>2. IsText(r.out)
    BY StateTold
  <2> DEFINE sent == r.out
             unread == r.in
  <2>3. Ending(req, sent, act, client, executed) /\ IsText(sent) /\ out \in Resets(unread, sent)
    BY <2>1, <2>2
  <2> HIDE DEF sent, unread
  <2>4. Ending(req, out, act, client, executed)
    BY <2>3, EndingReset
  <2> QED BY <1>2, <1>4, <2>4, Ended
<1> QED BY <1>1, <1>3, <1>5, OwnStep

LEMMA OwnServerTerminates ==
  ASSUME IInv, Owned, NEW c \in Conns, server_terminates(c)
  PROVE  Owned'
<1>1. PICK r \in ServerSteps(c) :
        r.what \in {"terminate", "network_error", "exception"} /\ Delete(c, r)
  BY DEF server_terminates
<1>2. executed' = executed /\ UNCHANGED clientVars
  BY DEF server_terminates, ServerOthers
<1> QED BY <1>1, <1>2, OwnDeletes

LEMMA NotKept ==
  ASSUME Exchanges, NEW c \in Conns
  PROVE  \E act, gone \in BOOLEAN :
           /\ server[c].keep_alive = FALSE
           /\ Exchange(opts.requests[c], server[c], to_server[c], to_client[c], act, gone, client,
                       executed)
<1>1. PICK act, gone \in BOOLEAN : (act <=> c = conn /\ Working(client)) /\ (gone <=> c \in left)
  <2>1. (c = conn /\ Working(client)) \in BOOLEAN /\ (c \in left) \in BOOLEAN
    OBVIOUS
  <2> QED BY <2>1
<1>2. Exchange(opts.requests[c], server[c], to_server[c], to_client[c], act, gone, client, executed)
  BY <1>1 DEF Exchanges
<1>3. server[c].keep_alive = FALSE
  BY <1>2 DEF Exchange
<1> QED BY <1>2, <1>3

LEMMA OwnSendSucceed ==
  ASSUME IInv, Owned, NEW c \in Conns, send_succeed(c)
  PROVE  Owned'
<1>1. PICK r \in ServerSteps(c) :
        LET s == ServerNow(c, r)
        IN  /\ r.what = "send_succeed"
            /\ IF s.keep_alive THEN Serve(c, [s EXCEPT !.ssl = reg_recv(@)], r)
               ELSE IF shutdown_performed(s.ssl) THEN Delete(c, r)
               ELSE Serve(c, [s EXCEPT !.ssl = reg_shutdown(@)], r)
  BY DEF send_succeed
<1>2. executed' = executed /\ UNCHANGED clientVars
  BY DEF send_succeed, ServerOthers
<1> DEFINE old == server[c]
           now == ServerNow(c, r)
           ssl == reg_shutdown(r.conn)
           new == [now EXCEPT !.ssl = ssl]
           in == r.in
           out == r.out
<1>3. /\ Fields(now) /\ now.ssl = r.conn /\ now.preader = old.preader /\ now.open = old.open
      /\ now.keep_alive = old.keep_alive /\ now.executing = old.executing
  BY AfterHandler
<1>4. old.keep_alive = FALSE
  BY NotKept DEF Owned
<1>5. r.what = "send_succeed" /\ (Delete(c, r) \/ Serve(c, new, r))
  BY <1>1, <1>3, <1>4
<1>6. CASE Delete(c, r)
  BY <1>2, <1>5, <1>6, OwnDeletes
<1>7. CASE Serve(c, new, r)
  <2> HIDE DEF now
  <2>1. IsConnection(r.conn) /\ ~ r.conn.ssl.sent_shutdown
    BY <1>5, ServerSwitching
  <2>2. ssl.state = "SHUTDOWN"
    BY <2>1, Alerted
  <2> HIDE DEF ssl
  <2>3. /\ new.ssl = ssl /\ new.open = old.open
        /\ new.keep_alive = old.keep_alive /\ new.executing = old.executing
    <3> HIDE DEF old
    <3> QED BY <1>3, SslField
  <2> HIDE DEF new
  <2>4. Carried(c, r, new, in, out)
    <3> DEFINE req == opts.requests[c]
               ts == to_server[c]
               tc == to_client[c]
    <3> SUFFICES ASSUME NEW act \in BOOLEAN, NEW gone \in BOOLEAN, NEW peer \in BOOLEAN,
                        gone <=> ~ peer, req \in Requests, Served(old, ts, tc, peer, r),
                        Exchange(req, old, ts, tc, act, gone, client, executed)
                 PROVE  /\ Exchange(req, new, in, out, act, gone, client, executed)
                        /\ Past(old) => Past(new)
      BY DEF Carried
    <3> HIDE DEF req, ts, tc, old
    <3>1. Ending(req, r.out, act, client, executed)
      BY <1>5, LastSent
    <3>2. new.open /\ new.executing = {}
      BY <2>3 DEF Served
    <3>3. Stage(new) = "ended"
      BY <2>2, <2>3, <3>2, Stages
    <3> QED BY <1>4, <2>3, <3>1, <3>3, Ended DEF Past
  <2>5. /\ server' = [server EXCEPT ![c] = new] /\ to_server' = [to_server EXCEPT ![c] = in]
        /\ to_client' = [to_client EXCEPT ![c] = out]
    BY <1>7 DEF Serve
  <2> HIDE DEF in, out
  <2> QED BY <1>2, <2>4, <2>5, OwnStep
<1> QED BY <1>5, <1>6, <1>7

(* A response is scheduled. *)
LEMMA Scheduled ==
  ASSUME NEW s, Fields(s), IsConnection(s.ssl), NEW code, NEW content, NEW res,
         res = schedule_response(s, code, content)
  PROVE  /\ res.ssl.state = "WRITING" /\ res.ssl.ssl = s.ssl.ssl
         /\ res.ssl.send_buf = dump(code, set_conn_keep_alive(Header, s.keep_alive), content)
         /\ res.open = s.open /\ res.keep_alive = s.keep_alive /\ res.executing = s.executing
<1> DEFINE text == dump(code, set_conn_keep_alive(Header, s.keep_alive), content)
           conn_ == s.ssl
           buf == 1
           ssl == reg_send(conn_, text, buf)
           new == [s EXCEPT !.ssl = ssl]
<1>1. res = new
  BY DEF schedule_response
<1>2. IsConnection(conn_)
  OBVIOUS
<1> HIDE DEF text, conn_, buf
<1>3. ssl.ssl = conn_.ssl /\ ssl.state = "WRITING" /\ ssl.send_buf = text
  BY <1>2, Buffered
<1> HIDE DEF ssl
<1>4. /\ new.ssl = ssl /\ new.open = s.open
      /\ new.keep_alive = s.keep_alive /\ new.executing = s.executing
  BY SslField
<1> HIDE DEF new
<1> QED BY <1>1, <1>3, <1>4 DEF conn_, text

(* The request is the one that was asked. *)
LEMMA Requested ==
  ASSUME NEW req \in Requests
  PROVE  /\ RequestOf(RequestContent(req)) = {req}
         /\ conn_keep_alive(PacketOf(req)[1].options) = FALSE
<1>1. RequestOf(RequestContent(req)) = {req}
  BY ContentsAssumption DEF RequestOf
<1> DEFINE content == RequestContent(req)
<1>2. IsText(content) /\ PacketOf(req) = dump(0, Closes, content)
  BY PacketIsText DEF PacketOf
<1> HIDE DEF content
<1>3. ~ conn_keep_alive(PacketOf(req)[1].options)
  BY <1>2, PacketIs
<1> QED BY <1>1, <1>3 DEF conn_keep_alive

LEMMA OwnRecvSucceed ==
  ASSUME IInv, Owned, NEW c \in Conns, recv_succeed(c)
  PROVE  Owned'
<1>1. PICK r \in ServerSteps(c) : \E read :
       LET s == [ServerNow(c, r) EXCEPT !.preader = read.reader]
           packet == read.outcome
       IN  /\ read = read_packet(server[c].preader, r.text, max_request_sz, HTTP_CHECK_WEAK)
           /\ r.what = "recv_succeed"
           /\ Serve(c, CASE packet.is = "packet" ->
                              schedule_execute(
                                [s EXCEPT !.keep_alive = conn_keep_alive(packet.header.options)],
                                packet.content)
                         [] packet.is = "error" ->
                              schedule_response([s EXCEPT !.keep_alive = FALSE], packet.code, <<>>)
                         [] OTHER -> [s EXCEPT !.ssl = reg_recv(@)], r)
  BY DEF recv_succeed
<1>2. PICK read :
       LET s == [ServerNow(c, r) EXCEPT !.preader = read.reader]
           packet == read.outcome
       IN  /\ read = read_packet(server[c].preader, r.text, max_request_sz, HTTP_CHECK_WEAK)
           /\ r.what = "recv_succeed"
           /\ Serve(c, CASE packet.is = "packet" ->
                              schedule_execute(
                                [s EXCEPT !.keep_alive = conn_keep_alive(packet.header.options)],
                                packet.content)
                         [] packet.is = "error" ->
                              schedule_response([s EXCEPT !.keep_alive = FALSE], packet.code, <<>>)
                         [] OTHER -> [s EXCEPT !.ssl = reg_recv(@)], r)
  BY <1>1
<1> DEFINE old == server[c]
           now == ServerNow(c, r)
           p == read.reader
           packet == read.outcome
           kept == conn_keep_alive(packet.header.options)
           s == [now EXCEPT !.preader = p]
           new == CASE packet.is = "packet" ->
                         schedule_execute([s EXCEPT !.keep_alive = kept], packet.content)
                    [] packet.is = "error" ->
                         schedule_response([s EXCEPT !.keep_alive = FALSE], packet.code, <<>>)
                    [] OTHER -> [s EXCEPT !.ssl = reg_recv(@)]
           in == r.in
           out == r.out
<1>3. r.what = "recv_succeed" /\ Serve(c, new, r)
      /\ read = read_packet(old.preader, r.text, max_request_sz, HTTP_CHECK_WEAK)
  BY <1>2
<1>4. /\ Fields(now) /\ now.ssl = r.conn /\ now.open = old.open
      /\ now.keep_alive = old.keep_alive /\ now.executing = old.executing
  BY AfterHandler
<1> HIDE DEF old, now, p, kept
<1>5. /\ Fields(s) /\ s.ssl = r.conn /\ s.preader = p /\ s.open = old.open
      /\ s.keep_alive = old.keep_alive /\ s.executing = old.executing
  BY <1>4, PreaderField, SMTT(30)
<1> HIDE DEF s
<1>6. ASSUME NEW k
      PROVE  LET t == [s EXCEPT !.keep_alive = k]
             IN  /\ Fields(t) /\ t.ssl = r.conn /\ t.preader = p /\ t.open = old.open
                 /\ t.keep_alive = k /\ t.executing = old.executing
  BY <1>5, KeepAliveField
<1>7. Carried(c, r, new, in, out)
  <2> DEFINE req == opts.requests[c]
             ts == to_server[c]
             tc == to_client[c]
  <2> SUFFICES ASSUME NEW act \in BOOLEAN, NEW gone \in BOOLEAN, NEW peer \in BOOLEAN,
                      gone <=> ~ peer, req \in Requests, Served(old, ts, tc, peer, r),
                      Exchange(req, old, ts, tc, act, gone, client, executed)
               PROVE  /\ Exchange(req, new, in, out, act, gone, client, executed)
                      /\ Past(old) => Past(new)
    BY DEF Carried, old
  <2> HIDE DEF req, ts, tc
  <2>1. old.ssl.state = "READING" /\ IsConnection(r.conn) /\ old.open = TRUE /\ old.executing = {}
    BY <1>3, StateTold DEF Served
  <2>2. HasRead(req, old, r, tc, act, client)
    BY <1>3, <2>1, ReadsOn
  <2>3. Stage(old) = "reads" /\ ~ Past(old)
    BY <2>1, Stages DEF Past
  <2>4. (act \/ gone) /\ (act => ~ gone /\ client.out_str = PacketOf(req))
    BY <2>3 DEF Exchange
  <2>5. PICK m \in 0 .. Number(PacketOf(req)) - 1 :
          /\ At(old.preader, PacketOf(req), m) /\ r.text = Records(PacketOf(req))[m + 1].text
          /\ Remains(in, PacketOf(req), m + 1)
          /\ act => \E k \in m + 1 .. Number(PacketOf(req)) :
                      Full(in, PacketOf(req), m + 1, k) /\ Asking(client, PacketOf(req), k, tc)
    BY <2>2 DEF HasRead
  <2>6. r.conn.ssl.unsent = <<>> /\ out = tc /\ old.keep_alive = FALSE
    BY <2>2 DEF HasRead
  <2> HIDE DEF in, out
  <2>7. ReadAs(req, read, in, out, act, gone, client, executed)
    <3>1. ReadAs(req, read_packet(old.preader, Records(PacketOf(req))[m + 1].text, max_request_sz,
                                  HTTP_CHECK_WEAK), in, tc, act, gone, client, executed)
      BY <2>4, <2>5, RecordServed
    <3> QED BY <1>3, <2>5, <2>6, <3>1
  <2>8. CASE packet.is = "error"
                  /\ \A t : Stage(t) = "writes" /\ t.keep_alive = FALSE
                            /\ t.ssl.state = "WRITING" /\ t.ssl.ssl.unsent = <<>>
                            /\ t.ssl.send_buf = dump(packet.code, Closes, <<>>)
                      => Exchange(req, t, in, out, act, gone, client, executed)
    <3> DEFINE t == [s EXCEPT !.keep_alive = FALSE]
               code == packet.code
               none == <<>>
    <3>1. new = schedule_response(t, code, none)
      BY <2>8
    <3>2. Fields(t) /\ t.ssl = r.conn /\ t.open = TRUE /\ t.keep_alive = FALSE /\ t.executing = {}
      BY <1>6, <2>1
    <3> HIDE DEF t, code, none, new
    <3>3. IsConnection(t.ssl)
      BY <2>1, <3>2
    <3>4. /\ new.ssl.state = "WRITING" /\ new.ssl.ssl = t.ssl.ssl
          /\ new.ssl.send_buf = dump(code, set_conn_keep_alive(Header, t.keep_alive), none)
          /\ new.open = t.open /\ new.keep_alive = t.keep_alive /\ new.executing = t.executing
      BY <3>1, <3>2, <3>3, Scheduled
    <3>5. Stage(new) = "writes"
      BY <3>2, <3>4, Stages
    <3> QED BY <2>3, <2>6, <2>8, <3>2, <3>4, <3>5 DEF code, none, Closes
  <2>9. CASE packet.is = "incomplete"
                  /\ \A t : Stage(t) = "reads" /\ t.keep_alive = FALSE
                            /\ t.preader = read.reader /\ t.ssl.ssl.unsent = <<>>
                      => Exchange(req, t, in, out, act, gone, client, executed)
    <3> DEFINE ssl == reg_recv(r.conn)
               t == [s EXCEPT !.ssl = ssl]
    <3>1. new = t
      BY <1>5, <2>9
    <3>2. ssl.state = "READING" /\ ssl.ssl = r.conn.ssl
      BY <2>1, Received
    <3> HIDE DEF ssl, new
    <3>3. /\ t.ssl = ssl /\ t.preader = p /\ t.open = old.open /\ t.keep_alive = old.keep_alive
          /\ t.executing = old.executing
      BY <1>5, SslField
    <3> HIDE DEF t
    <3>4. Stage(t) = "reads"
      BY <2>1, <3>2, <3>3, Stages
    <3> QED BY <2>3, <2>6, <2>9, <3>1, <3>2, <3>3, <3>4 DEF p
  <2>10. CASE packet = Packet(PacketOf(req)[1], RequestContent(req))
                  /\ \A t : Stage(t) = "executes" /\ t.keep_alive = FALSE
                            /\ t.executing = {req} /\ t.ssl.ssl.unsent = <<>>
                      => Exchange(req, t, in, out, act, gone, client, executed)
    <3> DEFINE t == [s EXCEPT !.keep_alive = kept]
               e == {req}
               u == [t EXCEPT !.executing = e]
    <3>1. /\ packet.is = "packet" /\ packet.content = RequestContent(req)
          /\ packet.header = PacketOf(req)[1]
      BY <2>10 DEF Packet
    <3>2. RequestOf(packet.content) = {req} /\ kept = FALSE
      BY <3>1, Requested DEF kept
    <3>3. new = schedule_execute(t, packet.content)
      BY <3>1
    <3>4. Fields(t) /\ t.ssl = r.conn /\ t.open = TRUE /\ t.keep_alive = FALSE /\ t.executing = {}
      BY <1>6, <2>1, <3>2
    <3> HIDE DEF new, t
    <3>5. new = u
      BY <3>2, <3>3 DEF schedule_execute
    <3> HIDE DEF e
    <3>6. u.ssl = t.ssl /\ u.open = t.open /\ u.keep_alive = t.keep_alive /\ u.executing = e
      BY <3>4, ExecutingField
    <3> HIDE DEF u
    <3>7. Stage(u) = "executes"
      BY <3>4, <3>6, Stages DEF e
    <3> QED BY <2>3, <2>6, <2>10, <3>4, <3>5, <3>6, <3>7 DEF e
  <2> HIDE DEF new
  <2> QED BY <2>7, <2>8, <2>9, <2>10 DEF ReadAs
<1>8. executed' = executed /\ UNCHANGED clientVars
  BY DEF recv_succeed, ServerOthers
<1>9. /\ server' = [server EXCEPT ![c] = new] /\ to_server' = [to_server EXCEPT ![c] = in]
      /\ to_client' = [to_client EXCEPT ![c] = out]
  BY <1>3 DEF Serve
<1> HIDE DEF in, out, new
<1> QED BY <1>7, <1>8, <1>9, OwnStep

LEMMA OwnProcess ==
  ASSUME IInv, Owned, NEW c \in Conns, process_actual_execution(c)
  PROVE  Owned'
<1> DEFINE old == server[c]
           none == {}
           idle == [old EXCEPT !.executing = none]
           ts == to_server[c]
           tc == to_client[c]
           req == opts.requests[c]
<1>1. PICK ran \in old.executing :
        /\ executed' = Append(executed, ran)
        /\ server' = [server EXCEPT ![c] = schedule_response(idle, 200, ResponseContent(Run(ran)))]
  BY DEF process_actual_execution
<1>2. UNCHANGED clientVars /\ UNCHANGED <<to_server, to_client>>
  BY DEF process_actual_execution, ServerOthers
<1>3. IsServer(old) /\ Attended(old) /\ Fields(old)
  BY FieldsOf DEF IInv, Objects
<1>4. old.open = TRUE /\ old.executing # {}
  BY <1>1, <1>3 DEF Attended, IsServer
<1>5. Stage(old) = "executes" /\ req \in Requests /\ old.keep_alive = FALSE
  BY <1>4, Stages, NotKept, OwnRequest DEF Owned
<1>6. ran = req
  <2>1. PICK act, gone \in BOOLEAN : Exchange(req, old, ts, tc, act, gone, client, executed)
    BY NotKept DEF Owned
  <2>2. old.executing = {req}
    BY <1>5, <2>1 DEF Exchange, Running
  <2> QED BY <1>1, <2>2
<1> DEFINE new == schedule_response(idle, 200, ResponseContent(Run(req)))
<1>7. server' = [server EXCEPT ![c] = new] /\ executed' = Append(executed, req)
  BY <1>1, <1>6
<1>8. to_server' = [to_server EXCEPT ![c] = ts] /\ to_client' = [to_client EXCEPT ![c] = tc]
  <2>1. IsText(to_server) /\ IsText(to_client)
    BY DEF IInv, Objects
  <2>2. to_server = [to_server EXCEPT ![c] = to_server[c]]
    BY <2>1, TextIs
  <2>3. to_client = [to_client EXCEPT ![c] = to_client[c]]
    BY <2>1, TextIs
  <2> QED BY <1>2, <2>2, <2>3
<1>9. /\ Fields(idle) /\ idle.ssl = old.ssl /\ idle.open = TRUE /\ idle.keep_alive = FALSE
      /\ idle.executing = {}
  <2>1. /\ Fields(idle) /\ idle.ssl = old.ssl /\ idle.open = old.open
        /\ idle.keep_alive = old.keep_alive /\ idle.executing = none
    <3> HIDE DEF old, none
    <3> QED BY <1>3, ExecutingField
  <2> QED BY <1>4, <1>5, <2>1
<1>10. IsConnection(idle.ssl)
  BY <1>3, <1>9 DEF IsServer
<1>11. /\ new.ssl.state = "WRITING" /\ new.ssl.ssl = old.ssl.ssl
       /\ new.ssl.send_buf = dump(200, Closes, ResponseContent(Run(req)))
       /\ new.open = TRUE /\ new.keep_alive = FALSE /\ new.executing = {}
  <2> DEFINE code == 200
             content == ResponseContent(Run(req))
  <2>1. new = schedule_response(idle, code, content)
    OBVIOUS
  <2> HIDE DEF new, idle, code, content
  <2>2. /\ new.ssl.state = "WRITING" /\ new.ssl.ssl = idle.ssl.ssl
        /\ new.ssl.send_buf = dump(code, set_conn_keep_alive(Header, idle.keep_alive), content)
        /\ new.open = idle.open /\ new.keep_alive = idle.keep_alive /\ new.executing = idle.executing
    BY <1>9, <1>10, <2>1, Scheduled
  <2> QED BY <1>9, <2>2 DEF code, content, Closes
<1> HIDE DEF new, idle
<1>12. Stage(new) = "writes" /\ Past(new) /\ ~ Past(old)
  BY <1>5, <1>11, Stages DEF Past
<1>13. req \in Range(executed')
  BY <1>7, RangeGrows DEF Owned, RunOnce
<1>14. ASSUME NEW act \in BOOLEAN, NEW gone \in BOOLEAN,
              act <=> c = conn /\ Working(client), gone <=> c \in left
       PROVE  Exchange(req, new, ts, tc, act, gone, client, executed')
  <2>1. Exchange(req, old, ts, tc, act, gone, client, executed)
    BY <1>14 DEF Owned, Exchanges
  <2> DEFINE runs == executed'
  <2>2. req \in Range(runs)
    BY <1>13
  <2> HIDE DEF req, old, ts, tc, runs
  <2>3. Exchange(req, new, ts, tc, act, gone, client, runs)
    BY <1>5, <1>11, <1>12, <2>1, <2>2, Executed
  <2> QED BY <2>3 DEF runs
<1>15. \A act, gone \in BOOLEAN :
         (act <=> c = conn /\ Working(client)) /\ (gone <=> c \in left) =>
           Exchange(opts.requests[c], new, ts, tc, act, gone, client, executed')
  BY <1>14
<1>16. ~ Past(server[c]) /\ Past(new) /\ \E q : executed' = Append(executed, q)
  BY <1>7, <1>12
<1>17. Ran(c, new) /\ Exchanged(c, new, ts, tc)
  BY <1>15, <1>16 DEF Ran, Exchanged
<1>18. server' = [server EXCEPT ![c] = new]
  BY <1>7
<1> HIDE DEF ts, tc
<1> QED BY <1>2, <1>18, <1>8, <1>17, OwnServed DEF Owned

-----------------------------------------------------------------------------
(* A step of the client, as the exchanges have it. *)

Greets(o, ssl, theirs) ==
  /\ o.what = "need_read" /\ Greeting(o.end.ssl.flights, theirs, o.end.out, o.end.in)
  /\ o.end.ssl.unsent = ssl.unsent

LEMMA ClientGreets ==
  ASSUME NEW ssl, NEW in, NEW out, NEW peer \in BOOLEAN, IsEnd(ssl, in, out, peer),
         ssl.role = "client", NEW o \in Handshake(End(ssl, in, out, peer)), NEW theirs,
         Greeting(ssl.flights, theirs, out, in)
  PROVE  peer => Greets(o, ssl, theirs)
<1> SUFFICES ASSUME peer PROVE Greets(o, ssl, theirs)
  OBVIOUS
<1>1. /\ o.end.ssl.unsent = ssl.unsent
      /\ \A t : peer /\ Greeting(ssl.flights, t, out, in) =>
           o.what = "need_read" /\ Greeting(o.end.ssl.flights, t, o.end.out, o.end.in)
  BY ClientShaking
<1>2. o.what = "need_read" /\ Greeting(o.end.ssl.flights, theirs, o.end.out, o.end.in)
  BY <1>1
<1> QED BY <1>1, <1>2 DEF Greets

Shaken(o, ssl, out) ==
  o.what = "ok" /\ o.end.in = <<>> /\ o.end.out = out /\ o.end.ssl.unsent = ssl.unsent

LEMMA ClientShakes ==
  ASSUME NEW ssl, NEW in, NEW out, NEW peer \in BOOLEAN, IsEnd(ssl, in, out, peer),
         ssl.role = "client", NEW o \in Handshake(End(ssl, in, out, peer))
  PROVE  peer /\ ssl.flights = 3 /\ in = <<Flight(4)>> => Shaken(o, ssl, out)
<1>1. /\ o.end.ssl.unsent = ssl.unsent
      /\ peer /\ ssl.flights = 3 /\ in = <<Flight(4)>> =>
           o.what = "ok" /\ o.end.in = <<>> /\ o.end.out = out
  BY ClientShaking
<1> QED BY <1>1 DEF Shaken

(* An end that has the other's alert answers it, or has done so; and so    *)
(* does the client.                                                        *)
Informed(c) == c.ssl.received_shutdown => c.state \in {"SHUTDOWN", "EMPTY"}
Known == client.finished \/ Informed(client.ssl)
KnownInv == ~opts.keep_alive => Known

(* Its handler is called; and new is the client when it has gone on. *)
Called(cl, in, out, peer, r) ==
  /\ IsClient(cl) /\ ~ cl.finished /\ Informed(cl.ssl) /\ IsEnd(cl.ssl.ssl, in, out, peer)
  /\ r \in switch_state(cl.ssl, in, out, peer)

Follows(new, cl, r) ==
  /\ new.preader = cl.preader /\ new.out_str = cl.out_str /\ ~ new.finished
  /\ new.ssl.ssl = r.conn.ssl
  /\ \/ /\ r.what = "again" /\ new.ssl.state = r.conn.state
        /\ new.ssl.send_buf = r.conn.send_buf
     \/ /\ r.what = "connect_succeed" /\ new.ssl.state = "WRITING"
        /\ new.ssl.send_buf = cl.out_str
     \/ r.what = "send_succeed" /\ new.ssl.state = "READING"

(* The exchange goes on with the client cl. *)
Goes(req, s, ts, tc, gone, cl, runs) ==
  \A act \in BOOLEAN : (act <=> Working(cl)) => Exchange(req, s, ts, tc, act, gone, cl, runs)

LEMMA StageIs ==
  ASSUME NEW s
  PROVE  /\ Stage(s) \in {"accepts", "reads", "executes", "writes", "ended"}
         /\ Stage(s) # "ended" => s.open
  BY DEF Stage

(* What a client does in each stage of the call it works for. *)
Acts(text, req, s, ts, tc, gone, cl, runs) ==
  /\ ~ gone /\ cl.out_str = text /\ s.keep_alive = FALSE
  /\ Stage(s) = "accepts" =>
       /\ Connects(cl) /\ cl.preader = NewReader /\ s.preader = NewReader
       /\ s.ssl.ssl.unsent = <<>>
       /\ Greeting(cl.ssl.ssl.flights, s.ssl.ssl.flights, ts, tc)
  /\ Stage(s) = "reads" =>
       /\ s.ssl.ssl.unsent = <<>>
       /\ \E m \in 0 .. Number(text) - 1 : \E k \in m .. Number(text) :
            /\ At(s.preader, text, m) /\ Remains(ts, text, m)
            /\ Full(ts, text, m, k) /\ Asking(cl, text, k, tc)
  /\ Stage(s) \in {"executes", "writes", "ended"} => Later(cl)
  /\ Stage(s) = "executes" =>
       s.executing = {req} /\ s.ssl.ssl.unsent = <<>> /\ cl.preader = NewReader /\ tc = <<>>
  /\ Stage(s) = "writes" =>
       \E t \in Replies(req, runs) : \E m, k \in 0 .. Number(t) - 1 :
         Writes(s.ssl, t, k) /\ Full(tc, t, m, k) /\ At(cl.preader, t, m)
  /\ Stage(s) = "ended" =>
       \E t \in Replies(req, runs) : \E m \in 0 .. Number(t) - 1 :
         Remains(tc, t, m) /\ At(cl.preader, t, m)

LEMMA ClientActs ==
  ASSUME NEW req, NEW s, NEW ts, NEW tc, NEW act \in BOOLEAN, NEW gone, NEW cl, NEW runs,
         Exchange(req, s, ts, tc, act, gone, cl, runs)
  PROVE  act => /\ Acts(PacketOf(req), req, s, ts, tc, gone, cl, runs)
                /\ cl.ssl.state \in {"CONNECTING", "WRITING", "READING"}
<1> SUFFICES ASSUME act
             PROVE  /\ Acts(PacketOf(req), req, s, ts, tc, gone, cl, runs)
                    /\ cl.ssl.state \in {"CONNECTING", "WRITING", "READING"}
  OBVIOUS
<1>1. ~ gone /\ cl.out_str = PacketOf(req) /\ s.keep_alive = FALSE
  BY DEF Exchange
<1>2. Stage(s) = "accepts" =>
        /\ Connects(cl) /\ cl.preader = NewReader /\ s.preader = NewReader
        /\ s.ssl.ssl.unsent = <<>> /\ Greeting(cl.ssl.ssl.flights, s.ssl.ssl.flights, ts, tc)
  BY DEF Exchange, Accepting
<1>3. Stage(s) = "reads" =>
        /\ s.ssl.ssl.unsent = <<>>
        /\ \E m \in 0 .. Number(PacketOf(req)) - 1 : \E k \in m .. Number(PacketOf(req)) :
             /\ At(s.preader, PacketOf(req), m) /\ Remains(ts, PacketOf(req), m)
             /\ Full(ts, PacketOf(req), m, k) /\ Asking(cl, PacketOf(req), k, tc)
  BY DEF Exchange, Receiving
<1>4. Stage(s) = "executes" =>
        /\ Later(cl) /\ s.executing = {req} /\ s.ssl.ssl.unsent = <<>>
        /\ cl.preader = NewReader /\ tc = <<>>
  BY DEF Exchange, Running
<1>5. Stage(s) = "writes" =>
        /\ Later(cl)
        /\ \E t \in Replies(req, runs) : \E m, k \in 0 .. Number(t) - 1 :
             Writes(s.ssl, t, k) /\ Full(tc, t, m, k) /\ At(cl.preader, t, m)
  BY DEF Exchange, Replying
<1>6. Stage(s) = "ended" =>
        /\ Later(cl)
        /\ \E t \in Replies(req, runs) : \E m \in 0 .. Number(t) - 1 :
             Remains(tc, t, m) /\ At(cl.preader, t, m)
  BY DEF Exchange, Ending
<1>7. Acts(PacketOf(req), req, s, ts, tc, gone, cl, runs)
  BY <1>1, <1>2, <1>3, <1>4, <1>5, <1>6 DEF Acts
<1>8. cl.ssl.state \in {"CONNECTING", "WRITING", "READING"}
  BY <1>2, <1>3, <1>4, <1>5, <1>6, StageIs DEF Connects, Asking, Writes, Later
<1> QED BY <1>7, <1>8

LEMMA ConnectsOn ==
  ASSUME NEW req \in Requests, NEW s, NEW ts, NEW tc, NEW act \in BOOLEAN, act, NEW gone, NEW cl,
         NEW runs, NEW peer \in BOOLEAN, s.open => peer, NEW r, Called(cl, tc, ts, peer, r),
         cl.ssl.state = "CONNECTING", Exchange(req, s, ts, tc, act, gone, cl, runs)
  PROVE  /\ r.what \in {"again", "connect_succeed"}
         /\ \A new : Follows(new, cl, r) => Goes(req, s, r.out, r.in, gone, new, runs)
<1> DEFINE c == cl.ssl
           ssl == c.ssl
           text == PacketOf(req)
<1>1. /\ IsConnection(c) /\ IsEnd(ssl, tc, ts, peer) /\ r \in switch_state(c, tc, ts, peer)
      /\ IsEnd(c.ssl, tc, ts, peer)
  BY DEF Called, IsClient
<1>2. /\ ~ gone /\ cl.out_str = text /\ s.keep_alive = FALSE
      /\ Stage(s) = "accepts" =>
           /\ Connects(cl) /\ cl.preader = NewReader /\ s.preader = NewReader
           /\ s.ssl.ssl.unsent = <<>> /\ Greeting(ssl.flights, s.ssl.ssl.flights, ts, tc)
      /\ Stage(s) = "reads" =>
           /\ s.ssl.ssl.unsent = <<>>
           /\ \E m \in 0 .. Number(text) - 1 : \E k \in m .. Number(text) :
                /\ At(s.preader, text, m) /\ Remains(ts, text, m)
                /\ Full(ts, text, m, k) /\ Asking(cl, text, k, tc)
      /\ Stage(s) \in {"executes", "writes", "ended"} => Later(cl)
  <2>1. Acts(PacketOf(req), req, s, ts, tc, gone, cl, runs)
    BY ClientActs
  <2> QED BY <2>1 DEF Acts
<1>3. Stage(s) \in {"accepts", "reads"} /\ peer
  BY <1>2, StageIs DEF Later
<1>4. IsText(text) /\ Number(text) \in Nat
  BY PacketIsText, RecordsOf
<1>5. c.state = "CONNECTING" /\ (Connects(cl) => ssl.role = "client" /\ ssl.unsent = <<>>)
  BY DEF Connects
<1> HIDE DEF c, ssl, text
<1>6. PICK o \in Call(c, End(c.ssl, tc, ts, peer)) :
        /\ Switched(r, c, o)
        /\ r.what = "again" => o.what \in {"need_read", "need_write", "connection_close"}
        /\ r.what \in {"network_error", "exception"} => o.what = r.what
        /\ r.what \in {"accept_succeed", "connect_succeed", "recv_succeed", "send_succeed",
                       "terminate"} => o.what = "ok" /\ r.what = Success(c.state)
        /\ r.what \in {"again", "network_error", "exception", "terminate", "accept_succeed",
                       "connect_succeed", "recv_succeed", "send_succeed"}
  BY <1>1, Told
<1>7. o \in Handshake(End(ssl, tc, ts, peer)) /\ IsEnd(ssl, tc, ts, peer)
      /\ o.end.ssl.role = ssl.role
  <2>1. Call(c, End(c.ssl, tc, ts, peer)) = Handshake(End(c.ssl, tc, ts, peer))
    BY <1>5 DEF Call
  <2>2. Left(o, c.ssl, tc, ts, peer)
    BY <1>1, Calling
  <2> QED BY <1>1, <1>3, <1>6, <2>1, <2>2 DEF ssl, Left
<1>8. /\ r.in = o.end.in /\ r.out = o.end.out /\ r.conn.ssl = o.end.ssl
      /\ o.what = "need_read" => r.what = "again" /\ r.conn.state = "CONNECTING"
      /\ o.what = "ok" => r.what = "connect_succeed"
  BY <1>5, <1>6, Successes DEF Switched
<1>9. CASE Stage(s) = "accepts"
  <2> DEFINE theirs == s.ssl.ssl.flights
  <2>1. Greeting(ssl.flights, theirs, ts, tc) /\ ssl.role = "client" /\ ssl.unsent = <<>>
    BY <1>2, <1>5, <1>9
  <2> HIDE DEF theirs
  <2>2. /\ o.what = "need_read" /\ Greeting(o.end.ssl.flights, theirs, o.end.out, o.end.in)
        /\ o.end.ssl.unsent = ssl.unsent
    <3>1. Greets(o, ssl, theirs)
      BY <1>3, <1>7, <2>1, ClientGreets
    <3> QED BY <3>1 DEF Greets
  <2>3. r.what = "again" /\ r.conn.state = "CONNECTING"
    BY <1>8, <2>2
  <2>4. ASSUME NEW new, Follows(new, cl, r)
        PROVE  Goes(req, s, r.out, r.in, gone, new, runs)
    <3>1. /\ new.ssl.state = "CONNECTING" /\ new.ssl.ssl = o.end.ssl /\ ~ new.finished
          /\ new.preader = NewReader /\ new.out_str = text
      BY <1>2, <1>8, <1>9, <2>3, <2>4 DEF Follows
    <3>2. Working(new) /\ Connects(new)
      BY <1>7, <2>1, <2>2, <3>1 DEF Working, Connects
    <3>3. Accepting(s, r.out, r.in, act, new)
      BY <1>2, <1>8, <1>9, <2>2, <3>1, <3>2 DEF Accepting, theirs
    <3>4. Exchange(req, s, r.out, r.in, act, gone, new, runs)
      BY <1>2, <1>9, <3>1, <3>3 DEF Exchange, text
    <3>5. ASSUME NEW a \in BOOLEAN, a <=> Working(new)
          PROVE  Exchange(req, s, r.out, r.in, a, gone, new, runs)
      <4>1. a = act
        BY <3>2, <3>5
      <4> QED BY <3>4, <4>1
    <3> QED BY <3>5 DEF Goes
  <2> QED BY <2>3, <2>4
<1>10. CASE Stage(s) = "reads"
  <2>1. PICK m \in 0 .. Number(text) - 1 : \E k \in m .. Number(text) :
          /\ At(s.preader, text, m) /\ Remains(ts, text, m)
          /\ Full(ts, text, m, k) /\ Asking(cl, text, k, tc)
    BY <1>2, <1>10
  <2>2. PICK k \in m .. Number(text) :
          /\ At(s.preader, text, m) /\ Remains(ts, text, m)
          /\ Full(ts, text, m, k) /\ Asking(cl, text, k, tc)
    BY <2>1
  <2>3. /\ cl.preader = NewReader /\ Connects(cl) /\ k = 0 /\ ssl.flights = 3 /\ tc = <<Flight(4)>>
    BY <1>5, <2>2 DEF Asking, Writes, c, ssl
  <2>4. o.what = "ok" /\ o.end.in = <<>> /\ o.end.out = ts /\ o.end.ssl.unsent = <<>>
    <3>1. peer /\ ssl.flights = 3 /\ tc = <<Flight(4)>> => Shaken(o, ssl, ts)
      BY <1>7, <2>3, <1>5, ClientShakes
    <3> QED BY <1>3, <1>5, <2>3, <3>1 DEF Shaken
  <2>5. r.what = "connect_succeed" /\ r.in = <<>> /\ r.out = ts
    BY <1>8, <2>4
  <2>6. ASSUME NEW new, Follows(new, cl, r)
        PROVE  Goes(req, s, r.out, r.in, gone, new, runs)
    <3>1. /\ new.ssl.state = "WRITING" /\ new.ssl.ssl = o.end.ssl /\ ~ new.finished
          /\ new.preader = NewReader /\ new.out_str = text /\ new.ssl.send_buf = text
      BY <1>2, <1>8, <2>3, <2>5, <2>6 DEF Follows
    <3>2. Working(new)
      BY <3>1 DEF Working
    <3>3. Rest(new.ssl.ssl, text) = SubSeq(Records(text), 0 + 1, Number(text))
      <4>1. IsText(Records(text)) /\ Number(text) = Len(Records(text))
        BY <1>4, RecordsOf DEF Number
      <4>2. SubSeq(Records(text), 1, Len(Records(text))) = Records(text)
        BY <4>1, WholeText
      <4> QED BY <2>4, <3>1, <4>1, <4>2 DEF Rest
    <3>4. Writes(new.ssl, text, 0)
      <4>1. 0 \in 0 .. Number(text) - 1
        BY <1>4, <2>1
      <4> QED BY <3>1, <3>3, <4>1 DEF Writes
    <3>5. Asking(new, text, k, r.in)
      BY <2>3, <2>5, <3>1, <3>4 DEF Asking
    <3>6. Receiving(text, s, r.out, r.in, act, new)
      BY <1>2, <1>10, <2>2, <2>5, <3>5 DEF Receiving
    <3>7. Exchange(req, s, r.out, r.in, act, gone, new, runs)
      BY <1>2, <1>10, <3>1, <3>6 DEF Exchange, text
    <3>8. ASSUME NEW a \in BOOLEAN, a <=> Working(new)
          PROVE  Exchange(req, s, r.out, r.in, a, gone, new, runs)
      <4>1. a = act
        BY <3>2, <3>8
      <4> QED BY <3>7, <4>1
    <3> QED BY <3>8 DEF Goes
  <2> QED BY <2>5, <2>6
<1> QED BY <1>3, <1>9, <1>10

(* What the server may still read when the client has gone. *)
Begun(req, s, out) ==
  Stage(s) = "reads" =>
    \E m \in 0 .. Number(PacketOf(req)) - 1 :
      At(s.preader, PacketOf(req), m) /\ Remains(out, PacketOf(req), m)

LEMMA BegunBy ==
  ASSUME NEW req, NEW s, NEW ts, NEW tc, NEW act, NEW gone, NEW cl, NEW runs,
         Exchange(req, s, ts, tc, act, gone, cl, runs)
  PROVE  Begun(req, s, ts)
<1>1. Stage(s) = "reads" => Receiving(PacketOf(req), s, ts, tc, act, cl)
  BY DEF Exchange
<1> QED BY <1>1 DEF Begun, Receiving

LEMMA BegunReset ==
  ASSUME NEW req, NEW s, NEW out, IsText(out), Begun(req, s, out), NEW in,
         NEW pipe \in Resets(in, out)
  PROVE  Begun(req, s, pipe)
<1> SUFFICES ASSUME Stage(s) = "reads"
             PROVE  \E m \in 0 .. Number(PacketOf(req)) - 1 :
                      At(s.preader, PacketOf(req), m) /\ Remains(pipe, PacketOf(req), m)
  BY DEF Begun
<1> DEFINE text == PacketOf(req)
<1>1. PICK m \in 0 .. Number(text) - 1 : At(s.preader, text, m) /\ Remains(out, text, m)
  BY DEF Begun
<1> HIDE DEF text
<1>2. Remains(pipe, text, m)
  BY <1>1, RemainsReset DEF Resets
<1> QED BY <1>1, <1>2 DEF text

(* The client works for the call no more. *)
LEMMA Leaves ==
  ASSUME NEW req, NEW s, NEW ts, NEW tc, NEW act, NEW gone, NEW cl, NEW runs,
         Exchange(req, s, ts, tc, act, gone, cl, runs), NEW out, Begun(req, s, out),
         NEW a \in BOOLEAN, ~ a, NEW g \in BOOLEAN, Stage(s) \in {"accepts", "reads"} => g,
         NEW in, NEW new
  PROVE  Exchange(req, s, out, in, a, g, new, runs)
<1>1. /\ s.keep_alive = FALSE
      /\ Stage(s) = "accepts" => s.preader = NewReader /\ s.ssl.ssl.unsent = <<>>
      /\ Stage(s) = "reads" => s.ssl.ssl.unsent = <<>>
      /\ Stage(s) = "executes" => s.executing = {req} /\ s.ssl.ssl.unsent = <<>>
  BY DEF Exchange, Accepting, Receiving, Running
<1>2. Stage(s) = "accepts" => Accepting(s, out, in, a, new)
  BY <1>1 DEF Accepting
<1>3. Stage(s) = "reads" => Receiving(PacketOf(req), s, out, in, a, new)
  BY <1>1 DEF Receiving, Begun
<1>4. Stage(s) = "executes" => Running(req, s, in, a, new)
  BY <1>1 DEF Running
<1>5. Replying(req, s, in, a, new, runs) /\ Ending(req, in, a, new, runs)
  BY DEF Replying, Ending
<1>6. Stage(s) \in {"accepts", "reads"} => a \/ g
  OBVIOUS
<1>7. a => ~ g /\ new.out_str = PacketOf(req)
  OBVIOUS
<1> QED BY <1>1, <1>2, <1>3, <1>4, <1>5, <1>6, <1>7 DEF Exchange

(* The client has sent its request, and the records tc are under way. *)
LEMMA LaterOn ==
  ASSUME NEW req, NEW s, NEW ts, NEW tc, IsText(tc), NEW act \in BOOLEAN, act, NEW gone, NEW cl,
         NEW runs, Exchange(req, s, ts, tc, act, gone, cl, runs),
         Stage(s) \in {"executes", "writes", "ended"}, NEW new, Later(new), ~ new.finished,
         new.preader = cl.preader, new.out_str = cl.out_str, NEW out, NEW in,
         in = tc \/ (Stage(s) = "ended" /\ in \in MayReset(tc))
  PROVE  Goes(req, s, out, in, gone, new, runs)
<1>1. Acts(PacketOf(req), req, s, ts, tc, gone, cl, runs)
  BY ClientActs
<1>2. ~ gone /\ new.out_str = PacketOf(req) /\ s.keep_alive = FALSE /\ Working(new)
  BY <1>1 DEF Acts, Working, Later
<1>3. Stage(s) = "executes" => Running(req, s, in, act, new)
  BY <1>1 DEF Acts, Running
<1>4. Stage(s) = "writes" => Replying(req, s, in, act, new, runs)
  BY <1>1 DEF Acts, Replying
<1>5. Stage(s) = "ended" => Ending(req, in, act, new, runs)
  <2> SUFFICES ASSUME Stage(s) = "ended"
               PROVE  \E t \in Replies(req, runs) : \E m \in 0 .. Number(t) - 1 :
                        Remains(in, t, m) /\ At(new.preader, t, m)
    BY DEF Ending
  <2>1. PICK t \in Replies(req, runs) : \E m \in 0 .. Number(t) - 1 :
          Remains(tc, t, m) /\ At(cl.preader, t, m)
    BY <1>1 DEF Acts
  <2>2. PICK m \in 0 .. Number(t) - 1 : Remains(tc, t, m) /\ At(cl.preader, t, m)
    BY <2>1
  <2>3. Remains(in, t, m)
    BY <2>2, RemainsReset
  <2> QED BY <2>2, <2>3
<1>6. Exchange(req, s, out, in, act, gone, new, runs)
  BY <1>2, <1>3, <1>4, <1>5 DEF Exchange
<1>7. ASSUME NEW a \in BOOLEAN, a <=> Working(new)
      PROVE  Exchange(req, s, out, in, a, gone, new, runs)
  <2>1. a = act
    BY <1>2, <1>7
  <2> QED BY <1>6, <2>1
<1> QED BY <1>7 DEF Goes

LEMMA AskingOn ==
  ASSUME NEW req \in Requests, NEW s, NEW ts, NEW tc, NEW act \in BOOLEAN, act, NEW gone, NEW cl, NEW runs,
         Exchange(req, s, ts, tc, act, gone, cl, runs), Stage(s) = "reads", NEW new,
         new.out_str = cl.out_str, Working(new), NEW out, NEW in,
         \E m \in 0 .. Number(PacketOf(req)) - 1 : \E k \in m .. Number(PacketOf(req)) :
           /\ At(s.preader, PacketOf(req), m) /\ Remains(out, PacketOf(req), m)
           /\ Full(out, PacketOf(req), m, k) /\ Asking(new, PacketOf(req), k, in)
  PROVE  Goes(req, s, out, in, gone, new, runs)
<1>1. Acts(PacketOf(req), req, s, ts, tc, gone, cl, runs)
  BY ClientActs
<1>2. ~ gone /\ new.out_str = PacketOf(req) /\ s.keep_alive = FALSE /\ s.ssl.ssl.unsent = <<>>
  BY <1>1 DEF Acts
<1>3. Receiving(PacketOf(req), s, out, in, act, new)
  BY <1>2 DEF Receiving
<1>4. Exchange(req, s, out, in, act, gone, new, runs)
  BY <1>2, <1>3 DEF Exchange
<1>5. ASSUME NEW a \in BOOLEAN, a <=> Working(new)
      PROVE  Exchange(req, s, out, in, a, gone, new, runs)
  <2>1. a = act
    BY <1>5
  <2> QED BY <1>4, <2>1
<1> QED BY <1>5 DEF Goes

LEMMA SendsOn ==
  ASSUME NEW req \in Requests, NEW s, NEW ts, NEW tc, NEW act \in BOOLEAN, act, NEW gone, NEW cl,
         NEW runs, NEW peer \in BOOLEAN, s.open => peer, NEW r, Called(cl, tc, ts, peer, r),
         cl.ssl.state = "WRITING", Exchange(req, s, ts, tc, act, gone, cl, runs)
  PROVE  /\ r.what \in {"again", "send_succeed", "network_error", "exception"}
         /\ \A new : Follows(new, cl, r) => Goes(req, s, r.out, r.in, gone, new, runs)
         /\ r.what \in {"network_error", "exception"} => Begun(req, s, r.out)
<1> DEFINE c == cl.ssl
           text == PacketOf(req)
<1>1. /\ IsConnection(c) /\ IsEnd(c.ssl, tc, ts, peer) /\ r \in switch_state(c, tc, ts, peer)
      /\ c.state = "WRITING" /\ IsText(ts) /\ IsText(tc)
  BY DEF Called, IsClient, IsEnd, Pipe, Clean, Broken
<1>2. Acts(text, req, s, ts, tc, gone, cl, runs)
  BY ClientActs
<1>3. Stage(s) \in {"reads", "executes", "writes", "ended"}
  BY <1>1, <1>2, StageIs DEF Acts, Connects
<1>4. IsText(text) /\ Number(text) \in Nat
  BY PacketIsText, RecordsOf
<1>5. Stage(s) = "reads" =>
        \E m \in 0 .. Number(text) - 1 : \E k \in m .. Number(text) :
          /\ At(s.preader, text, m) /\ Full(ts, text, m, k)
          /\ Writes(c, text, k) /\ tc = <<>> /\ cl.preader = NewReader
  BY <1>1, <1>2 DEF Acts, Asking, Connects
<1> HIDE DEF c, text
<1>6. PICK o \in Call(c, End(c.ssl, tc, ts, peer)) :
        /\ Switched(r, c, o)
        /\ r.what = "again" => o.what \in {"need_read", "need_write", "connection_close"}
        /\ r.what \in {"network_error", "exception"} => o.what = r.what
        /\ r.what \in {"accept_succeed", "connect_succeed", "recv_succeed", "send_succeed",
                       "terminate"} => o.what = "ok" /\ r.what = Success(c.state)
        /\ r.what \in {"again", "network_error", "exception", "terminate", "accept_succeed",
                       "connect_succeed", "recv_succeed", "send_succeed"}
  BY <1>1, Told
<1>7. o \in SSL_write(End(c.ssl, tc, ts, peer), c.send_buf, c.buf) /\ IsText(c.send_buf)
  BY <1>1, <1>6 DEF Call, IsConnection
<1>8. o.what \in {"ok", "need_write", "network_error", "exception"}
  BY <1>1, <1>7, Writing
<1>9. /\ r.in = o.end.in /\ r.out = o.end.out /\ r.conn.ssl = o.end.ssl
      /\ r.conn.send_buf = c.send_buf
      /\ o.what = "need_write" => r.what = "again" /\ r.conn.state = "WRITING"
      /\ o.what = "ok" => r.what = "send_succeed"
      /\ o.what \in {"network_error", "exception"} => r.what = o.what
  BY <1>1, <1>6, Successes DEF Switched
<1>10. \/ /\ o.what \in {"network_error", "exception"} /\ o.end.out = ts
       \/ /\ o.what \in {"ok", "need_write"} /\ peer
          /\ \E f : Sends(o, tc, ts, Rest(c.ssl, c.send_buf), f)
       \/ o.what = "ok" /\ ~ peer /\ o.end.in \in MayReset(tc)
  <2> DEFINE ssl == c.ssl
             word == c.send_buf
             buf == c.buf
  <2>1. /\ IsEnd(ssl, tc, ts, peer) /\ IsText(word)
        /\ o \in SSL_write(End(ssl, tc, ts, peer), word, buf)
    BY <1>1, <1>7
  <2> HIDE DEF ssl, word, buf
  <2>2. \/ /\ o.what \in {"network_error", "exception"}
           /\ o.end.ssl = ssl /\ o.end.in = tc /\ o.end.out = ts
        \/ /\ o.what \in {"ok", "need_write"} /\ peer
           /\ \E f : Sends(o, tc, ts, Rest(ssl, word), f)
        \/ /\ o.what = "ok" /\ ~ peer
           /\ o.end.in \in MayReset(tc) /\ o.end.out = ts
    BY <2>1, WriteOutcome
  <2> QED BY <2>2 DEF ssl, word
<1>11. CASE o.what \in {"network_error", "exception"} /\ o.end.out = ts
  <2>1. Begun(req, s, r.out)
    BY <1>9, <1>11, BegunBy
  <2>2. \A new : ~ Follows(new, cl, r)
    BY <1>9, <1>11 DEF Follows
  <2> QED BY <1>9, <1>11, <2>1, <2>2
<1>12. ASSUME o.what \in {"ok", "need_write"}, NEW new, Follows(new, cl, r)
       PROVE  Later(new) /\ ~ new.finished /\ Working(new)
              /\ new.preader = cl.preader /\ new.out_str = cl.out_str
              /\ new.ssl.state = (IF o.what = "ok" THEN "READING" ELSE "WRITING")
              /\ (o.what = "need_write" => new.ssl.send_buf = c.send_buf)
              /\ new.ssl.ssl = o.end.ssl
  BY <1>9, <1>12 DEF Follows, Later, Working
<1>13. CASE o.what = "ok" /\ ~ peer /\ o.end.in \in MayReset(tc)
  <2>1. Stage(s) = "ended"
    BY <1>13, StageIs
  <2>2. ASSUME NEW new, Follows(new, cl, r)
        PROVE  Goes(req, s, r.out, r.in, gone, new, runs)
    <3>1. Later(new) /\ ~ new.finished /\ new.preader = cl.preader /\ new.out_str = cl.out_str
      BY <1>12, <1>13, <2>2
    <3> DEFINE in == r.in
               out == r.out
    <3>2. in \in MayReset(tc)
      BY <1>9, <1>13
    <3> HIDE DEF in, out
    <3>3. Goes(req, s, out, in, gone, new, runs)
      BY <1>1, <2>1, <3>1, <3>2, LaterOn
    <3> QED BY <3>3 DEF in, out
  <2> QED BY <1>9, <1>13, <2>2
<1>14. CASE /\ o.what \in {"ok", "need_write"} /\ peer
            /\ \E f : Sends(o, tc, ts, Rest(c.ssl, c.send_buf), f)
  <2> DEFINE in == r.in
             out == r.out
             rest == Rest(c.ssl, c.send_buf)
  <2>1. PICK f : Sends(o, tc, ts, rest, f)
    BY <1>14
  <2>2. in = tc /\ out = ts \o SubSeq(rest, 1, f)
    BY <1>9, <2>1 DEF Sends
  <2>3. r.what \in {"again", "send_succeed"}
    BY <1>9, <1>14
  <2> SUFFICES ASSUME NEW new, Follows(new, cl, r)
               PROVE  Goes(req, s, out, in, gone, new, runs)
    BY <2>3
  <2>4. /\ Later(new) /\ ~ new.finished /\ Working(new)
        /\ new.preader = cl.preader /\ new.out_str = cl.out_str
        /\ new.ssl.state = (IF o.what = "ok" THEN "READING" ELSE "WRITING")
        /\ (o.what = "need_write" => new.ssl.send_buf = c.send_buf)
        /\ new.ssl.ssl = o.end.ssl
    BY <1>12, <1>14
  <2> HIDE DEF in, out
  <2>5. CASE Stage(s) \in {"executes", "writes", "ended"}
    BY <1>1, <2>2, <2>4, <2>5, LaterOn
  <2>6. CASE Stage(s) = "reads"
    <3>1. PICK m \in 0 .. Number(text) - 1 : \E k \in m .. Number(text) :
            /\ At(s.preader, text, m) /\ Full(ts, text, m, k)
            /\ Writes(c, text, k) /\ tc = <<>> /\ cl.preader = NewReader
      BY <1>5, <2>6
    <3>2. PICK k \in m .. Number(text) :
            /\ At(s.preader, text, m) /\ Full(ts, text, m, k)
            /\ Writes(c, text, k) /\ tc = <<>> /\ cl.preader = NewReader
      BY <3>1
    <3>3. m \in Nat /\ k \in Nat /\ text = c.send_buf
      BY <1>4, <3>2 DEF Writes
    <3>4. Onward(rest, text, k, f)
      <4>1. f \in 0 .. Len(Rest(c.ssl, text))
        BY <2>1, <3>3 DEF Sends
      <4>2. Onward(Rest(c.ssl, text), text, k, f)
        BY <1>4, <3>2, <4>1, WriteGoesOn
      <4> QED BY <3>3, <4>2
    <3> HIDE DEF rest
    <3>5. f \in Nat /\ k + f <= Number(text) /\ k + f \in Nat
      <4>1. f \in Int /\ f >= 0 /\ k + f \in k .. Number(text)
        BY <2>1, <3>4 DEF Sends, Onward
      <4> QED BY <3>3, <4>1
    <3> DEFINE n == k + f
    <3>6. Full(out, text, m, n) /\ n \in m .. Number(text)
      <4>1. out = ts \o SubSeq(Records(text), k + 1, k + f)
        BY <2>2, <3>4 DEF Onward
      <4> QED BY <1>1, <1>4, <3>2, <3>3, <3>5, <4>1, FullJoined
    <3>7. IsText(out)
      <4>1. Left(o, c.ssl, tc, ts, peer)
        BY <1>1, <1>7, Writing
      <4> QED BY <1>9, <4>1 DEF Left, Clean, out
    <3>8. n = Number(text) <=> o.what = "ok"
      BY <2>1, <3>4 DEF Sends, Onward
    <3>9. CASE o.what = "ok"
      <4>1. n = Number(text)
        BY <3>8, <3>9
      <4>2. new.ssl.state = "READING" /\ new.preader = NewReader /\ in = <<>>
        BY <2>2, <2>4, <3>2, <3>9
      <4>3. Asking(new, text, n, in)
        BY <4>1, <4>2 DEF Asking
      <4> HIDE DEF n
      <4>4. Remains(out, text, m)
        BY <1>4, <3>3, <3>6, <3>7, FullRemains
      <4>5. \E i \in 0 .. Number(PacketOf(req)) - 1 : \E j \in i .. Number(PacketOf(req)) :
              /\ At(s.preader, PacketOf(req), i) /\ Remains(out, PacketOf(req), i)
              /\ Full(out, PacketOf(req), i, j) /\ Asking(new, PacketOf(req), j, in)
        BY <3>2, <3>6, <4>3, <4>4 DEF text
      <4> QED BY <2>4, <2>6, <4>5, AskingOn
    <3>10. CASE o.what = "need_write"
      <4>1. n # Number(text) /\ n \in Nat /\ n <= Number(text)
        BY <3>5, <3>8, <3>10
      <4>2. o.end.ssl.unsent = SubSeq(Records(text), n + 1, Number(text)) /\ o.end.ssl.unsent # <<>>
        BY <2>1, <3>4, <3>10 DEF Sends, Onward
      <4> HIDE DEF n
      <4>3. n \in 0 .. Number(text) - 1
        BY <1>4, <4>1
      <4>4. Rest(new.ssl.ssl, text) = SubSeq(Records(text), n + 1, Number(text))
        BY <2>4, <4>2 DEF Rest
      <4>5. new.ssl.state = "WRITING" /\ new.ssl.send_buf = text
        BY <2>4, <3>3, <3>10
      <4>6. Writes(new.ssl, text, n)
        BY <4>3, <4>4, <4>5 DEF Writes
      <4>7. Asking(new, text, n, in)
        BY <2>2, <2>4, <3>2, <4>6 DEF Asking
      <4>8. Remains(out, text, m)
        BY <1>4, <3>3, <3>6, <3>7, FullRemains
      <4>9. \E i \in 0 .. Number(PacketOf(req)) - 1 : \E j \in i .. Number(PacketOf(req)) :
              /\ At(s.preader, PacketOf(req), i) /\ Remains(out, PacketOf(req), i)
              /\ Full(out, PacketOf(req), i, j) /\ Asking(new, PacketOf(req), j, in)
        BY <3>2, <3>6, <4>7, <4>8 DEF text
      <4> QED BY <2>4, <2>6, <4>9, AskingOn
    <3> QED BY <1>14, <3>9, <3>10
  <2> QED BY <1>3, <2>5, <2>6
<1> QED BY <1>10, <1>11, <1>13, <1>14

(* Behind n records of a reply: what the client waits for. *)
Awaited(s, tc, text, n) ==
  /\ Stage(s) \in {"writes", "ended"}
  /\ Stage(s) = "writes" =>
       \E k \in 0 .. Number(text) - 1 : Writes(s.ssl, text, k) /\ Full(tc, text, n, k)
  /\ Stage(s) = "ended" => Remains(tc, text, n)

(* The record m + 1 of a reply has been read. *)
HasGot(req, s, cl, r, runs) ==
  \E text \in Replies(req, runs) : \E m \in 0 .. Number(text) - 1 :
    /\ At(cl.preader, text, m) /\ r.text = Records(text)[m + 1].text
    /\ Awaited(s, r.in, text, m + 1)

LEMMA ReplyIsText ==
  ASSUME NEW req \in Requests, NEW runs, NEW text \in Replies(req, runs)
  PROVE  IsText(text) /\ Number(text) \in Nat
  BY RepliesAre, PacketIs, RecordsOf

LEMMA ReceivesOn ==
  ASSUME NEW req \in Requests, NEW s, NEW ts, NEW tc, NEW act \in BOOLEAN, act, NEW gone, NEW cl,
         NEW runs, NEW peer \in BOOLEAN, s.open => peer, NEW r, Called(cl, tc, ts, peer, r),
         cl.ssl.state = "READING", Exchange(req, s, ts, tc, act, gone, cl, runs)
  PROVE  /\ r.what \in {"again", "recv_succeed", "network_error", "exception"}
         /\ r.what = "again" =>
              \A new : Follows(new, cl, r) => Goes(req, s, r.out, r.in, gone, new, runs)
         /\ Begun(req, s, r.out)
         /\ r.what = "recv_succeed" => HasGot(req, s, cl, r, runs)
<1> DEFINE c == cl.ssl
           text == PacketOf(req)
<1>1. /\ IsConnection(c) /\ IsEnd(c.ssl, tc, ts, peer) /\ r \in switch_state(c, tc, ts, peer)
      /\ c.state = "READING" /\ IsText(ts) /\ IsText(tc) /\ ~ c.ssl.received_shutdown
  BY DEF Called, Informed, IsClient, IsEnd, Pipe, Clean, Broken
<1>2. Acts(text, req, s, ts, tc, gone, cl, runs)
  BY ClientActs
<1>3. Stage(s) \in {"reads", "executes", "writes", "ended"}
  BY <1>1, <1>2, StageIs DEF Acts, Connects
<1>4. Stage(s) = "reads" =>
        \E m \in 0 .. Number(text) - 1 : \E k \in m .. Number(text) :
          /\ At(s.preader, text, m) /\ Remains(ts, text, m) /\ Full(ts, text, m, k)
          /\ k = Number(text) /\ tc = <<>> /\ cl.preader = NewReader
  BY <1>1, <1>2 DEF Acts, Asking, Connects, Writes
<1>5. Stage(s) # "ended" => peer
  BY StageIs
<1> HIDE DEF c, text
<1>6. PICK o \in Call(c, End(c.ssl, tc, ts, peer)) :
        /\ Switched(r, c, o)
        /\ r.what = "again" => o.what \in {"need_read", "need_write", "connection_close"}
        /\ r.what \in {"network_error", "exception"} => o.what = r.what
        /\ r.what \in {"accept_succeed", "connect_succeed", "recv_succeed", "send_succeed",
                       "terminate"} => o.what = "ok" /\ r.what = Success(c.state)
        /\ r.what \in {"again", "network_error", "exception", "terminate", "accept_succeed",
                       "connect_succeed", "recv_succeed", "send_succeed"}
  BY <1>1, Told
<1>7. o \in SSL_read(End(c.ssl, tc, ts, peer))
  BY <1>1, <1>6 DEF Call
<1>8. /\ o.end.out = ts
      /\ o.what = "ok" => /\ tc # <<>> /\ Head(tc) \notin {close_notify, Reset}
                          /\ o.text = Head(tc).text /\ o.end.in = Tail(tc)
      /\ o.what = "need_read" => tc = <<>> /\ o.end.in = tc
      /\ o.what = "connection_close" =>
           \/ tc = <<>> /\ ~ peer
           \/ tc # <<>> /\ Head(tc) = close_notify
      /\ o.what = "network_error" => ~ peer
      /\ o.what \in {"ok", "need_read", "connection_close", "network_error"}
  <2> DEFINE ssl == c.ssl
  <2>1. /\ IsEnd(ssl, tc, ts, peer) /\ o \in SSL_read(End(ssl, tc, ts, peer))
        /\ ~ ssl.received_shutdown
    BY <1>1, <1>7
  <2> HIDE DEF ssl
  <2>2. /\ o.end.out = ts /\ o.end.ssl.unsent = ssl.unsent
        /\ o.what = "ok" => /\ tc # <<>> /\ Head(tc) \notin {close_notify, Reset}
                            /\ o.text = Head(tc).text /\ o.end.in = Tail(tc)
        /\ o.what = "need_read" => tc = <<>> /\ o.end.in = tc
        /\ o.what = "connection_close" =>
             \/ tc = <<>> /\ ~ peer
             \/ tc # <<>> /\ Head(tc) = close_notify
        /\ o.what = "network_error" => ~ peer
    BY <2>1, ReadOutcome
  <2>3. o.what \in {"ok", "need_read", "connection_close", "network_error"}
    BY <2>1, Reading
  <2> QED BY <2>2, <2>3
<1>9. /\ r.in = o.end.in /\ r.out = ts /\ r.text = o.text
      /\ o.what = "need_read" => r.what = "again" /\ r.conn.state = "READING"
      /\ o.what = "connection_close" => r.what = "again" /\ r.conn.state \in {"SHUTDOWN", "EMPTY"}
      /\ o.what = "ok" => r.what = "recv_succeed"
      /\ o.what \in {"network_error", "exception"} => r.what = o.what
  BY <1>1, <1>6, <1>8, Successes DEF Switched
<1>10. /\ r.what \in {"again", "recv_succeed", "network_error", "exception"}
       /\ r.what = "again" <=> o.what \in {"need_read", "connection_close"}
       /\ r.what = "recv_succeed" <=> o.what = "ok"
  BY <1>8, <1>9
<1>11. Begun(req, s, r.out)
  BY <1>9, BegunBy
<1>12. Stage(s) \in {"reads", "executes"} => o.what = "need_read"
  BY <1>2, <1>4, <1>5, <1>8 DEF Acts
<1>13. Stage(s) = "writes" => o.what \in {"ok", "need_read"}
  <2> SUFFICES ASSUME Stage(s) = "writes", tc # <<>> PROVE Head(tc) # close_notify
    BY <1>5, <1>8
  <2>1. PICK t \in Replies(req, runs) : \E m, k \in 0 .. Number(t) - 1 : Full(tc, t, m, k)
    BY <1>2 DEF Acts
  <2>2. PICK m, k \in 0 .. Number(t) - 1 : Full(tc, t, m, k)
    BY <2>1
  <2>3. IsText(t) /\ m \in Nat
    BY ReplyIsText
  <2>4. \A i \in DOMAIN tc : tc[i] \notin {close_notify, Reset}
    BY <1>1, <2>2, <2>3, FullRemains
  <2>5. Head(tc) = tc[1] /\ 1 \in DOMAIN tc
    BY <1>1, TailIs
  <2> QED BY <2>4, <2>5
<1>14. ASSUME r.what = "again", NEW new, Follows(new, cl, r)
       PROVE  Goes(req, s, r.out, r.in, gone, new, runs)
  <2> DEFINE in == r.in
             out == r.out
  <2>1. /\ new.preader = cl.preader /\ new.out_str = cl.out_str /\ ~ new.finished
        /\ new.ssl.state = r.conn.state
    BY <1>14 DEF Follows
  <2>2. CASE o.what = "need_read"
    <3>1. Later(new) /\ Working(new) /\ in = tc /\ out = ts /\ new.ssl.state = "READING"
      BY <1>8, <1>9, <2>1, <2>2 DEF Later, Working
    <3> HIDE DEF in, out
    <3>2. CASE Stage(s) \in {"executes", "writes", "ended"}
      <4>1. Goes(req, s, out, in, gone, new, runs)
        BY <1>1, <2>1, <3>1, <3>2, LaterOn
      <4> QED BY <4>1 DEF in, out
    <3>3. CASE Stage(s) = "reads"
      <4>1. PICK m \in 0 .. Number(text) - 1 : \E k \in m .. Number(text) :
              /\ At(s.preader, text, m) /\ Remains(ts, text, m) /\ Full(ts, text, m, k)
              /\ k = Number(text) /\ tc = <<>> /\ cl.preader = NewReader
        BY <1>4, <3>3
      <4>2. PICK k \in m .. Number(text) :
              /\ At(s.preader, text, m) /\ Remains(ts, text, m) /\ Full(ts, text, m, k)
              /\ k = Number(text) /\ tc = <<>> /\ cl.preader = NewReader
        BY <4>1
      <4>3. Asking(new, text, k, in)
        BY <2>1, <3>1, <4>2 DEF Asking
      <4>4. \E i \in 0 .. Number(PacketOf(req)) - 1 : \E j \in i .. Number(PacketOf(req)) :
              /\ At(s.preader, PacketOf(req), i) /\ Remains(out, PacketOf(req), i)
              /\ Full(out, PacketOf(req), i, j) /\ Asking(new, PacketOf(req), j, in)
        BY <3>1, <4>2, <4>3 DEF text
      <4>5. Goes(req, s, out, in, gone, new, runs)
        BY <2>1, <3>1, <3>3, <4>4, AskingOn
      <4> QED BY <4>5 DEF in, out
    <3> QED BY <1>3, <3>2, <3>3
  <2>3. CASE o.what = "connection_close"
    <3>1. Stage(s) = "ended"
      BY <1>3, <1>12, <1>13, <2>3
    <3>2. ~ Working(new) /\ out = ts
      BY <1>9, <2>1, <2>3 DEF Working
    <3>3. ~ gone
      BY <1>2 DEF Acts
    <3>4. ASSUME NEW a \in BOOLEAN, a <=> Working(new)
          PROVE  Exchange(req, s, out, in, a, gone, new, runs)
      <4>1. Ending(req, in, a, new, runs)
        BY <3>2, <3>4 DEF Ending
      <4>2. s.keep_alive = FALSE
        BY <1>2 DEF Acts
      <4> QED BY <3>1, <3>2, <3>4, <4>1, <4>2 DEF Exchange
    <3> QED BY <3>4 DEF Goes
  <2> QED BY <1>10, <1>14, <2>2, <2>3
<1>15. ASSUME r.what = "recv_succeed"
       PROVE  HasGot(req, s, cl, r, runs)
  <2>1. /\ tc # <<>> /\ Head(tc) \notin {close_notify, Reset}
        /\ r.text = Head(tc).text /\ r.in = Tail(tc) /\ Stage(s) \in {"writes", "ended"}
    BY <1>3, <1>8, <1>9, <1>10, <1>12, <1>15
  <2> DEFINE rest == Tail(tc)
  <2>2. CASE Stage(s) = "writes"
    <3>1. PICK t \in Replies(req, runs) : \E m, k \in 0 .. Number(t) - 1 :
            Writes(s.ssl, t, k) /\ Full(tc, t, m, k) /\ At(cl.preader, t, m)
      BY <1>2, <2>2 DEF Acts
    <3>2. PICK m, k \in 0 .. Number(t) - 1 :
            Writes(s.ssl, t, k) /\ Full(tc, t, m, k) /\ At(cl.preader, t, m)
      BY <3>1
    <3>3. IsText(t) /\ m \in Nat
      BY ReplyIsText
    <3>4. Head(tc) = Records(t)[m + 1] /\ Full(rest, t, m + 1, k)
      BY <1>1, <2>1, <3>2, <3>3, FullTail
    <3>5. Awaited(s, r.in, t, m + 1)
      BY <2>1, <2>2, <3>2, <3>4 DEF Awaited
    <3> QED BY <2>1, <3>2, <3>4, <3>5 DEF HasGot
  <2>3. CASE Stage(s) = "ended"
    <3>1. PICK t \in Replies(req, runs) : \E m \in 0 .. Number(t) - 1 :
            Remains(tc, t, m) /\ At(cl.preader, t, m)
      BY <1>2, <2>3 DEF Acts
    <3>2. PICK m \in 0 .. Number(t) - 1 : Remains(tc, t, m) /\ At(cl.preader, t, m)
      BY <3>1
    <3>3. IsText(t) /\ m \in Nat
      BY ReplyIsText
    <3>4. Head(tc) = Records(t)[m + 1] /\ Remains(rest, t, m + 1)
      BY <1>1, <2>1, <3>2, <3>3, RemainsTail
    <3>5. Awaited(s, r.in, t, m + 1)
      BY <2>1, <2>3, <3>4 DEF Awaited
    <3> QED BY <2>1, <3>2, <3>4, <3>5 DEF HasGot
  <2> QED BY <2>1, <2>2, <2>3
<1> QED BY <1>10, <1>11, <1>14, <1>15

(* What the client makes of a record of a reply. *)
IsOwn(result, req, runs) ==
  result.is # "exception" => result = Run(req) /\ req \in Range(runs)

(* Only a request that is too large is answered with a refusal.            *)
Refused(result, req) ==
  result.is = "exception" => result.what = "http" /\ result.code = 413 /\ Large(req)

GotAs(req, s, ts, tc, gone, cl, read, runs) ==
  \/ /\ read.outcome.is = "incomplete"
     /\ \A new : /\ new.preader = read.reader /\ new.out_str = cl.out_str /\ ~ new.finished
                 /\ new.ssl.state = "READING"
                 => Goes(req, s, ts, tc, gone, new, runs)
  \/ /\ read.outcome.is = "packet"
     /\ IsOwn(Returned(read.outcome), req, runs) /\ Refused(Returned(read.outcome), req)

LEMMA ReplyIs ==
  ASSUME NEW req \in Requests, NEW runs, NEW code, NEW content, IsText(content),
         dump(code, Closes, content) \in Replies(req, runs)
  PROVE  LET result == Returned(Packet(dump(code, Closes, content)[1], content))
         IN  IsOwn(result, req, runs) /\ Refused(result, req)
<1> DEFINE p == dump(code, Closes, content)
           packet == Packet(p[1], content)
<1>1. packet.header.code = code /\ packet.content = content
  BY PacketIs DEF Packet
<1>2. CASE p \in Refusals(req)
  <2>1. p = dump(413, Closes, <<>>) /\ Large(req)
    BY <1>2 DEF Refusals
  <2>2. p[1].code = 413
    BY <2>1, EmptyText, PacketIs
  <2>3. code = 413
    BY <2>2, PacketIs
  <2>4. Returned(packet) = Threw("http", 413)
    BY <1>1, <2>3 DEF Returned
  <2> QED BY <2>1, <2>4 DEF Threw, IsOwn, Refused
<1>3. CASE p \in Answers(req, runs)
  <2>3. PICK ran \in {req} \cap Range(runs) : p = dump(200, Closes, ResponseContent(Run(ran)))
    BY <1>3 DEF Answers
  <2>4. ran = req /\ req \in Range(runs)
    BY <2>3
  <2> DEFINE other == ResponseContent(Run(req))
             q == dump(200, Closes, other)
  <2>5. content = other /\ code = 200
    <3>1. IsText(other) /\ p = q
      BY <2>3, <2>4, ContentsAreTexts
    <3>2. SubSeq(p, 4, Len(p)) = content /\ p[1].code = code
      BY PacketIs
    <3> HIDE DEF other
    <3>3. SubSeq(q, 4, Len(q)) = other /\ q[1].code = 200
      BY <3>1, PacketIs
    <3> QED BY <3>1, <3>2, <3>3
  <2>6. Run(req) \in Responses
    BY DEF Responses
  <2>7. ResponseOf(content) = {Run(req)}
    BY <2>5, <2>6, ContentsAssumption DEF ResponseOf
  <2>8. Returned(packet) = Run(req)
    BY <1>1, <2>5, <2>7 DEF Returned
  <2>9. Run(req).is # "exception"
    BY <2>6, ContentsAssumption
  <2> QED BY <2>4, <2>8, <2>9 DEF IsOwn, Refused
<1> QED BY <1>2, <1>3 DEF Replies

LEMMA ReplyRead ==
  ASSUME NEW req \in Requests, NEW s, NEW ts, NEW tc, NEW act \in BOOLEAN, act, NEW gone, NEW cl,
         NEW runs, Exchange(req, s, ts, tc, act, gone, cl, runs), NEW r, HasGot(req, s, cl, r, runs),
         NEW ver_level \in Levels
  PROVE  GotAs(req, s, r.out, r.in, gone, cl, read_packet(cl.preader, r.text, 0, ver_level), runs)
<1>1. Acts(PacketOf(req), req, s, ts, tc, gone, cl, runs)
  BY ClientActs
<1>2. PICK text \in Replies(req, runs) : \E m \in 0 .. Number(text) - 1 :
        /\ At(cl.preader, text, m) /\ r.text = Records(text)[m + 1].text
        /\ Awaited(s, r.in, text, m + 1)
  BY DEF HasGot
<1>3. PICK m \in 0 .. Number(text) - 1 :
        /\ At(cl.preader, text, m) /\ r.text = Records(text)[m + 1].text
        /\ Awaited(s, r.in, text, m + 1)
  BY <1>2
<1>4. PICK code, content : IsText(content) /\ text = dump(code, Closes, content)
  BY RepliesAre
<1> DEFINE read == read_packet(cl.preader, r.text, 0, ver_level)
<1>5. \/ read.outcome.is = "incomplete" /\ At(read.reader, text, m + 1)
      \/ read.outcome = Packet(text[1], content)
  <2> DEFINE p == dump(code, Closes, content)
             word == read_packet(cl.preader, Records(p)[m + 1].text, 0, ver_level)
  <2>1. At(cl.preader, p, m) /\ IsText(content)
    BY <1>3, <1>4
  <2>2. \/ word.outcome = Error(413) /\ TooLarge(content, 0)
        \/ word.outcome.is = "incomplete" /\ At(word.reader, p, m + 1)
        \/ word.outcome = Packet(p[1], content) /\ m + 1 = Number(p)
    BY <2>1, RecordRead
  <2>3. word = read /\ p = text
    BY <1>3, <1>4
  <2>4. ~ TooLarge(content, 0)
    BY DEF TooLarge
  <2> QED BY <2>2, <2>3, <2>4
<1> HIDE DEF read
<1>6. CASE read.outcome = Packet(text[1], content)
  <2>1. LET result == Returned(Packet(text[1], content))
        IN  IsOwn(result, req, runs) /\ Refused(result, req)
    BY <1>2, <1>4, ReplyIs
  <2> QED BY <1>6, <2>1 DEF GotAs, read, Packet
<1>7. CASE read.outcome.is = "incomplete" /\ At(read.reader, text, m + 1)
  <2> SUFFICES ASSUME NEW new, new.preader = read.reader, new.out_str = cl.out_str, ~ new.finished,
                      new.ssl.state = "READING"
               PROVE  Goes(req, s, r.out, r.in, gone, new, runs)
    BY <1>7 DEF GotAs, read
  <2>1. Later(new) /\ Working(new)
    BY DEF Later, Working
  <2> DEFINE n == m + 1
  <2>2. n \in 0 .. Number(text) - 1 /\ At(new.preader, text, n) /\ Awaited(s, r.in, text, n)
    BY <1>3, <1>7 DEF At
  <2> HIDE DEF n
  <2>3. Stage(s) = "writes" => Replying(req, s, r.in, act, new, runs)
    BY <2>1, <2>2 DEF Awaited, Replying
  <2>4. Stage(s) = "ended" => Ending(req, r.in, act, new, runs)
    BY <2>1, <2>2 DEF Awaited, Ending
  <2>5. Stage(s) \in {"writes", "ended"}
    BY <2>2 DEF Awaited
  <2>6. ~ gone /\ new.out_str = PacketOf(req) /\ s.keep_alive = FALSE
    BY <1>1 DEF Acts
  <2>7. Exchange(req, s, r.out, r.in, act, gone, new, runs)
    BY <2>3, <2>4, <2>5, <2>6 DEF Exchange
  <2>8. ASSUME NEW a \in BOOLEAN, a <=> Working(new)
        PROVE  Exchange(req, s, r.out, r.in, a, gone, new, runs)
    <3>1. a = act
      BY <2>1, <2>8
    <3> QED BY <2>7, <3>1
  <2> QED BY <2>8 DEF Goes
<1> QED BY <1>5, <1>6, <1>7

(* A client that waits for the end of its connection. *)
LEMMA NotWorking ==
  ASSUME NEW cl, NEW in, NEW out, NEW peer, NEW r, Called(cl, in, out, peer, r), ~ Working(cl)
  PROVE  /\ r.what \in {"again", "terminate", "network_error", "exception"}
         /\ r.what = "again" => r.conn.state \in {"SHUTDOWN", "EMPTY"}
<1> DEFINE c == cl.ssl
<1>1. /\ IsConnection(c) /\ IsEnd(c.ssl, in, out, peer) /\ r \in switch_state(c, in, out, peer)
      /\ c.state \in {"SHUTDOWN", "EMPTY"}
  BY DEF Called, IsClient, Working
<1> HIDE DEF c
<1>2. PICK o \in Call(c, End(c.ssl, in, out, peer)) :
        /\ Switched(r, c, o)
        /\ r.what = "again" => o.what \in {"need_read", "need_write", "connection_close"}
        /\ r.what \in {"network_error", "exception"} => o.what = r.what
        /\ r.what \in {"accept_succeed", "connect_succeed", "recv_succeed", "send_succeed",
                       "terminate"} => o.what = "ok" /\ r.what = Success(c.state)
        /\ r.what \in {"again", "network_error", "exception", "terminate", "accept_succeed",
                       "connect_succeed", "recv_succeed", "send_succeed"}
  BY <1>1, Told
<1>3. Success(c.state) = "terminate"
  BY <1>1, Successes
<1>4. o.what \in {"need_read", "need_write", "connection_close"} =>
        r.conn.state \in {"SHUTDOWN", "EMPTY"}
  BY <1>1, <1>2 DEF Switched
<1> QED BY <1>2, <1>3, <1>4

(* What the handler does of the client's side of an exchange. *)
ClientDoes(req, s, gone, cl, r, runs) ==
  /\ \A new : Follows(new, cl, r) => Goes(req, s, r.out, r.in, gone, new, runs)
  /\ r.what \in {"network_error", "exception", "recv_succeed", "terminate"} => Begun(req, s, r.out)
  /\ r.what = "recv_succeed" =>
       \A v \in Levels : GotAs(req, s, r.out, r.in, gone, cl, read_packet(cl.preader, r.text, 0, v), runs)
  /\ IsText(r.out)

LEMMA ClientOn ==
  ASSUME NEW req \in Requests, NEW s, NEW ts, NEW tc, NEW act \in BOOLEAN, NEW gone \in BOOLEAN,
         ~ gone, NEW cl, NEW runs, NEW peer \in BOOLEAN, s.open => peer, NEW r,
         Called(cl, tc, ts, peer, r), act <=> Working(cl),
         Exchange(req, s, ts, tc, act, gone, cl, runs)
  PROVE  ClientDoes(req, s, gone, cl, r, runs)
<1>1. IsText(r.out)
  <2> DEFINE c == cl.ssl
  <2>1. IsConnection(c) /\ IsEnd(c.ssl, tc, ts, peer) /\ r \in switch_state(c, tc, ts, peer)
    BY DEF Called, IsClient
  <2> HIDE DEF c
  <2>2. PICK o \in Call(c, End(c.ssl, tc, ts, peer)) : Switched(r, c, o)
    BY <2>1, Switching
  <2>3. Left(o, c.ssl, tc, ts, peer)
    BY <2>1, Calling
  <2> QED BY <2>2, <2>3 DEF Switched, Left, Clean
<1>2. CASE act
  <2>1. cl.ssl.state \in {"CONNECTING", "WRITING", "READING"}
    BY <1>2, ClientActs
  <2>2. CASE cl.ssl.state = "CONNECTING"
    <3>1. /\ r.what \in {"again", "connect_succeed"}
          /\ \A new : Follows(new, cl, r) => Goes(req, s, r.out, r.in, gone, new, runs)
      BY <1>2, <2>2, ConnectsOn
    <3> QED BY <1>1, <3>1 DEF ClientDoes
  <2>3. CASE cl.ssl.state = "WRITING"
    <3>1. /\ r.what \in {"again", "send_succeed", "network_error", "exception"}
          /\ \A new : Follows(new, cl, r) => Goes(req, s, r.out, r.in, gone, new, runs)
          /\ r.what \in {"network_error", "exception"} => Begun(req, s, r.out)
      BY <1>2, <2>3, SendsOn
    <3> QED BY <1>1, <3>1 DEF ClientDoes
  <2>4. CASE cl.ssl.state = "READING"
    <3>1. /\ r.what \in {"again", "recv_succeed", "network_error", "exception"}
          /\ r.what = "again" =>
               \A new : Follows(new, cl, r) => Goes(req, s, r.out, r.in, gone, new, runs)
          /\ Begun(req, s, r.out)
          /\ r.what = "recv_succeed" => HasGot(req, s, cl, r, runs)
      BY <1>2, <2>4, ReceivesOn
    <3>2. \A new : Follows(new, cl, r) => r.what = "again"
      BY <3>1 DEF Follows
    <3>3. ASSUME r.what = "recv_succeed", NEW v \in Levels
          PROVE  GotAs(req, s, r.out, r.in, gone, cl, read_packet(cl.preader, r.text, 0, v), runs)
      BY <1>2, <3>1, <3>3, ReplyRead
    <3> QED BY <1>1, <3>1, <3>2, <3>3 DEF ClientDoes
  <2> QED BY <2>1, <2>2, <2>3, <2>4
<1>3. CASE ~ act
  <2>1. Stage(s) \notin {"accepts", "reads"}
    BY <1>3 DEF Exchange
  <2>2. \A out : Begun(req, s, out)
    BY <2>1 DEF Begun
  <2>3. /\ r.what \in {"again", "terminate", "network_error", "exception"}
        /\ r.what = "again" => r.conn.state \in {"SHUTDOWN", "EMPTY"}
    BY <1>3, NotWorking
  <2>4. ASSUME NEW new, Follows(new, cl, r)
        PROVE  Goes(req, s, r.out, r.in, gone, new, runs)
    <3> DEFINE in == r.in
               out == r.out
    <3>1. ~ Working(new)
      BY <2>3, <2>4 DEF Follows, Working
    <3>2. ASSUME NEW a \in BOOLEAN, a <=> Working(new)
          PROVE  Exchange(req, s, out, in, a, gone, new, runs)
      <4>1. ~ a /\ Begun(req, s, out)
        BY <2>2, <3>1, <3>2
      <4> HIDE DEF in, out
      <4> QED BY <2>1, <4>1, Leaves
    <3> QED BY <3>2 DEF Goes
  <2> QED BY <1>1, <2>2, <2>3, <2>4 DEF ClientDoes
<1> QED BY <1>2, <1>3

-----------------------------------------------------------------------------
(* The steps of the client. *)

LEMMA AlertHeard ==
  ASSUME NEW c, IsConnection(c), NEW in, NEW out, NEW peer, IsEnd(c.ssl, in, out, peer),
         Informed(c), NEW r \in switch_state(c, in, out, peer)
  PROVE  /\ r.what = "again" => Informed(r.conn)
         /\ r.what \in {"connect_succeed", "send_succeed", "recv_succeed"} =>
              ~ r.conn.ssl.received_shutdown
<1>1. PICK o \in Call(c, End(c.ssl, in, out, peer)) : Switched(r, c, o)
  BY Switching
<1>2. /\ Left(o, c.ssl, in, out, peer)
      /\ o.what \in {"ok", "need_read", "need_write", "connection_close", "network_error",
                     "exception"}
      /\ c.state # "SHUTDOWN" => o.end.ssl.sent_shutdown = c.ssl.sent_shutdown
      /\ c.state # "SHUTDOWN" /\ o.what # "connection_close" =>
           o.end.ssl.received_shutdown = c.ssl.received_shutdown
      /\ c.state = "SHUTDOWN" /\ o.what = "need_write" => o.end.ssl = c.ssl
      /\ c.state \in {"WRITING", "SHUTDOWN"} => o.what \notin {"need_read", "connection_close"}
      /\ c.state = "READING" => o.what # "need_write"
      /\ c.state = "ACCEPTING" /\ c.ssl.role = "server" =>
           /\ o.what = "need_read" => o.end.ssl.flights % 2 = 0
           /\ o.what = "need_write" => o.end.ssl.flights % 2 = 1
  BY Calling
<1>3. r.conn.ssl = o.end.ssl
  BY <1>1 DEF Switched
<1>4. ASSUME r.what = "again" PROVE Informed(r.conn)
  <2>1. Success(c.state) # "again"
    BY DEF Success
  <2>2. o.what \in {"need_read", "need_write", "connection_close"}
    BY <1>1, <1>2, <1>4, <2>1 DEF Switched
  <2>3. o.what = "connection_close" => r.conn.state \in {"SHUTDOWN", "EMPTY"}
    BY <1>1 DEF Switched
  <2>4. o.what # "connection_close" => r.conn.state = c.state
    BY <1>1, <2>2 DEF Switched
  <2> QED BY <1>2, <1>3, <2>3, <2>4 DEF Informed
<1>5. ASSUME r.what \in {"connect_succeed", "send_succeed", "recv_succeed"}
      PROVE  ~ r.conn.ssl.received_shutdown
  <2>1. o.what = "ok" /\ r.what = Success(c.state)
    BY <1>1, <1>2, <1>5 DEF Switched
  <2>2. c.state \notin {"SHUTDOWN", "EMPTY"}
    BY <1>5, <2>1 DEF Success
  <2>3. ~ c.ssl.received_shutdown
    BY <2>2 DEF Informed
  <2> QED BY <1>2, <1>3, <2>1, <2>2, <2>3
<1> QED BY <1>4, <1>5

LEMMA ClientHears ==
  ASSUME IInv, Known, NEW r \in ClientSteps
  PROVE  /\ r.what = "again" => Informed(r.conn)
         /\ r.what \in {"connect_succeed", "send_succeed", "recv_succeed"} =>
              ~ r.conn.ssl.received_shutdown
<1> DEFINE in == to_client[conn]
           out == to_server[conn]
           c == client.ssl
           peer == Open(conn)
<1>1. conn \in Conns /\ conn \notin left /\ ~ client.finished
  BY ClientSwitching
<1>2. r \in switch_state(c, in, out, peer) /\ Informed(c)
  BY <1>1 DEF ClientSteps, Known
<1>3. UnderWay(out, in, Open(conn), conn \in left, conn = conn)
  BY <1>1 DEF IInv, Pipes
<1>4. IsConnection(c) /\ IsClient(client) /\ IsServer(server[conn])
  BY <1>1 DEF IInv, Objects, IsClient
<1>5. IsEnd(c.ssl, in, out, peer)
  BY <1>1, <1>3, <1>4 DEF IsServer, Open, IsConnection, IsEnd, UnderWay
<1> HIDE DEF in, out, c, peer
<1> QED BY <1>2, <1>4, <1>5, AlertHeard

LEMMA NewHears == Informed(Connected.ssl)
<1> DEFINE c == Reaction_connection("client")
           d == reg_connect(c)
<1>1. IsConnection(c) /\ ~ c.ssl.received_shutdown
  BY NewConnection
<1>2. "CONNECTING" \in States
  BY DEF States
<1> HIDE DEF c
<1>3. d.ssl = c.ssl
  BY <1>1, <1>2, Registered DEF reg_connect
<1>4. Connected.ssl = d
  BY DEF Connected, c
<1> QED BY <1>1, <1>3, <1>4 DEF Informed

LEMMA KnownOn ==
  ASSUME IInv, Known, NEW r \in ClientSteps, NEW new, NEW in, NEW out, GoOn(new, in, out),
         new.ssl.ssl = r.conn.ssl,
         \/ r.what = "again" /\ new.ssl.state = r.conn.state
         \/ r.what \in {"connect_succeed", "send_succeed", "recv_succeed"}
  PROVE  Known'
<1>1. /\ r.what = "again" => Informed(r.conn)
      /\ r.what \in {"connect_succeed", "send_succeed", "recv_succeed"} =>
           ~ r.conn.ssl.received_shutdown
  BY ClientHears
<1>2. Informed(new.ssl)
  BY <1>1 DEF Informed
<1> QED BY <1>2 DEF GoOn, Known

LEMMA KnownEnds ==
  ASSUME ~ opts.keep_alive, NEW result, NEW cl, NEW in, NEW out, EndCall(result, cl, in, out)
  PROVE  Known'
<1>1. client' = Connected
  BY DEF EndCall
<1> QED BY <1>1, NewHears DEF Known

LEMMA ClientCalled ==
  ASSUME IInv, Owned, Known, NEW r \in ClientSteps, NEW gone \in BOOLEAN, ~ gone
  PROVE  /\ conn \in Conns /\ phase = "events" /\ conn \notin left /\ ~ client.finished
         /\ IsClient(client) /\ IsConnection(r.conn)
         /\ ClientDoes(opts.requests[conn], server[conn], gone, client, r, executed)
<1>1. conn \in Conns /\ phase = "events" /\ conn \notin left /\ ~ client.finished
      /\ IsClient(client) /\ IsServer(server[conn])
  BY ClientSwitching DEF IInv, Objects
<1> DEFINE in == to_client[conn]
           out == to_server[conn]
           s == server[conn]
           req == opts.requests[conn]
<1>2. PICK peer \in BOOLEAN : peer = Open(conn)
  BY <1>1 DEF IsServer, Open
<1>3. PICK act \in BOOLEAN : act <=> Working(client)
  <2>1. Working(client) \in BOOLEAN
    BY DEF Working
  <2> QED BY <2>1
<1>4. UnderWay(out, in, Open(conn), conn \in left, conn = conn)
  BY <1>1 DEF IInv, Pipes
<1>5. r \in switch_state(client.ssl, in, out, peer) /\ (s.open => peer)
  BY <1>2 DEF ClientSteps, Open
<1>6. IsEnd(client.ssl.ssl, in, out, peer)
  BY <1>1, <1>2, <1>4 DEF IsClient, IsConnection, IsEnd, UnderWay
<1>7. Called(client, in, out, peer, r)
  BY <1>1, <1>5, <1>6 DEF Called, Known
<1>8. Exchange(req, s, out, in, act, gone, client, executed)
  BY <1>1, <1>3 DEF Owned, Exchanges
<1>9. req \in Requests
  BY <1>1, OwnRequest DEF Owned
<1> HIDE DEF in, out, s, req
<1>10. ClientDoes(req, s, gone, client, r, executed)
  BY <1>3, <1>5, <1>7, <1>8, <1>9, ClientOn
<1>11. IsConnection(r.conn)
  <2> DEFINE cl == ClientNow(r)
  <2>1. cl.ssl = r.conn
    BY ClientSwitching
  <2>2. IsConnection(cl.ssl)
    BY ClientReturns
  <2> QED BY <2>1, <2>2
<1> QED BY <1>1, <1>10, <1>11 DEF s, req

(* What a step of the client does to its connection. *)
Landed(ts, tc) ==
  \A act, gone \in BOOLEAN :
    (act <=> conn' = conn /\ Working(client')) /\ (gone <=> conn \in left') =>
      Exchange(opts.requests[conn], server[conn], ts, tc, act, gone, client', executed)

LEMMA OwnMoved ==
  ASSUME IInv, Owned, conn \in Conns, NEW ts, NEW tc, ClientOthers,
         to_server' = [to_server EXCEPT ![conn] = ts], to_client' = [to_client EXCEPT ![conn] = tc],
         left' \in {left, left \cup {conn}}, conn' \in {0, conn},
         Counted', Answered', Landed(ts, tc)
  PROVE  Owned'
<1>1. opts' = opts /\ server' = server /\ executed' = executed
  BY DEF ClientOthers
<1>2. /\ IsText(server) /\ IsText(to_server) /\ IsText(to_client)
      /\ DOMAIN server = 1 .. Len(server) /\ Len(server) \in Nat
      /\ DOMAIN to_server = DOMAIN server /\ DOMAIN to_client = DOMAIN server
  BY TextIs DEF IInv, Objects
<1>3. /\ to_server'[conn] = ts
      /\ \A d \in DOMAIN server : d # conn => to_server'[d] = to_server[d]
  <2>1. conn \in DOMAIN to_server
    BY <1>2 DEF Conns
  <2> QED BY <1>2, <2>1, TextReplaced
<1>4. /\ to_client'[conn] = tc
      /\ \A d \in DOMAIN server : d # conn => to_client'[d] = to_client[d]
  <2>1. conn \in DOMAIN to_client
    BY <1>2 DEF Conns
  <2> QED BY <1>2, <2>1, TextReplaced
<1>5. RunOnce'
  BY <1>1 DEF Owned, RunOnce, Conns
<1>6. Exchanges'
  <2> SUFFICES ASSUME NEW d \in DOMAIN server, NEW act \in BOOLEAN, NEW gone \in BOOLEAN,
                      act <=> d = conn' /\ Working(client'), gone <=> d \in left'
               PROVE  Exchange(opts.requests[d], server[d], to_server'[d], to_client'[d], act, gone,
                               client', executed)
    BY <1>1 DEF Exchanges, Conns
  <2>1. CASE d = conn
    BY <1>3, <1>4, <2>1 DEF Landed
  <2>2. CASE d # conn
    <3>1. ~ act /\ (gone <=> d \in left)
      BY <1>2, <2>2
    <3> DEFINE req == opts.requests[d]
               s == server[d]
               out == to_server[d]
               in == to_client[d]
               new == client'
    <3>2. Exchange(req, s, out, in, act, gone, client, executed)
      BY <2>2, <3>1 DEF Owned, Exchanges, Conns
    <3> HIDE DEF req, s, out, in, new
    <3>3. Begun(req, s, out) /\ (Stage(s) \in {"accepts", "reads"} => gone)
      BY <3>1, <3>2, BegunBy DEF Exchange
    <3>4. Exchange(req, s, out, in, act, gone, new, executed)
      BY <3>1, <3>2, <3>3, Leaves
    <3> QED BY <1>3, <1>4, <2>2, <3>4 DEF req, s, out, in, new
  <2> QED BY <2>1, <2>2
<1> QED BY <1>5, <1>6 DEF Owned

LEMMA OwnGoesOn ==
  ASSUME IInv, Owned, conn \in Conns, NEW cl, NEW in, NEW out, GoOn(cl, in, out), ClientOthers,
         NEW gone \in BOOLEAN, gone <=> conn \in left,
         Goes(opts.requests[conn], server[conn], out, in, gone, cl, executed)
  PROVE  Owned'
<1>1. /\ client' = cl /\ to_client' = [to_client EXCEPT ![conn] = in]
      /\ to_server' = [to_server EXCEPT ![conn] = out]
      /\ phase' = phase /\ conn' = conn /\ results' = results /\ left' = left
  BY DEF GoOn
<1>2. opts' = opts /\ server' = server /\ executed' = executed
  BY DEF ClientOthers
<1>3. Counted' /\ Answered'
  BY <1>1, <1>2 DEF Owned, Counted, Answered, call
<1>4. Landed(out, in)
  <2> SUFFICES ASSUME NEW a \in BOOLEAN, NEW g \in BOOLEAN,
                      a <=> conn' = conn /\ Working(client'), g <=> conn \in left'
               PROVE  Exchange(opts.requests[conn], server[conn], out, in, a, g, client', executed)
    BY DEF Landed
  <2>1. (a <=> Working(cl)) /\ g = gone
    BY <1>1
  <2>2. Exchange(opts.requests[conn], server[conn], out, in, a, gone, cl, executed)
    BY <2>1 DEF Goes
  <2> QED BY <1>1, <2>1, <2>2
<1> QED BY <1>1, <1>3, <1>4, OwnMoved

(* execute() has returned or thrown, and its connection is closed.         *)
LEMMA OwnEnds ==
  ASSUME IInv, Owned, ~ opts.keep_alive, conn \in Conns, phase = "events", NEW result, NEW cl,
         NEW in, NEW out, EndCall(result, cl, in, out), ClientOthers, IsText(out),
         Begun(opts.requests[conn], server[conn], out),
         IsOwn(result, opts.requests[conn], executed)
  PROVE  Owned'
<1> DEFINE n == Len(results) + 1
<1>1. /\ results' = Append(results, result) /\ phase' = "idle" /\ conn' = 0
      /\ left' = left \cup {conn} /\ to_client' = [to_client EXCEPT ![conn] = <<>>]
  BY DEF EndCall
<1>2. PICK pipe \in Resets(in, out) : to_server' = [to_server EXCEPT ![conn] = pipe]
  BY DEF EndCall
<1>3. opts' = opts /\ server' = server /\ executed' = executed
  BY DEF ClientOthers
<1>4. IsText(results) /\ DOMAIN results = 1 .. Len(results) /\ Len(results) \in Nat
  BY TextIs DEF IInv, Objects
<1>5. conn = n /\ Len(server) = n /\ n <= Len(opts.requests) /\ n \in Nat
  BY <1>4 DEF Owned, Counted, call
<1>6. /\ Len(results') = n /\ DOMAIN results' = 1 .. n /\ results'[n] = result
      /\ \A i \in 1 .. Len(results) : results'[i] = results[i]
  BY <1>1, <1>4, TextAppended
<1>7. Counted'
  BY <1>1, <1>3, <1>5, <1>6 DEF Counted, call
<1>8. Answered'
  <2>1. ASSUME NEW i \in 1 .. n, results'[i].is # "exception"
        PROVE  results'[i] = Run(opts.requests[i]) /\ opts.requests[i] \in Range(executed)
    <3>1. CASE i = n
      BY <1>5, <1>6, <2>1, <3>1 DEF IsOwn
    <3>2. CASE i # n
      <4>1. i \in 1 .. Len(results)
        BY <1>4, <3>2
      <4> QED BY <1>4, <1>6, <2>1, <4>1 DEF Owned, Answered
    <3> QED BY <3>1, <3>2
  <2> QED BY <1>3, <1>6, <2>1 DEF Answered
<1>9. Landed(pipe, <<>>)
  <2> SUFFICES ASSUME NEW a \in BOOLEAN, NEW g \in BOOLEAN,
                      a <=> conn' = conn /\ Working(client'), g <=> conn \in left'
               PROVE  Exchange(opts.requests[conn], server[conn], pipe, <<>>, a, g, client', executed)
    BY DEF Landed
  <2>1. ~ a /\ g
    BY <1>1, <1>5
  <2> DEFINE req == opts.requests[conn]
             s == server[conn]
             ts == to_server[conn]
             tc == to_client[conn]
             new == client'
             none == <<>>
  <2>2. PICK act \in BOOLEAN, gone \in BOOLEAN :
          (act <=> conn = conn /\ Working(client)) /\ (gone <=> conn \in left)
    BY DEF Working
  <2>3. Exchange(req, s, ts, tc, act, gone, client, executed)
    BY <2>2 DEF Owned, Exchanges
  <2>4. Begun(req, s, out)
    OBVIOUS
  <2> HIDE DEF req, s, ts, tc, new, none
  <2>5. Begun(req, s, pipe)
    BY <2>4, BegunReset
  <2>6. Exchange(req, s, pipe, none, a, g, new, executed)
    BY <2>1, <2>3, <2>5, Leaves
  <2> QED BY <2>6 DEF req, s, new, none
<1> HIDE DEF n
<1>10. left' \in {left, left \cup {conn}} /\ conn' \in {0, conn}
  BY <1>1
<1> DEFINE none == <<>>
<1>11. Landed(pipe, none) /\ to_client' = [to_client EXCEPT ![conn] = none]
  BY <1>1, <1>9
<1> HIDE DEF none
<1> QED BY <1>2, <1>7, <1>8, <1>10, <1>11, OwnMoved

-----------------------------------------------------------------------------
(* The client object. *)

Cells(cl) ==
  cl \in [ssl : {cl.ssl}, preader : {cl.preader}, out_str : {cl.out_str},
          established : {cl.established}, finished : {cl.finished}]

LEMMA SslCell ==
  ASSUME NEW cl, Cells(cl), NEW v, NEW new, new = [cl EXCEPT !.ssl = v]
  PROVE  /\ Cells(new) /\ new.ssl = v /\ new.preader = cl.preader /\ new.out_str = cl.out_str
         /\ new.finished = cl.finished
  BY DEF Cells

LEMMA PreaderCell ==
  ASSUME NEW cl, Cells(cl), NEW v, NEW new, new = [cl EXCEPT !.preader = v]
  PROVE  /\ Cells(new) /\ new.ssl = cl.ssl /\ new.preader = v /\ new.out_str = cl.out_str
         /\ new.finished = cl.finished
  BY DEF Cells

LEMMA EstablishedCell ==
  ASSUME NEW cl, Cells(cl), NEW v, NEW new, new = [cl EXCEPT !.established = v]
  PROVE  /\ Cells(new) /\ new.ssl = cl.ssl /\ new.preader = cl.preader /\ new.out_str = cl.out_str
         /\ new.finished = cl.finished
  BY DEF Cells

LEMMA FinishedCell ==
  ASSUME NEW cl, Cells(cl), NEW v, NEW new, new = [cl EXCEPT !.finished = v]
  PROVE  /\ Cells(new) /\ new.ssl = cl.ssl /\ new.preader = cl.preader /\ new.out_str = cl.out_str
         /\ new.finished = v
  BY DEF Cells

LEMMA OutStrCell ==
  ASSUME NEW cl, Cells(cl), NEW v, NEW new, new = [cl EXCEPT !.out_str = v]
  PROVE  /\ Cells(new) /\ new.ssl = cl.ssl /\ new.preader = cl.preader /\ new.out_str = v
         /\ new.finished = cl.finished
  BY DEF Cells

LEMMA CellsOf ==
  ASSUME NEW cl, IsClient(cl)
  PROVE  Cells(cl)
  BY DEF IsClient, Cells

LEMMA NowCells ==
  ASSUME IInv, NEW r \in ClientSteps
  PROVE  LET cl == ClientNow(r)
         IN  /\ Cells(cl) /\ cl.ssl = r.conn /\ cl.preader = client.preader
             /\ cl.out_str = client.out_str /\ ~ cl.finished
<1> DEFINE cl == ClientNow(r)
           d == r.conn
<1>1. IsClient(client) /\ ~ client.finished
  BY ClientSwitching DEF IInv, Objects
<1>2. Cells(client)
  BY <1>1, CellsOf
<1>3. cl = [client EXCEPT !.ssl = d]
  BY DEF ClientNow
<1> HIDE DEF cl, d
<1>4. /\ Cells(cl) /\ cl.ssl = d /\ cl.preader = client.preader /\ cl.out_str = client.out_str
      /\ cl.finished = client.finished
  BY <1>2, <1>3, SslCell
<1> QED BY <1>1, <1>4 DEF cl, d

-----------------------------------------------------------------------------
(* The client's handlers. *)

LEMMA OwnFollows ==
  ASSUME IInv, Owned, Known, NEW r \in ClientSteps, NEW new, Follows(new, client, r),
         GoOn(new, r.in, r.out), ClientOthers
  PROVE  Owned' /\ Known'
<1>1. conn \in Conns /\ conn \notin left
  BY ClientReturns
<1>2. PICK gone \in BOOLEAN : ~ gone
  OBVIOUS
<1> DEFINE req == opts.requests[conn]
           s == server[conn]
           in == r.in
           out == r.out
<1>3. ClientDoes(req, s, gone, client, r, executed)
  BY <1>2, ClientCalled
<1>4. Goes(req, s, out, in, gone, new, executed)
  BY <1>3 DEF ClientDoes
<1> HIDE DEF in, out
<1>5. gone <=> conn \in left
  BY <1>1, <1>2
<1>6. Owned'
  BY <1>1, <1>4, <1>5, OwnGoesOn DEF in, out
<1>7. GoOn(new, in, out)
  BY DEF in, out
<1>8. /\ new.ssl.ssl = r.conn.ssl
      /\ \/ r.what = "again" /\ new.ssl.state = r.conn.state
         \/ r.what \in {"connect_succeed", "send_succeed", "recv_succeed"}
  BY DEF Follows
<1> QED BY <1>6, <1>7, <1>8, KnownOn

LEMMA OwnClientWaits ==
  ASSUME IInv, Owned, Known, client_waits
  PROVE  Owned' /\ Known'
<1>1. PICK r \in ClientSteps : r.what = "again" /\ GoOn(ClientNow(r), r.in, r.out)
  BY DEF client_waits
<1> DEFINE new == ClientNow(r)
<1>2. /\ new.ssl = r.conn /\ new.preader = client.preader
      /\ new.out_str = client.out_str /\ ~ new.finished
  BY NowCells
<1>3. Follows(new, client, r)
  BY <1>1, <1>2 DEF Follows
<1>4. GoOn(new, r.in, r.out) /\ ClientOthers
  BY <1>1 DEF client_waits
<1> HIDE DEF new
<1> QED BY <1>3, <1>4, OwnFollows

LEMMA OwnConnectSucceed ==
  ASSUME IInv, Owned, Known, connect_succeed
  PROVE  Owned' /\ Known'
<1>1. PICK r \in ClientSteps :
        /\ r.what = "connect_succeed"
        /\ GoOn(reg_send_request([ClientNow(r) EXCEPT !.established = TRUE], client.out_str),
                r.in, r.out)
  BY DEF connect_succeed
<1> DEFINE now == ClientNow(r)
           cl == [now EXCEPT !.established = TRUE]
           text == client.out_str
           buf == Len(results) + 1
           ssl == reg_send(r.conn, text, buf)
           new == reg_send_request(cl, text)
<1>2. /\ Cells(now) /\ now.ssl = r.conn /\ now.preader = client.preader
      /\ now.out_str = client.out_str /\ ~ now.finished
  BY NowCells
<1>3. IsConnection(r.conn)
  <2> DEFINE me == ClientNow(r)
  <2>1. me.ssl = r.conn
    BY ClientSwitching
  <2>2. IsConnection(me.ssl)
    BY ClientReturns
  <2> QED BY <2>1, <2>2
<1> HIDE DEF now, text, buf
<1>4. /\ Cells(cl) /\ cl.ssl = now.ssl /\ cl.preader = now.preader /\ cl.out_str = now.out_str
      /\ cl.finished = now.finished
  <2> DEFINE yes == TRUE
  <2>1. cl = [now EXCEPT !.established = yes]
    OBVIOUS
  <2> HIDE DEF yes, cl
  <2> QED BY <1>2, <2>1, EstablishedCell
<1> HIDE DEF cl
<1>5. ssl.ssl = r.conn.ssl /\ ssl.state = "WRITING" /\ ssl.send_buf = text
  <2> DEFINE d == r.conn
  <2> HIDE DEF d
  <2>1. LET to == reg_send(d, text, buf)
        IN  to.ssl = d.ssl /\ to.state = "WRITING" /\ to.send_buf = text
    BY <1>3, Buffered DEF d
  <2> QED BY <2>1 DEF d
<1>6. new = [cl EXCEPT !.ssl = ssl]
  BY <1>2, <1>4 DEF reg_send_request, Cells, buf
<1> HIDE DEF ssl, new
<1>7. new.ssl = ssl /\ new.preader = cl.preader /\ new.out_str = cl.out_str
      /\ new.finished = cl.finished
  BY <1>4, <1>6, SslCell
<1>8. Follows(new, client, r)
  BY <1>1, <1>2, <1>4, <1>5, <1>7 DEF Follows, text
<1>9. GoOn(new, r.in, r.out) /\ ClientOthers
  BY <1>1 DEF connect_succeed, new, cl, now, text
<1> QED BY <1>8, <1>9, OwnFollows

LEMMA ToRead ==
  ASSUME NEW cl, Cells(cl), IsConnection(cl.ssl), NEW new, new = [cl EXCEPT !.ssl = reg_recv(@)]
  PROVE  /\ new.ssl.ssl = cl.ssl.ssl /\ new.ssl.state = "READING" /\ new.preader = cl.preader
         /\ new.out_str = cl.out_str /\ new.finished = cl.finished
<1> DEFINE c == cl.ssl
           ssl == reg_recv(c)
<1>1. new = [cl EXCEPT !.ssl = ssl]
  BY DEF Cells
<1>2. IsConnection(c)
  OBVIOUS
<1> HIDE DEF c
<1>3. ssl.ssl = c.ssl /\ ssl.state = "READING"
  BY <1>2, Received
<1> HIDE DEF ssl
<1>4. new.ssl = ssl /\ new.preader = cl.preader /\ new.out_str = cl.out_str
      /\ new.finished = cl.finished
  BY <1>1, SslCell
<1> QED BY <1>3, <1>4 DEF c

LEMMA NowConnection ==
  ASSUME IInv, NEW r \in ClientSteps
  PROVE  IsConnection(r.conn)
<1> DEFINE me == ClientNow(r)
<1>1. me.ssl = r.conn
  BY ClientSwitching
<1>2. IsConnection(me.ssl)
  BY ClientReturns
<1> QED BY <1>1, <1>2

LEMMA OwnClientSendSucceed ==
  ASSUME IInv, Owned, Known, client_send_succeed
  PROVE  Owned' /\ Known'
<1>1. PICK r \in ClientSteps :
        /\ r.what = "send_succeed"
        /\ GoOn([ClientNow(r) EXCEPT !.ssl = reg_recv(@)], r.in, r.out)
  BY DEF client_send_succeed
<1> DEFINE now == ClientNow(r)
           new == [now EXCEPT !.ssl = reg_recv(@)]
<1>2. /\ Cells(now) /\ now.ssl = r.conn /\ now.preader = client.preader
      /\ now.out_str = client.out_str /\ ~ now.finished
  BY NowCells
<1>3. IsConnection(now.ssl)
  BY <1>2, NowConnection
<1> HIDE DEF now
<1>4. /\ new.ssl.ssl = now.ssl.ssl /\ new.ssl.state = "READING" /\ new.preader = now.preader
      /\ new.out_str = now.out_str /\ new.finished = now.finished
  BY <1>2, <1>3, ToRead
<1> HIDE DEF new
<1>5. Follows(new, client, r)
  BY <1>1, <1>2, <1>4 DEF Follows
<1>6. GoOn(new, r.in, r.out) /\ ClientOthers
  BY <1>1 DEF client_send_succeed, new, now
<1> QED BY <1>5, <1>6, OwnFollows

(* A call that ends with a step of OpenSSL.                                *)
LEMMA OwnReturns ==
  ASSUME IInv, Owned, Known, ~ opts.keep_alive, NEW r \in ClientSteps, NEW result, NEW cl,
         r.what \in {"network_error", "exception", "recv_succeed"},
         EndCall(result, cl, r.in, r.out), ClientOthers,
         IsOwn(result, opts.requests[conn], executed)
  PROVE  Owned' /\ Known'
<1> DEFINE req == opts.requests[conn]
           s == server[conn]
           in == r.in
           out == r.out
<1>1. conn \in Conns /\ phase = "events" /\ conn \notin left
  BY ClientReturns
<1>2. PICK gone \in BOOLEAN : ~ gone
  OBVIOUS
<1>3. ClientDoes(req, s, gone, client, r, executed)
  BY <1>2, ClientCalled
<1>4. IsText(out) /\ Begun(req, s, out)
  BY <1>3 DEF ClientDoes
<1>5. EndCall(result, cl, in, out)
  OBVIOUS
<1> HIDE DEF in, out
<1> QED BY <1>1, <1>4, <1>5, OwnEnds, KnownEnds

LEMMA OwnClientThrows ==
  ASSUME IInv, Owned, Known, ~ opts.keep_alive, client_throws
  PROVE  Owned' /\ Known'
<1>1. PICK r \in ClientSteps :
        /\ r.what \in {"network_error", "exception"}
        /\ EndCall(Threw(r.what, 0), ClientNow(r), r.in, r.out)
  BY DEF client_throws
<1> DEFINE result == Threw(r.what, 0)
           cl == ClientNow(r)
<1>2. ClientOthers
  BY DEF client_throws
<1>3. IsOwn(result, opts.requests[conn], executed)
  BY DEF IsOwn, Threw
<1> HIDE DEF result, cl
<1> QED BY <1>1, <1>2, <1>3, OwnReturns DEF result, cl

LEMMA OwnClientTimeout ==
  ASSUME IInv, Owned, ~ opts.keep_alive, Client_timeout
  PROVE  Owned' /\ Known'
<1> DEFINE result == Threw("timeout", 0)
           req == opts.requests[conn]
           s == server[conn]
           in == to_client[conn]
           out == to_server[conn]
<1>1. phase = "events" /\ EndCall(result, client, in, out) /\ ClientOthers
  BY DEF Client_timeout
<1>2. IsOwn(result, req, executed)
  BY DEF IsOwn, Threw
<1>3. conn # 0 /\ conn \in Conns
  <2>1. conn # 0 /\ conn \in 0 .. Len(server)
    BY <1>1 DEF IInv, Sockets
  <2>2. Len(server) \in Nat /\ DOMAIN server = 1 .. Len(server)
    BY TextIs DEF IInv, Objects
  <2> QED BY <2>1, <2>2 DEF Conns
<1>4. IsText(out)
  BY <1>3 DEF IInv, Pipes, UnderWay, Pipe, Clean, Broken
<1>5. PICK act \in BOOLEAN, gone \in BOOLEAN :
        (act <=> conn = conn /\ Working(client)) /\ (gone <=> conn \in left)
  BY DEF Working
<1>6. Exchange(req, s, out, in, act, gone, client, executed)
  BY <1>3, <1>5 DEF Owned, Exchanges
<1>7. Begun(req, s, out)
  <2> HIDE DEF req, s, in, out
  <2> QED BY <1>6, BegunBy
<1> HIDE DEF result, in, out
<1> QED BY <1>1, <1>2, <1>3, <1>4, <1>7, OwnEnds, KnownEnds

LEMMA OwnClientTerminates ==
  ASSUME IInv, Owned, Known, client_terminates
  PROVE  Owned' /\ Known'
<1>1. PICK r \in ClientSteps :
       /\ r.what = "terminate"
       /\ client' = [ClientNow(r) EXCEPT !.finished = TRUE]
       /\ left' = left \cup {conn}
       /\ to_client' = [to_client EXCEPT ![conn] = <<>>]
       /\ \E pipe \in Resets(r.in, r.out) : to_server' = [to_server EXCEPT ![conn] = pipe]
  BY DEF client_terminates
<1>2. PICK pipe \in Resets(r.in, r.out) : to_server' = [to_server EXCEPT ![conn] = pipe]
  BY <1>1
<1>3. phase' = phase /\ conn' = conn /\ results' = results /\ ClientOthers
  BY DEF client_terminates
<1>4. opts' = opts /\ server' = server /\ executed' = executed
  BY <1>3 DEF ClientOthers
<1>5. Counted' /\ Answered'
  BY <1>3, <1>4 DEF Owned, Counted, Answered, call
<1>6. conn \in Conns
  BY ClientReturns
<1> DEFINE now == ClientNow(r)
           new == [now EXCEPT !.finished = TRUE]
           none == <<>>
<1>7. ~ Working(client') /\ Known'
  <2>1. Cells(now)
    BY NowCells
  <2>2. client' = new
    BY <1>1
  <2> DEFINE yes == TRUE
  <2>3. new = [now EXCEPT !.finished = yes]
    OBVIOUS
  <2> HIDE DEF now, new, yes
  <2>4. new.finished = yes
    BY <2>1, <2>3, FinishedCell
  <2> QED BY <2>2, <2>4 DEF Working, Known, yes
<1> HIDE DEF none
<1>8. Landed(pipe, none)
  <2> SUFFICES ASSUME NEW a \in BOOLEAN, NEW g \in BOOLEAN,
                      a <=> conn' = conn /\ Working(client'), g <=> conn \in left'
               PROVE  Exchange(opts.requests[conn], server[conn], pipe, none, a, g, client', executed)
    BY DEF Landed
  <2>1. ~ a /\ g
    BY <1>1, <1>7
  <2> DEFINE req == opts.requests[conn]
             s == server[conn]
             ts == to_server[conn]
             tc == to_client[conn]
             in == r.in
             out == r.out
             cl == client'
  <2>2. PICK act \in BOOLEAN, gone \in BOOLEAN :
          (act <=> conn = conn /\ Working(client)) /\ (gone <=> conn \in left)
    BY DEF Working
  <2>3. Exchange(req, s, ts, tc, act, gone, client, executed)
    BY <1>6, <2>2 DEF Owned, Exchanges
  <2>4. IsText(out) /\ Begun(req, s, out)
    <3>1. PICK no \in BOOLEAN : ~ no
      OBVIOUS
    <3>2. ClientDoes(req, s, no, client, r, executed)
      BY <3>1, ClientCalled
    <3> QED BY <1>1, <3>2 DEF ClientDoes
  <2>5. pipe \in Resets(in, out)
    BY <1>2
  <2> HIDE DEF req, s, ts, tc, in, out, cl
  <2>6. Begun(req, s, pipe)
    BY <2>4, <2>5, BegunReset
  <2>7. Exchange(req, s, pipe, none, a, g, cl, executed)
    BY <2>1, <2>3, <2>6, Leaves
  <2> QED BY <2>7 DEF req, s, cl
<1>9. to_client' = [to_client EXCEPT ![conn] = none] /\ left' \in {left, left \cup {conn}}
      /\ conn' \in {0, conn}
  BY <1>1, <1>3 DEF none
<1> QED BY <1>2, <1>3, <1>5, <1>6, <1>7, <1>8, <1>9, OwnMoved

LEMMA OwnClientRecvSucceed ==
  ASSUME IInv, Owned, Known, ~ opts.keep_alive, client_recv_succeed
  PROVE  Owned' /\ Known'
<1>1. ClientOthers
  BY DEF client_recv_succeed
<1>2. PICK r \in ClientSteps : \E ver_level \in Levels :
     \E read \in {read_packet(client.preader, r.text, 0, ver_level)} :
       LET cl == [ClientNow(r) EXCEPT !.preader = read.reader]
       IN  /\ r.what = "recv_succeed"
           /\ CASE read.outcome.is = "packet" ->
                     EndCall(Returned(read.outcome), cl, r.in, r.out)
                [] read.outcome.is = "error" ->
                     EndCall(Threw("malformed", 0), cl, r.in, r.out)
                [] OTHER -> GoOn([cl EXCEPT !.ssl = reg_recv(@)], r.in, r.out)
  BY DEF client_recv_succeed
<1>3. PICK ver_level \in Levels :
     \E read \in {read_packet(client.preader, r.text, 0, ver_level)} :
       LET cl == [ClientNow(r) EXCEPT !.preader = read.reader]
       IN  /\ r.what = "recv_succeed"
           /\ CASE read.outcome.is = "packet" ->
                     EndCall(Returned(read.outcome), cl, r.in, r.out)
                [] read.outcome.is = "error" ->
                     EndCall(Threw("malformed", 0), cl, r.in, r.out)
                [] OTHER -> GoOn([cl EXCEPT !.ssl = reg_recv(@)], r.in, r.out)
  BY <1>2
<1> DEFINE read == read_packet(client.preader, r.text, 0, ver_level)
           now == ClientNow(r)
           p == read.reader
           cl == [now EXCEPT !.preader = p]
           new == [cl EXCEPT !.ssl = reg_recv(@)]
           req == opts.requests[conn]
           s == server[conn]
           in == r.in
           out == r.out
<1>4. /\ r.what = "recv_succeed"
      /\ read.outcome.is = "packet" => EndCall(Returned(read.outcome), cl, r.in, r.out)
      /\ read.outcome.is = "error" => EndCall(Threw("malformed", 0), cl, r.in, r.out)
      /\ read.outcome.is \notin {"packet", "error"} => GoOn(new, r.in, r.out)
  <2> HIDE DEF read, now
  <2>1. LET me == [now EXCEPT !.preader = read.reader]
        IN  /\ r.what = "recv_succeed"
            /\ CASE read.outcome.is = "packet" ->
                      EndCall(Returned(read.outcome), me, r.in, r.out)
                 [] read.outcome.is = "error" ->
                      EndCall(Threw("malformed", 0), me, r.in, r.out)
                 [] OTHER -> GoOn([me EXCEPT !.ssl = reg_recv(@)], r.in, r.out)
    BY <1>3 DEF read, now
  <2> HIDE DEF cl
  <2>2. /\ r.what = "recv_succeed"
        /\ CASE read.outcome.is = "packet" ->
                  EndCall(Returned(read.outcome), cl, r.in, r.out)
             [] read.outcome.is = "error" ->
                  EndCall(Threw("malformed", 0), cl, r.in, r.out)
             [] OTHER -> GoOn(new, r.in, r.out)
    BY <2>1 DEF cl
  <2> HIDE DEF new
  <2> QED BY <2>2
<1>5. PICK gone \in BOOLEAN : ~ gone
  OBVIOUS
<1>6. ClientDoes(req, s, gone, client, r, executed)
  BY <1>5, ClientCalled
<1>7. GotAs(req, s, out, in, gone, client, read, executed)
  BY <1>4, <1>6 DEF ClientDoes
<1>8. /\ Cells(now) /\ now.ssl = r.conn /\ now.preader = client.preader
      /\ now.out_str = client.out_str /\ ~ now.finished
  BY NowCells
<1>9. conn \in Conns /\ conn \notin left /\ IsConnection(r.conn)
  BY ClientReturns, NowConnection
<1> HIDE DEF read, now
<1>11. CASE read.outcome.is = "packet"
  <2> DEFINE result == Returned(read.outcome)
  <2>1. EndCall(result, cl, r.in, r.out)
    BY <1>4, <1>11
  <2>2. IsOwn(result, req, executed)
    BY <1>7, <1>11 DEF GotAs
  <2> HIDE DEF result, cl
  <2> QED BY <1>1, <1>4, <2>1, <2>2, OwnReturns
<1>12. CASE read.outcome.is = "incomplete"
  <2>1. GoOn(new, in, out)
    BY <1>4, <1>12
  <2> HIDE DEF p
  <2>2. /\ Cells(cl) /\ cl.ssl = now.ssl /\ cl.preader = p /\ cl.out_str = now.out_str
        /\ cl.finished = now.finished
    <3> HIDE DEF cl
    <3>1. cl = [now EXCEPT !.preader = p]
      BY DEF cl
    <3> QED BY <1>8, <3>1, PreaderCell
  <2> HIDE DEF cl
  <2>3. IsConnection(cl.ssl)
    BY <1>8, <1>9, <2>2
  <2>4. /\ new.ssl.ssl = cl.ssl.ssl /\ new.ssl.state = "READING" /\ new.preader = cl.preader
        /\ new.out_str = cl.out_str /\ new.finished = cl.finished
    BY <2>2, <2>3, ToRead
  <2> HIDE DEF new
  <2>5. Goes(req, s, out, in, gone, new, executed)
    BY <1>7, <1>8, <1>12, <2>2, <2>4 DEF GotAs, p
  <2>6. gone <=> conn \in left
    BY <1>5, <1>9
  <2>7. new.ssl.ssl = r.conn.ssl
    BY <1>8, <2>2, <2>4
  <2> HIDE DEF in, out
  <2> QED BY <1>1, <1>4, <1>9, <2>1, <2>5, <2>6, <2>7, OwnGoesOn, KnownOn
<1> QED BY <1>7, <1>11, <1>12 DEF GotAs

(* Both ends of a new connection.                                          *)
LEMMA NewEnds ==
  /\ Connected.ssl.state = "CONNECTING" /\ Connected.ssl.ssl = SSL_new("client")
  /\ Connected.preader = NewReader /\ Connected.finished = FALSE /\ Cells(Connected)
  /\ Accepted.ssl.state = "ACCEPTING" /\ Accepted.ssl.ssl = SSL_new("server")
  /\ Accepted.preader = NewReader /\ Accepted.open = TRUE /\ Accepted.keep_alive = FALSE
  /\ Accepted.executing = {}
<1>1. \A role : Reaction_connection(role).ssl = SSL_new(role)
  BY DEF Reaction_connection
<1>2. LET c == reg_connect(Reaction_connection("client"))
      IN  c.state = "CONNECTING" /\ c.ssl = SSL_new("client")
  <2> DEFINE c == Reaction_connection("client")
  <2>1. IsConnection(c) /\ "CONNECTING" \in States /\ c.ssl = SSL_new("client")
    BY <1>1, NewConnection DEF States
  <2> HIDE DEF c
  <2> QED BY <2>1, Registered DEF reg_connect, c
<1>3. LET c == reg_accept(Reaction_connection("server"))
      IN  c.state = "ACCEPTING" /\ c.ssl = SSL_new("server")
  <2> DEFINE c == Reaction_connection("server")
  <2>1. IsConnection(c) /\ "ACCEPTING" \in States /\ c.ssl = SSL_new("server")
    BY <1>1, NewConnection DEF States
  <2> HIDE DEF c
  <2> QED BY <2>1, Registered DEF reg_accept, c
<1> DEFINE c == reg_connect(Reaction_connection("client"))
           d == reg_accept(Reaction_connection("server"))
<1>4. /\ Connected = [ssl |-> c, preader |-> NewReader, out_str |-> <<>>, established |-> FALSE,
                      finished |-> FALSE]
      /\ Accepted = [ssl |-> d, preader |-> NewReader, open |-> TRUE, keep_alive |-> FALSE,
                     executing |-> {}]
  BY DEF Connected, Accepted
<1>5. /\ c.state = "CONNECTING" /\ c.ssl = SSL_new("client")
      /\ d.state = "ACCEPTING" /\ d.ssl = SSL_new("server")
  BY <1>2, <1>3
<1> HIDE DEF c, d
<1> QED BY <1>4, <1>5 DEF Cells

LEMMA NewExchange ==
  ASSUME NEW req, NEW cl, cl.ssl = Connected.ssl, cl.preader = NewReader,
         cl.out_str = PacketOf(req), NEW none, none = <<>>, NEW act \in BOOLEAN, act,
         NEW gone \in BOOLEAN, ~ gone, NEW runs
  PROVE  Exchange(req, Accepted, none, none, act, gone, cl, runs)
<1>1. Stage(Accepted) = "accepts"
  BY NewEnds DEF Stage
<1>2. /\ SSL_new("client").flights = 0 /\ SSL_new("server").flights = 0
      /\ SSL_new("client").unsent = <<>> /\ SSL_new("server").unsent = <<>>
      /\ SSL_new("client").role = "client"
  BY DEF SSL_new
<1>3. Accepting(Accepted, none, none, act, cl)
  BY <1>2, NewEnds DEF Accepting, Connects, Greeting
<1> QED BY <1>1, <1>3, NewEnds DEF Exchange

LEMMA OwnExecuteOnNew ==
  ASSUME IInv, Owned, ~ opts.keep_alive, execute_on_new
  PROVE  Owned' /\ Known'
<1> DEFINE n == Len(server) + 1
<1>1. /\ phase = "idle" /\ Len(results) < Len(opts.requests) /\ conn' = n
      /\ server' = Append(server, Accepted)
      /\ to_server' = Append(to_server, <<>>) /\ to_client' = Append(to_client, <<>>)
      /\ client' = [Connected EXCEPT !.out_str = request_packet]
      /\ phase' = "events" /\ opts' = opts /\ results' = results /\ left' = left
      /\ executed' = executed
  BY DEF execute_on_new
<1>2. /\ IsText(server) /\ IsText(to_server) /\ IsText(to_client)
      /\ DOMAIN server = 1 .. Len(server) /\ Len(server) \in Nat
      /\ Len(to_server) = Len(server) /\ Len(to_client) = Len(server)
  BY TextIs DEF IInv, Objects, Conns
<1>3. /\ IsText(server') /\ Len(server') = n /\ DOMAIN server' = 1 .. n
      /\ server'[n] = Accepted /\ \A c \in 1 .. Len(server) : server'[c] = server[c]
  BY <1>1, <1>2, TextAppended
<1>4. to_server'[n] = <<>> /\ \A c \in 1 .. Len(server) : to_server'[c] = to_server[c]
  BY <1>1, <1>2, TextAppended
<1>5. to_client'[n] = <<>> /\ \A c \in 1 .. Len(server) : to_client'[c] = to_client[c]
  BY <1>1, <1>2, TextAppended
<1>6. Len(results) \in Nat /\ Len(opts.requests) \in Nat
  BY TextIs, LenProperties, SecureCallAssumption DEF IInv, Objects
<1>7. Len(server) = Len(results) /\ conn = 0
  BY <1>1, <1>6 DEF Owned, Counted, call
<1>8. Counted'
  BY <1>1, <1>3, <1>6, <1>7 DEF Counted, call
<1>9. Answered'
  BY <1>1 DEF Owned, Answered
<1>10. RunOnce'
  <2> DEFINE P == {d \in Conns : Past(server[d])}
             Q == {d \in DOMAIN server' : Past(server'[d])}
  <2>1. P \subseteq Q
    BY <1>2, <1>3 DEF Conns
  <2>2. IsFiniteSet(Q)
    <3>1. n \in Int /\ 1 \in Int /\ Q \subseteq 1 .. n
      BY <1>2, <1>3
    <3> HIDE DEF n, Q
    <3> QED BY <3>1, FS_Interval, FS_Subset
  <2>3. IsText(executed) /\ Len(executed) <= Cardinality(P) /\ Len(executed) \in Nat
    BY TextIs DEF Owned, RunOnce
  <2>4. RunOnce' <=> IsText(executed) /\ Len(executed) <= Cardinality(Q)
    BY <1>1 DEF RunOnce, Conns
  <2> HIDE DEF P, Q
  <2>5. Cardinality(P) <= Cardinality(Q) /\ Cardinality(P) \in Nat /\ Cardinality(Q) \in Nat
    BY <2>1, <2>2, FS_Subset, FS_CardinalityType
  <2> QED BY <2>3, <2>4, <2>5
<1>11. Exchanges'
  <2> SUFFICES ASSUME NEW d \in 1 .. n, NEW act \in BOOLEAN, NEW gone \in BOOLEAN,
                      act <=> d = n /\ Working(client'), gone <=> d \in left
               PROVE  Exchange(opts.requests[d], server'[d], to_server'[d], to_client'[d], act, gone,
                               client', executed)
    BY <1>1, <1>3 DEF Exchanges, Conns
  <2>1. CASE d = n
    <3> DEFINE req == opts.requests[n]
               cl == client'
               none == <<>>
               text == request_packet
    <3>1. text = PacketOf(req)
      <4>1. opts.keep_alive = FALSE
        BY SecureCallAssumption DEF IInv, Objects
      <4> QED BY <1>7, <4>1 DEF request_packet, PacketOf, Closes
    <3>2. Cells(Connected) /\ cl = [Connected EXCEPT !.out_str = text]
      BY <1>1, NewEnds
    <3> HIDE DEF cl, text
    <3>3. /\ cl.ssl = Connected.ssl /\ cl.preader = Connected.preader /\ cl.out_str = text
          /\ cl.finished = Connected.finished
      BY <3>2, OutStrCell
    <3>4. act
      BY <2>1, <3>3, NewEnds DEF Working, cl
    <3>5. ~ gone
      BY <1>2, <2>1 DEF IInv, Sockets, Conns
    <3>6. cl.preader = NewReader /\ cl.out_str = PacketOf(req) /\ none = <<>>
      BY <3>1, <3>3, NewEnds
    <3> HIDE DEF req, none
    <3>7. Exchange(req, Accepted, none, none, act, gone, cl, executed)
      BY <3>3, <3>4, <3>5, <3>6, NewExchange
    <3> QED BY <1>3, <1>4, <1>5, <2>1, <3>7 DEF req, none, cl
  <2>2. CASE d # n
    <3>1. d \in 1 .. Len(server) /\ d \in Conns /\ d \in DOMAIN server
      BY <1>2, <2>2 DEF Conns
    <3> DEFINE req == opts.requests[d]
               s == server[d]
               ts == to_server[d]
               tc == to_client[d]
               new == client'
    <3>2. ~ act /\ (gone <=> d \in left)
      BY <2>2
    <3>3. ~ (d = conn /\ Working(client))
      BY <1>7, <3>1
    <3>4. Exchange(req, s, ts, tc, act, gone, client, executed)
      BY <3>1, <3>2, <3>3 DEF Owned, Exchanges
    <3> HIDE DEF req, s, ts, tc, new
    <3>5. Begun(req, s, ts) /\ (Stage(s) \in {"accepts", "reads"} => gone)
      BY <3>2, <3>4, BegunBy DEF Exchange
    <3>6. Exchange(req, s, ts, tc, act, gone, new, executed)
      BY <3>2, <3>4, <3>5, Leaves
    <3> QED BY <1>3, <1>4, <1>5, <3>1, <3>6 DEF req, s, ts, tc, new
  <2> QED BY <2>1, <2>2
<1>12. Known'
  <2> DEFINE cl == client'
             text == request_packet
  <2>1. Cells(Connected) /\ cl = [Connected EXCEPT !.out_str = text]
    BY <1>1, NewEnds
  <2> HIDE DEF cl, text
  <2>2. cl.ssl = Connected.ssl
    BY <2>1, OutStrCell
  <2>3. Informed(cl.ssl)
    BY <2>2, NewHears
  <2> QED BY <2>3 DEF Known, cl
<1> QED BY <1>8, <1>9, <1>10, <1>11, <1>12 DEF Owned

-----------------------------------------------------------------------------
(* The invariant holds. *)

LEMMA OwnStarts ==
  ASSUME Init
  PROVE  Owned /\ Known
<1>1. /\ opts \in Sessions /\ phase = "idle" /\ conn = 0 /\ results = <<>> /\ server = <<>>
      /\ executed = <<>>
  BY DEF Init
<1>2. Len(opts.requests) \in Nat
  BY <1>1, LenProperties, SecureCallAssumption
<1>3. Counted
  BY <1>1, <1>2, EmptyText DEF Counted, call
<1>4. RunOnce
  <2>1. {c \in Conns : Past(server[c])} = {}
    BY <1>1, EmptyText DEF Conns
  <2> QED BY <1>1, <2>1, EmptyText, FS_EmptySet DEF RunOnce
<1>5. Answered /\ Exchanges
  BY <1>1, EmptyText DEF Answered, Exchanges, Conns
<1>6. Known
  <2>1. client = Connected
    BY DEF Init
  <2> QED BY <2>1, NewHears DEF Known
<1> QED BY <1>3, <1>4, <1>5, <1>6 DEF Owned

LEMMA OwnMoves ==
  ASSUME IInv, Owned, Known, ~ opts.keep_alive, [Next]_vars
  PROVE  Owned' /\ Known'
<1>1. CASE Client
  <2>1. ~ execute_on_kept
    BY DEF Owned, Counted, execute_on_kept
  <2> QED BY <1>1, <2>1, OwnExecuteOnNew, OwnConnectSucceed, OwnClientSendSucceed,
             OwnClientRecvSucceed, OwnClientWaits, OwnClientTerminates, OwnClientThrows,
             OwnClientTimeout DEF Client
<1>2. CASE \E c \in Conns : Server(c)
  <2>1. Owned'
    BY <1>2, OwnAcceptSucceed, OwnRecvSucceed, OwnSendSucceed, OwnServerWaits,
       OwnServerTerminates, OwnProcess DEF Server
  <2>2. client' = client
    BY <1>2 DEF Server, accept_succeed, recv_succeed, send_succeed, server_waits,
       server_terminates, process_actual_execution, ServerOthers, clientVars
  <2> QED BY <2>1, <2>2 DEF Known
<1>3. CASE UNCHANGED vars
  BY <1>3 DEF vars, clientVars, Owned, Known, Counted, RunOnce, Answered, Exchanges, call, Conns
<1> QED BY <1>1, <1>2, <1>3 DEF Next

LEMMA OptionsStay ==
  ASSUME [Next]_vars
  PROVE  opts' = opts
<1>1. CASE Client
  BY <1>1 DEF Client, execute_on_new, execute_on_kept, connect_succeed, client_send_succeed,
     client_recv_succeed, client_waits, client_terminates, client_throws, Client_timeout,
     ClientOthers
<1>2. CASE \E c \in Conns : Server(c)
  BY <1>2 DEF Server, accept_succeed, recv_succeed, send_succeed, server_waits,
     server_terminates, process_actual_execution, ServerOthers, clientVars
<1>3. CASE UNCHANGED vars
  BY <1>3 DEF vars, clientVars
<1> QED BY <1>1, <1>2, <1>3 DEF Next

LEMMA Owning ==
  ASSUME IInv, Owned
  PROVE  AnswerIsOwn
<1>1. Len(executed) <= call
  <2> DEFINE P == {c \in Conns : Past(server[c])}
  <2>1. Len(server) \in Nat /\ Conns = 1 .. Len(server) /\ Len(executed) \in Nat
    BY TextIs DEF IInv, Objects, Conns, Owned, RunOnce
  <2>2. IsFiniteSet(1 .. Len(server)) /\ Cardinality(1 .. Len(server)) = Len(server)
    <3> DEFINE n == Len(server)
    <3>1. n \in Int /\ 1 \in Int /\ n \in Nat
      BY <2>1
    <3> HIDE DEF n
    <3>2. IsFiniteSet(1 .. n) /\ Cardinality(1 .. n) = IF 1 > n THEN 0 ELSE n - 1 + 1
      BY <3>1, FS_Interval
    <3> QED BY <3>1, <3>2 DEF n
  <2>3. P \subseteq 1 .. Len(server) /\ Len(executed) <= Cardinality(P) /\ Len(server) = call
    BY <2>1 DEF Owned, RunOnce, Counted
  <2> HIDE DEF P
  <2>4. Cardinality(P) <= Len(server) /\ Cardinality(P) \in Nat
    BY <2>2, <2>3, FS_Subset, FS_CardinalityType
  <2> QED BY <2>1, <2>3, <2>4
<1>2. \A req \in Range(executed) : \E i \in DOMAIN executed : executed[i] = req
  BY DEF Range
<1>3. /\ DOMAIN results = 1 .. Len(results) /\ Len(results) \in Nat
      /\ call \in Nat /\ Len(results) <= call
  BY TextIs DEF IInv, Objects, call
<1> DEFINE f == [n \in DOMAIN results |-> n]
<1>4. f \in [DOMAIN results -> 1 .. call] /\ \A n \in DOMAIN results : f[n] = n
  BY <1>3
<1>5. ASSUME NEW n \in DOMAIN results, results[n].is # "exception"
      PROVE  \E req \in MayBeRead(n) :
               results[n] = Run(req) /\ \E i \in DOMAIN executed : executed[i] = req
  <2>1. opts.requests[n] \in MayBeRead(n)
    BY DEF MayBeRead
  <2>2. results[n] = Run(opts.requests[n]) /\ opts.requests[n] \in Range(executed)
    BY <1>5 DEF Owned, Answered
  <2> QED BY <1>2, <2>1, <2>2
<1> HIDE DEF f
<1>6. \A n \in DOMAIN results : n \in Nat /\ n <= n
  BY <1>3
<1> DEFINE Responded == {n \in DOMAIN results : results[n].is # "exception"}
<1>7. ASSUME NEW n \in Responded
      PROVE  /\ f[n] <= n /\ (f[n] = n \/ Reused(n))
             /\ \E req \in MayBeRead(f[n]) :
                  results[n] = Run(req) /\ \E i \in DOMAIN executed : executed[i] = req
  BY <1>4, <1>5, <1>6
<1>8. \A m, n \in Responded : m < n => f[m] < f[n]
  BY <1>4
<1> QED BY <1>1, <1>4, <1>7, <1>8 DEF AnswerIsOwn

(* Without keep-alive, as the program's own client asks, a response that   *)
(* execute() returns is the one to its own request, and no request has been *)
(* executed for a second time: however the packets are cut into records    *)
(* and whatever either end does between them (Https_client_connection,     *)
(* Https_server_connection, Reaction_connection::switch_state).            *)
THEOREM AnswersAreOwn == Spec => [](~ opts.keep_alive => AnswerIsOwn)
<1>1. Init => OwnInv /\ KnownInv
  BY OwnStarts DEF OwnInv, KnownInv, Owned
<1>2. IInv /\ OwnInv /\ KnownInv /\ [Next]_vars => OwnInv' /\ KnownInv'
  BY OptionsStay, OwnMoves DEF OwnInv, KnownInv, Owned
<1>3. IInv /\ OwnInv => (~ opts.keep_alive => AnswerIsOwn)
  BY Owning DEF OwnInv, Owned
<1> QED BY <1>1, <1>2, <1>3, Invariance, PTL DEF Spec

-----------------------------------------------------------------------------
(* Nothing has happened to a call that is in time and not too large that   *)
(* it could fail by.  ReplyOf(req) is what it will be answered.            *)
ReplyOf(req) == dump(200, Closes, ResponseContent(Run(req)))

(* All of a text but its first m records is under way, whatever follows.   *)
Whole(pipe, text, m) ==
  /\ Len(pipe) >= Number(text) - m
  /\ \A i \in 1 .. Number(text) - m : pipe[i] = Records(text)[m + i]

ToCome(tc, cl, text) ==
  \E m \in 0 .. Number(text) - 1 : Whole(tc, text, m) /\ At(cl.preader, text, m)

Sound(req, s, ts, tc, cl, n) ==
  /\ Working(cl) /\ cl.ssl.mask # {} /\ ~ cl.ssl.ssl.sent_shutdown
  /\ Buffers(cl.ssl, n) /\ Buffers(s.ssl, 1)
  /\ Stage(s) \in {"executes", "writes", "ended"} => cl.ssl.state = "READING" /\ ts = <<>>
  /\ Stage(s) = "ended" => ToCome(tc, cl, ReplyOf(req))

Unharmed ==
  conn # 0 /\ ~ Large(opts.requests[conn]) =>
    Sound(opts.requests[conn], server[conn], to_server[conn], to_client[conn], client, conn)

Blamed(result, req) ==
  result.is = "exception" =>
    /\ Large(req) \/ (opts.timeout /\ result.what = "timeout")
    /\ result.what = "http" => Large(req) /\ result.code = 413

Caused == \A n \in DOMAIN results : Blamed(results[n], opts.requests[n])

CauseInv == ~ opts.keep_alive => Unharmed /\ Caused

-----------------------------------------------------------------------------
(* A reply that is under way as a whole. *)

LEMMA FullWhole ==
  ASSUME NEW pipe, IsText(pipe), NEW text, IsText(text), NEW m \in Nat,
         Full(pipe, text, m, Number(text))
  PROVE  Whole(pipe, text, m)
<1>1. Len(pipe) \in Nat /\ DOMAIN pipe = 1 .. Len(pipe) /\ Number(text) \in Nat
  BY TextIs, RecordsOf
<1>2. Len(pipe) = Number(text) - m /\ \A i \in DOMAIN pipe : pipe[i] = Records(text)[m + i]
  BY DEF Full
<1> QED BY <1>1, <1>2 DEF Whole

LEMMA WholeMore ==
  ASSUME NEW pipe, IsText(pipe), NEW text, IsText(text), NEW m \in Nat, Whole(pipe, text, m), NEW e
  PROVE  Whole(Append(pipe, e), text, m)
<1> DEFINE t == Append(pipe, e)
<1>1. Len(pipe) \in Nat /\ DOMAIN pipe = 1 .. Len(pipe) /\ Number(text) \in Nat
  BY TextIs, RecordsOf
<1>2. DOMAIN t = 1 .. Len(pipe) + 1 /\ \A i \in 1 .. Len(pipe) : t[i] = pipe[i]
  BY TextAppended
<1>3. Len(t) = Len(pipe) + 1
  BY <1>1, <1>2, TextAppended
<1> HIDE DEF t
<1>4. /\ Len(pipe) >= Number(text) - m
      /\ \A i \in 1 .. Number(text) - m : pipe[i] = Records(text)[m + i]
  BY DEF Whole
<1>5. Len(t) >= Number(text) - m
  BY <1>1, <1>3, <1>4
<1>6. ASSUME NEW i \in 1 .. Number(text) - m PROVE t[i] = Records(text)[m + i]
  <2>1. i \in 1 .. Len(pipe)
    BY <1>1, <1>4
  <2> QED BY <1>2, <1>4, <2>1
<1> QED BY <1>5, <1>6 DEF Whole, t

LEMMA WholeTail ==
  ASSUME NEW pipe, IsText(pipe), NEW text, IsText(text), NEW m \in 0 .. Number(text) - 1,
         Whole(pipe, text, m)
  PROVE  /\ pipe # <<>> /\ Head(pipe) \notin {close_notify, Reset}
         /\ Head(pipe) = Records(text)[m + 1] /\ Whole(Tail(pipe), text, m + 1)
<1> DEFINE n == Number(text)
<1>1. n \in Nat /\ m \in Nat /\ m + 1 \in 1 .. n /\ \A i \in 1 .. n : \E t : Records(text)[i] = Data(t)
  <2>1. n \in Nat /\ \A i \in 1 .. n : \E t : Records(text)[i] = Data(t)
    BY RecordsOf
  <2> HIDE DEF n
  <2>2. m \in 0 .. n - 1
    BY DEF n
  <2> QED BY <2>1, <2>2
<1>2. /\ Len(pipe) >= n - m
      /\ \A i \in 1 .. n - m : pipe[i] = Records(text)[m + i]
  BY DEF Whole
<1>3. Len(pipe) \in Nat
  BY TextIs
<1> HIDE DEF n
<1>4. pipe # <<>>
  <2>1. Len(pipe) # 0
    BY <1>1, <1>2, <1>3
  <2> QED BY <2>1
<1>5. /\ Head(pipe) = pipe[1] /\ Len(pipe) \in Nat \ {0} /\ Len(Tail(pipe)) = Len(pipe) - 1
      /\ \A i \in 1 .. Len(pipe) - 1 : Tail(pipe)[i] = pipe[i + 1]
  BY <1>4, TailIs
<1>6. Head(pipe) = Records(text)[m + 1]
  BY <1>1, <1>2, <1>5
<1>7. Head(pipe) \notin {close_notify, Reset}
  <2>1. PICK t : Head(pipe) = Data(t)
    BY <1>1, <1>6
  <2> QED BY <2>1 DEF Data, close_notify, Reset
<1>8. Len(Tail(pipe)) >= n - (m + 1)
  BY <1>1, <1>2, <1>5
<1>9. ASSUME NEW i \in 1 .. n - (m + 1) PROVE Tail(pipe)[i] = Records(text)[(m + 1) + i]
  <2>1. i \in 1 .. Len(pipe) - 1 /\ i + 1 \in 1 .. n - m /\ m + (i + 1) = (m + 1) + i
    BY <1>1, <1>2, <1>5
  <2>2. Tail(pipe)[i] = pipe[i + 1] /\ pipe[i + 1] = Records(text)[m + (i + 1)]
    BY <1>2, <1>5, <2>1
  <2> QED BY <2>1, <2>2
<1> QED BY <1>4, <1>6, <1>7, <1>8, <1>9 DEF Whole, n

LEMMA ReplyOfIs ==
  ASSUME NEW req \in Requests
  PROVE  /\ IsText(ReplyOf(req)) /\ Number(ReplyOf(req)) \in Nat
         /\ \A runs : \A text \in Replies(req, runs) : ~ Large(req) => text = ReplyOf(req)
<1>1. IsText(ReplyOf(req))
  BY ContentsAreTexts, PacketIs DEF ReplyOf
<1>2. \A runs : \A text \in Replies(req, runs) : ~ Large(req) => text = ReplyOf(req)
  BY DEF Replies, Refusals, Answers, ReplyOf
<1> QED BY <1>1, <1>2, RecordsOf

-----------------------------------------------------------------------------
(* A call of the server's handler, while the client waits for it. *)

(* The other end is there. *)
There(peer) == peer = TRUE

(* The server writes its reply, of which the client has read m records.    *)
Answering(req, c, ts, tc, peer, cl, runs, text, m, k) ==
  /\ IsConnection(c) /\ IsEnd(c.ssl, ts, tc, peer) /\ ~ c.ssl.sent_shutdown /\ Buffers(c, 1)
  /\ text \in Replies(req, runs) /\ m \in 0 .. Number(text) - 1
  /\ Writes(c, text, k) /\ Full(tc, text, m, k) /\ At(cl.preader, text, m)

LEMMA ServerSends ==
  ASSUME NEW req \in Requests, ~ Large(req), NEW c, NEW ts, NEW tc, NEW peer \in BOOLEAN,
         There(peer), NEW cl, NEW runs, NEW text, NEW m, NEW k,
         Answering(req, c, ts, tc, peer, cl, runs, text, m, k),
         NEW o \in SSL_write(End(c.ssl, ts, tc, peer), c.send_buf, c.buf)
  PROVE  /\ o.what \in {"ok", "need_write"} /\ o.end.in = ts
         /\ o.what = "ok" => ToCome(o.end.out, cl, ReplyOf(req))
<1>1. /\ IsConnection(c) /\ IsEnd(c.ssl, ts, tc, peer) /\ ~ c.ssl.sent_shutdown /\ Buffers(c, 1)
      /\ text \in Replies(req, runs) /\ m \in 0 .. Number(text) - 1
      /\ Writes(c, text, k) /\ Full(tc, text, m, k) /\ At(cl.preader, text, m)
  BY DEF Answering
<1> DEFINE ssl == c.ssl
           buf == c.buf
           rest == Rest(ssl, text)
<1>2. /\ IsSsl(ssl) /\ IsEnd(ssl, ts, tc, peer) /\ IsText(tc)
      /\ ssl.buf \in {0, buf} /\ ~ ssl.sent_shutdown
      /\ o \in SSL_write(End(ssl, ts, tc, peer), text, buf)
  BY <1>1 DEF IsConnection, IsEnd, Clean, Buffers, Writes
<1>3. ~ HasReset(ts)
  BY <1>1 DEF IsEnd, Clean, There
<1>4. text = ReplyOf(req) /\ IsText(text) /\ Number(text) \in Nat
  BY <1>1, ReplyOfIs
<1>5. m \in Nat /\ k \in Nat
  BY <1>4, <1>1 DEF Writes
<1> HIDE DEF ssl, buf
<1>6. o.what \in {"ok", "need_write", "network_error", "exception"} /\ Left(o, ssl, ts, tc, peer)
  BY <1>2, <1>4, Writing
<1>7. o.what \notin {"network_error", "exception"}
  <2>1. IsSsl(ssl) /\ o \in SSL_write(End(ssl, ts, tc, peer), text, buf)
    BY <1>2
  <2>2. /\ o.what = "exception" => ssl.sent_shutdown \/ ssl.buf \notin {0, buf}
        /\ o.what = "network_error" => HasReset(ts)
    BY <2>1, WriteKeeps
  <2> QED BY <1>3, <1>2, <2>2
<1>8. PICK f : Sends(o, ts, tc, rest, f)
  <2>1. \/ o.what \in {"network_error", "exception"}
        \/ \E f : Sends(o, ts, tc, rest, f)
        \/ ~ peer
    BY <1>2, <1>4, WriteOutcome
  <2> QED BY <1>7, <2>1 DEF There
<1>9. CASE o.what = "ok"
  <2>1. Onward(rest, text, k, f) /\ f \in 0 .. Len(rest) /\ f = Len(rest)
    <3>1. f \in 0 .. Len(Rest(c.ssl, text)) /\ f = Len(rest)
      BY <1>8, <1>9 DEF Sends, ssl
    <3>2. Onward(Rest(c.ssl, text), text, k, f)
      BY <1>4, <1>1, <3>1, WriteGoesOn
    <3> QED BY <3>1, <3>2 DEF ssl
  <2> HIDE DEF rest
  <2>2. k + f = Number(text) /\ k + f <= Number(text)
    BY <1>4, <2>1 DEF Onward
  <2>3. o.end.out = tc \o SubSeq(Records(text), k + 1, k + f)
    BY <1>8, <2>1 DEF Sends, Onward
  <2>4. f \in Nat
    BY <1>4, <1>5, <2>1, <2>2 DEF Onward
  <2>5. Full(o.end.out, text, m, k + f)
    BY <1>2, <1>4, <1>5, <2>2, <2>3, <2>4, <1>1, FullJoined
  <2>6. IsText(o.end.out)
    BY <1>6 DEF Left, Clean
  <2>7. Whole(o.end.out, text, m)
    BY <1>4, <1>5, <2>2, <2>5, <2>6, FullWhole
  <2> QED BY <1>4, <1>6, <1>7, <1>8, <2>7, <1>1 DEF ToCome, Sends
<1> QED BY <1>6, <1>7, <1>8, <1>9 DEF Sends

LEMMA ToComeMore ==
  ASSUME NEW req \in Requests, NEW tc, IsText(tc), NEW cl, ToCome(tc, cl, ReplyOf(req)), NEW e
  PROVE  ToCome(Append(tc, e), cl, ReplyOf(req))
<1> DEFINE text == ReplyOf(req)
<1>1. IsText(text) /\ Number(text) \in Nat
  BY ReplyOfIs
<1>2. ToCome(tc, cl, text)
  OBVIOUS
<1> HIDE DEF text
<1>3. PICK m \in 0 .. Number(text) - 1 : Whole(tc, text, m) /\ At(cl.preader, text, m)
  BY <1>2 DEF ToCome
<1>4. Whole(Append(tc, e), text, m)
  <2>1. m \in Nat
    BY <1>1
  <2> QED BY <1>1, <1>3, <2>1, WholeMore
<1>5. ToCome(Append(tc, e), cl, text)
  BY <1>3, <1>4 DEF ToCome
<1> QED BY <1>5 DEF text

InCall(req, s, ts, tc, cl, runs, n, r) ==
  /\ req \in Requests /\ ~ Large(req) /\ Served(s, ts, tc, TRUE, r)
  /\ Exchange(req, s, ts, tc, TRUE, FALSE, cl, runs) /\ Sound(req, s, ts, tc, cl, n)

LEMMA ServerSound ==
  ASSUME NEW req, NEW s, NEW ts, NEW tc, NEW cl, NEW runs, NEW n, NEW r,
         InCall(req, s, ts, tc, cl, runs, n, r)
  PROVE  /\ r.what \in {"again", "accept_succeed", "recv_succeed", "send_succeed", "terminate"}
         /\ r.conn.ssl.buf \in {0, 1}
         /\ r.what = "again" => r.conn.state = s.ssl.state /\ Buffers(r.conn, 1)
         /\ s.ssl.state \in {"WRITING", "SHUTDOWN"} => r.in = <<>>
         /\ r.what \in {"send_succeed", "terminate"} \/ s.ssl.state = "SHUTDOWN" =>
              ToCome(r.out, cl, ReplyOf(req))
         /\ r.what = "recv_succeed" => s.ssl.state = "READING"
         /\ r.what \in {"send_succeed", "terminate"} => s.ssl.state \in {"WRITING", "SHUTDOWN"}
<1> DEFINE c == s.ssl
<1>1. /\ req \in Requests /\ ~ Large(req) /\ Sound(req, s, ts, tc, cl, n)
      /\ \E peer, act, gone \in BOOLEAN :
           /\ There(peer) /\ There(act) /\ Served(s, ts, tc, peer, r)
           /\ Exchange(req, s, ts, tc, act, gone, cl, runs)
  BY DEF InCall, There
<1>2. PICK peer, act, gone \in BOOLEAN :
        /\ There(peer) /\ There(act) /\ Served(s, ts, tc, peer, r)
        /\ Exchange(req, s, ts, tc, act, gone, cl, runs)
  BY <1>1
<1>3. /\ IsConnection(c) /\ IsEnd(c.ssl, ts, tc, peer) /\ r \in switch_state(c, ts, tc, peer)
      /\ IsText(ts) /\ IsText(tc) /\ ~ c.ssl.sent_shutdown /\ Heard(c)
      /\ c.state \in {"ACCEPTING", "READING", "WRITING", "SHUTDOWN"} /\ Buffers(c, 1)
  BY <1>1, <1>2 DEF Served, IsServer, IsEnd, Pipe, Clean, Broken, Sound
<1>4. ~ HasReset(ts)
  BY <1>3, <1>2 DEF IsEnd, Clean, There
<1>5. /\ c.state = "READING" => Receiving(PacketOf(req), s, ts, tc, act, cl)
      /\ c.state = "WRITING" => Replying(req, s, tc, act, cl, runs) /\ ts = <<>>
      /\ c.state = "SHUTDOWN" => ToCome(tc, cl, ReplyOf(req)) /\ ts = <<>>
  BY <1>1, <1>2, Stages DEF Served, Exchange, Sound
<1>6. c.state = "WRITING" =>
        \E text \in Replies(req, runs) : \E m, k \in 0 .. Number(text) - 1 :
          Writes(c, text, k) /\ Full(tc, text, m, k) /\ At(cl.preader, text, m)
  BY <1>5, <1>2 DEF Replying, There
<1> HIDE DEF c
<1>7. PICK o \in Call(c, End(c.ssl, ts, tc, peer)) :
        /\ Switched(r, c, o)
        /\ r.what = "again" => o.what \in {"need_read", "need_write", "connection_close"}
        /\ r.what \in {"network_error", "exception"} => o.what = r.what
        /\ r.what \in {"accept_succeed", "connect_succeed", "recv_succeed", "send_succeed",
                       "terminate"} => o.what = "ok" /\ r.what = Success(c.state)
        /\ r.what \in {"again", "network_error", "exception", "terminate", "accept_succeed",
                       "connect_succeed", "recv_succeed", "send_succeed"}
  BY <1>3, Told
<1>8. /\ r.in = o.end.in /\ r.out = o.end.out /\ r.conn.ssl = o.end.ssl /\ r.conn.buf = c.buf
      /\ o.what = "ok" => r.what = Success(c.state)
      /\ o.what \in {"need_read", "need_write"} => r.what = "again" /\ r.conn.state = c.state
  BY <1>7 DEF Switched
<1>9. o.end.ssl.buf \in {0, 1}
  BY <1>3, CallKeeps
<1>10. CASE c.state = "ACCEPTING"
  <2> DEFINE ssl == c.ssl
  <2>1. o \in Handshake(End(ssl, ts, tc, peer)) /\ IsEnd(ssl, ts, tc, peer)
    BY <1>3, <1>10 DEF Call
  <2> HIDE DEF ssl
  <2>2. peer => o.what \in {"ok", "need_read", "need_write"}
    BY <2>1, ShakeKeeps
  <2>3. o.what \in {"ok", "need_read", "need_write"}
    BY <1>2, <2>2 DEF There
  <2> QED BY <1>3, <1>7, <1>8, <1>9, <1>10, <2>3, Successes DEF Buffers, c
<1>11. CASE c.state = "READING"
  <2> DEFINE ssl == c.ssl
  <2>1. o \in SSL_read(End(ssl, ts, tc, peer)) /\ IsEnd(ssl, ts, tc, peer)
        /\ ~ ssl.received_shutdown
    BY <1>3, <1>11 DEF Call, Heard
  <2> HIDE DEF ssl
  <2>2. o.what \in {"ok", "need_read", "connection_close", "network_error"}
    BY <2>1, Reading
  <2>3. /\ o.what = "connection_close" => ts # <<>> /\ Head(ts) = close_notify
        /\ o.what # "network_error"
    <3>1. /\ o.what = "connection_close" =>
               \/ ts = <<>> /\ ~ peer
               \/ ts # <<>> /\ Head(ts) = close_notify
          /\ o.what = "network_error" => ~ peer
      BY <2>1, ReadOutcome
    <3> QED BY <1>2, <3>1 DEF There
  <2>4. o.what # "connection_close"
    <3> SUFFICES ASSUME ts # <<>>, Head(ts) = close_notify PROVE FALSE
      BY <2>3
    <3> DEFINE text == PacketOf(req)
    <3>1. IsText(text)
      BY <1>1, PacketIsText
    <3> HIDE DEF text
    <3>2. PICK m \in 0 .. Number(text) - 1 : \E k : Full(ts, text, m, k)
      BY <1>5, <1>11, <1>2 DEF Receiving, There, text
    <3>3. Head(ts) = ts[1] /\ 1 \in DOMAIN ts
      BY <1>3, TailIs
    <3>4. m \in Nat
      BY <3>1, RecordsOf
    <3> QED BY <1>3, <3>1, <3>2, <3>3, <3>4, FullRemains
  <2>5. o.what \in {"ok", "need_read"}
    BY <2>2, <2>3, <2>4
  <2> QED BY <1>3, <1>7, <1>8, <1>9, <1>11, <2>5, Successes DEF Buffers, c
<1>12. CASE c.state = "WRITING"
  <2>1. PICK text \in Replies(req, runs) : \E m, k \in 0 .. Number(text) - 1 :
          Writes(c, text, k) /\ Full(tc, text, m, k) /\ At(cl.preader, text, m)
    BY <1>6, <1>12
  <2>2. PICK m, k \in 0 .. Number(text) - 1 :
          Writes(c, text, k) /\ Full(tc, text, m, k) /\ At(cl.preader, text, m)
    BY <2>1
  <2>3. o \in SSL_write(End(c.ssl, ts, tc, peer), c.send_buf, c.buf)
    BY <1>12 DEF Call
  <2>4. /\ o.what \in {"ok", "need_write"} /\ o.end.in = ts
        /\ o.what = "ok" => ToCome(o.end.out, cl, ReplyOf(req))
    <3>1. Answering(req, c, ts, tc, peer, cl, runs, text, m, k)
      BY <1>3, <2>1, <2>2 DEF Answering
    <3>2. There(peer) /\ peer \in BOOLEAN /\ req \in Requests /\ ~ Large(req)
      BY <1>1, <1>2
    <3> QED BY <2>3, <3>1, <3>2, ServerSends
  <2> QED BY <1>3, <1>5, <1>7, <1>8, <1>9, <1>12, <2>4, Successes DEF Buffers, c
<1>13. CASE c.state = "SHUTDOWN"
  <2>1. o \in shutdown(c, End(c.ssl, ts, tc, peer)) /\ IsSsl(c.ssl)
    BY <1>3, <1>13 DEF Call, IsConnection
  <2>2. o.end.in = ts /\ o.what \in {"ok", "need_write"}
    BY <1>4, <2>1, AlertKeeps
  <2>3. o.end.out \in {tc, Append(tc, close_notify)}
    BY <2>1, AlertOutcome
  <2>4. ToCome(o.end.out, cl, ReplyOf(req))
    BY <1>3, <1>5, <1>13, <1>1, <2>3, ToComeMore
  <2> QED BY <1>3, <1>5, <1>7, <1>8, <1>9, <1>13, <2>2, <2>4, Successes DEF Buffers, c
<1> QED BY <1>3, <1>10, <1>11, <1>12, <1>13

-----------------------------------------------------------------------------
(* A step of the server leaves the call unharmed. *)

LEMMA SoundServed ==
  ASSUME IInv, Unharmed, Caused, NEW c \in Conns, NEW new, NEW ts, NEW tc, UNCHANGED clientVars,
         server' = [server EXCEPT ![c] = new],
         to_server' = [to_server EXCEPT ![c] = ts], to_client' = [to_client EXCEPT ![c] = tc],
         c = conn /\ ~ Large(opts.requests[c]) => Sound(opts.requests[c], new, ts, tc, client, c)
  PROVE  Unharmed' /\ Caused'
<1>1. opts' = opts /\ conn' = conn /\ client' = client /\ results' = results
  BY DEF clientVars
<1>2. /\ IsText(server) /\ IsText(to_server) /\ IsText(to_client)
      /\ DOMAIN server = 1 .. Len(server) /\ Len(server) \in Nat
      /\ DOMAIN to_server = DOMAIN server /\ DOMAIN to_client = DOMAIN server
      /\ conn \in 0 .. Len(server)
  BY TextIs DEF IInv, Objects, Sockets
<1>3. server'[c] = new /\ \A d \in DOMAIN server : d # c => server'[d] = server[d]
  BY <1>2, TextReplaced DEF Conns
<1>4. to_server'[c] = ts /\ \A d \in DOMAIN server : d # c => to_server'[d] = to_server[d]
  <2>1. c \in DOMAIN to_server
    BY <1>2 DEF Conns
  <2> QED BY <1>2, <2>1, TextReplaced
<1>5. to_client'[c] = tc /\ \A d \in DOMAIN server : d # c => to_client'[d] = to_client[d]
  <2>1. c \in DOMAIN to_client
    BY <1>2 DEF Conns
  <2> QED BY <1>2, <2>1, TextReplaced
<1>6. Unharmed'
  <2> SUFFICES ASSUME conn # 0, ~ Large(opts.requests[conn])
               PROVE  Sound(opts.requests[conn], server'[conn], to_server'[conn], to_client'[conn],
                            client, conn)
    BY <1>1 DEF Unharmed
  <2>1. CASE conn = c
    BY <1>3, <1>4, <1>5, <2>1
  <2>2. CASE conn # c
    <3>1. conn \in DOMAIN server
      BY <1>2
    <3>2. Sound(opts.requests[conn], server[conn], to_server[conn], to_client[conn], client, conn)
      BY DEF Unharmed
    <3> QED BY <1>3, <1>4, <1>5, <2>2, <3>1, <3>2
  <2> QED BY <2>1, <2>2
<1>7. Caused'
  BY <1>1 DEF Caused, Blamed
<1> QED BY <1>6, <1>7

(* What the handler leaves of a call that is unharmed. *)
Held(c, r, new, ts, tc) ==
  InCall(opts.requests[c], server[c], to_server[c], to_client[c], client, executed, c, r) =>
    Sound(opts.requests[c], new, ts, tc, client, c)

LEMMA SoundStep ==
  ASSUME IInv, Owned, Unharmed, Caused, NEW c \in Conns, NEW r \in ServerSteps(c),
         NEW new, NEW ts, NEW tc, Held(c, r, new, ts, tc), UNCHANGED clientVars,
         server' = [server EXCEPT ![c] = new],
         to_server' = [to_server EXCEPT ![c] = ts], to_client' = [to_client EXCEPT ![c] = tc]
  PROVE  Unharmed' /\ Caused'
<1>1. ASSUME c = conn, ~ Large(opts.requests[c])
      PROVE  Sound(opts.requests[c], new, ts, tc, client, c)
  <2>1. conn # 0 /\ Len(server) \in Nat
    BY <1>1, TextIs DEF IInv, Objects, Conns
  <2>2. Sound(opts.requests[c], server[c], to_server[c], to_client[c], client, c)
    BY <1>1, <2>1 DEF Unharmed
  <2>3. Working(client)
    BY <2>2 DEF Sound
  <2>4. c \notin left
    BY <1>1, <2>1, <2>3 DEF Working, IInv, Sockets
  <2>5. PICK act, gone, peer \in BOOLEAN : act = TRUE /\ gone = FALSE /\ peer = TRUE
    OBVIOUS
  <2>6. (act <=> c = conn /\ Working(client)) /\ (gone <=> c \in left) /\ (gone <=> ~ peer)
    BY <1>1, <2>3, <2>4, <2>5
  <2>7. /\ opts.requests[c] \in Requests
        /\ Served(server[c], to_server[c], to_client[c], peer, r)
        /\ Exchange(opts.requests[c], server[c], to_server[c], to_client[c], act, gone, client,
                    executed)
    BY <2>6, ServerServes DEF Owned
  <2>8. InCall(opts.requests[c], server[c], to_server[c], to_client[c], client, executed, c, r)
    BY <1>1, <2>2, <2>5, <2>7 DEF InCall
  <2> QED BY <2>8 DEF Held
<1> QED BY <1>1, SoundServed

(* Which it is when the server's end is. *)
LEMMA SoundWith ==
  ASSUME NEW req, NEW s, NEW ts, NEW tc, NEW cl, NEW n, Sound(req, s, ts, tc, cl, n),
         NEW new, Buffers(new.ssl, 1), NEW to_s, NEW to_c,
         Stage(new) \in {"executes", "writes", "ended"} => cl.ssl.state = "READING" /\ to_s = <<>>,
         Stage(new) = "ended" => ToCome(to_c, cl, ReplyOf(req))
  PROVE  Sound(req, new, to_s, to_c, cl, n)
  BY DEF Sound

(* A response is to be written. *)
LEMMA BufferIs ==
  ASSUME NEW c, IsConnection(c), NEW text, NEW buf
  PROVE  LET new == reg_send(c, text, buf)
         IN  new.buf = buf /\ new.mask = c.mask \cup {"OUTPUT"}
<1>1. c \in [state : States, mask : SUBSET {"INPUT", "OUTPUT"}, ssl : {c.ssl},
             send_buf : {c.send_buf}, buf : {c.buf}]
  BY DEF IsConnection
<1> QED BY <1>1 DEF reg_send, register_handler

LEMMA SoundAcceptSucceed ==
  ASSUME IInv, Owned, Unharmed, Caused, NEW c \in Conns, accept_succeed(c)
  PROVE  Unharmed' /\ Caused'
<1>1. PICK r \in ServerSteps(c) :
        r.what = "accept_succeed" /\ Serve(c, [ServerNow(c, r) EXCEPT !.ssl = reg_recv(@)], r)
  BY DEF accept_succeed
<1> DEFINE old == server[c]
           now == ServerNow(c, r)
           ssl == reg_recv(r.conn)
           new == [now EXCEPT !.ssl = ssl]
<1>2. /\ Fields(now) /\ now.ssl = r.conn /\ now.preader = old.preader /\ now.open = old.open
      /\ now.keep_alive = old.keep_alive /\ now.executing = old.executing
  BY AfterHandler
<1>3. Serve(c, new, r)
  BY <1>1, <1>2
<1> HIDE DEF now, ssl
<1>4. new.ssl = ssl /\ new.open = old.open /\ new.executing = old.executing
  <2> HIDE DEF old
  <2> QED BY <1>2, SslField
<1> HIDE DEF new
<1>5. Held(c, r, new, r.in, r.out)
  <2> DEFINE req == opts.requests[c]
             ts == to_server[c]
             tc == to_client[c]
  <2> SUFFICES ASSUME InCall(req, old, ts, tc, client, executed, c, r)
               PROVE  Sound(req, new, r.in, r.out, client, c)
    BY DEF Held
  <2> HIDE DEF req, ts, tc, old
  <2>1. IsConnection(r.conn)
    BY StateTold DEF InCall
  <2>2. ssl.ssl = r.conn.ssl /\ ssl.state = "READING"
    BY <2>1, Received DEF ssl
  <2>3. Stage(new) = "reads"
    BY <1>4, <2>2, Stages DEF Served, InCall
  <2>4. r.conn.ssl.buf \in {0, 1}
    BY ServerSound
  <2>5. Buffers(new.ssl, 1)
    BY <1>4, <2>2, <2>4 DEF Buffers
  <2> QED BY <2>3, <2>5, SoundWith DEF InCall
<1>6. UNCHANGED clientVars
  BY DEF accept_succeed, ServerOthers
<1> DEFINE in == r.in
           out == r.out
<1>7. /\ server' = [server EXCEPT ![c] = new] /\ to_server' = [to_server EXCEPT ![c] = in]
      /\ to_client' = [to_client EXCEPT ![c] = out] /\ Held(c, r, new, in, out)
  BY <1>3, <1>5 DEF Serve
<1> HIDE DEF in, out
<1> QED BY <1>6, <1>7, SoundStep

LEMMA SoundServerWaits ==
  ASSUME IInv, Owned, Unharmed, Caused, NEW c \in Conns, server_waits(c)
  PROVE  Unharmed' /\ Caused'
<1>1. PICK r \in ServerSteps(c) : r.what = "again" /\ Serve(c, ServerNow(c, r), r)
  BY DEF server_waits
<1> DEFINE old == server[c]
           new == ServerNow(c, r)
           in == r.in
           out == r.out
<1>2. new.ssl = r.conn /\ new.open = old.open /\ new.executing = old.executing
  BY AfterHandler
<1> HIDE DEF new
<1>3. Held(c, r, new, in, out)
  <2> DEFINE req == opts.requests[c]
             ts == to_server[c]
             tc == to_client[c]
  <2> SUFFICES ASSUME InCall(req, old, ts, tc, client, executed, c, r)
               PROVE  Sound(req, new, in, out, client, c)
    BY DEF Held
  <2> HIDE DEF req, ts, tc, old
  <2>1. /\ r.conn.state = old.ssl.state /\ Buffers(r.conn, 1)
        /\ old.ssl.state \in {"WRITING", "SHUTDOWN"} => in = <<>>
        /\ old.ssl.state = "SHUTDOWN" => ToCome(out, client, ReplyOf(req))
    BY <1>1, ServerSound
  <2>2. /\ old.open /\ old.executing = {} /\ Sound(req, old, ts, tc, client, c)
        /\ old.ssl.state \in {"ACCEPTING", "READING", "WRITING", "SHUTDOWN"}
    BY DEF InCall, Served
  <2>3. /\ Stage(new) = Stage(old)
        /\ Stage(old) \in {"executes", "writes", "ended"} => old.ssl.state \in {"WRITING", "SHUTDOWN"}
        /\ Stage(old) = "ended" => old.ssl.state = "SHUTDOWN"
    BY <1>2, <2>1, <2>2 DEF Stage
  <2>4. Stage(new) \in {"executes", "writes", "ended"} => client.ssl.state = "READING" /\ in = <<>>
    BY <2>1, <2>2, <2>3 DEF Sound
  <2> QED BY <1>2, <2>1, <2>2, <2>3, <2>4, SoundWith
<1>4. UNCHANGED clientVars
  BY DEF server_waits, ServerOthers
<1>5. /\ server' = [server EXCEPT ![c] = new] /\ to_server' = [to_server EXCEPT ![c] = in]
      /\ to_client' = [to_client EXCEPT ![c] = out]
  BY <1>1 DEF Serve, new
<1> HIDE DEF in, out
<1> QED BY <1>3, <1>4, <1>5, SoundStep

(* The reply has been sent, and is all that is under way. *)
LEMMA SoundEnds ==
  ASSUME NEW req, NEW s, NEW ts, NEW tc, NEW cl, NEW runs, NEW n, NEW r,
         InCall(req, s, ts, tc, cl, runs, n, r),
         r.what \in {"send_succeed", "terminate", "network_error", "exception"},
         NEW new, Stage(new) = "ended", Buffers(new.ssl, 1)
  PROVE  Sound(req, new, <<>>, r.out, cl, n) /\ r.in = <<>>
<1>1. /\ r.what \in {"send_succeed", "terminate"} /\ r.in = <<>>
      /\ ToCome(r.out, cl, ReplyOf(req)) /\ s.ssl.state \in {"WRITING", "SHUTDOWN"}
  BY ServerSound
<1>2. Sound(req, s, ts, tc, cl, n) /\ s.open /\ s.executing = {}
  BY DEF InCall, Served
<1>3. cl.ssl.state = "READING"
  BY <1>1, <1>2, Stages DEF Sound
<1> DEFINE none == <<>>
           out == r.out
<1>4. none = <<>> /\ ToCome(out, cl, ReplyOf(req))
  BY <1>1
<1> HIDE DEF none, out
<1>5. Sound(req, new, none, out, cl, n)
  BY <1>2, <1>3, <1>4, SoundWith
<1> QED BY <1>1, <1>5 DEF none, out

LEMMA SoundDeletes ==
  ASSUME IInv, Owned, Unharmed, Caused, NEW c \in Conns, NEW r \in ServerSteps(c),
         r.what \in {"send_succeed", "terminate", "network_error", "exception"},
         Delete(c, r), UNCHANGED clientVars
  PROVE  Unharmed' /\ Caused'
<1> DEFINE old == server[c]
           new == [Accepted EXCEPT !.open = FALSE, !.ssl = Reaction_connection("server")]
           in == <<>>
<1>1. PICK out \in Resets(r.in, r.out) : to_client' = [to_client EXCEPT ![c] = out]
  BY DEF Delete
<1>2. /\ ~ new.open
      /\ new.ssl.ssl.buf = 0 /\ new.ssl.state = "EMPTY"
  BY DEF Accepted, Reaction_connection, SSL_new
<1>3. server' = [server EXCEPT ![c] = new] /\ to_server' = [to_server EXCEPT ![c] = in]
  BY DEF Delete
<1> HIDE DEF new
<1>4. Stage(new) = "ended" /\ Buffers(new.ssl, 1)
  BY <1>2, Stages DEF Buffers
<1>5. Held(c, r, new, in, out)
  <2> DEFINE req == opts.requests[c]
             ts == to_server[c]
             tc == to_client[c]
  <2> SUFFICES ASSUME InCall(req, old, ts, tc, client, executed, c, r)
               PROVE  Sound(req, new, in, out, client, c)
    BY DEF Held
  <2> HIDE DEF req, ts, tc, old
  <2>1. Sound(req, new, in, r.out, client, c) /\ r.in = <<>>
    BY <1>4, SoundEnds
  <2>2. out = r.out
    BY <1>1, <2>1 DEF Resets
  <2> QED BY <2>1, <2>2
<1> HIDE DEF in
<1> QED BY <1>1, <1>3, <1>5, SoundStep

LEMMA SoundServerTerminates ==
  ASSUME IInv, Owned, Unharmed, Caused, NEW c \in Conns, server_terminates(c)
  PROVE  Unharmed' /\ Caused'
<1>1. PICK r \in ServerSteps(c) :
        r.what \in {"terminate", "network_error", "exception"} /\ Delete(c, r)
  BY DEF server_terminates
<1>2. UNCHANGED clientVars
  BY DEF server_terminates, ServerOthers
<1> QED BY <1>1, <1>2, SoundDeletes

LEMMA SoundSendSucceed ==
  ASSUME IInv, Owned, Unharmed, Caused, NEW c \in Conns, send_succeed(c)
  PROVE  Unharmed' /\ Caused'
<1>1. PICK r \in ServerSteps(c) :
        LET s == ServerNow(c, r)
        IN  /\ r.what = "send_succeed"
            /\ IF s.keep_alive THEN Serve(c, [s EXCEPT !.ssl = reg_recv(@)], r)
               ELSE IF shutdown_performed(s.ssl) THEN Delete(c, r)
               ELSE Serve(c, [s EXCEPT !.ssl = reg_shutdown(@)], r)
  BY DEF send_succeed
<1>2. UNCHANGED clientVars
  BY DEF send_succeed, ServerOthers
<1> DEFINE old == server[c]
           now == ServerNow(c, r)
           ssl == reg_shutdown(r.conn)
           new == [now EXCEPT !.ssl = ssl]
           in == r.in
           out == r.out
<1>3. /\ Fields(now) /\ now.ssl = r.conn /\ now.preader = old.preader /\ now.open = old.open
      /\ now.keep_alive = old.keep_alive /\ now.executing = old.executing
  BY AfterHandler
<1>4. old.keep_alive = FALSE
  BY NotKept DEF Owned
<1>5. r.what = "send_succeed" /\ (Delete(c, r) \/ Serve(c, new, r))
  BY <1>1, <1>3, <1>4
<1>6. CASE Delete(c, r)
  BY <1>2, <1>5, <1>6, SoundDeletes
<1>7. CASE Serve(c, new, r)
  <2> HIDE DEF now
  <2>1. IsConnection(r.conn) /\ ~ r.conn.ssl.sent_shutdown
    BY <1>5, ServerSwitching
  <2>2. ssl.state = "SHUTDOWN" /\ ssl.ssl = r.conn.ssl
    BY <2>1, Alerted
  <2> HIDE DEF ssl
  <2>3. new.ssl = ssl /\ new.open = old.open /\ new.executing = old.executing
    <3> HIDE DEF old
    <3> QED BY <1>3, SslField
  <2> HIDE DEF new
  <2>4. Held(c, r, new, in, out)
    <3> DEFINE req == opts.requests[c]
               ts == to_server[c]
               tc == to_client[c]
    <3> SUFFICES ASSUME InCall(req, old, ts, tc, client, executed, c, r)
                 PROVE  Sound(req, new, in, out, client, c)
      BY DEF Held
    <3> HIDE DEF req, ts, tc, old
    <3>1. r.conn.ssl.buf \in {0, 1}
      BY ServerSound
    <3>2. Stage(new) = "ended"
      BY <2>2, <2>3, Stages DEF InCall, Served
    <3>3. Buffers(new.ssl, 1)
      BY <2>2, <2>3, <3>1 DEF Buffers
    <3>4. Sound(req, new, <<>>, out, client, c) /\ in = <<>>
      BY <1>5, <3>2, <3>3, SoundEnds
    <3> QED BY <3>4
  <2>5. /\ server' = [server EXCEPT ![c] = new] /\ to_server' = [to_server EXCEPT ![c] = in]
        /\ to_client' = [to_client EXCEPT ![c] = out]
    BY <1>7 DEF Serve
  <2> HIDE DEF in, out
  <2> QED BY <1>2, <2>4, <2>5, SoundStep
<1> QED BY <1>5, <1>6, <1>7

LEMMA SoundProcess ==
  ASSUME IInv, Owned, Unharmed, Caused, NEW c \in Conns, process_actual_execution(c)
  PROVE  Unharmed' /\ Caused'
<1> DEFINE old == server[c]
           none == {}
           idle == [old EXCEPT !.executing = none]
           ts == to_server[c]
           tc == to_client[c]
           req == opts.requests[c]
<1>1. PICK ran \in old.executing :
        server' = [server EXCEPT ![c] = schedule_response(idle, 200, ResponseContent(Run(ran)))]
  BY DEF process_actual_execution
<1>2. UNCHANGED clientVars /\ UNCHANGED <<to_server, to_client>>
  BY DEF process_actual_execution, ServerOthers
<1>3. IsServer(old) /\ Attended(old) /\ Fields(old)
  BY FieldsOf DEF IInv, Objects
<1>4. old.open = TRUE /\ old.executing # {}
  BY <1>1, <1>3 DEF Attended, IsServer
<1>5. Stage(old) = "executes"
  BY <1>4, Stages
<1> DEFINE code == 200
           content == ResponseContent(Run(ran))
           new == schedule_response(idle, code, content)
<1>6. server' = [server EXCEPT ![c] = new]
  BY <1>1
<1>7. to_server' = [to_server EXCEPT ![c] = ts] /\ to_client' = [to_client EXCEPT ![c] = tc]
  <2>1. IsText(to_server) /\ IsText(to_client)
    BY DEF IInv, Objects
  <2>2. to_server = [to_server EXCEPT ![c] = to_server[c]]
    BY <2>1, TextIs
  <2>3. to_client = [to_client EXCEPT ![c] = to_client[c]]
    BY <2>1, TextIs
  <2> QED BY <1>2, <2>2, <2>3
<1>8. /\ Fields(idle) /\ idle.ssl = old.ssl /\ idle.open = old.open /\ idle.executing = none
  <2> HIDE DEF old, none
  <2> QED BY <1>3, ExecutingField
<1>9. IsConnection(idle.ssl)
  BY <1>3, <1>8 DEF IsServer
<1> HIDE DEF idle, code, content
<1>10. /\ new.ssl.state = "WRITING" /\ new.ssl.ssl = old.ssl.ssl /\ new.ssl.buf = 1
       /\ new.open = old.open /\ new.executing = {}
  <2>1. /\ new.ssl.state = "WRITING" /\ new.ssl.ssl = idle.ssl.ssl
        /\ new.open = idle.open /\ new.executing = idle.executing
    BY <1>8, <1>9, Scheduled
  <2> DEFINE text == dump(code, set_conn_keep_alive(Header, idle.keep_alive), content)
             c0 == idle.ssl
             buf == 1
             ssl == reg_send(c0, text, buf)
             res == [idle EXCEPT !.ssl = ssl]
  <2>2. new = res
    BY DEF schedule_response
  <2>3. IsConnection(c0)
    BY <1>9
  <2> HIDE DEF new, text, c0, buf
  <2>4. ssl.buf = buf
    BY <2>3, BufferIs
  <2> HIDE DEF ssl
  <2>5. res.ssl = ssl
    BY <1>8, SslField
  <2> QED BY <1>8, <2>1, <2>2, <2>4, <2>5 DEF buf
<1> HIDE DEF new
<1>11. Stage(new) = "writes"
  BY <1>4, <1>10, Stages
<1>12. ASSUME c = conn, ~ Large(req)
       PROVE  Sound(req, new, ts, tc, client, c)
  <2>1. conn # 0
    BY <1>12, TextIs DEF IInv, Objects, Conns
  <2>2. Sound(req, old, ts, tc, client, c)
    BY <1>12, <2>1 DEF Unharmed
  <2>3. client.ssl.state = "READING" /\ ts = <<>> /\ old.ssl.ssl.buf \in {0, 1}
    BY <1>5, <2>2 DEF Sound, Buffers
  <2>4. Buffers(new.ssl, 1)
    BY <1>10, <2>3 DEF Buffers
  <2> HIDE DEF req, old, ts, tc
  <2> QED BY <1>11, <2>2, <2>3, <2>4, SoundWith
<1> HIDE DEF ts, tc
<1> QED BY <1>2, <1>6, <1>7, <1>12, SoundServed

(* What the server makes of a record of a request that is not too large.   *)
Taken(req, read, in, cl) ==
  \/ read.outcome.is = "incomplete"
  \/ /\ read.outcome = Packet(PacketOf(req)[1], RequestContent(req))
     /\ in = <<>> /\ cl.ssl.state = "READING"

LEMMA RequestTaken ==
  ASSUME NEW req, NEW s, NEW ts, NEW tc, NEW cl, NEW runs, NEW n, NEW r,
         InCall(req, s, ts, tc, cl, runs, n, r), r.what = "recv_succeed",
         NEW read, read = read_packet(s.preader, r.text, max_request_sz, HTTP_CHECK_WEAK)
  PROVE  Taken(req, read, r.in, cl)
<1> DEFINE content == RequestContent(req)
           text == PacketOf(req)
<1>1. /\ req \in Requests /\ ~ Large(req)
      /\ \E peer, act, gone \in BOOLEAN :
           /\ There(peer) /\ There(act) /\ Served(s, ts, tc, peer, r)
           /\ Exchange(req, s, ts, tc, act, gone, cl, runs)
  BY DEF InCall, There
<1>2. PICK peer, act, gone \in BOOLEAN :
        /\ There(peer) /\ There(act) /\ Served(s, ts, tc, peer, r)
        /\ Exchange(req, s, ts, tc, act, gone, cl, runs)
  BY <1>1
<1>3. gone <=> ~ peer
  BY <1>2 DEF There, Exchange
<1>4. s.ssl.state = "READING"
  BY <1>2, StateTold
<1>5. HasRead(req, s, r, tc, act, cl)
  BY <1>1, <1>2, <1>3, <1>4, ReadsOn
<1>6. PICK m \in 0 .. Number(text) - 1 :
        /\ At(s.preader, text, m) /\ r.text = Records(text)[m + 1].text
        /\ act => \E k \in m + 1 .. Number(text) :
                    Full(r.in, text, m + 1, k) /\ Asking(cl, text, k, tc)
  BY <1>5 DEF HasRead
<1>7. PICK k \in m + 1 .. Number(text) : Full(r.in, text, m + 1, k) /\ Asking(cl, text, k, tc)
  BY <1>2, <1>6 DEF There
<1>8. IsText(content) /\ text = dump(0, Closes, content) /\ Number(text) \in Nat
  BY <1>1, PacketIsText, RecordsOf DEF PacketOf
<1>9. \/ read.outcome.is = "incomplete"
      \/ read.outcome = Packet(text[1], content) /\ m + 1 = Number(text)
  <2> DEFINE p == dump(0, Closes, content)
             word == read_packet(s.preader, Records(p)[m + 1].text, max_request_sz, HTTP_CHECK_WEAK)
  <2>1. At(s.preader, p, m) /\ p = text
    BY <1>6, <1>8
  <2>2. max_request_sz \in Nat /\ HTTP_CHECK_WEAK \in Levels
    BY SecureCallAssumption DEF Levels
  <2>3. ~ TooLarge(content, max_request_sz)
    BY <1>1 DEF TooLarge, Large
  <2>4. word = read
    BY <1>6, <2>1
  <2> HIDE DEF content, text
  <2>5. \/ word.outcome = Error(413) /\ TooLarge(content, max_request_sz)
        \/ word.outcome.is = "incomplete" /\ At(word.reader, p, m + 1)
        \/ word.outcome = Packet(p[1], content) /\ m + 1 = Number(p)
    BY <1>8, <2>1, <2>2, RecordRead
  <2> QED BY <2>1, <2>3, <2>4, <2>5
<1>10. IsText(r.in)
  <2> DEFINE c == s.ssl
  <2>1. IsConnection(c) /\ IsEnd(c.ssl, ts, tc, peer) /\ r \in switch_state(c, ts, tc, peer)
    BY <1>2 DEF Served, IsServer
  <2> HIDE DEF c
  <2>2. PICK o \in Call(c, End(c.ssl, ts, tc, peer)) : Switched(r, c, o)
    BY <2>1, Switching
  <2>3. Left(o, c.ssl, ts, tc, peer)
    BY <2>1, Calling
  <2> QED BY <2>2, <2>3 DEF Switched, Left, Pipe, Clean, Broken
<1>11. ASSUME m + 1 = Number(text) PROVE r.in = <<>> /\ cl.ssl.state = "READING"
  <2> HIDE DEF text
  <2>1. m \in Nat /\ k = Number(text) /\ k # 0 /\ k \notin 0 .. Number(text) - 1
    BY <1>7, <1>8, <1>11
  <2>2. Len(r.in) = 0
    BY <1>7, <1>8, <1>11, <2>1 DEF Full
  <2>3. r.in = <<>>
    BY <1>10, <2>2, TextIs
  <2> QED BY <1>7, <2>1, <2>3 DEF Asking, Writes
<1> QED BY <1>9, <1>11 DEF Taken

LEMMA SoundRecvSucceed ==
  ASSUME IInv, Owned, Unharmed, Caused, NEW c \in Conns, recv_succeed(c)
  PROVE  Unharmed' /\ Caused'
<1>1. PICK r \in ServerSteps(c) : \E read :
       LET s == [ServerNow(c, r) EXCEPT !.preader = read.reader]
           packet == read.outcome
       IN  /\ read = read_packet(server[c].preader, r.text, max_request_sz, HTTP_CHECK_WEAK)
           /\ r.what = "recv_succeed"
           /\ Serve(c, CASE packet.is = "packet" ->
                              schedule_execute(
                                [s EXCEPT !.keep_alive = conn_keep_alive(packet.header.options)],
                                packet.content)
                         [] packet.is = "error" ->
                              schedule_response([s EXCEPT !.keep_alive = FALSE], packet.code, <<>>)
                         [] OTHER -> [s EXCEPT !.ssl = reg_recv(@)], r)
  BY DEF recv_succeed
<1>2. PICK read :
       LET s == [ServerNow(c, r) EXCEPT !.preader = read.reader]
           packet == read.outcome
       IN  /\ read = read_packet(server[c].preader, r.text, max_request_sz, HTTP_CHECK_WEAK)
           /\ r.what = "recv_succeed"
           /\ Serve(c, CASE packet.is = "packet" ->
                              schedule_execute(
                                [s EXCEPT !.keep_alive = conn_keep_alive(packet.header.options)],
                                packet.content)
                         [] packet.is = "error" ->
                              schedule_response([s EXCEPT !.keep_alive = FALSE], packet.code, <<>>)
                         [] OTHER -> [s EXCEPT !.ssl = reg_recv(@)], r)
  BY <1>1
<1> DEFINE old == server[c]
           now == ServerNow(c, r)
           p == read.reader
           packet == read.outcome
           kept == conn_keep_alive(packet.header.options)
           s == [now EXCEPT !.preader = p]
           new == CASE packet.is = "packet" ->
                         schedule_execute([s EXCEPT !.keep_alive = kept], packet.content)
                    [] packet.is = "error" ->
                         schedule_response([s EXCEPT !.keep_alive = FALSE], packet.code, <<>>)
                    [] OTHER -> [s EXCEPT !.ssl = reg_recv(@)]
           in == r.in
           out == r.out
<1>3. r.what = "recv_succeed" /\ Serve(c, new, r)
      /\ read = read_packet(old.preader, r.text, max_request_sz, HTTP_CHECK_WEAK)
  BY <1>2
<1>4. /\ Fields(now) /\ now.ssl = r.conn /\ now.open = old.open
      /\ now.keep_alive = old.keep_alive /\ now.executing = old.executing
  BY AfterHandler
<1>5. IsConnection(r.conn) /\ r.conn.state = "EMPTY"
  BY <1>3, ServerSwitching
<1> HIDE DEF old, now, p, kept
<1>6. /\ Fields(s) /\ s.ssl = r.conn /\ s.open = old.open /\ s.executing = old.executing
  BY <1>4, PreaderField, SMTT(30)
<1> HIDE DEF s
<1>7. ASSUME NEW k
      PROVE  LET t == [s EXCEPT !.keep_alive = k]
             IN  /\ Fields(t) /\ t.ssl = r.conn /\ t.open = old.open /\ t.executing = old.executing
  BY <1>6, KeepAliveField, SMTT(30)
<1>8. Held(c, r, new, in, out)
  <2> DEFINE req == opts.requests[c]
             ts == to_server[c]
             tc == to_client[c]
  <2> SUFFICES ASSUME InCall(req, old, ts, tc, client, executed, c, r)
               PROVE  Sound(req, new, in, out, client, c)
    BY DEF Held, old
  <2> HIDE DEF req, ts, tc
  <2>1. /\ r.conn.ssl.buf \in {0, 1} /\ req \in Requests /\ old.open /\ old.executing = {}
        /\ Sound(req, old, ts, tc, client, c)
    BY ServerSound DEF InCall, Served
  <2>2. Taken(req, read, in, client)
    BY <1>3, RequestTaken
  <2>3. CASE packet.is = "incomplete"
    <3> DEFINE ssl == reg_recv(r.conn)
               t == [s EXCEPT !.ssl = ssl]
    <3>1. new = t
      BY <1>6, <2>3
    <3>2. ssl.state = "READING" /\ ssl.ssl = r.conn.ssl
      BY <1>5, Received
    <3> HIDE DEF ssl, new
    <3>3. t.ssl = ssl /\ t.open = old.open /\ t.executing = old.executing
      BY <1>6, SslField
    <3> HIDE DEF t
    <3>4. Stage(t) = "reads" /\ Buffers(t.ssl, 1)
      BY <2>1, <3>2, <3>3, Stages DEF Buffers
    <3> HIDE DEF in, out
    <3> QED BY <2>1, <3>1, <3>4, SoundWith
  <2>4. CASE packet = Packet(PacketOf(req)[1], RequestContent(req))
             /\ in = <<>> /\ client.ssl.state = "READING"
    <3> DEFINE t == [s EXCEPT !.keep_alive = kept]
               e == {req}
               u == [t EXCEPT !.executing = e]
    <3>1. packet.is = "packet" /\ packet.content = RequestContent(req)
      BY <2>4 DEF Packet
    <3>2. RequestOf(packet.content) = {req}
      BY <2>1, <3>1, Requested
    <3>3. new = schedule_execute(t, packet.content)
      BY <3>1
    <3>4. Fields(t) /\ t.ssl = r.conn /\ t.open = old.open
      BY <1>7
    <3> HIDE DEF new, t
    <3>5. new = u
      BY <3>2, <3>3 DEF schedule_execute
    <3> HIDE DEF e
    <3>6. u.ssl = t.ssl /\ u.open = t.open /\ u.executing = e
      BY <3>4, ExecutingField
    <3> HIDE DEF u
    <3>7. Stage(u) = "executes" /\ Buffers(u.ssl, 1)
      BY <1>5, <2>1, <3>4, <3>6, Stages DEF e, Buffers
    <3> HIDE DEF in, out
    <3> QED BY <2>1, <2>4, <3>5, <3>7, SoundWith
  <2> HIDE DEF new
  <2> QED BY <2>2, <2>3, <2>4 DEF Taken
<1>9. UNCHANGED clientVars
  BY DEF recv_succeed, ServerOthers
<1>10. /\ server' = [server EXCEPT ![c] = new] /\ to_server' = [to_server EXCEPT ![c] = in]
       /\ to_client' = [to_client EXCEPT ![c] = out]
  BY <1>3 DEF Serve
<1> HIDE DEF in, out, new
<1> QED BY <1>8, <1>9, <1>10, SoundStep

-----------------------------------------------------------------------------
(* A call of the client's handler. *)

LEMMA ReadsData ==
  ASSUME NEW ssl, ~ ssl.received_shutdown, NEW in, NEW out, NEW peer, in # <<>>,
         Head(in) \notin {close_notify, Reset},
         NEW o \in SSL_read(End(ssl, in, out, peer))
  PROVE  o.what = "ok"
<1> DEFINE end == End(ssl, in, out, peer)
           rest == [end EXCEPT !.in = Tail(@)]
<1>1. end.in = in /\ ~ end.ssl.received_shutdown
  BY DEF End
<1> HIDE DEF end, rest
<1>2. o = Got(rest, Head(end.in).text)
  BY <1>1 DEF SSL_read, end, rest
<1> QED BY <1>2 DEF Got

(* An end that has not sent its alert. *)
Quiet(ssl) == ~ ssl.sent_shutdown

LEMMA NotShut ==
  ASSUME NEW c, IsConnection(c), c.state # "SHUTDOWN", NEW in, NEW out, NEW peer,
         IsEnd(c.ssl, in, out, peer), NEW o \in Call(c, End(c.ssl, in, out, peer))
  PROVE  Quiet(c.ssl) => Quiet(o.end.ssl)
<1>1. /\ Left(o, c.ssl, in, out, peer)
      /\ o.what \in {"ok", "need_read", "need_write", "connection_close", "network_error",
                     "exception"}
      /\ c.state # "SHUTDOWN" => o.end.ssl.sent_shutdown = c.ssl.sent_shutdown
      /\ c.state # "SHUTDOWN" /\ o.what # "connection_close" =>
           o.end.ssl.received_shutdown = c.ssl.received_shutdown
      /\ c.state = "SHUTDOWN" /\ o.what = "need_write" => o.end.ssl = c.ssl
      /\ c.state \in {"WRITING", "SHUTDOWN"} => o.what \notin {"need_read", "connection_close"}
      /\ c.state = "READING" => o.what # "need_write"
      /\ c.state = "ACCEPTING" /\ c.ssl.role = "server" =>
           /\ o.what = "need_read" => o.end.ssl.flights % 2 = 0
           /\ o.what = "need_write" => o.end.ssl.flights % 2 = 1
  BY Calling
<1> QED BY <1>1 DEF Quiet

(* The call the client is in, and what it does of it.                      *)
Asked(req, s, ts, tc, cl, runs, n, r) ==
  /\ req \in Requests /\ ~ Large(req)
  /\ \E peer \in BOOLEAN : (s.open => peer) /\ Called(cl, tc, ts, peer, r)
  /\ Exchange(req, s, ts, tc, TRUE, FALSE, cl, runs) /\ Sound(req, s, ts, tc, cl, n)

(* A record of the reply that is to come has been read.                    *)
GetsOn(cl, r, text) ==
  \E m \in 0 .. Number(text) - 1 :
    At(cl.preader, text, m) /\ r.text = Records(text)[m + 1].text /\ Whole(r.in, text, m + 1)

Does(req, s, ts, cl, n, r) ==
  /\ r.what \in {"again", "connect_succeed", "send_succeed", "recv_succeed"}
  /\ cl.ssl.state \in {"CONNECTING", "WRITING", "READING"}
  /\ ~ r.conn.ssl.sent_shutdown /\ r.conn.ssl.buf \in {0, n}
  /\ r.what = "again" =>
       r.conn.state = cl.ssl.state /\ r.conn.mask # {} /\ Buffers(r.conn, n) /\ Stage(s) # "ended"
  /\ r.what = "connect_succeed" => cl.ssl.state = "CONNECTING"
  /\ r.what = "send_succeed" => cl.ssl.state = "WRITING"
  /\ cl.ssl.state = "READING" => r.out = ts
  /\ Stage(s) = "ended" => cl.ssl.state = "READING" /\ GetsOn(cl, r, ReplyOf(req))

LEMMA ClientSound ==
  ASSUME NEW req, NEW s, NEW ts, NEW tc, NEW cl, NEW runs, NEW n, NEW r,
         Asked(req, s, ts, tc, cl, runs, n, r)
  PROVE  Does(req, s, ts, cl, n, r)
<1> DEFINE c == cl.ssl
           text == PacketOf(req)
           reply == ReplyOf(req)
<1>1. /\ req \in Requests /\ ~ Large(req) /\ Sound(req, s, ts, tc, cl, n)
      /\ \E peer, act, gone \in BOOLEAN :
           /\ There(act) /\ (s.open => There(peer)) /\ Called(cl, tc, ts, peer, r)
           /\ Exchange(req, s, ts, tc, act, gone, cl, runs)
  BY DEF Asked, There
<1>2. PICK peer, act, gone \in BOOLEAN :
        /\ There(act) /\ (s.open => There(peer)) /\ Called(cl, tc, ts, peer, r)
        /\ Exchange(req, s, ts, tc, act, gone, cl, runs)
  BY <1>1
<1>3. /\ IsConnection(c) /\ IsEnd(c.ssl, tc, ts, peer) /\ r \in switch_state(c, tc, ts, peer)
      /\ IsText(tc) /\ ~ c.ssl.sent_shutdown /\ Buffers(c, n) /\ IsSsl(c.ssl) /\ IsText(c.send_buf)
      /\ Informed(c)
  BY <1>1, <1>2 DEF Called, IsClient, IsConnection, IsEnd, Pipe, Clean, Broken, Sound
<1>4. /\ Acts(text, req, s, ts, tc, gone, cl, runs)
      /\ c.state \in {"CONNECTING", "WRITING", "READING"}
  BY <1>2, ClientActs DEF There
<1>5. /\ Stage(s) \in {"executes", "writes", "ended"} => c.state = "READING"
      /\ Stage(s) = "ended" => ToCome(tc, cl, reply)
      /\ Stage(s) \in {"accepts", "reads", "executes", "writes", "ended"}
      /\ Stage(s) # "ended" => There(peer)
  BY <1>1, <1>2, StageIs DEF Sound
<1>6. There(peer) => ~ HasReset(tc)
  BY <1>3 DEF IsEnd, Clean, There
<1> HIDE DEF c, text, reply
<1>7. PICK o \in Call(c, End(c.ssl, tc, ts, peer)) :
        /\ Switched(r, c, o)
        /\ r.what = "again" => o.what \in {"need_read", "need_write", "connection_close"}
        /\ r.what \in {"network_error", "exception"} => o.what = r.what
        /\ r.what \in {"accept_succeed", "connect_succeed", "recv_succeed", "send_succeed",
                       "terminate"} => o.what = "ok" /\ r.what = Success(c.state)
        /\ r.what \in {"again", "network_error", "exception", "terminate", "accept_succeed",
                       "connect_succeed", "recv_succeed", "send_succeed"}
  BY <1>3, Told
<1>8. /\ r.in = o.end.in /\ r.out = o.end.out /\ r.conn.ssl = o.end.ssl /\ r.conn.buf = c.buf
      /\ r.text = o.text
      /\ o.what = "ok" => r.what = Success(c.state)
      /\ o.what \in {"need_read", "need_write"} =>
           r.what = "again" /\ r.conn.state = c.state /\ r.conn.mask # {}
  BY <1>7 DEF Switched
<1>9. o.end.ssl.buf \in {0, n} /\ ~ o.end.ssl.sent_shutdown
  <2>1. o.end.ssl.buf \in {0, n}
    BY <1>3, CallKeeps
  <2>2. ~ o.end.ssl.sent_shutdown
    <3>1. IsConnection(c) /\ IsEnd(c.ssl, tc, ts, peer) /\ c.state # "SHUTDOWN"
      BY <1>3, <1>4 DEF c
    <3>2. Quiet(c.ssl)
      BY <1>3 DEF Quiet
    <3>3. Quiet(o.end.ssl)
      BY <3>1, <3>2, NotShut
    <3> QED BY <3>3 DEF Quiet
  <2> QED BY <2>1, <2>2
<1>10. CASE c.state = "CONNECTING"
  <2> DEFINE ssl == c.ssl
  <2>1. o \in Handshake(End(ssl, tc, ts, peer)) /\ IsEnd(ssl, tc, ts, peer)
    BY <1>3, <1>10 DEF Call
  <2> HIDE DEF ssl
  <2>2. peer => o.what \in {"ok", "need_read", "need_write"}
    BY <2>1, ShakeKeeps
  <2>3. o.what \in {"ok", "need_read", "need_write"}
    BY <1>5, <1>10, <2>2 DEF There
  <2> QED BY <1>3, <1>5, <1>7, <1>8, <1>9, <1>10, <2>3, Successes DEF Buffers, Does, c
<1>11. CASE c.state = "WRITING"
  <2> DEFINE ssl == c.ssl
             buf == c.buf
             sent == c.send_buf
  <2>1. o \in SSL_write(End(ssl, tc, ts, peer), sent, buf) /\ IsEnd(ssl, tc, ts, peer)
        /\ IsSsl(ssl) /\ IsText(sent) /\ ~ ssl.sent_shutdown /\ ssl.buf \in {0, buf}
    BY <1>3, <1>11 DEF Call, Buffers
  <2>2. buf = n
    BY <1>3, <1>11 DEF Buffers
  <2> HIDE DEF ssl, sent, buf
  <2>3. o.what \in {"ok", "need_write", "network_error", "exception"}
    BY <2>1, Writing
  <2>4. /\ o.what = "exception" => ssl.sent_shutdown \/ ssl.buf \notin {0, buf}
        /\ o.what = "network_error" => HasReset(tc)
    BY <2>1, WriteKeeps
  <2>5. o.what \in {"ok", "need_write"}
    BY <1>5, <1>6, <1>11, <2>1, <2>3, <2>4
  <2> QED BY <1>3, <1>5, <1>7, <1>8, <1>9, <1>11, <2>2, <2>5, Successes DEF Buffers, Does, c, buf
<1>12. CASE c.state = "READING"
  <2> DEFINE ssl == c.ssl
  <2>1. o \in SSL_read(End(ssl, tc, ts, peer)) /\ IsEnd(ssl, tc, ts, peer)
        /\ ~ ssl.received_shutdown
    BY <1>3, <1>12 DEF Call, Informed
  <2> HIDE DEF ssl
  <2>2. o.what \in {"ok", "need_read", "connection_close", "network_error"}
    BY <2>1, Reading
  <2>3. /\ o.end.out = ts
        /\ o.what = "ok" => tc # <<>> /\ o.text = Head(tc).text /\ o.end.in = Tail(tc)
    BY <2>1, ReadOutcome
  <2>4. CASE Stage(s) = "ended"
    <3>1. PICK m \in 0 .. Number(reply) - 1 : Whole(tc, reply, m) /\ At(cl.preader, reply, m)
      BY <1>5, <2>4 DEF ToCome
    <3>2. IsText(reply)
      BY <1>1, ReplyOfIs DEF reply
    <3>3. /\ tc # <<>> /\ Head(tc) \notin {close_notify, Reset}
          /\ Head(tc) = Records(reply)[m + 1] /\ Whole(Tail(tc), reply, m + 1)
      BY <1>3, <3>1, <3>2, WholeTail
    <3>4. o.what = "ok"
      BY <2>1, <3>3, ReadsData
    <3>5. GetsOn(cl, r, reply)
      BY <1>8, <2>3, <3>1, <3>3, <3>4 DEF GetsOn
    <3> QED BY <1>3, <1>7, <1>8, <1>9, <1>12, <2>3, <2>4, <3>4, <3>5, Successes DEF Does, c, reply
  <2>5. CASE Stage(s) # "ended"
    <3>1. /\ o.what = "connection_close" =>
               \/ tc = <<>> /\ ~ peer
               \/ tc # <<>> /\ Head(tc) = close_notify
          /\ o.what = "network_error" => ~ peer
      BY <2>1, ReadOutcome
    <3>2. o.what # "network_error" /\ (o.what = "connection_close" => tc # <<>> /\ Head(tc) = close_notify)
      BY <1>5, <2>5, <3>1 DEF There
    <3>3. Stage(s) # "writes" => tc = <<>>
      BY <1>4, <1>5, <1>12, <2>5 DEF Acts, Asking, Connects, Writes, c
    <3>4. Stage(s) = "writes" => ~ (tc # <<>> /\ Head(tc) = close_notify)
      <4> SUFFICES ASSUME Stage(s) = "writes", tc # <<>>, Head(tc) = close_notify PROVE FALSE
        OBVIOUS
      <4>1. PICK t \in Replies(req, runs) : \E m, k \in 0 .. Number(t) - 1 :
              Writes(s.ssl, t, k) /\ Full(tc, t, m, k) /\ At(cl.preader, t, m)
        BY <1>4 DEF Acts
      <4>2. PICK m, k \in 0 .. Number(t) - 1 : Full(tc, t, m, k)
        BY <4>1
      <4>3. IsText(t) /\ m \in Nat
        BY <1>1, <4>1, ReplyIsText
      <4>4. Head(tc) = tc[1] /\ 1 \in DOMAIN tc
        BY <1>3, TailIs
      <4> QED BY <1>3, <4>2, <4>3, <4>4, FullRemains
    <3>5. o.what \in {"ok", "need_read"}
      BY <2>2, <3>2, <3>3, <3>4
    <3> QED BY <1>3, <1>7, <1>8, <1>9, <1>12, <2>3, <2>5, <3>5, Successes DEF Buffers, Does, c
  <2> QED BY <2>4, <2>5
<1> QED BY <1>4, <1>10, <1>11, <1>12

(* What it makes of the record: what is left of the reply is still to come. *)
LEMMA ReplyTaken ==
  ASSUME NEW req \in Requests, NEW cl, NEW r, GetsOn(cl, r, ReplyOf(req)), NEW ver_level \in Levels,
         NEW read, read = read_packet(cl.preader, r.text, 0, ver_level),
         read.outcome.is = "incomplete", NEW new, new.preader = read.reader
  PROVE  ToCome(r.in, new, ReplyOf(req))
<1> DEFINE content == ResponseContent(Run(req))
           text == ReplyOf(req)
<1>1. PICK m \in 0 .. Number(text) - 1 :
        At(cl.preader, text, m) /\ r.text = Records(text)[m + 1].text /\ Whole(r.in, text, m + 1)
  BY DEF GetsOn
<1>2. IsText(content) /\ text = dump(200, Closes, content)
  BY ContentsAreTexts DEF ReplyOf
<1>3. At(read.reader, text, m + 1)
  <2> DEFINE p == dump(200, Closes, content)
             word == read_packet(cl.preader, Records(p)[m + 1].text, 0, ver_level)
  <2>1. At(cl.preader, p, m) /\ p = text /\ word = read
    BY <1>1, <1>2
  <2>2. ~ TooLarge(content, 0) /\ 0 \in Nat
    BY DEF TooLarge
  <2> HIDE DEF content, text
  <2>3. \/ word.outcome = Error(413) /\ TooLarge(content, 0)
        \/ word.outcome.is = "incomplete" /\ At(word.reader, p, m + 1)
        \/ word.outcome = Packet(p[1], content) /\ m + 1 = Number(p)
    BY <1>2, <2>1, <2>2, RecordRead
  <2>4. word.outcome.is = "incomplete"
    BY <2>1
  <2>5. Packet(p[1], content).is = "packet"
    BY DEF Packet
  <2> HIDE DEF word, p
  <2> QED BY <2>1, <2>2, <2>3, <2>4, <2>5
<1> HIDE DEF text
<1>4. m + 1 \in 0 .. Number(text) - 1 /\ At(new.preader, text, m + 1)
  BY <1>3 DEF At
<1>5. ToCome(r.in, new, text)
  BY <1>1, <1>4 DEF ToCome
<1> QED BY <1>5 DEF text

-----------------------------------------------------------------------------
(* A step of the client leaves the call unharmed, or ends it.              *)

LEMMA AskedIs ==
  ASSUME IInv, Owned, Known, Unharmed, NEW r \in ClientSteps, ~ Large(opts.requests[conn])
  PROVE  Asked(opts.requests[conn], server[conn], to_server[conn], to_client[conn], client,
               executed, conn, r)
<1> DEFINE in == to_client[conn]
           out == to_server[conn]
           s == server[conn]
           req == opts.requests[conn]
<1>1. /\ conn \in Conns /\ conn # 0 /\ conn \notin left /\ ~ client.finished
      /\ IsClient(client) /\ IsServer(s)
  <2>1. conn \in Conns /\ conn \notin left /\ ~ client.finished
    BY ClientSwitching
  <2>2. conn # 0
    BY <2>1, TextIs DEF IInv, Objects, Conns
  <2> QED BY <2>1, <2>2 DEF IInv, Objects
<1>2. Sound(req, s, out, in, client, conn)
  BY <1>1 DEF Unharmed
<1>3. PICK peer \in BOOLEAN : peer = Open(conn)
  BY <1>1 DEF IsServer, Open
<1>4. UnderWay(out, in, Open(conn), conn \in left, conn = conn)
  BY <1>1 DEF IInv, Pipes
<1>5. r \in switch_state(client.ssl, in, out, peer) /\ (s.open => peer)
  BY <1>3 DEF ClientSteps, Open
<1>6. IsEnd(client.ssl.ssl, in, out, peer)
  BY <1>1, <1>3, <1>4 DEF IsClient, IsConnection, IsEnd, UnderWay
<1>7. Called(client, in, out, peer, r)
  BY <1>1, <1>5, <1>6 DEF Called, Known
<1>8. PICK act, gone \in BOOLEAN : act = TRUE /\ gone = FALSE
  OBVIOUS
<1>9. Working(client)
  BY <1>2 DEF Sound
<1>10. Exchange(req, s, out, in, act, gone, client, executed)
  <2>1. (act <=> conn = conn /\ Working(client)) /\ (gone <=> conn \in left)
    BY <1>1, <1>8, <1>9
  <2> QED BY <1>1, <2>1 DEF Owned, Exchanges
<1>11. req \in Requests
  BY <1>1, OwnRequest DEF Owned
<1> HIDE DEF in, out, s, req
<1>12. Asked(req, s, out, in, client, executed, conn, r)
  BY <1>2, <1>5, <1>7, <1>8, <1>10, <1>11 DEF Asked, req
<1> QED BY <1>12 DEF in, out, s, req

LEMMA SoundMoved ==
  ASSUME IInv, Unharmed, Caused, conn \in Conns, NEW new, NEW in, NEW out,
         GoOn(new, in, out), ClientOthers,
         ~ Large(opts.requests[conn]) =>
           Sound(opts.requests[conn], server[conn], out, in, new, conn)
  PROVE  Unharmed' /\ Caused'
<1>1. /\ client' = new /\ to_client' = [to_client EXCEPT ![conn] = in]
      /\ to_server' = [to_server EXCEPT ![conn] = out]
      /\ conn' = conn /\ results' = results /\ opts' = opts /\ server' = server
  BY DEF GoOn, ClientOthers
<1>2. /\ IsText(to_server) /\ IsText(to_client)
      /\ conn \in DOMAIN to_server /\ conn \in DOMAIN to_client
  BY TextIs DEF IInv, Objects, Conns
<1>3. to_server'[conn] = out
  BY <1>1, <1>2, TextReplaced
<1>4. to_client'[conn] = in
  BY <1>1, <1>2, TextReplaced
<1>5. Unharmed'
  BY <1>1, <1>3, <1>4 DEF Unharmed
<1>6. Caused'
  BY <1>1 DEF Caused, Blamed
<1> QED BY <1>5, <1>6

(* Where the handler goes on with the client new. *)
LEMMA SoundGoesOn ==
  ASSUME IInv, Owned, Known, Unharmed, Caused, NEW r \in ClientSteps, NEW new,
         GoOn(new, r.in, r.out), ClientOthers,
         Does(opts.requests[conn], server[conn], to_server[conn], client, conn, r) =>
           /\ ~ new.finished /\ new.ssl.state \in {"CONNECTING", "WRITING", "READING"}
           /\ new.ssl.mask # {} /\ new.ssl.ssl = r.conn.ssl
           /\ new.ssl.state = "WRITING" => new.ssl.buf = conn
           /\ new.ssl.state = "READING" \/ client.ssl.state # "READING"
           /\ Stage(server[conn]) = "ended" => ToCome(r.in, new, ReplyOf(opts.requests[conn]))
  PROVE  Unharmed' /\ Caused'
<1> DEFINE req == opts.requests[conn]
           s == server[conn]
           ts == to_server[conn]
           tc == to_client[conn]
           in == r.in
           out == r.out
<1>1. conn \in Conns
  BY ClientReturns
<1>2. ASSUME ~ Large(req)
      PROVE  Sound(req, s, out, in, new, conn)
  <2>1. Asked(req, s, ts, tc, client, executed, conn, r)
    BY <1>2, AskedIs
  <2>2. Does(req, s, ts, client, conn, r)
    <3> HIDE DEF req, s, ts, tc
    <3> QED BY <2>1, ClientSound
  <2>3. Sound(req, s, ts, tc, client, conn)
    BY <2>1 DEF Asked
  <2>4. /\ ~ new.finished /\ new.ssl.state \in {"CONNECTING", "WRITING", "READING"}
        /\ new.ssl.mask # {} /\ new.ssl.ssl = r.conn.ssl
        /\ new.ssl.state = "WRITING" => new.ssl.buf = conn
        /\ new.ssl.state = "READING" \/ client.ssl.state # "READING"
        /\ Stage(s) = "ended" => ToCome(in, new, ReplyOf(req))
    BY <2>2
  <2> HIDE DEF req, s, ts, tc, in, out
  <2>5. Working(new) /\ Buffers(new.ssl, conn) /\ ~ new.ssl.ssl.sent_shutdown
    BY <2>2, <2>4 DEF Working, Buffers, Does
  <2>6. Buffers(s.ssl, 1)
    BY <2>3 DEF Sound
  <2>7. Stage(s) \in {"executes", "writes", "ended"} => new.ssl.state = "READING" /\ out = <<>>
    BY <2>2, <2>3, <2>4 DEF Sound, Does, out
  <2> QED BY <2>4, <2>5, <2>6, <2>7 DEF Sound
<1> HIDE DEF in, out
<1>3. GoOn(new, in, out)
  BY DEF in, out
<1> QED BY <1>1, <1>2, <1>3, SoundMoved

LEMMA SoundClientWaits ==
  ASSUME IInv, Owned, Known, Unharmed, Caused, client_waits
  PROVE  Unharmed' /\ Caused'
<1>1. PICK r \in ClientSteps : r.what = "again" /\ GoOn(ClientNow(r), r.in, r.out)
  BY DEF client_waits
<1> DEFINE new == ClientNow(r)
           req == opts.requests[conn]
           s == server[conn]
           ts == to_server[conn]
<1>2. new.ssl = r.conn /\ ~ new.finished
  BY NowCells
<1>3. GoOn(new, r.in, r.out) /\ ClientOthers
  BY <1>1 DEF client_waits
<1>4. ASSUME Does(req, s, ts, client, conn, r)
      PROVE  /\ ~ new.finished /\ new.ssl.state \in {"CONNECTING", "WRITING", "READING"}
             /\ new.ssl.mask # {} /\ new.ssl.ssl = r.conn.ssl
             /\ new.ssl.state = "WRITING" => new.ssl.buf = conn
             /\ new.ssl.state = "READING" \/ client.ssl.state # "READING"
             /\ Stage(s) # "ended"
  <2> HIDE DEF new
  <2> QED BY <1>1, <1>2, <1>4 DEF Does, Buffers
<1> HIDE DEF new
<1> QED BY <1>3, <1>4, SoundGoesOn

LEMMA SoundConnectSucceed ==
  ASSUME IInv, Owned, Known, Unharmed, Caused, connect_succeed
  PROVE  Unharmed' /\ Caused'
<1>1. PICK r \in ClientSteps :
        /\ r.what = "connect_succeed"
        /\ GoOn(reg_send_request([ClientNow(r) EXCEPT !.established = TRUE], client.out_str),
                r.in, r.out)
  BY DEF connect_succeed
<1> DEFINE now == ClientNow(r)
           cl == [now EXCEPT !.established = TRUE]
           text == client.out_str
           buf == Len(results) + 1
           ssl == reg_send(r.conn, text, buf)
           new == reg_send_request(cl, text)
           req == opts.requests[conn]
           s == server[conn]
           ts == to_server[conn]
<1>2. Cells(now) /\ now.ssl = r.conn /\ ~ now.finished
  BY NowCells
<1>3. IsConnection(r.conn) /\ phase = "events"
  BY NowConnection, ClientReturns
<1>4. buf = conn
  BY <1>3 DEF Owned, Counted, call
<1> HIDE DEF now, text, buf
<1>5. Cells(cl) /\ cl.ssl = now.ssl /\ cl.finished = now.finished
  <2> DEFINE yes == TRUE
  <2>1. cl = [now EXCEPT !.established = yes]
    OBVIOUS
  <2> HIDE DEF yes, cl
  <2> QED BY <1>2, <2>1, EstablishedCell
<1> HIDE DEF cl
<1>6. ssl.ssl = r.conn.ssl /\ ssl.state = "WRITING" /\ ssl.buf = buf /\ ssl.mask # {}
  <2> DEFINE d == r.conn
  <2> HIDE DEF d
  <2>1. LET to == reg_send(d, text, buf)
        IN  to.ssl = d.ssl /\ to.state = "WRITING" /\ to.send_buf = text
    BY <1>3, Buffered DEF d
  <2>2. LET to == reg_send(d, text, buf)
        IN  to.buf = buf /\ to.mask = d.mask \cup {"OUTPUT"}
    BY <1>3, BufferIs DEF d
  <2> QED BY <2>1, <2>2 DEF d
<1>7. new = [cl EXCEPT !.ssl = ssl]
  BY <1>2, <1>5 DEF reg_send_request, Cells, buf
<1> HIDE DEF ssl, new
<1>8. new.ssl = ssl /\ new.finished = cl.finished
  BY <1>5, <1>7, SslCell
<1>9. GoOn(new, r.in, r.out) /\ ClientOthers
  BY <1>1 DEF connect_succeed, new, cl, now, text
<1>10. ASSUME Does(req, s, ts, client, conn, r)
       PROVE  /\ ~ new.finished /\ new.ssl.state \in {"CONNECTING", "WRITING", "READING"}
              /\ new.ssl.mask # {} /\ new.ssl.ssl = r.conn.ssl
              /\ new.ssl.state = "WRITING" => new.ssl.buf = conn
              /\ new.ssl.state = "READING" \/ client.ssl.state # "READING"
              /\ Stage(s) # "ended"
  BY <1>1, <1>2, <1>4, <1>5, <1>6, <1>8, <1>10 DEF Does
<1> QED BY <1>9, <1>10, SoundGoesOn

LEMMA WaitsForMore ==
  ASSUME NEW cl, Cells(cl), IsConnection(cl.ssl), NEW new, new = [cl EXCEPT !.ssl = reg_recv(@)]
  PROVE  new.ssl.mask # {}
<1> DEFINE c == cl.ssl
           ssl == reg_recv(c)
<1>1. new = [cl EXCEPT !.ssl = ssl]
  BY DEF Cells
<1>2. IsConnection(c)
  OBVIOUS
<1> HIDE DEF c
<1>3. ssl.mask # {}
  BY <1>2, Received
<1> HIDE DEF ssl
<1>4. new.ssl = ssl
  BY <1>1, SslCell
<1> QED BY <1>3, <1>4

LEMMA SoundClientSendSucceed ==
  ASSUME IInv, Owned, Known, Unharmed, Caused, client_send_succeed
  PROVE  Unharmed' /\ Caused'
<1>1. PICK r \in ClientSteps :
        /\ r.what = "send_succeed"
        /\ GoOn([ClientNow(r) EXCEPT !.ssl = reg_recv(@)], r.in, r.out)
  BY DEF client_send_succeed
<1> DEFINE now == ClientNow(r)
           new == [now EXCEPT !.ssl = reg_recv(@)]
           req == opts.requests[conn]
           s == server[conn]
           ts == to_server[conn]
<1>2. Cells(now) /\ now.ssl = r.conn /\ ~ now.finished
  BY NowCells
<1>3. IsConnection(now.ssl)
  BY <1>2, NowConnection
<1> HIDE DEF now
<1>4. new.ssl.ssl = now.ssl.ssl /\ new.ssl.state = "READING" /\ new.finished = now.finished
  BY <1>2, <1>3, ToRead
<1>5. new.ssl.mask # {}
  BY <1>2, <1>3, WaitsForMore
<1> HIDE DEF new
<1>6. GoOn(new, r.in, r.out) /\ ClientOthers
  BY <1>1 DEF client_send_succeed, new, now
<1>7. ASSUME Does(req, s, ts, client, conn, r)
      PROVE  /\ ~ new.finished /\ new.ssl.state \in {"CONNECTING", "WRITING", "READING"}
             /\ new.ssl.mask # {} /\ new.ssl.ssl = r.conn.ssl
             /\ new.ssl.state = "WRITING" => new.ssl.buf = conn
             /\ new.ssl.state = "READING" \/ client.ssl.state # "READING"
             /\ Stage(s) # "ended"
  BY <1>1, <1>2, <1>4, <1>5, <1>7 DEF Does
<1> QED BY <1>6, <1>7, SoundGoesOn

(* execute() has returned or thrown. *)
LEMMA SoundEnded ==
  ASSUME IInv, Owned, ~ opts.keep_alive, Caused, phase = "events", NEW result, NEW cl, NEW in,
         NEW out, EndCall(result, cl, in, out), ClientOthers, Blamed(result, opts.requests[conn])
  PROVE  Unharmed' /\ Caused'
<1> DEFINE n == Len(results) + 1
<1>1. results' = Append(results, result) /\ conn' = 0 /\ opts' = opts
  BY DEF EndCall, ClientOthers
<1>2. IsText(results) /\ DOMAIN results = 1 .. Len(results) /\ Len(results) \in Nat
  BY TextIs DEF IInv, Objects
<1>3. conn = n
  BY DEF Owned, Counted, call
<1>4. /\ DOMAIN results' = 1 .. n /\ results'[n] = result
      /\ \A i \in 1 .. Len(results) : results'[i] = results[i]
  BY <1>1, <1>2, TextAppended
<1>5. ASSUME NEW i \in 1 .. n
      PROVE  Blamed(results'[i], opts.requests[i])
  <2>1. CASE i = n
    BY <1>3, <1>4, <2>1
  <2>2. CASE i # n
    <3>1. i \in 1 .. Len(results)
      BY <1>2, <2>2
    <3> QED BY <1>2, <1>4, <3>1 DEF Caused
  <2> QED BY <2>1, <2>2
<1>6. Caused'
  BY <1>1, <1>4, <1>5 DEF Caused, Blamed
<1> QED BY <1>1, <1>6 DEF Unharmed

LEMMA SoundClientThrows ==
  ASSUME IInv, Owned, Known, ~ opts.keep_alive, Unharmed, Caused, client_throws
  PROVE  Unharmed' /\ Caused'
<1>1. PICK r \in ClientSteps :
        /\ r.what \in {"network_error", "exception"}
        /\ EndCall(Threw(r.what, 0), ClientNow(r), r.in, r.out)
  BY DEF client_throws
<1> DEFINE result == Threw(r.what, 0)
           cl == ClientNow(r)
           in == r.in
           out == r.out
           req == opts.requests[conn]
           s == server[conn]
           ts == to_server[conn]
           tc == to_client[conn]
<1>2. ClientOthers /\ phase = "events"
  BY ClientReturns DEF client_throws
<1>3. Large(req)
  <2> SUFFICES ASSUME ~ Large(req) PROVE FALSE
    OBVIOUS
  <2>1. Asked(req, s, ts, tc, client, executed, conn, r)
    BY AskedIs
  <2> HIDE DEF req, s, ts, tc
  <2>2. Does(req, s, ts, client, conn, r)
    BY <2>1, ClientSound
  <2> QED BY <1>1, <2>2 DEF Does
<1>4. Blamed(result, req)
  BY <1>1, <1>3 DEF Blamed, Threw
<1>5. EndCall(result, cl, in, out)
  BY <1>1
<1> HIDE DEF result, cl, in, out
<1> QED BY <1>2, <1>4, <1>5, SoundEnded

LEMMA SoundClientTimeout ==
  ASSUME IInv, Owned, ~ opts.keep_alive, Unharmed, Caused, Client_timeout
  PROVE  Unharmed' /\ Caused'
<1> DEFINE result == Threw("timeout", 0)
           in == to_client[conn]
           out == to_server[conn]
           req == opts.requests[conn]
<1>1. /\ phase = "events" /\ EndCall(result, client, in, out) /\ ClientOthers
      /\ client.ssl.mask = {} \/ opts.timeout
  BY DEF Client_timeout
<1>2. conn # 0
  BY <1>1 DEF IInv, Sockets
<1>3. Large(req) \/ opts.timeout
  BY <1>1, <1>2 DEF Unharmed, Sound
<1>4. Blamed(result, req)
  BY <1>3 DEF Blamed, Threw
<1> HIDE DEF result, in, out
<1> QED BY <1>1, <1>4, SoundEnded

LEMMA SoundClientTerminates ==
  ASSUME IInv, Owned, Known, Unharmed, Caused, client_terminates
  PROVE  Unharmed' /\ Caused'
<1>1. PICK r \in ClientSteps : r.what = "terminate"
  BY DEF client_terminates
<1>2. conn' = conn /\ results' = results /\ opts' = opts
  BY DEF client_terminates, ClientOthers
<1> DEFINE req == opts.requests[conn]
           s == server[conn]
           ts == to_server[conn]
           tc == to_client[conn]
<1>3. Large(req)
  <2> SUFFICES ASSUME ~ Large(req) PROVE FALSE
    OBVIOUS
  <2>1. Asked(req, s, ts, tc, client, executed, conn, r)
    BY AskedIs
  <2> HIDE DEF req, s, ts, tc
  <2>2. Does(req, s, ts, client, conn, r)
    BY <2>1, ClientSound
  <2> QED BY <1>1, <2>2 DEF Does
<1>4. Unharmed'
  BY <1>2, <1>3 DEF Unharmed
<1> QED BY <1>2, <1>4 DEF Caused, Blamed

LEMMA SoundClientRecvSucceed ==
  ASSUME IInv, Owned, Known, ~ opts.keep_alive, Unharmed, Caused, client_recv_succeed
  PROVE  Unharmed' /\ Caused'
<1>1. ClientOthers
  BY DEF client_recv_succeed
<1>2. PICK r \in ClientSteps : \E ver_level \in Levels :
     \E read \in {read_packet(client.preader, r.text, 0, ver_level)} :
       LET cl == [ClientNow(r) EXCEPT !.preader = read.reader]
       IN  /\ r.what = "recv_succeed"
           /\ CASE read.outcome.is = "packet" ->
                     EndCall(Returned(read.outcome), cl, r.in, r.out)
                [] read.outcome.is = "error" ->
                     EndCall(Threw("malformed", 0), cl, r.in, r.out)
                [] OTHER -> GoOn([cl EXCEPT !.ssl = reg_recv(@)], r.in, r.out)
  BY DEF client_recv_succeed
<1>3. PICK ver_level \in Levels :
     \E read \in {read_packet(client.preader, r.text, 0, ver_level)} :
       LET cl == [ClientNow(r) EXCEPT !.preader = read.reader]
       IN  /\ r.what = "recv_succeed"
           /\ CASE read.outcome.is = "packet" ->
                     EndCall(Returned(read.outcome), cl, r.in, r.out)
                [] read.outcome.is = "error" ->
                     EndCall(Threw("malformed", 0), cl, r.in, r.out)
                [] OTHER -> GoOn([cl EXCEPT !.ssl = reg_recv(@)], r.in, r.out)
  BY <1>2
<1> DEFINE read == read_packet(client.preader, r.text, 0, ver_level)
           now == ClientNow(r)
           p == read.reader
           cl == [now EXCEPT !.preader = p]
           new == [cl EXCEPT !.ssl = reg_recv(@)]
           req == opts.requests[conn]
           s == server[conn]
           ts == to_server[conn]
           in == r.in
           out == r.out
<1>4. /\ r.what = "recv_succeed"
      /\ read.outcome.is = "packet" => EndCall(Returned(read.outcome), cl, r.in, r.out)
      /\ read.outcome.is \notin {"packet", "error"} => GoOn(new, r.in, r.out)
  <2> HIDE DEF read, now
  <2>1. LET me == [now EXCEPT !.preader = read.reader]
        IN  /\ r.what = "recv_succeed"
            /\ CASE read.outcome.is = "packet" ->
                      EndCall(Returned(read.outcome), me, r.in, r.out)
                 [] read.outcome.is = "error" ->
                      EndCall(Threw("malformed", 0), me, r.in, r.out)
                 [] OTHER -> GoOn([me EXCEPT !.ssl = reg_recv(@)], r.in, r.out)
    BY <1>3 DEF read, now
  <2> HIDE DEF cl
  <2>2. /\ r.what = "recv_succeed"
        /\ CASE read.outcome.is = "packet" ->
                  EndCall(Returned(read.outcome), cl, r.in, r.out)
             [] read.outcome.is = "error" ->
                  EndCall(Threw("malformed", 0), cl, r.in, r.out)
             [] OTHER -> GoOn(new, r.in, r.out)
    BY <2>1 DEF cl
  <2> HIDE DEF new
  <2> QED BY <2>2
<1>5. PICK gone \in BOOLEAN : ~ gone
  OBVIOUS
<1>6. ClientDoes(req, s, gone, client, r, executed)
  BY <1>5, ClientCalled
<1>7. GotAs(req, s, out, in, gone, client, read, executed)
  BY <1>4, <1>6 DEF ClientDoes
<1>8. Cells(now) /\ now.ssl = r.conn /\ ~ now.finished
  BY NowCells
<1>9. conn \in Conns /\ phase = "events" /\ IsConnection(r.conn) /\ req \in Requests
  BY ClientReturns, NowConnection, OwnRequest DEF Owned
<1>10. read = read_packet(client.preader, r.text, 0, ver_level)
  OBVIOUS
<1> HIDE DEF read, now
<1>11. CASE read.outcome.is = "packet"
  <2> DEFINE result == Returned(read.outcome)
  <2>1. EndCall(result, cl, in, out)
    BY <1>4, <1>11
  <2>2. Blamed(result, req)
    BY <1>7, <1>11 DEF GotAs, Refused, Blamed
  <2> HIDE DEF result, cl, in, out
  <2> QED BY <1>1, <1>9, <2>1, <2>2, SoundEnded
<1>12. CASE read.outcome.is = "incomplete"
  <2>1. GoOn(new, r.in, r.out)
    BY <1>4, <1>12
  <2> HIDE DEF p
  <2>2. Cells(cl) /\ cl.ssl = now.ssl /\ cl.preader = p /\ cl.finished = now.finished
    <3> HIDE DEF cl
    <3>1. cl = [now EXCEPT !.preader = p]
      BY DEF cl
    <3> QED BY <1>8, <3>1, PreaderCell
  <2> HIDE DEF cl
  <2>3. IsConnection(cl.ssl)
    BY <1>8, <1>9, <2>2
  <2>4. /\ new.ssl.ssl = cl.ssl.ssl /\ new.ssl.state = "READING" /\ new.preader = cl.preader
        /\ new.finished = cl.finished
    BY <2>2, <2>3, ToRead
  <2>5. new.ssl.mask # {}
    BY <2>2, <2>3, WaitsForMore
  <2> HIDE DEF new
  <2>6. ASSUME Does(req, s, ts, client, conn, r), Stage(s) = "ended"
        PROVE  ToCome(r.in, new, ReplyOf(req))
    <3>1. GetsOn(client, r, ReplyOf(req))
      BY <2>6 DEF Does
    <3>2. new.preader = read.reader
      BY <2>2, <2>4 DEF p
    <3> HIDE DEF req
    <3> QED BY <1>9, <1>10, <1>12, <3>1, <3>2, ReplyTaken
  <2>7. ASSUME Does(req, s, ts, client, conn, r)
        PROVE  /\ ~ new.finished /\ new.ssl.state \in {"CONNECTING", "WRITING", "READING"}
               /\ new.ssl.mask # {} /\ new.ssl.ssl = r.conn.ssl
               /\ new.ssl.state = "WRITING" => new.ssl.buf = conn
               /\ new.ssl.state = "READING" \/ client.ssl.state # "READING"
               /\ Stage(s) = "ended" => ToCome(r.in, new, ReplyOf(req))
    BY <1>8, <2>2, <2>4, <2>5, <2>6, <2>7
  <2> QED BY <1>1, <2>1, <2>7, SoundGoesOn
<1> QED BY <1>7, <1>11, <1>12 DEF GotAs

(* A new connection. *)
LEMMA NewSound ==
  /\ Connected.ssl.mask # {} /\ Connected.ssl.ssl.buf = 0 /\ Connected.ssl.ssl.sent_shutdown = FALSE
  /\ Accepted.ssl.ssl.buf = 0
<1>1. SSL_new("client").buf = 0 /\ SSL_new("server").buf = 0 /\ SSL_new("client").sent_shutdown = FALSE
  BY DEF SSL_new
<1> DEFINE b == Reaction_connection("client")
           c == reg_connect(b)
<1>2. IsConnection(b) /\ "CONNECTING" \in States
  BY NewConnection DEF States
<1> HIDE DEF b
<1>3. c.mask # {}
  BY <1>2, Registered DEF reg_connect
<1>4. Connected = [ssl |-> c, preader |-> NewReader, out_str |-> <<>>, established |-> FALSE,
                   finished |-> FALSE]
  BY DEF Connected, b
<1> HIDE DEF c
<1>5. Connected.ssl = c
  BY <1>4
<1> QED BY <1>1, <1>3, <1>5, NewEnds

LEMMA SoundExecuteOnNew ==
  ASSUME IInv, Owned, ~ opts.keep_alive, Unharmed, Caused, execute_on_new
  PROVE  Unharmed' /\ Caused'
<1> DEFINE n == Len(server) + 1
           cl == client'
           text == request_packet
<1>1. /\ conn' = n /\ server' = Append(server, Accepted)
      /\ cl = [Connected EXCEPT !.out_str = text] /\ opts' = opts /\ results' = results
  BY DEF execute_on_new
<1>2. IsText(server) /\ Len(server) \in Nat
  BY TextIs DEF IInv, Objects
<1>3. server'[n] = Accepted
  BY <1>1, <1>2, TextAppended
<1> HIDE DEF cl, text
<1>4. cl.ssl = Connected.ssl /\ cl.finished = FALSE
  <2>1. Cells(Connected)
    BY NewEnds
  <2>2. cl.ssl = Connected.ssl /\ cl.finished = Connected.finished
    BY <1>1, <2>1, OutStrCell
  <2> QED BY <2>2, NewEnds
<1>5. Stage(Accepted) = "accepts"
  BY NewEnds DEF Stage
<1>6. ASSUME NEW req, NEW ts, NEW tc
      PROVE  Sound(req, Accepted, ts, tc, cl, n)
  <2>1. Working(cl)
    BY <1>4, NewEnds DEF Working
  <2>2. cl.ssl.mask # {} /\ ~ cl.ssl.ssl.sent_shutdown
    BY <1>4, NewSound
  <2>3. Buffers(cl.ssl, n) /\ Buffers(Accepted.ssl, 1)
    BY <1>4, NewSound, NewEnds DEF Buffers
  <2> QED BY <1>5, <2>1, <2>2, <2>3 DEF Sound
<1>7. Unharmed'
  BY <1>1, <1>3, <1>6 DEF Unharmed, cl
<1> QED BY <1>1, <1>7 DEF Caused, Blamed

-----------------------------------------------------------------------------
LEMMA CauseStarts ==
  ASSUME Init
  PROVE  Unharmed /\ Caused
<1>1. conn = 0 /\ results = <<>>
  BY DEF Init
<1> QED BY <1>1, EmptyText DEF Unharmed, Caused

LEMMA CauseMoves ==
  ASSUME IInv, Owned, Known, ~ opts.keep_alive, Unharmed, Caused, [Next]_vars
  PROVE  Unharmed' /\ Caused'
<1>1. CASE Client
  <2>1. ~ execute_on_kept
    BY DEF Owned, Counted, execute_on_kept
  <2> QED BY <1>1, <2>1, SoundExecuteOnNew, SoundConnectSucceed, SoundClientSendSucceed,
             SoundClientRecvSucceed, SoundClientWaits, SoundClientTerminates, SoundClientThrows,
             SoundClientTimeout DEF Client
<1>2. CASE \E c \in Conns : Server(c)
  BY <1>2, SoundAcceptSucceed, SoundRecvSucceed, SoundSendSucceed, SoundServerWaits,
     SoundServerTerminates, SoundProcess DEF Server
<1>3. CASE UNCHANGED vars
  BY <1>3 DEF vars, clientVars, Unharmed, Caused, Blamed
<1> QED BY <1>1, <1>2, <1>3 DEF Next

LEMMA Causing ==
  ASSUME IInv, Caused
  PROVE  FailsForCause
<1> SUFFICES ASSUME NEW n \in DOMAIN results, results[n].is = "exception"
             PROVE  LET what == results[n].what
                        tooLarge == \E m \in 1 .. n :
                          (m = n \/ opts.keep_alive) /\ Large(opts.requests[m])
                    IN  /\ \/ tooLarge
                           \/ opts.timeout /\ (what = "timeout" \/ Reused(n))
                        /\ what = "http" => \/ tooLarge /\ results[n].code = 413
                                            \/ Reused(n) /\ results[n].code = 400
  BY DEF FailsForCause
<1>1. n \in 1 .. n
  BY TextIs DEF IInv, Objects
<1>2. /\ Large(opts.requests[n]) \/ (opts.timeout /\ results[n].what = "timeout")
      /\ results[n].what = "http" => Large(opts.requests[n]) /\ results[n].code = 413
  BY DEF Caused, Blamed
<1> QED BY <1>1, <1>2

(* Without keep-alive, a call fails for a cause: the server refuses its    *)
(* request as too large, or a timeout is set.  Whatever each end does      *)
(* between the records, no call of OpenSSL fails that a call waits for, no *)
(* connection is given up before its reply has been read, and a write that *)
(* is repeated has the buffer it was begun with                            *)
(* (Https_server_connection, Reaction_connection::reg_send).               *)
THEOREM FailuresHaveCause == Spec => [](~ opts.keep_alive => FailsForCause)
<1>1. Init => OwnInv /\ KnownInv /\ CauseInv
  BY OwnStarts, CauseStarts DEF OwnInv, KnownInv, Owned, CauseInv
<1>2. IInv /\ OwnInv /\ KnownInv /\ CauseInv /\ [Next]_vars => OwnInv' /\ KnownInv' /\ CauseInv'
  BY OptionsStay, OwnMoves, CauseMoves DEF OwnInv, KnownInv, Owned, CauseInv
<1>3. IInv /\ CauseInv => (~ opts.keep_alive => FailsForCause)
  BY Causing DEF CauseInv
<1> QED BY <1>1, <1>2, <1>3, Invariance, PTL DEF Spec
=============================================================================
