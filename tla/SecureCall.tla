----------------------------- MODULE SecureCall -----------------------------
(***************************************************************************)
(* Remote calls over HTTPS: a Client object with Https_client_connections  *)
(* that executes one call after the other, the Https_server_connections    *)
(* that serve it, and the records between them.  Both ends are SSL         *)
(* connections of one reactor each; they go their own way.  Without a      *)
(* timeout the client's socket blocks: that a call of OpenSSL waits within *)
(* and that the reactor waits for it are the same here.                    *)
(***************************************************************************)
EXTENDS SslConnection, PacketReader, FiniteSets

CONSTANTS
  Requests,           \* what may be asked
  Sessions,           \* what a Client may be told and asked
  max_request_sz,     \* the server's limit for a packet, 0 for none
  read_buf_sz,        \* of either side
  MaxCalls,           \* bound: calls of a session
  Run(_),             \* the response to a request
  RequestContent(_),  \* the content of a request's packet
  ResponseContent(_)  \* and of a response's

ASSUME SecureCallAssumption ==
  /\ \A s \in Sessions : /\ s.keep_alive \in BOOLEAN /\ s.timeout \in BOOLEAN
                         /\ s.requests \in Seq(Requests) /\ Len(s.requests) \in 1 .. MaxCalls
  /\ max_request_sz \in Nat /\ read_buf_sz >= max_record

(* What no document is is answered with a fault. *)
Fault == [is |-> "fault", code |-> -32700]
Responses == {Run(req) : req \in Requests} \cup {Fault}

(* A content is a text, and no two have the same.  A response is a value   *)
(* or a fault, and not what execute() throws.                              *)
ASSUME ContentsAssumption ==
  /\ \A req \in Requests : IsText(RequestContent(req))
  /\ \A resp \in Responses : IsText(ResponseContent(resp)) /\ resp.is # "exception"
  /\ \A r, s \in Requests : RequestContent(r) = RequestContent(s) => r = s
  /\ \A r, s \in Responses : ResponseContent(r) = ResponseContent(s) => r = s

(* The request or the response that a content is, if it is one, as a set.  *)
RequestOf(content) == {req \in Requests : RequestContent(req) = content}
ResponseOf(content) == {resp \in Responses : ResponseContent(resp) = content}

VARIABLES
  opts,      \* Client_options and the calls to come
  phase,     \* of the client: "idle", or "events" in the loop around
             \* handle_events()
  conn,      \* its connection, 0 for none
  client,    \* the connection object
  results,   \* what each call has come to
  to_server, to_client,   \* records under way, by connection
  left,      \* connections the client's socket of which is closed
  server,    \* the server's end of each connection
  executed   \* requests that methods were run for

clientVars == <<opts, phase, conn, client, results, left>>
vars == <<clientVars, to_server, to_client, server, executed>>

Conns == DOMAIN server
Open(c) == server[c].open

(* The call being executed, or the last one. *)
call == Len(results) + (IF phase = "idle" THEN 0 ELSE 1)

(* Https_client_connection and Https_server_connection, when they are new  *)
(* and post_connect() and post_accept() have been called.                  *)
Connected ==
  [ssl |-> reg_connect(Reaction_connection("client")), preader |-> NewReader,
   out_str |-> <<>>, established |-> FALSE, finished |-> FALSE]

Accepted ==
  [ssl |-> reg_accept(Reaction_connection("server")), preader |-> NewReader,
   open |-> TRUE, keep_alive |-> FALSE, executing |-> {}]

Init ==
  /\ opts \in Sessions
  /\ phase = "idle" /\ conn = 0 /\ client = Connected
  /\ results = <<>>
  /\ to_server = <<>> /\ to_client = <<>> /\ left = {}
  /\ server = <<>> /\ executed = <<>>

-----------------------------------------------------------------------------
(* The client. *)

Threw(what, code) == [is |-> "exception", what |-> what, code |-> code]

request_packet ==
  dump(0, set_conn_keep_alive(Header, opts.keep_alive),
       RequestContent(opts.requests[Len(results) + 1]))

(* buf is the call whose string is written. *)
reg_send_request(cl, text) == [cl EXCEPT !.ssl = reg_send(@, text, Len(results) + 1)]

(* Client_base::execute and do_process_session, up to the loop. *)
execute_on_new ==
  /\ phase = "idle" /\ Len(results) < Len(opts.requests) /\ conn = 0
  /\ conn' = Len(server) + 1
  /\ server' = Append(server, Accepted)
  /\ to_server' = Append(to_server, <<>>)
  /\ to_client' = Append(to_client, <<>>)
  /\ client' = [Connected EXCEPT !.out_str = request_packet]
  /\ phase' = "events"
  /\ UNCHANGED <<opts, results, left, executed>>

(* Mutant: the text of the connection's first call is sent again. *)
execute_on_kept_stale ==
  /\ phase = "idle" /\ Len(results) < Len(opts.requests) /\ conn # 0
  /\ client' = IF client.established THEN reg_send_request(client, client.out_str) ELSE client
  /\ phase' = "events"
  /\ UNCHANGED <<opts, conn, results, left, to_server, to_client, server, executed>>

(* The string of a write that was begun has been replaced.  When the new   *)
(* one has come to the same address, OpenSSL does not notice: it sends the *)
(* record that was made, and goes on behind it in the new string, if that  *)
(* goes so far.                                                            *)
OverwrittenBy(cl, text) ==
  LET unsent == cl.ssl.ssl.unsent
      old == dump(0, set_conn_keep_alive(Header, opts.keep_alive),
                  RequestContent(opts.requests[cl.ssl.ssl.buf]))
      unmade == FoldLeft(LAMBDA n, record : n + Len(record.text), 0, Tail(unsent))
      rest(made) == Records(SubSeq(text, made + 1, Len(text)))
  IN  {[cl EXCEPT !.ssl.ssl = [@ EXCEPT !.unsent = <<Head(unsent)>> \o rest(made),
                                        !.buf = Len(results) + 1]] :
         made \in {m \in 0 .. Len(text) : unsent # <<>> /\ m + unmade = Len(old)}}

execute_on_kept ==
  /\ phase = "idle" /\ Len(results) < Len(opts.requests) /\ conn # 0
  /\ \E cl \in {client} \cup OverwrittenBy(client, request_packet) :
       LET asking == [cl EXCEPT !.out_str = request_packet]
       IN  client' = IF asking.established THEN reg_send_request(asking, request_packet) ELSE asking
  /\ phase' = "events"
  /\ UNCHANGED <<opts, conn, results, left, to_server, to_client, server, executed>>

(* A socket is closed: what is under way to it is lost, and that it had    *)
(* not been read resets the connection.                                    *)
Resets(unread, pipe) == IF unread = <<>> THEN {pipe} ELSE MayReset(pipe)

(* execute() returns or throws; a connection that is not kept is closed.   *)
(* The handler has left the object cl and the records in and out.          *)
EndCall(result, cl, in, out) ==
  /\ results' = Append(results, result)
  /\ phase' = "idle"
  /\ IF opts.keep_alive
     THEN /\ client' = cl
          /\ to_client' = [to_client EXCEPT ![conn] = in]
          /\ to_server' = [to_server EXCEPT ![conn] = out]
          /\ UNCHANGED <<conn, left>>
     ELSE /\ client' = Connected /\ conn' = 0 /\ left' = left \cup {conn}
          /\ to_client' = [to_client EXCEPT ![conn] = <<>>]
          /\ \E pipe \in Resets(in, out) : to_server' = [to_server EXCEPT ![conn] = pipe]

(* The loop goes on. *)
GoOn(cl, in, out) ==
  /\ client' = cl
  /\ to_client' = [to_client EXCEPT ![conn] = in]
  /\ to_server' = [to_server EXCEPT ![conn] = out]
  /\ UNCHANGED <<phase, conn, results, left>>

(* What poll() reports of a socket. *)
Ready(mask, in, out, peer) ==
  \/ "INPUT" \in mask /\ (in # <<>> \/ ~peer)
  \/ "OUTPUT" \in mask /\ (Len(out) < Room \/ ~peer \/ \E i \in DOMAIN in : in[i] = Reset)

ClientReady ==
  ~client.finished
  /\ Ready(client.ssl.mask, to_client[conn], to_server[conn], Open(conn))

(* What the handler that handle_events() calls may do.                     *)
ClientSteps ==
  IF phase = "events" /\ ClientReady
  THEN switch_state(client.ssl, to_client[conn], to_server[conn], Open(conn))
  ELSE {}

ClientNow(r) == [client EXCEPT !.ssl = r.conn]
ClientOthers == UNCHANGED <<opts, server, executed>>

connect_succeed ==
  /\ \E r \in ClientSteps :
       /\ r.what = "connect_succeed"
       /\ GoOn(reg_send_request([ClientNow(r) EXCEPT !.established = TRUE], client.out_str),
               r.in, r.out)
  /\ ClientOthers

client_send_succeed ==
  /\ \E r \in ClientSteps :
       /\ r.what = "send_succeed"
       /\ GoOn([ClientNow(r) EXCEPT !.ssl = reg_recv(@)], r.in, r.out)
  /\ ClientOthers

(* process_session, when the packet is there. *)
Returned(packet) ==
  IF packet.header.code # 200 THEN Threw("http", packet.header.code)
  ELSE IF ResponseOf(packet.content) = {} THEN Threw("xml", -32700)
  ELSE CHOOSE resp \in ResponseOf(packet.content) : TRUE

client_recv_succeed ==
  /\ \E r \in ClientSteps : \E ver_level \in Levels :
     \E read \in {read_packet(client.preader, r.text, 0, ver_level)} :
       LET cl == [ClientNow(r) EXCEPT !.preader = read.reader]
       IN  /\ r.what = "recv_succeed"
           /\ CASE read.outcome.is = "packet" ->
                     EndCall(Returned(read.outcome), cl, r.in, r.out)
                [] read.outcome.is = "error" ->
                     EndCall(Threw("malformed", 0), cl, r.in, r.out)
                [] OTHER -> GoOn([cl EXCEPT !.ssl = reg_recv(@)], r.in, r.out)
  /\ ClientOthers

(* OpenSSL wants to be called again, or the server has closed. *)
client_waits ==
  /\ \E r \in ClientSteps : r.what = "again" /\ GoOn(ClientNow(r), r.in, r.out)
  /\ ClientOthers

(* Mutant: the socket stays open. *)
client_terminates_open ==
  /\ \E r \in ClientSteps :
       r.what = "terminate" /\ GoOn([ClientNow(r) EXCEPT !.finished = TRUE], r.in, r.out)
  /\ ClientOthers

(* Connection::finish: the socket is closed, and the object stays. *)
client_terminates ==
  /\ \E r \in ClientSteps :
       /\ r.what = "terminate"
       /\ client' = [ClientNow(r) EXCEPT !.finished = TRUE]
       /\ left' = left \cup {conn}
       /\ to_client' = [to_client EXCEPT ![conn] = <<>>]
       /\ \E pipe \in Resets(r.in, r.out) : to_server' = [to_server EXCEPT ![conn] = pipe]
  /\ UNCHANGED <<phase, conn, results>>
  /\ ClientOthers

client_throws ==
  /\ \E r \in ClientSteps :
       /\ r.what \in {"network_error", "exception"}
       /\ EndCall(Threw(r.what, 0), ClientNow(r), r.in, r.out)
  /\ ClientOthers

(* handle_events() returns false: nothing is registered, or nothing        *)
(* happens for as long as the options allow.  Of a descriptor that is      *)
(* closed poll() reports something at once, and no handler is called: the  *)
(* loop goes on for ever, which is no step here (Spinning).                *)
Client_timeout ==
  /\ phase = "events"
  /\ \/ client.ssl.mask = {}
     \/ opts.timeout /\ ~client.finished /\ ~ClientReady
  /\ EndCall(Threw("timeout", 0), client, to_client[conn], to_server[conn])
  /\ ClientOthers

-----------------------------------------------------------------------------
(* The server's end. *)

ServerSteps(c) ==
  IF Open(c) /\ Ready(server[c].ssl.mask, to_server[c], to_client[c], c \notin left)
  THEN switch_state(server[c].ssl, to_server[c], to_client[c], c \notin left)
  ELSE {}

ServerOthers == UNCHANGED clientVars

ServerNow(c, r) == [server[c] EXCEPT !.ssl = r.conn]
Serve(c, new, r) ==
  /\ server' = [server EXCEPT ![c] = new]
  /\ to_server' = [to_server EXCEPT ![c] = r.in]
  /\ to_client' = [to_client EXCEPT ![c] = r.out]

(* Mutant: the connection is left as it is. *)
Delete_forgotten(c, r) == Serve(c, ServerNow(c, r), r)

(* finish() deletes the connection. *)
Delete(c, r) ==
  /\ server' = [server EXCEPT ![c] = [Accepted EXCEPT !.open = FALSE,
                                        !.ssl = Reaction_connection("server")]]
  /\ to_server' = [to_server EXCEPT ![c] = <<>>]
  /\ \E pipe \in Resets(r.in, r.out) : to_client' = [to_client EXCEPT ![c] = pipe]

(* Mutant: the reactor is not told of it. *)
schedule_response_unregistered(s, code, content) ==
  [s EXCEPT !.ssl.state = "WRITING", !.ssl.buf = 1,
            !.ssl.send_buf = dump(code, set_conn_keep_alive(Header, s.keep_alive), content)]

(* Of one response at a time; its buffer is kept until it is sent. *)
schedule_response(s, code, content) ==
  [s EXCEPT !.ssl = reg_send(@, dump(code, set_conn_keep_alive(Header, s.keep_alive), content), 1)]

(* A request goes to a thread of the pool: no event is registered until it *)
(* has been run.                                                           *)
schedule_execute(s, content) ==
  IF RequestOf(content) = {} THEN schedule_response(s, 200, ResponseContent(Fault))
  ELSE [s EXCEPT !.executing = RequestOf(content)]

recv_succeed(c) ==
  /\ \E r \in ServerSteps(c) :
     \E read \in {read_packet(server[c].preader, r.text, max_request_sz, HTTP_CHECK_WEAK)} :
       LET s == [ServerNow(c, r) EXCEPT !.preader = read.reader]
           packet == read.outcome
       IN  /\ r.what = "recv_succeed"
           /\ Serve(c, CASE packet.is = "packet" ->
                              schedule_execute(
                                [s EXCEPT !.keep_alive = conn_keep_alive(packet.header.options)],
                                packet.content)
                         [] packet.is = "error" ->
                              schedule_response([s EXCEPT !.keep_alive = FALSE], packet.code, <<>>)
                         [] OTHER -> [s EXCEPT !.ssl = reg_recv(@)], r)
  /\ ServerOthers /\ UNCHANGED executed

accept_succeed(c) ==
  /\ \E r \in ServerSteps(c) :
       /\ r.what = "accept_succeed"
       /\ Serve(c, [ServerNow(c, r) EXCEPT !.ssl = reg_recv(@)], r)
  /\ ServerOthers /\ UNCHANGED executed

(* Mutant: what the header said of the connection is forgotten. *)
send_succeed_closing(c) ==
  /\ \E r \in ServerSteps(c) :
       /\ r.what = "send_succeed"
       /\ Serve(c, [ServerNow(c, r) EXCEPT !.ssl = reg_shutdown(@)], r)
  /\ ServerOthers /\ UNCHANGED executed

(* A connection that is not kept ends with the alert. *)
send_succeed(c) ==
  /\ \E r \in ServerSteps(c) :
       LET s == ServerNow(c, r)
       IN  /\ r.what = "send_succeed"
           /\ IF s.keep_alive THEN Serve(c, [s EXCEPT !.ssl = reg_recv(@)], r)
              ELSE IF shutdown_performed(s.ssl) THEN Delete(c, r)
              ELSE Serve(c, [s EXCEPT !.ssl = reg_shutdown(@)], r)
  /\ ServerOthers /\ UNCHANGED executed

server_waits(c) ==
  /\ \E r \in ServerSteps(c) : r.what = "again" /\ Serve(c, ServerNow(c, r), r)
  /\ ServerOthers /\ UNCHANGED executed

(* The handler asks for it, or throws: the connection is deleted. *)
server_terminates(c) ==
  /\ \E r \in ServerSteps(c) :
       r.what \in {"terminate", "network_error", "exception"} /\ Delete(c, r)
  /\ ServerOthers /\ UNCHANGED executed

(* A thread of the pool runs the method and schedules its response. *)
process_actual_execution(c) ==
  /\ \E req \in server[c].executing :
       /\ executed' = Append(executed, req)
       /\ server' = [server EXCEPT ![c] =
            schedule_response([@ EXCEPT !.executing = {}], 200, ResponseContent(Run(req)))]
  /\ ServerOthers /\ UNCHANGED <<to_server, to_client>>

-----------------------------------------------------------------------------
Client ==
  \/ execute_on_new
  \/ execute_on_kept
  \/ connect_succeed
  \/ client_send_succeed
  \/ client_recv_succeed
  \/ client_waits
  \/ client_terminates
  \/ client_throws
  \/ Client_timeout

Server(c) ==
  \/ accept_succeed(c)
  \/ recv_succeed(c)
  \/ send_succeed(c)
  \/ server_waits(c)
  \/ server_terminates(c)
  \/ process_actual_execution(c)

Next ==
  \/ Client
  \/ \E c \in Conns : Server(c)

Spec == Init /\ [][Next]_vars

(* The client's thread and the server's go on while there is something for *)
(* them to do.                                                             *)
FairSpec ==
  /\ Spec
  /\ WF_vars(Client)
  /\ \A c \in 1 .. MaxCalls : WF_vars(c \in Conns /\ Server(c))

-----------------------------------------------------------------------------
(* The state, mask and object of a connection go together. *)
TypeOK ==
  /\ opts \in Sessions
  /\ phase \in {"idle", "events"} /\ (conn = 0 => phase = "idle")
  /\ conn \in 0 .. Len(server) /\ left \subseteq Conns
  /\ client.ssl.state \in States /\ client.ssl.mask \subseteq {"INPUT", "OUTPUT"}
  /\ client.finished => conn \in left
  /\ \A c \in Conns :
       /\ server[c].ssl.state \in States /\ server[c].ssl.mask \subseteq {"INPUT", "OUTPUT"}
       /\ Len(to_client[c]) <= Room + 1 /\ Len(to_server[c]) <= Room + 1
       /\ Cardinality(server[c].executing) <= 1

(* A call that leaves its connection with something under way. *)
Reused(n) == opts.keep_alive /\ \E m \in 1 .. n - 1 :
  results[m].is = "exception" /\ results[m].what # "http"

(* What the server may read as call n's request: itself, or, where the     *)
(* string of an earlier call's write has been replaced, one that begins as *)
(* that call's and goes on as this one's.                                  *)
Splice(m, n, k) ==
  [i \in DOMAIN RequestContent(opts.requests[m]) |->
     IF i <= k THEN RequestContent(opts.requests[m])[i] ELSE RequestContent(opts.requests[n])[i]]

MayBeRead(n) ==
  {opts.requests[n]} \cup
  {req \in Requests : Reused(n) /\ \E m \in 1 .. n - 1 :
     \E k \in DOMAIN RequestContent(opts.requests[m]) :
       /\ Len(RequestContent(opts.requests[m])) <= Len(RequestContent(opts.requests[n]))
       /\ RequestContent(req) = Splice(m, n, k)}

(* However a packet is cut into records and a write is interrupted: a      *)
(* response that execute() returns is whole and the one to its own         *)
(* request, and its method ran once; but on a connection kept from a call  *)
(* that left something under way, it may be the late one to an earlier     *)
(* call, or to a request spliced from two, and even so the responses come  *)
(* in the order of the calls and none comes twice                          *)
(* (Https_client_connection::do_process_session,                           *)
(* Https_server_connection, Packet_reader, Reaction_connection::send).     *)
AnswerIsOwn ==
  LET Responded == {n \in DOMAIN results : results[n].is # "exception"}
  IN  /\ \E f \in [DOMAIN results -> 1 .. call] :
           /\ \A n \in Responded :
                /\ f[n] <= n /\ (f[n] = n \/ Reused(n))
                /\ \/ Reused(n) /\ results[n] = Fault
                   \/ \E req \in MayBeRead(f[n]) :
                        results[n] = Run(req) /\ \E i \in DOMAIN executed : executed[i] = req
           /\ \A m, n \in Responded : m < n => f[m] < f[n]
      /\ Len(executed) <= call

(* Each connection of the server has been deleted, or a thread runs its    *)
(* method and no event reaches it, or it waits for an event; and when that *)
(* has not happened, the call of OpenSSL it is in could not go on either:  *)
(* none is forgotten (Reaction_connection::switch_state and the members    *)
(* that register).                                                         *)
Needs(c) ==
  {IF o.what = "need_read" THEN "INPUT" ELSE "OUTPUT" :
     o \in Call(server[c].ssl, End(server[c].ssl.ssl, to_server[c], to_client[c], c \notin left))}

NeverForgotten ==
  \A c \in Conns : Open(c) =>
    LET s == server[c].ssl
    IN  IF server[c].executing # {} THEN s.mask = {} /\ s.state = "EMPTY"
        ELSE /\ s.mask # {} /\ s.state # "EMPTY"
             /\ Ready(s.mask, to_server[c], to_client[c], c \notin left) \/ Needs(c) = s.mask

Large(req) == max_request_sz # 0 /\ 3 + Len(RequestContent(req)) >= max_request_sz

(* A call fails for a cause.  The server refuses the request with 413 if   *)
(* it is too large, or an earlier one on a kept connection was; only that, *)
(* or a timeout that is set, comes to Client_timeout, which is also thrown *)
(* where a connection has been closed; and nothing else is thrown but for  *)
(* such a request, or by a call on a connection that an earlier one, which *)
(* was timed out, has left in the middle of a write.                       *)
FailsForCause ==
  \A n \in DOMAIN results : results[n].is = "exception" =>
    LET what == results[n].what
        tooLarge == \E m \in 1 .. n : (m = n \/ opts.keep_alive) /\ Large(opts.requests[m])
    IN  /\ \/ tooLarge
           \/ opts.timeout /\ (what = "timeout" \/ Reused(n))
        /\ what = "http" => \/ tooLarge /\ results[n].code = 413
                            \/ Reused(n) /\ results[n].code = 400

(* The loop of do_process_session on a connection that has been finished:  *)
(* poll() reports its closed descriptor, no handler is called and no       *)
(* timeout is met.                                                         *)
Spinning == phase = "events" /\ client.finished /\ client.ssl.mask # {}

(* Every call returns or throws, but for that loop, which only a client    *)
(* meets that keeps the connection of a request that was too large.        *)
CallsEnd ==
  \A n \in 1 .. MaxCalls : n <= Len(opts.requests) ~>
    \/ n <= Len(results)
    \/ Spinning /\ opts.keep_alive /\ \E m \in DOMAIN results : Large(opts.requests[m])

(* The server deletes every connection that the client has closed, in      *)
(* whatever state the two were (handlers of Https_server_connection).      *)
Leaked(c) == c \in left /\ Open(c)
LeftAreDeleted == \A c \in 1 .. MaxCalls : Leaked(c) ~> ~Leaked(c)
=============================================================================
