------------------------------ MODULE HttpCall ------------------------------
(***************************************************************************)
(* Remote calls over HTTP: a Client object that executes one call after    *)
(* the other, and the connections that serve it, with the bytes between    *)
(* them.  How the server's threads share the work is ServerLoop's matter:  *)
(* here each connection goes its own way.                                  *)
(***************************************************************************)
EXTENDS FiniteSets, PacketReader, Dispatch

CONSTANTS
  Sessions,           \* what a Client may be told and asked, and of which server
  max_request_sz,     \* the server's limit for a packet, 0 for none
  read_buf_sz,        \* of either side
  Room,               \* symbols under way in either direction
  MaxCalls,           \* bound: calls of a session
  ResponseContent(_), \* the content of a response's packet
  ParseResponse(_),   \* what it is read as: an "exception" if at all
  Expressible(_)      \* requests and responses that a document can carry

(* Credentials are bytes; a Server has one plugin at most, and the names   *)
(* that are known to it are not empty (Method::authenticated takes such a  *)
(* name for none) and have no colon (Authorization takes the first for the *)
(* end of the name). What an interceptor stops a method with is thrown.    *)
ASSUME HttpCallAssumption ==
  /\ \A s \in Sessions :
       /\ s.client.keep_alive \in BOOLEAN /\ s.client.timeout \in BOOLEAN
       /\ s.client.requests \in Seq(Requests) /\ Len(s.client.requests) \in 1 .. MaxCalls
       /\ IsText(s.client.authinfo) /\ Len(s.client.authinfo) = Len(s.client.requests)
       /\ s.server.executor \in {"pool", "serial"} /\ s.server.ver_level \in Levels
       /\ IsText(s.server.dispatchers) /\ IsText(s.server.pushed)
       /\ s.server.interceptors = Chain(s.server.pushed)
       /\ \A i \in DOMAIN s.server.pushed : s.server.pushed[i].throws.is = "raised"
       /\ \A i \in DOMAIN s.client.authinfo :
            LET info == s.client.authinfo[i] IN info.user \in Seq(Byte) /\ info.passwd \in Seq(Byte)
       /\ \A ap, other \in s.server.auth_plugin : ap = other
       /\ \A ap \in s.server.auth_plugin : \A info \in ap.users :
            /\ info \in [user : Seq(Byte), passwd : Seq(Byte)]
            /\ info.user # Anonymous /\ Colon \notin Range(info.user)
  /\ max_request_sz \in Nat /\ read_buf_sz \in Nat \ {0} /\ Room \in Nat \ {0}

(* All that a server may answer, whoever asks.                             *)
Read == Range(Documents) \cup {Parse_error}
Understood == {req \in Read : req.is # "exception"}
Rejected == {req \in Read : req.is = "exception"}
Answers(setup_) ==
  {Responds(FaultOf(code)) : code \in {req.code : req \in Rejected} \cup {-32601}}
  \cup UNION {{response_of(setup_, process_execution(setup_, method, req).outcome) :
                 method \in create_method(setup_.dispatchers, req.name)} : req \in Understood}

(* A content is a text; that of a request has no lines of a header. What a *)
(* document can carry is read as what was written, and nothing is read of  *)
(* what it cannot. An HTTP error is not "200 OK".                          *)
ASSUME ContentsAssumption ==
  /\ \A req \in Requests :
       /\ IsText(RequestContent(req))
       /\ \A i \in DOMAIN RequestContent(req) : RequestContent(req)[i].is # "head"
       /\ LET read == ParseRequest(RequestContent(req))
          IN  IF Expressible(req) THEN read = req /\ read.is # "exception"
              ELSE read.is = "exception" /\ read.code = -32600
  /\ \A setup_ \in {s.server : s \in Sessions} : \A answer \in Answers(setup_) :
       /\ answer.is = "refuses" => answer.code # 200
       /\ answer.is = "responds" =>
            LET read == ParseResponse(ResponseContent(answer.resp))
            IN  /\ IsText(ResponseContent(answer.resp))
                /\ IF Expressible(answer.resp) THEN read = answer.resp /\ read.is # "exception"
                   ELSE read.is = "exception"

VARIABLES
  opts,      \* Client_options and the calls to come, each with its authinfo
  setup,     \* what the Server was set up with before work()
  phase,     \* of the client: "idle", "events" in the loop around
             \* handle_events(), "receiving" in that of handle_input()
  conn,      \* its connection, 0 for none
  mask,      \* what the connection is registered for
  out_str,
  preader,
  results,   \* what each call has come to
  to_server, to_client,   \* under way, by connection
  left,      \* connections the client has closed
  server,    \* the server's end of each connection
  executed   \* the runs of methods

clientVars == <<opts, setup, phase, conn, mask, out_str, preader, results, left>>
vars == <<clientVars, to_server, to_client, server, executed>>

Calls == 1 .. Len(opts.requests)
Conns == DOMAIN server
Open(c) == server[c].open

(* The call being executed, or the last one. *)
call == Len(results) + (IF phase = "idle" THEN 0 ELSE 1)

(* Server_connection, when it has been accepted. *)
Accepted ==
  [open |-> TRUE, mask |-> {"INPUT"}, preader |-> NewReader, keep_alive |-> FALSE,
   response |-> <<>>, executing |-> {}]

Init ==
  /\ \E s \in Sessions : opts = s.client /\ setup = s.server
  /\ phase = "idle" /\ conn = 0 /\ mask = {} /\ out_str = <<>> /\ preader = NewReader
  /\ results = <<>>
  /\ to_server = <<>> /\ to_client = <<>> /\ left = {}
  /\ server = <<>> /\ executed = <<>>

-----------------------------------------------------------------------------
(* The client. *)

Threw_(what, code) == [is |-> "exception", what |-> what, code |-> code]

(* The header of a request, for each authinfo there is. *)
request_header ==
  [info \in UNION {Range(s.client.authinfo) : s \in Sessions} |->
     IF info.user = <<>> THEN Header ELSE set_authinfo(Header, info.user, info.passwd)]

request_packet ==
  LET n == Len(results) + 1
  IN  dump(0, set_conn_keep_alive(request_header[opts.authinfo[n]], opts.keep_alive),
           RequestContent(opts.requests[n]))

(* Client_base::execute, up to the loop: with Auto_conn, a new connection  *)
(* for each call, or one that is kept.                                     *)
StartCall ==
  /\ out_str' = request_packet
  /\ mask' = mask \cup {"OUTPUT"}
  /\ phase' = "events"
  /\ UNCHANGED <<opts, setup, results, left, executed>>

execute_on_new ==
  /\ phase = "idle" /\ Len(results) < Len(opts.requests) /\ conn = 0
  /\ conn' = Len(server) + 1
  /\ server' = Append(server, Accepted)
  /\ to_server' = Append(to_server, <<>>)
  /\ to_client' = Append(to_client, <<>>)
  /\ preader' = NewReader
  /\ StartCall

execute_on_kept ==
  /\ phase = "idle" /\ Len(results) < Len(opts.requests) /\ conn # 0
  /\ UNCHANGED <<conn, server, to_server, to_client, preader>>
  /\ StartCall

(* There is no server: connect() throws. *)
connect_fails ==
  /\ phase = "idle" /\ Len(results) < Len(opts.requests) /\ conn = 0
  /\ results' = Append(results, Threw_("connect", 0))
  /\ UNCHANGED <<opts, setup, phase, conn, mask, out_str, preader, left, to_server,
                 to_client, server, executed>>

(* Mutant: the connection is kept whatever the options say. *)
keep_always(result, events, pipes) ==
  /\ results' = Append(results, result)
  /\ phase' = "idle"
  /\ mask' = events
  /\ to_client' = pipes
  /\ UNCHANGED <<conn, left>>

(* Mutant: a connection that is closed stays registered. *)
stays_registered(result, events, pipes) ==
  /\ results' = Append(results, result)
  /\ phase' = "idle"
  /\ mask' = events
  /\ to_client' = pipes
  /\ IF opts.keep_alive THEN UNCHANGED <<conn, left>>
     ELSE conn' = 0 /\ left' = left \cup {conn}

(* execute() returns or throws. A connection that is not kept is closed;   *)
(* what had come on it and was not read resets it (handle_input_closed).   *)
EndCall(result, events, pipes) ==
  /\ results' = Append(results, result)
  /\ phase' = "idle"
  /\ to_client' = pipes
  /\ IF opts.keep_alive THEN mask' = events /\ UNCHANGED <<conn, left>>
     ELSE mask' = {} /\ conn' = 0 /\ left' = left \cup {conn}

(* send() takes some of what there is.                                     *)
Sent(pipe, text, k) == pipe \o SubSeq(text, 1, k)
Rest(text, k) == SubSeq(text, k + 1, Len(text))

(* Mutant: reading does not follow the last writing. *)
write_on(k) == IF k = Len(out_str) THEN {} ELSE mask

AfterOutput(k) == IF k = Len(out_str) THEN {"INPUT"} ELSE mask

(* What a closed end is sent is lost, and resets the connection: what had  *)
(* come from there and was not read may be lost with it.                   *)
client_handle_output ==
  /\ phase = "events" /\ "OUTPUT" \in mask
  /\ \E k \in 1 .. Len(out_str) :
       /\ out_str' = Rest(out_str, k)
       /\ mask' = AfterOutput(k)
       /\ IF Open(conn)
          THEN /\ Len(to_server[conn]) + k <= Room
               /\ to_server' = [to_server EXCEPT ![conn] = Sent(@, out_str, k)]
               /\ UNCHANGED to_client
          ELSE /\ to_client' \in {to_client, [to_client EXCEPT ![conn] = <<>>]}
               /\ UNCHANGED to_server
  /\ UNCHANGED <<opts, setup, phase, conn, preader, results, left, server, executed>>

output_fails ==
  /\ phase = "events" /\ "OUTPUT" \in mask /\ ~Open(conn)
  /\ EndCall(Threw_("network", 0), mask, to_client)
  /\ UNCHANGED <<opts, setup, out_str, preader, to_server, server, executed>>

(* process_session, when the packet is there. *)
Returned(packet) ==
  IF packet.header.code # 200 THEN Threw_("http", packet.header.code)
  ELSE LET resp == ParseResponse(packet.content)
       IN  IF resp.is = "exception" THEN Threw_("xml", resp.code) ELSE resp

(* One round of the loop in handle_input(). It goes on when the buffer was *)
(* filled; an error leaves the connection registered as it was. Nobody sets *)
(* the level of the client's reader.                                       *)
client_handle_input ==
  /\ phase \in {"events", "receiving"} /\ "INPUT" \in mask
  /\ \E k \in 1 .. Len(to_client[conn]) :
     \E ver_level \in Levels :
     \E read \in {read_packet(preader, SubSeq(to_client[conn], 1, k), 0, ver_level)} :
       LET rest == [to_client EXCEPT ![conn] = Rest(@, k)]
       IN  /\ k <= read_buf_sz
           /\ preader' = read.reader
           /\ CASE read.outcome.is = "packet" ->
                     EndCall(Returned(read.outcome), {}, rest)
                [] read.outcome.is = "error" ->
                     EndCall(Threw_("malformed", 0), mask, rest)
                [] OTHER ->
                     /\ phase' = IF k = read_buf_sz THEN "receiving" ELSE "events"
                     /\ to_client' = rest
                     /\ UNCHANGED <<conn, mask, results, left>>
  /\ UNCHANGED <<opts, setup, out_str, to_server, server, executed>>

(* recv() returns nothing, or throws: the server has closed the            *)
(* connection, or the buffer was filled and nothing more has come, which a *)
(* socket that does not block takes for an error.                          *)
input_fails ==
  /\ phase \in {"events", "receiving"} /\ "INPUT" \in mask
  /\ to_client[conn] = <<>>
  /\ \/ ~Open(conn)
     \/ phase = "receiving" /\ opts.timeout
  /\ EndCall(Threw_("network", 0), mask, to_client)
  /\ UNCHANGED <<opts, setup, out_str, preader, to_server, server, executed>>

Ready(c) ==
  \/ "OUTPUT" \in mask /\ (~Open(c) \/ Len(to_server[c]) < Room)
  \/ "INPUT" \in mask /\ (~Open(c) \/ to_client[c] # <<>>)

(* Nothing happens for as long as the options allow. *)
Client_timeout ==
  /\ phase = "events" /\ opts.timeout /\ ~Ready(conn)
  /\ EndCall(Threw_("timeout", 0), mask, to_client)
  /\ UNCHANGED <<opts, setup, out_str, preader, to_server, server, executed>>

-----------------------------------------------------------------------------
(* The server's end. *)

serverOthers == <<opts, setup, phase, conn, mask, out_str, preader, results, left>>

(* The destructor of the connection; to the client it is the end of the    *)
(* stream, or an error that takes what is under way with it if something   *)
(* had come that was not read.                                             *)
Close(c) ==
  /\ server' = [server EXCEPT ![c] = [Accepted EXCEPT !.open = FALSE, !.mask = {}]]
  /\ to_server' = [to_server EXCEPT ![c] = <<>>]

Lost(c, pipes) == IF to_server[c] # <<>> THEN {pipes, [pipes EXCEPT ![c] = <<>>]} ELSE {pipes}

RespondWith(conn_, code, content) ==
  [conn_ EXCEPT !.mask = {"OUTPUT"}, !.executing = {},
                !.response = dump(code, set_conn_keep_alive(Header, conn_.keep_alive), content)]

(* What is answered at once, or has been executed; an HTTP error that      *)
(* comes from here leaves the connection open.                             *)
schedule_response(conn_, answer) ==
  IF answer.is = "refuses" THEN RespondWith(conn_, answer.code, <<>>)
  ELSE RespondWith(conn_, 200, ResponseContent(answer.resp))

(* What becomes of a connection, and the runs of methods that belong to it. *)
Becomes(conn_, runs) == [conn |-> conn_, runs |-> runs]

Executed(conn_, task) ==
  LET run == process_execution(setup, task.method, task.req)
      answer == response_of(setup, run.outcome)
  IN  Becomes(schedule_response(conn_, answer),
              IF run.ran
              THEN <<[request |-> task.req, method |-> task.method, authname |-> task.authname,
                      through |-> run.through]>>
              ELSE <<>>)

(* The executor is created for what is to be executed: a thread of the     *)
(* pool will take it, or it is done on the spot.                           *)
handle_request(conn_, task) ==
  IF task.is # "executes" THEN Becomes(schedule_response(conn_, task), <<>>)
  ELSE IF setup.executor = "pool"
  THEN Becomes([conn_ EXCEPT !.mask = {}, !.executing = {task}], <<>>)
  ELSE Executed(conn_, task)

(* An HTTP error is answered, and input still waited for. *)
handle_error(conn_, code) ==
  [conn_ EXCEPT !.keep_alive = FALSE, !.response = dump(code, Header, <<>>),
                !.mask = @ \cup {"OUTPUT"}]

(* What is to be done about the outcome of a read, and what becomes of the *)
(* connection.                                                             *)
Asked(outcome) ==
  IF outcome.is = "packet" THEN schedule_execute(setup, outcome) ELSE outcome

Handled(conn_, outcome, task) ==
  CASE outcome.is = "incomplete" -> Becomes(conn_, <<>>)
    [] outcome.is = "error" -> Becomes(handle_error(conn_, outcome.code), <<>>)
    [] outcome.is = "packet" ->
         handle_request([conn_ EXCEPT !.keep_alive = conn_keep_alive(outcome.header.options)], task)

handle_input(c) ==
  /\ Open(c) /\ "INPUT" \in server[c].mask
  /\ \E k \in 1 .. Len(to_server[c]) :
     \E read \in {read_packet(server[c].preader, SubSeq(to_server[c], 1, k), max_request_sz,
                                setup.ver_level)} :
     \E task \in {Asked(read.outcome)}, conn_ \in {[server[c] EXCEPT !.preader = read.reader]} :
     \E becomes \in {Handled(conn_, read.outcome, task)} :
       /\ k <= read_buf_sz
       /\ to_server' = [to_server EXCEPT ![c] = Rest(@, k)]
       /\ server' = [server EXCEPT ![c] = becomes.conn]
       /\ executed' = executed \o becomes.runs
  /\ UNCHANGED <<serverOthers, to_client>>

(* The client has closed the connection.  If it had not read everything,   *)
(* what had come from it and is not read yet is lost.                      *)
handle_input_closed(c) ==
  /\ Open(c) /\ "INPUT" \in server[c].mask
  /\ c \in left /\ (to_server[c] = <<>> \/ to_client[c] # <<>>)
  /\ Close(c)
  /\ UNCHANGED <<serverOthers, to_client, executed>>

(* A thread of the pool runs the method and schedules its response. *)
process_actual_execution(c) ==
  /\ \E task \in server[c].executing :
     \E becomes \in {Executed(server[c], task)} :
       /\ executed' = executed \o becomes.runs
       /\ server' = [server EXCEPT ![c] = becomes.conn]
  /\ UNCHANGED <<serverOthers, to_server, to_client>>

handle_output(c) ==
  /\ Open(c) /\ "OUTPUT" \in server[c].mask
  /\ \E k \in 1 .. Len(server[c].response) :
       LET sent == IF c \in left THEN to_client
                   ELSE [to_client EXCEPT ![c] = Sent(@, server[c].response, k)]
       IN  /\ Len(sent[c]) <= Room
           /\ IF k < Len(server[c].response)
              THEN /\ server' = [server EXCEPT ![c].response = Rest(@, k)]
                   /\ to_client' = sent /\ UNCHANGED to_server
              ELSE IF server[c].keep_alive
              THEN /\ server' = [server EXCEPT ![c] = [@ EXCEPT !.response = <<>>, !.mask = {"INPUT"}]]
                   /\ to_client' = sent /\ UNCHANGED to_server
              ELSE Close(c) /\ to_client' \in Lost(c, sent)
  /\ UNCHANGED <<serverOthers, executed>>

handle_output_fails(c) ==
  /\ Open(c) /\ "OUTPUT" \in server[c].mask /\ c \in left
  /\ Close(c)
  /\ UNCHANGED <<serverOthers, to_client, executed>>

-----------------------------------------------------------------------------
Client ==
  \/ execute_on_new
  \/ execute_on_kept
  \/ client_handle_output
  \/ output_fails
  \/ client_handle_input
  \/ input_fails
  \/ Client_timeout

Serve(c) ==
  \/ handle_input(c)
  \/ handle_input_closed(c)
  \/ process_actual_execution(c)
  \/ handle_output(c)
  \/ handle_output_fails(c)

Next ==
  \/ Client
  \/ connect_fails
  \/ \E c \in Conns : Serve(c)

Spec == Init /\ [][Next]_vars

(* The client's thread and the server's go on while there is something for *)
(* them to do; accept() may refuse.                                        *)
FairSpec ==
  /\ Spec
  /\ WF_vars(Client \/ \E c \in Conns : Serve(c))

-----------------------------------------------------------------------------
(* A mask and a phase go together with the connection there is; and no     *)
(* connection stores more of a packet than the server allows.              *)
TypeOK ==
  /\ \E s \in Sessions : opts = s.client /\ setup = s.server
  /\ phase \in {"idle", "events", "receiving"}
  /\ conn \in 0 .. Len(server)
  /\ mask \subseteq {"INPUT", "OUTPUT"}
  /\ conn = 0 => phase = "idle" /\ mask = {}
  /\ phase = "receiving" => out_str = <<>> \/ opts.keep_alive
  /\ left \subseteq Conns
  /\ Len(to_server) = Len(server) /\ Len(to_client) = Len(server)
  /\ \A c \in Conns : /\ server[c].mask \subseteq {"INPUT", "OUTPUT"}
                       /\ Len(to_server[c]) <= Room /\ Len(to_client[c]) <= Room
                       /\ Cardinality(server[c].executing) <= 1
                       /\ max_request_sz # 0 =>
                            Len(server[c].preader.header_cache)
                            + Len(server[c].preader.content_cache) < max_request_sz

(* Exceptions that leave a connection in the middle of a packet. *)
Midway == {"timeout", "network", "malformed"}

(* The connection of call n was left so by an earlier call. *)
Reused(n) ==
  opts.keep_alive /\ \E m \in 1 .. n - 1 : results[m].is = "exception" /\ results[m].what \in Midway

(* The text that authorises call n, and those that do. *)
Credentials(info) == info.user \o <<Colon>> \o info.passwd

Authorised(n) ==
  \A ap \in setup.auth_plugin :
    IF opts.authinfo[n].user = <<>> THEN ap.anonymous
    ELSE \E info \in ap.users : Credentials(info) = Credentials(opts.authinfo[n])

(* What an interceptor or the method itself comes to for a request. *)
Outcome(req) ==
  process_execution(setup, CHOOSE m \in create_method(setup.dispatchers, req.name) : TRUE, req).outcome

(* What call n is answered with, and what once it is let in. *)
Granted(n) ==
  LET req == opts.requests[n]
  IN  IF ~Expressible(req) THEN Responds(FaultOf(-32600))
      ELSE IF \A d \in DOMAIN setup.dispatchers : req.name \notin DOMAIN setup.dispatchers[d]
      THEN Responds(FaultOf(-32601))
      ELSE response_of(setup, Outcome(req))

Answer(n) == IF Authorised(n) THEN Granted(n) ELSE Refuses(401)

(* The fault of a document that is none. *)
NoDocument == Responds(FaultOf(-32700))

(* What call n may hear for call m: its answer; but over a connection that *)
(* was left in the middle of a packet, the content of m may have come      *)
(* behind another call's header, or be the halves of two.                  *)
MayHear(n, m) ==
  {Answer(m)} \cup
  IF ~Reused(n) THEN {}
  ELSE {NoDocument} \cup {Granted(m) : h \in {h \in m .. n : Authorised(h)}}

(* However the bytes are cut, and whatever the connection was used for     *)
(* before: a response that execute() returns is the one to its own         *)
(* request; but on a connection kept from a call that left it in the       *)
(* middle of a packet, it may be the late one to an earlier call, or the   *)
(* fault of what the halves of two packets come to, and nothing else; and  *)
(* even so the responses come in the order of the calls, and none twice    *)
(* (Client_connection::process_session, Packet_reader).                    *)
AnswerIsOwn ==
  LET Responded == {n \in DOMAIN results : results[n].is # "exception"}
  IN  \E f \in [DOMAIN results -> DOMAIN results] :
        /\ \A n \in Responded :
             /\ f[n] = n \/ (f[n] < n /\ Reused(n))
             /\ Responds(results[n]) \in MayHear(n, f[n])
        /\ \A m, n \in Responded : m < n => f[m] < f[n]

(* The run is the one call n asked for, under the name the plugin knows    *)
(* for call h, of the first method of its name, and past all interceptors: *)
(* none of them stops it, and the one that was pushed last has been called *)
(* first.                                                                  *)
IsRunOf(run, n, h) ==
  /\ run.request = opts.requests[n]
  /\ Authorised(h)
  /\ run.authname # Anonymous =>
       \E ap \in setup.auth_plugin : \E info \in ap.users :
         info.user = run.authname /\ Credentials(info) = Credentials(opts.authinfo[h])
  /\ run.authname = Anonymous => setup.auth_plugin = {} \/ opts.authinfo[h].user = <<>>
  /\ \E d \in DOMAIN setup.dispatchers :
       /\ run.request.name \in DOMAIN setup.dispatchers[d]
       /\ run.method = setup.dispatchers[d][run.request.name]
       /\ \A e \in 1 .. d - 1 : run.request.name \notin DOMAIN setup.dispatchers[e]
  /\ run.through = [i \in DOMAIN setup.pushed |-> setup.pushed[Len(setup.pushed) + 1 - i].name]
  /\ \A i \in DOMAIN setup.pushed : run.request.name \notin setup.pushed[i].stops

(* A method runs for requests as they were asked, each once and in the     *)
(* order of the calls; with no answer without its run.  A client that gave *)
(* up a call may be ahead of the server, and on a connection that it kept  *)
(* the content of an earlier call may have come behind the header of a     *)
(* later one, and its run be under that one's name                         *)
(* (Server::schedule_execute).                                             *)
ExecutedAsSent ==
  /\ \E f, g \in [DOMAIN executed -> 1 .. call] :
       /\ \A i \in DOMAIN executed :
            /\ IsRunOf(executed[i], f[i], g[i])
            /\ f[i] = g[i] \/ (f[i] < g[i] /\ Reused(g[i]))
       /\ \A i, j \in DOMAIN executed :
            i < j => IF opts.timeout THEN f[i] # f[j] ELSE f[i] < f[j]
  /\ \A n \in DOMAIN results :
       results[n].is = "value" =>
         \E i \in DOMAIN executed : execute(setup, executed[i].method, executed[i].request) = results[n]

PacketSize(content) == 3 + Len(content)
Large(req) == max_request_sz # 0 /\ PacketSize(RequestContent(req)) >= max_request_sz

(* Credentials whose base64 does not fit a line. *)
Broken_(info) == info.user # <<>> /\ 4 * ((Len(Credentials(info)) + 2) \div 3) > chars_in_line

(* An exception of execute() has its cause in this call: the request is    *)
(* too large, its credentials are too long or not known, its response      *)
(* cannot be written down, or a timeout is set; or in an earlier one, when *)
(* the connection was that of such a request, was closed for it and has    *)
(* been kept, or was left in the middle of a packet.                       *)
FailsForCause ==
  \A n \in DOMAIN results : results[n].is = "exception" =>
    LET what == results[n].what
        code == results[n].code
        Earlier == {m \in 1 .. n : m = n \/ opts.keep_alive}
        Heard == {m \in 1 .. n : m = n \/ Reused(n)}
        tooLarge == \E m \in Earlier : Large(opts.requests[m])
        broken == \E m \in Earlier : Broken_(opts.authinfo[m])
    IN  /\ what = "http" => \/ code = 413 /\ (tooLarge \/ Reused(n))
                            \/ code = 400 /\ (broken \/ Reused(n))
                            \/ \E m \in Heard : Refuses(code) \in MayHear(n, m)
        /\ what = "malformed" => tooLarge \/ broken \/ Reused(n)
        /\ what = "network" => tooLarge \/ broken \/ opts.timeout
        /\ what = "xml" => \E m \in Heard : \E a \in MayHear(n, m) : ~Expressible(a.resp)
        /\ what = "timeout" => opts.timeout

(* Every call of a session returns or throws, timeouts or not.             *)
CallsEnd == <>(Len(results) = Len(opts.requests))
=============================================================================
