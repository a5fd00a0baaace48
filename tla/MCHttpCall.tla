----------------------------- MODULE MCHttpCall -----------------------------
(***************************************************************************)
(* HttpCall with the documents of XmlRpc: the calls of the program, one    *)
(* that is too large, one of no method, and one that gives back its        *)
(* parameter, for each of a set of values.                                 *)
(***************************************************************************)
EXTENDS HttpCall, XmlRpc

ConnTest == Request("ServerMethodConnTest", <<String("")>>)
Compute == Request("ServerMethodCompute",
  <<Array(<<String("1"), String("2"), String("ADD")>>), Struct("id" :> String("t1"))>>)
StatusOf == Request("ServerMethodStatus", <<Struct("id" :> String("t1"))>>)
TooLong == Request("ServerMethodConnTest", <<String("long")>>)
MuchTooLong == Request("ServerMethodConnTest", <<String("longer")>>)
Unknown == Request("Other", <<>>)
Nameless == Request("", <<>>)
Echo(v) == Request("echo", <<v>>)
ListMethods == Request("system.listMethods", <<>>)
Throws(what) == Request(what, <<>>)

Thrown == [what \in {"Fault", "Exception", "else", "Error_response"} |->
  Raised(what, CASE what = "Fault" -> 3 [] what = "Error_response" -> 404 [] OTHER -> -32000)]

Result(method, req) ==
  CASE method = "ServerMethodConnTest" -> Value(Int_(1))
    [] method = "ServerMethodCompute" -> Value(Int_(3))
    [] method = "ServerMethodStatus" -> Value(String("two lines"))
    [] method = "echo" -> Value(req.params[1])
    [] method = "another" -> Value(Int_(0))
    [] OTHER -> Thrown[method]

ListOf(sets) ==
  Array(FlattenSeq([d \in DOMAIN sets |->
    FoldSet(LAMBDA name, values : Append(values, String(name)), <<>>, sets[d])]))

-----------------------------------------------------------------------------
(* ServerController::initServer. *)
initServer ==
  LET Own(dispatchers, name) == register_method(dispatchers, name, name)
  IN  enable_introspection(FoldLeft(Own, Dispatchers,
        <<"ServerMethodCompute", "ServerMethodStatus", "ServerMethodConnTest">>))

(* More methods, one of them of a name that is taken. *)
others == push_dispatcher(initServer,
  ("echo" :> "echo") @@ ("ServerMethodConnTest" :> "another") @@ [what \in DOMAIN Thrown |-> what])

Setup(executor, ver_level, auth_plugin, pushed, dispatchers) ==
  [executor |-> executor, ver_level |-> ver_level, auth_plugin |-> auth_plugin, pushed |-> pushed,
   interceptors |-> Chain(pushed), dispatchers |-> dispatchers]

Program == Setup("pool", HTTP_CHECK_WEAK, {}, <<>>, initServer)
WithOthers == Setup("pool", HTTP_CHECK_WEAK, {}, <<>>, others)
Serial == Setup("serial", HTTP_CHECK_WEAK, {}, <<>>, others)

Info(user, passwd) == [user |-> user, passwd |-> passwd]
Nobody == Info(<<>>, <<>>)
Alice == Info(<<97>>, <<112>>)
Mistyped == Info(<<97>>, <<113>>)
LongWinded == Info(<<97>>, <<112, 112, 112, 112, 112>>)
WithColon == Info(<<97, Colon, 98>>, <<112>>)
ReadAsAlice == Info(<<97>>, <<98, Colon, 112>>)

Log == Interceptor("log", {}, Raised("else", 0))
Guard(throws) == Interceptor("guard", {"ServerMethodCompute"}, throws)

Strict == Setup("serial", HTTP_CHECK_STRICT, {Plugin(FALSE, {Alice, ReadAsAlice})},
                <<Log, Guard(Raised("Error_response", 403))>>, others)
Lenient == Setup("pool", HTTP_CHECK_WEAK, {Plugin(TRUE, {Alice, LongWinded})},
                 <<Guard(Raised("Fault", 2)), Log>>, others)

-----------------------------------------------------------------------------

(* The pieces the document of a message is written in. *)
Piece(message, shape, i) == [is |-> "piece", of |-> message, shape |-> shape, i |-> i]
Pieces(message, shape) ==
  CASE shape = "small" -> <<Piece(message, shape, 1)>>
    [] shape = "plain" -> <<Piece(message, shape, 1), Piece(message, shape, 2)>>
    [] shape = "empty line" -> <<Piece(message, shape, 1), LF, LF, Piece(message, shape, 2)>>
    [] shape = "long" -> [i \in 1 .. 5 |-> Piece(message, shape, i)]
    [] shape = "longer" -> [i \in 1 .. 9 |-> Piece(message, shape, i)]

RequestShape(req) ==
  CASE req = TooLong -> "long"
    [] req = MuchTooLong -> "longer"
    [] req.name = "echo" -> "small"
    [] req.name = "ServerMethodStatus" -> "empty line"
    [] OTHER -> "plain"

ResponseShape(resp) ==
  IF resp = Value(String("two lines")) THEN "empty line"
  ELSE IF resp.is = "value" /\ resp.value.type # "i4" THEN "small" ELSE "plain"

RequestPieces(req) == Pieces(req, RequestShape(req))
ResponsePieces(resp) == Pieces(resp, ResponseShape(resp))

(* Names have characters that are not blanks. *)
RECURSIVE Named(_)
Named(v) ==
  CASE v.type = "array" -> \A i \in DOMAIN v.items : Named(v.items[i])
    [] v.type = "struct" -> \A n \in DOMAIN v.members : n \notin Whitespace /\ Named(v.members[n])
    [] OTHER -> TRUE
CanBeSent(m) ==
  CASE m.is = "request" -> m.name # "" /\ \A i \in DOMAIN m.params : Named(m.params[i])
    [] m.is = "value" -> Named(m.value)
    [] OTHER -> TRUE

Codes == {-32700, -32601, -32600, -32500, -32000, -1, 2, 3}
Small == -2 .. 3 \cup Codes
Blank == {"", " ", "\n"}

Scalars == {Nil, Int_(-2), Int_(0), Bool(TRUE), Bool(FALSE), String(""), String(" "), String("1"),
            Binary_data(<<>>), Binary_data(<<255, 0>>)}
Flat ==
  Scalars
  \cup {Binary_data([i \in 1 .. n |-> (83 * i) % 256]) : n \in {1, 3, 7, 12}}
  \cup {Array(<<>>), Struct(<<>>)}
  \cup {Array(<<v>>) : v \in Scalars}
  \cup {Array(<<Int_(3), v>>) : v \in Scalars}
  \cup {Struct("a" :> v) : v \in Scalars}
  \cup {Struct(" " :> Nil), Struct("a" :> Nil @@ "b" :> String(""))}
Nested == {Array(<<v, v>>) : v \in Flat} \cup {Struct("a" :> v @@ "b" :> Nil) : v \in Scalars}

Session(keep_alive, timeout, requests, authinfo, setup_) ==
  [client |-> [keep_alive |-> keep_alive, timeout |-> timeout, requests |-> requests,
               authinfo |-> authinfo],
   server |-> setup_]

Pairs == {<<ConnTest, Compute>>, <<TooLong, ConnTest>>, <<Unknown, StatusOf>>}

Singles == {<<Echo(v)>> : v \in Flat \cup Nested} \cup {<<MuchTooLong>>}

OfProgram == {Session(k, t, pair, <<Nobody, Nobody>>, Program) : k, t \in BOOLEAN, pair \in Pairs}
OfValues == {Session(FALSE, FALSE, single, <<Nobody>>, WithOthers) : single \in Singles}
OfExceptions ==
  {Session(k, FALSE, <<Throws(a), Throws(b)>>, <<Nobody, Nobody>>, s) :
     k \in BOOLEAN, s \in {WithOthers, Serial},
     <<a, b>> \in {<<"Fault", "Exception">>, <<"Error_response", "else">>}}
OfUsers ==
  {Session(k, FALSE, calls.requests, calls.infos, calls.of) : k \in BOOLEAN, calls \in
     {[requests |-> <<ConnTest, Compute>>, infos |-> <<Alice, Alice>>, of |-> Strict],
      [requests |-> <<Unknown, ListMethods>>, infos |-> <<Mistyped, WithColon>>, of |-> Strict],
      [requests |-> <<ConnTest, Nameless>>, infos |-> <<Nobody, Alice>>, of |-> Strict],
      [requests |-> <<Compute, ConnTest>>, infos |-> <<Nobody, Alice>>, of |-> Lenient],
      [requests |-> <<ConnTest, ConnTest>>, infos |-> <<Mistyped, Nobody>>, of |-> Lenient],
      [requests |-> <<ConnTest, ConnTest>>, infos |-> <<LongWinded, Nobody>>, of |-> Lenient]}}

(* Three calls kept with a timeout: any of them may be left midway. *)
OfThree ==
  {Session(TRUE, TRUE, calls.requests, calls.infos, calls.of) : calls \in
     {[requests |-> <<Echo(Nil), Compute, ConnTest>>, infos |-> <<Nobody, Nobody, Nobody>>,
       of |-> WithOthers],
      [requests |-> <<ListMethods, ListMethods, Echo(Nil)>>, infos |-> <<Mistyped, Mistyped, Alice>>,
       of |-> Strict]}}

ProgramSessions == OfProgram \cup OfValues \cup OfExceptions \cup OfUsers \cup OfThree
ProgramRequests == UNION {{s.client.requests[i] : i \in DOMAIN s.client.requests} : s \in ProgramSessions}
ProgramResponses ==
  {Value(v) : v \in Flat \cup Nested \cup {Int_(0), Int_(1), Int_(3), String("two lines")}}
  \cup {Value(get_methods_list(d)) : d \in {initServer, others}}
  \cup {FaultOf(code) : code \in Codes}

(* What the documents are read as. *)
RequestsRead == {<<req, parse_request(Written(request_to_xml(req)))>> : req \in ProgramRequests}
ResponsesRead == {<<resp, parse_response(Written(response_to_xml(resp)))>> : resp \in ProgramResponses}
ReadAs(table, message) == (CHOOSE pair \in table : pair[1] = message)[2]

(* Of a response, what is no document throws Parse_error too. *)
IsDocument(content) ==
  content # <<>> /\ content[1].is = "piece" /\ content = Pieces(content[1].of, content[1].shape)

ReadBack(req) == ReadAs(RequestsRead, req)
ReadResponse(content) ==
  IF IsDocument(content) THEN ReadAs(ResponsesRead, content[1].of) ELSE Parse_error
=============================================================================
