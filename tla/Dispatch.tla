------------------------------ MODULE Dispatch ------------------------------
(***************************************************************************)
(* What a Server is set up with, and how it comes from the packet of a     *)
(* request to its response: authentication, the dispatchers, the           *)
(* interceptors around the method, and what becomes of an exception.       *)
(***************************************************************************)
EXTENDS Integers, HttpHeader, TLC

CONSTANTS
  Requests,           \* what may be asked
  RequestContent(_),  \* the content of a request's packet
  ReadRequest(_),     \* what that is read as: an "exception" if at all
  Run(_, _),          \* what a method does with a request: a response, or Raised
  MethodNames(_)      \* the value that lists the names of each dispatcher

(* A response; "what" is of no account. *)
FaultOf(code) == [is |-> "fault", code |-> code, what |-> "error"]

(* What a method or an interceptor throws: a Fault, an Error_response of   *)
(* HTTP, another of the library's Exceptions, or something "else".         *)
Raised(class, code) == [is |-> "raised", class |-> class, code |-> code]

(* The contents that are documents, and what each is read as; what no      *)
(* document is throws.                                                     *)
Contents == {RequestContent(req) : req \in Requests}

Documents ==
  [content \in Contents |-> ReadRequest(CHOOSE req \in Requests : RequestContent(req) = content)]

Parse_error == [is |-> "exception", code |-> -32700]

ParseRequest(content) == IF content \in Contents THEN Documents[content] ELSE Parse_error

-----------------------------------------------------------------------------
(* Method_dispatcher_manager: each dispatcher maps names to methods, the   *)
(* default one comes first.                                                *)
Dispatchers == << <<>> >>

register_method(dispatchers, name, method) ==
  [dispatchers EXCEPT ![1] = (name :> method) @@ @]

push_dispatcher(dispatchers, disp) == Append(dispatchers, disp)

enable_introspection(dispatchers) ==
  register_method(dispatchers, "system.listMethods", "List_methods")

(* Mutant: the dispatcher that was pushed last is asked first. *)
last_known(dispatchers, name) ==
  LET d == SelectLastInSeq(dispatchers, LAMBDA disp : name \in DOMAIN disp)
  IN  IF d = 0 THEN {} ELSE {dispatchers[d][name]}

(* At most one: the first that is found. *)
create_method(dispatchers, name) ==
  LET d == SelectInSeq(dispatchers, LAMBDA disp : name \in DOMAIN disp)
  IN  IF d = 0 THEN {} ELSE {dispatchers[d][name]}

get_methods_list(dispatchers) == MethodNames([d \in DOMAIN dispatchers |-> DOMAIN dispatchers[d]])

execute(setup, method, req) ==
  IF method = "List_methods"
  THEN [is |-> "value", value |-> get_methods_list(setup.dispatchers)]
  ELSE Run(method, req)

-----------------------------------------------------------------------------
(* An interceptor throws for some methods and yields for the others.       *)
Interceptor(name, stops, throws) == [name |-> name, stops |-> stops, throws |-> throws]

(* Mutant: the newest is called last. *)
push_below(interceptors, ic) == Append(interceptors, ic)

(* The one that is pushed takes the others as those nested in it. *)
push_interceptor(interceptors, ic) == <<ic>> \o interceptors

(* What a server has when one after the other was pushed. *)
Chain(pushed) ==
  LET nested[n \in 0 .. Len(pushed)] ==
        IF n = 0 THEN <<>> ELSE push_interceptor(nested[n - 1], pushed[n])
  IN  nested[Len(pushed)]

(* Method::process_execution: whether the method ran, past which           *)
(* interceptors, and what it came to.                                      *)
process_execution(setup, method, req) ==
  LET stop == SelectInSeq(setup.interceptors, LAMBDA ic : req.name \in ic.stops)
      names == [i \in DOMAIN setup.interceptors |-> setup.interceptors[i].name]
  IN  IF stop = 0
      THEN [ran |-> TRUE, through |-> names, outcome |-> execute(setup, method, req)]
      ELSE [ran |-> FALSE, through |-> SubSeq(names, 1, stop),
            outcome |-> setup.interceptors[stop].throws]

-----------------------------------------------------------------------------
(* The Auth_Plugin_base that was set, if any. *)
Plugin(anonymous, users) == [anonymous |-> anonymous, users |-> users]

Anonymous == <<>>

(* Mutant: whoever is not anonymous is let in. *)
any_user(setup, options) ==
  IF setup.auth_plugin = {} THEN {Anonymous}
  ELSE LET ap == CHOOSE p \in setup.auth_plugin : TRUE
           info == get_authinfo(options)
       IN  IF ~has_authinfo(options) THEN IF ap.anonymous THEN {Anonymous} ELSE {}
           ELSE {info.user}

(* The name a request is executed under; none when it is Unauthorized.     *)
authenticate(setup, options) ==
  IF setup.auth_plugin = {} THEN {Anonymous}
  ELSE LET ap == CHOOSE p \in setup.auth_plugin : TRUE
           info == get_authinfo(options)
       IN  IF ~has_authinfo(options) THEN IF ap.anonymous THEN {Anonymous} ELSE {}
           ELSE IF info \in ap.users THEN {info.user} ELSE {}

-----------------------------------------------------------------------------
(* What schedule_execute comes to: a response or an HTTP error at once, or *)
(* the execution of a method.                                              *)
Responds(resp) == [is |-> "responds", resp |-> resp]
Refuses(code) == [is |-> "refuses", code |-> code]
Executes(req, method, authname) ==
  [is |-> "executes", req |-> req, method |-> method, authname |-> authname]

(* Mutant: the content is parsed, and answered, before it is asked whose   *)
(* it is.                                                                  *)
parsed_first(setup, packet) ==
  LET req == ParseRequest(packet.content)
  IN  IF req.is = "exception" THEN Responds(FaultOf(req.code))
      ELSE IF create_method(setup.dispatchers, req.name) = {} THEN Responds(FaultOf(-32601))
      ELSE IF authenticate(setup, packet.header.options) = {} THEN Refuses(401)
      ELSE Executes(req, CHOOSE m \in create_method(setup.dispatchers, req.name) : TRUE,
                    CHOOSE n \in authenticate(setup, packet.header.options) : TRUE)

schedule_execute(setup, packet) ==
  LET authname == authenticate(setup, packet.header.options)
      req == ParseRequest(packet.content)
      method == create_method(setup.dispatchers, req.name)
  IN  IF authname = {} THEN Refuses(401)
      ELSE IF req.is = "exception" THEN Responds(FaultOf(req.code))
      ELSE IF method = {} THEN Responds(FaultOf(-32601))
      ELSE Executes(req, CHOOSE m \in method : TRUE, CHOOSE n \in authname : TRUE)

(* Pool_executor::process_actual_execution: the code of a Fault is kept,   *)
(* everything else is -1.                                                  *)
pool_response(outcome) ==
  IF outcome.is # "raised" THEN Responds(outcome)
  ELSE Responds(FaultOf(IF outcome.class = "Fault" THEN outcome.code ELSE -1))

(* Serial_executor::execute, whose exceptions the handlers of              *)
(* schedule_execute catch.                                                 *)
serial_response(outcome) ==
  IF outcome.is # "raised" THEN Responds(outcome)
  ELSE CASE outcome.class \in {"Fault", "Exception"} -> Responds(FaultOf(outcome.code))
         [] outcome.class = "Error_response" -> Refuses(outcome.code)
         [] OTHER -> Responds(FaultOf(-32500))

response_of(setup, outcome) ==
  IF setup.executor = "pool" THEN pool_response(outcome) ELSE serial_response(outcome)
=============================================================================
