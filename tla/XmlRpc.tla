------------------------------- MODULE XmlRpc -------------------------------
(***************************************************************************)
(* Requests and responses, the documents they are written as, and what the *)
(* other side makes of those.                                              *)
(***************************************************************************)
EXTENDS XmlValue

Request(name, params) == [is |-> "request", name |-> name, params |-> params]
Value(v) == [is |-> "value", value |-> v]
Fault(code, what) == [is |-> "fault", code |-> code, what |-> what]

(* Value: the wrong type was asked for. *)
Bad_cast == Exception(-32000)

(* A parser that throws. *)
Threw(e) == [is |-> "exception", code |-> e.code]

request_to_xml(req) ==
  Element("methodCall",
    <<Element("methodName", <<Text(req.name)>>),
      Element("params", [i \in DOMAIN req.params |->
                           Element("param", <<value_to_xml(req.params[i])>>)])>>)

(* The members of a fault come in the order of their names. *)
fault_to_xml(f) ==
  Element("fault", <<value_to_xml(Struct(
    ("faultCode" :> Int_(f.code)) @@ ("faultString" :> String(f.what))))>>)

response_to_xml(resp) ==
  Element("methodResponse",
    <<IF resp.is = "fault" THEN fault_to_xml(resp)
      ELSE Element("params", <<Element("param", <<value_to_xml(resp.value)>>)>>)>>)

(* One parameter: an element of the name, with one value in it. *)
IsParam(node) == node.name = "param" /\ HasSingleElement(node)

ParamValues(node) ==
  LET params == elements_only(node)
  IN  [i \in DOMAIN params |-> parse_value(single_element(params[i]))]

(* Request::parse, parse_name and parse_params. *)
parse_request(root) ==
  LET parts == elements_only(root)
      wellFormed ==
        /\ root.name = "methodCall" /\ OnlyElements(root) /\ Len(parts) = 2
        /\ parts[1].name = "methodName"
        /\ Len(parts[1].children) = 1 /\ ~IsElement(parts[1].children[1])
        /\ parts[2].name = "params" /\ OnlyElements(parts[2])
        /\ \A i \in DOMAIN elements_only(parts[2]) : IsParam(elements_only(parts[2])[i])
  IN  IF ~wellFormed THEN Threw(XML_RPC_violation)
      ELSE IF AnyFails(ParamValues(parts[2])) THEN Threw(FirstFailure(ParamValues(parts[2])))
      ELSE Request(parts[1].children[1].text, ParamValues(parts[2]))

IsFault(v) ==
  /\ {"faultCode", "faultString"} \subseteq DOMAIN v.members
  /\ v.members["faultCode"].type = "i4" /\ v.members["faultString"].type = "string"

parse_param(node) ==
  IF ~HasSingleElement(node) \/ ~IsParam(single_element(node)) THEN Threw(XML_RPC_violation)
  ELSE LET v == parse_value(single_element(single_element(node)))
       IN  IF Failed(v) THEN Threw(v) ELSE Value(v)

parse_fault(node) ==
  IF ~HasSingleElement(node) THEN Threw(XML_RPC_violation)
  ELSE LET v == parse_value(single_element(node))
       IN  IF Failed(v) THEN Threw(v)
           ELSE IF v.type # "struct" THEN Threw(Bad_cast)
           ELSE IF ~IsFault(v) THEN Threw(XML_RPC_violation)
           ELSE Fault(v.members["faultCode"].int, v.members["faultString"].string)

(* Response::parse. *)
parse_response(root) ==
  IF ~HasSingleElement(root) THEN Threw(XML_RPC_violation)
  ELSE LET n == single_element(root)
       IN  CASE n.name = "params" -> parse_param(n)
             [] n.name = "fault"  -> parse_fault(n)
             [] OTHER -> Threw(XML_RPC_violation)
=============================================================================
