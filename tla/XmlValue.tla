------------------------------ MODULE XmlValue ------------------------------
(***************************************************************************)
(* XML-RPC values, the XML nodes they are written as, and the parser of    *)
(* those nodes.                                                            *)
(***************************************************************************)
EXTENDS Integers, Sequences, FiniteSets, SequencesExt, Base64

CONSTANTS
  Ints,        \* what an int can hold
  Whitespace   \* texts of nothing but tabs, line ends and spaces; "" is one

ASSUME XmlValueAssumption == Ints \subseteq Int /\ "" \in Whitespace /\ "\n" \in Whitespace

Nil == [type |-> "nil"]
Int_(n) == [type |-> "i4", int |-> n]
Bool(b) == [type |-> "boolean", bool |-> b]
String(s) == [type |-> "string", string |-> s]
Array(items) == [type |-> "array", items |-> items]
Struct(members) == [type |-> "struct", members |-> members]
Binary_data(data) == [type |-> "base64", data |-> data]

(* A parser that throws, with the code of the exception. *)
Exception(code) == [type |-> "exception", code |-> code]
XML_RPC_violation == Exception(-32600)
Malformed_base64 == Exception(-32000)
Failed(v) == v.type = "exception"

-----------------------------------------------------------------------------
(* Nodes: elements, and texts as a string or as base64 characters. *)

Element(name, children) == [name |-> name, children |-> children]
Text(s) == [text |-> s]
Base64Text(chars) == [chars |-> chars]

IsElement(node) == "name" \in DOMAIN node
IsBlank(node) == "text" \in DOMAIN node /\ node.text \in Whitespace

(* std::map goes through its members in the order of their names. *)
Names(members) == CHOOSE s \in [1 .. Cardinality(DOMAIN members) -> DOMAIN members] :
                    Range(s) = DOMAIN members

(* value_to_xml. *)
RECURSIVE value_to_xml(_)
value_to_xml(v) ==
  Element("value",
    <<CASE v.type = "nil"     -> Element("nil", <<>>)
        [] v.type = "i4"      -> Element("i4", <<Text(ToString(v.int))>>)
        [] v.type = "boolean" -> Element("boolean", <<Text(IF v.bool THEN "1" ELSE "0")>>)
        [] v.type = "string"  -> Element("string", <<Text(v.string)>>)
        [] v.type = "base64"  -> Element("base64", <<Base64Text(encode(v.data))>>)
        [] v.type = "array"   ->
             Element("array", <<Element("data",
               [i \in DOMAIN v.items |-> value_to_xml(v.items[i])])>>)
        [] v.type = "struct"  ->
             LET names == Names(v.members)
             IN  Element("struct", [i \in DOMAIN names |->
                   Element("member", <<Element("name", <<Text(names[i])>>),
                                       value_to_xml(v.members[names[i]])>>)])>>)

(* What a document is when it has been written with indentation and read   *)
(* again: a text without characters is gone, and there is white space      *)
(* around the children of an element that has none but elements.           *)
RECURSIVE Written(_)
Written(node) ==
  IF ~IsElement(node) THEN node
  ELSE LET within == SelectSeq([i \in DOMAIN node.children |-> Written(node.children[i])],
                       LAMBDA c : c # Text("") /\ c # Base64Text(<<>>))
       IN  Element(node.name,
             IF within = <<>> \/ \E i \in DOMAIN within : ~IsElement(within[i])
             THEN within
             ELSE [i \in 1 .. 2 * Len(within) + 1 |->
                     IF i % 2 = 1 THEN Text("\n") ELSE within[i \div 2]])

-----------------------------------------------------------------------------
(* Parser. *)

(* Parser::elements_only throws at a text that is not white space. *)
OnlyElements(node) == \A i \in DOMAIN node.children :
                        IsElement(node.children[i]) \/ IsBlank(node.children[i])
elements_only(node) == SelectSeq(node.children, IsElement)
HasSingleElement(node) == OnlyElements(node) /\ Len(elements_only(node)) = 1
single_element(node) == elements_only(node)[1]

Texts(node) == SelectSeq(node.children, LAMBDA c : ~IsElement(c))
HasText(node) == Texts(node) # <<>>
get_child_text(node) == Texts(node)[1]

Int_parser(node) ==
  LET read == {n \in Ints : HasText(node) /\ get_child_text(node) = Text(ToString(n))}
  IN  IF read = {} THEN XML_RPC_violation ELSE Int_(CHOOSE n \in read : TRUE)

Boolean_parser(node) ==
  IF ~HasText(node) THEN XML_RPC_violation
  ELSE IF get_child_text(node) \in {Text("1"), Text("true")} THEN Bool(TRUE)
  ELSE IF get_child_text(node) \in {Text("0"), Text("false")} THEN Bool(FALSE)
  ELSE XML_RPC_violation

String_parser(node) == String(IF HasText(node) THEN get_child_text(node).text ELSE "")

Base64_parser(node) ==
  LET data == decode(IF HasText(node) THEN get_child_text(node).chars ELSE <<>>)
  IN  IF data = Malformed THEN Malformed_base64 ELSE Binary_data(data)

FirstFailure(values) == values[CHOOSE i \in DOMAIN values :
                                 Failed(values[i]) /\ \A j \in 1 .. i - 1 : ~Failed(values[j])]
AnyFails(values) == \E i \in DOMAIN values : Failed(values[i])

(* A name of nothing but white space is refused. *)
get_member_name(node) == IF Len(node.children) = 1 THEN node.children[1].text ELSE ""

RECURSIVE parse_value(_)

Array_parser(node) ==
  IF ~HasSingleElement(node) \/ single_element(node).name # "data"
     \/ ~OnlyElements(single_element(node))
  THEN XML_RPC_violation
  ELSE LET value_arr == elements_only(single_element(node))
           values == [i \in DOMAIN value_arr |-> parse_value(value_arr[i])]
       IN  IF AnyFails(values) THEN FirstFailure(values) ELSE Array(values)

MemberFails(member) ==
  \/ member.name # "member"
  \/ ~OnlyElements(member)
  \/ Head(elements_only(member)).name # "name"
  \/ get_member_name(Head(elements_only(member))) \in Whitespace

(* One member after the other; the last of a name is the one that stays.   *)
Struct_parser(node) ==
  LET members == elements_only(node)
      values == [i \in DOMAIN members |->
                   IF MemberFails(members[i]) THEN XML_RPC_violation
                   ELSE parse_value(Last(elements_only(members[i])))]
      name(i) == get_member_name(Head(elements_only(members[i])))
      last(n) == CHOOSE i \in DOMAIN members :
                   name(i) = n /\ \A j \in i + 1 .. Len(members) : name(j) # n
  IN  IF ~OnlyElements(node) THEN XML_RPC_violation
      ELSE IF AnyFails(values) THEN FirstFailure(values)
      ELSE Struct([n \in {name(i) : i \in DOMAIN members} |-> values[last(n)]])

parse_value(node) ==
  IF node.name # "value" THEN XML_RPC_violation
  ELSE IF node.children = <<>> THEN String("")
  ELSE IF Len(node.children) = 1 /\ ~IsElement(node.children[1]) THEN String_parser(node)
  ELSE IF ~HasSingleElement(node) THEN XML_RPC_violation
  ELSE LET valnode == single_element(node)
           tname == valnode.name
       IN  CASE tname \in {"i4", "int"} -> Int_parser(valnode)
             [] tname = "boolean" -> Boolean_parser(valnode)
             [] tname = "string"  -> String_parser(valnode)
             [] tname = "nil"     -> Nil
             [] tname = "base64"  -> Base64_parser(valnode)
             [] tname = "array"   -> Array_parser(valnode)
             [] tname = "struct"  -> Struct_parser(valnode)
             [] OTHER -> XML_RPC_violation
=============================================================================
