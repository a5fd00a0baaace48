----------------------------- MODULE HttpHeader -----------------------------
(***************************************************************************)
(* http::Header: the options of a packet, their text and what is read of   *)
(* it.  A value is a word, a number or base64 in lines.  Only the options  *)
(* that decide something are here, and the headers are those the library   *)
(* writes: each has a length and a known connection option.                *)
(***************************************************************************)
EXTENDS Base64

HTTP_CHECK_WEAK == 0
HTTP_CHECK_STRICT == 1
Levels == {HTTP_CHECK_WEAK, HTTP_CHECK_STRICT}

Word(w) == [word |-> w, number |-> 0, base64 |-> <<>>]
Digits(n) == [word |-> "digits", number |-> n, base64 |-> <<>>]
Basic(base64) == [word |-> "Basic", number |-> 0, base64 |-> base64]
NoValue == Word("none")

(* options_: the value of each name, if it has been set. *)
set_conn_keep_alive(options, keep_alive) ==
  [options EXCEPT !.connection = Word(IF keep_alive THEN "keep-alive" ELSE "close")]

set_content_length(options, len) ==
  [options EXCEPT !.content_length = Digits(len),
                  !.content_type = IF len = 0 THEN @ ELSE Word("text/xml")]

Colon == 58

set_authinfo(options, user, passwd) ==
  [options EXCEPT !.authorization = Basic(encode(user \o <<Colon>> \o passwd))]

Header == [authorization |-> NoValue, connection |-> Word("close"),
           content_length |-> NoValue, content_type |-> NoValue]

-----------------------------------------------------------------------------
(* The validators of a level and of those below it, in the order of the    *)
(* lines.                                                                  *)
validators_ ==
  <<[name |-> "connection", level |-> HTTP_CHECK_WEAK, code |-> 400,
     words |-> {"close", "keep-alive"}],
    [name |-> "content_length", level |-> HTTP_CHECK_WEAK, code |-> 400, words |-> {"digits"}],
    [name |-> "content_type", level |-> HTTP_CHECK_STRICT, code |-> 415, words |-> {"text/xml"}]>>

(* What is thrown when the lines of these options are parsed, or 0. A line *)
(* end within base64 leaves a line without a colon, the first but one.     *)
parse(options, ver_level) ==
  LET against == SelectInSeq(validators_, LAMBDA v :
        v.level <= ver_level /\ options[v.name].word \notin v.words \cup {"none"})
  IN  IF NewLine \in Range(options.authorization.base64) THEN 400
      ELSE IF against = 0 THEN 0
      ELSE validators_[against].code

content_length(options) == options.content_length.number
conn_keep_alive(options) == options.connection.word = "keep-alive"
has_authinfo(options) == options.authorization # NoValue

(* Mutant: the user ends with the last colon. *)
last_colon(options) ==
  LET data == decode(options.authorization.base64)
      colon_it == SelectLastInSeq(data, LAMBDA c : c = Colon)
  IN  [user |-> SubSeq(data, 1, colon_it - 1), passwd |-> SubSeq(data, colon_it + 1, Len(data))]

(* Without a colon all is the user, and the password too: npos, cut to an  *)
(* unsigned, is less than npos, and the one behind it is the first.        *)
get_authinfo(options) ==
  LET data == decode(options.authorization.base64)
      colon_it == SelectInSeq(data, LAMBDA c : c = Colon)
  IN  IF colon_it = 0 THEN [user |-> data, passwd |-> data]
      ELSE [user |-> SubSeq(data, 1, colon_it - 1), passwd |-> SubSeq(data, colon_it + 1, Len(data))]
=============================================================================
