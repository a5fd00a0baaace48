---------------------------- MODULE PacketReader ----------------------------
(***************************************************************************)
(* http::Packet_reader: a connection's bytes, read in pieces of any size,  *)
(* put together to packets.                                                *)
(*                                                                         *)
(* Text is a sequence of symbols: the lines of a header are one symbol, a  *)
(* line end is one, and so is a piece of a content.  Lengths count them.   *)
(***************************************************************************)
EXTENDS HttpHeader, Texts

CR_LF == [is |-> "crlf"]
LF == [is |-> "lf"]

(* The lines of these options; code is 0 in a request's header. *)
Head_(code, options) == [is |-> "head", code |-> code, options |-> options]

NoHeader == [is |-> "none"]

(* Packet: the length is set when it is made. *)
dump(code, options, content) ==
  <<Head_(code, set_content_length(options, Len(content))), CR_LF, CR_LF>> \o content

NewReader ==
  [header_cache |-> <<>>, content_cache |-> <<>>, header |-> NoHeader,
   constructed |-> FALSE, total_sz |-> 0]

(* Mutants: a clear() that forgets a member. *)
clear_all_but_size(r) == [NewReader EXCEPT !.total_sz = r.total_sz]
clear_all_but_content(r) == [NewReader EXCEPT !.content_cache = r.content_cache]

clear(r) == NewReader

(* The outcomes of a read, beside a packet. *)
NoPacket == [is |-> "incomplete"]
Error(code) == [is |-> "error", code |-> code]
Packet(header, content) == [is |-> "packet", header |-> header, content |-> content]

Request_too_large == Error(413)
Malformed_packet == Error(400)

(* Mutant: sizes are not looked at. *)
no_check_sz(r, sz, max) == [reader |-> r, fits |-> TRUE]

(* Each piece that is read counts, and a header that announces too much is *)
(* refused before its content comes. No limit when max is 0.               *)
check_sz(r, sz, max) ==
  LET announced == IF r.header = NoHeader THEN 0
                   ELSE content_length(r.header.options) + Len(r.header_cache)
      total == r.total_sz + sz
  IN  IF max = 0 THEN [reader |-> r, fits |-> TRUE]
      ELSE IF announced >= max THEN [reader |-> r, fits |-> FALSE]
      ELSE [reader |-> [r EXCEPT !.total_sz = total], fits |-> total < max]

(* Where the header ends: with the first empty line that ends in CR LF, or *)
(* else in LF alone. 0 when it has not ended.                              *)
Ends(s, eol) == {i \in 1 .. Len(s) - 1 : s[i] = eol /\ s[i + 1] = eol}
First(S) == IF S = {} THEN 0 ELSE CHOOSE i \in S : \A j \in S : i <= j

(* Mutant: LF goes first. *)
lf_first(s) == IF Ends(s, LF) # {} THEN First(Ends(s, LF)) ELSE First(Ends(s, CR_LF))

header_end(s) == IF Ends(s, CR_LF) # {} THEN First(Ends(s, CR_LF)) ELSE First(Ends(s, LF))

(* Header_type: a header is refused unless it is all there is in the cache. *)
Refusal(s, ver_level) ==
  IF Len(s) # 1 \/ s[1].is # "head" THEN 400 ELSE parse(s[1].options, ver_level)

read_header(r, s, ver_level) ==
  LET cache == r.header_cache \o s
      end == header_end(cache)
      split == [r EXCEPT !.header_cache = SubSeq(cache, 1, end - 1),
                         !.content_cache = @ \o SubSeq(cache, end + 2, Len(cache))]
      refusal == Refusal(split.header_cache, ver_level)
  IN  IF end = 0
      THEN [reader |-> [r EXCEPT !.header_cache = cache], outcome |-> NoPacket]
      ELSE IF refusal # 0
      THEN [reader |-> split, outcome |-> Error(refusal)]
      ELSE [reader |-> [split EXCEPT !.header = split.header_cache[1]], outcome |-> NoPacket]

(* Mutant: one symbol too many is waited for. *)
longer(r) == Len(r.content_cache) > content_length(r.header.options)

ready(r) == Len(r.content_cache) >= content_length(r.header.options)

(* What comes after the content is dropped with the rest of the cache. *)
complete(r) ==
  LET content == SubSeq(r.content_cache, 1, content_length(r.header.options))
  IN  [reader |-> [r EXCEPT !.content_cache = content, !.constructed = TRUE],
       outcome |-> Packet(r.header, content)]

read_packet(old, s, max, ver_level) ==
  LET sized == check_sz(IF old.constructed THEN clear(old) ELSE old, Len(s), max)
      r == sized.reader
      next == IF r.header = NoHeader THEN read_header(r, s, ver_level)
              ELSE [reader |-> [r EXCEPT !.content_cache = @ \o s], outcome |-> NoPacket]
  IN  IF ~sized.fits THEN [reader |-> r, outcome |-> Request_too_large]
      ELSE IF r.header = NoHeader /\ s = <<>>
      THEN [reader |-> r, outcome |-> Malformed_packet]
      ELSE IF next.reader.header # NoHeader /\ ready(next.reader)
      THEN complete(next.reader)
      ELSE next
=============================================================================
