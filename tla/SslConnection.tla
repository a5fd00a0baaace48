--------------------------- MODULE SslConnection ---------------------------
(***************************************************************************)
(* ssl::Reaction_connection: a connection over TLS that never blocks, as a *)
(* value.  Its state says which call of OpenSSL is to be made or repeated  *)
(* when the reactor calls, and its mask which event it is registered for.  *)
(***************************************************************************)
EXTENDS Tls

States == {"EMPTY", "ACCEPTING", "CONNECTING", "READING", "WRITING", "SHUTDOWN"}

Reaction_connection(role) ==
  [state |-> "EMPTY", mask |-> {}, ssl |-> SSL_new(role), send_buf |-> <<>>, buf |-> 0]

register_handler(c, event) == [c EXCEPT !.mask = @ \cup {event}]

(* unregister_handler with an event: no event is left of the mask.         *)
unregister_handler(c) == [c EXCEPT !.mask = {}]

reg_accept(c) == register_handler([c EXCEPT !.state = "ACCEPTING"], "INPUT")
reg_connect(c) == register_handler([c EXCEPT !.state = "CONNECTING"], "OUTPUT")

reg_send(c, text, buf) ==
  register_handler([c EXCEPT !.state = "WRITING", !.send_buf = text, !.buf = buf], "OUTPUT")

(* No decrypted bytes are pending that would need a fake event: a record   *)
(* fits the buffer.                                                        *)
reg_recv(c) == register_handler([c EXCEPT !.state = "READING"], "INPUT")

shutdown_sent(c) == c.ssl.sent_shutdown
shutdown_recved(c) == c.ssl.received_shutdown

(* Mutant: the alert is only waited for. *)
reg_shutdown_input(c) == register_handler([c EXCEPT !.state = "SHUTDOWN"], "INPUT")

(* Its result is whether both alerts have gone. *)
shutdown_performed(c) == shutdown_sent(c) /\ shutdown_recved(c)
reg_shutdown(c) ==
  IF ~shutdown_sent(c) THEN register_handler([c EXCEPT !.state = "SHUTDOWN"], "OUTPUT")
  ELSE IF ~shutdown_recved(c) THEN register_handler([c EXCEPT !.state = "SHUTDOWN"], "INPUT")
  ELSE [c EXCEPT !.state = "EMPTY"]

(* An alert that has gone one way is taken for both. *)
shutdown(c, end) ==
  IF shutdown_performed(c) THEN {Outcome(end, "ok")}
  ELSE {IF o.what = "one_way"
        THEN Outcome([o.end EXCEPT !.ssl = SSL_set_shutdown(@)], "ok") ELSE o :
          o \in SSL_shutdown(end)}

(* The call that the state asks for. *)
Call(c, end) ==
  CASE c.state \in {"ACCEPTING", "CONNECTING"} -> Handshake(end)
    [] c.state = "READING" -> SSL_read(end)
    [] c.state = "WRITING" -> SSL_write(end, c.send_buf, c.buf)
    [] c.state = "SHUTDOWN" -> shutdown(c, end)
    [] OTHER -> {Outcome(end, "ok")}

(* The member that is told of success. *)
Success(state) ==
  CASE state = "ACCEPTING" -> "accept_succeed"
    [] state = "CONNECTING" -> "connect_succeed"
    [] state = "READING" -> "recv_succeed"
    [] state = "WRITING" -> "send_succeed"
    [] OTHER -> "terminate"

(* A call of the handler, whichever the event: what is to be waited for is *)
(* registered again, an end of the connection is answered with the alert,  *)
(* and the rest goes to the caller.                                        *)
switch_state(c, in, out, peer) ==
  LET old == unregister_handler(c)
      After(o) ==
        LET new == [old EXCEPT !.ssl = o.end.ssl]
            done == IF c.state = "SHUTDOWN" THEN new ELSE [new EXCEPT !.state = "EMPTY"]
            Then(next, what) ==
              [conn |-> next, in |-> o.end.in, out |-> o.end.out, what |-> what, text |-> o.text]
        IN  CASE o.what = "ok" -> Then(done, Success(c.state))
              [] o.what = "need_read" -> Then(register_handler(new, "INPUT"), "again")
              [] o.what = "need_write" -> Then(register_handler(new, "OUTPUT"), "again")
              [] o.what = "connection_close" -> Then(reg_shutdown(new), "again")
              [] OTHER -> Then(new, o.what)
  IN  {After(o) : o \in Call(c, End(c.ssl, in, out, peer))}
=============================================================================
