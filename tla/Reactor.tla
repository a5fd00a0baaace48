------------------------------ MODULE Reactor ------------------------------
(***************************************************************************)
(* The registry of iqnet::Reactor, as a value: the sequence of the file    *)
(* descriptors it watches, in the order poll() is asked about them, each   *)
(* with the events waited for.  The map of handlers and the list of their  *)
(* states are changed together, under one lock, and have the same keys.    *)
(***************************************************************************)
EXTENDS Naturals, Sequences, SequencesExt

Events == {"INPUT", "OUTPUT"}

State(fd, mask) == [fd |-> fd, mask |-> mask]

Watched(reg) == {reg[i].fd : i \in DOMAIN reg}

(* Mutant: a handler is added without looking whether it is there. *)
register_again(reg, fd, event) == Append(reg, State(fd, {event}))

register_handler(reg, fd, event) ==
  IF fd \in Watched(reg)
  THEN [i \in DOMAIN reg |->
          IF reg[i].fd = fd THEN State(fd, reg[i].mask \cup {event}) ELSE reg[i]]
  ELSE Append(reg, State(fd, {event}))

(* std::find: the first. *)
find_handler_state(reg, fd) ==
  CHOOSE i \in DOMAIN reg : reg[i].fd = fd /\ \A j \in 1 .. i - 1 : reg[j].fd # fd

unregister_handler(reg, fd) ==
  IF fd \in Watched(reg) THEN RemoveAt(reg, find_handler_state(reg, fd)) ELSE reg

(* Mutants: only the event is taken out of the mask; and the handler stays *)
(* though none is left.                                                    *)
unregister_in_place(reg, fd, event) ==
  [i \in DOMAIN reg |->
     IF reg[i].fd = fd THEN State(fd, reg[i].mask \ {event}) ELSE reg[i]]

unregister_event(reg, fd, event) ==
  SelectSeq(unregister_in_place(reg, fd, event), LAMBDA s : s.mask # {})

(* "mask &= !mask" is a logical negation: whatever else was waited for, no *)
(* bit is left and the handler goes.                                       *)
unregister_mask(reg, fd, event) == unregister_handler(reg, fd)

(* What poll() gives back of the descriptors it was asked about: those     *)
(* with an event, in their order.                                          *)
poll(asked) ==
  LET out[i \in 0 .. Len(asked)] ==
        IF i = 0 THEN <<>>
        ELSE IF asked[i].revents = {} THEN out[i - 1] ELSE Append(out[i - 1], asked[i])
  IN  out[Len(asked)]
=============================================================================
