----------------------------- MODULE ServerLoop -----------------------------
(***************************************************************************)
(* The XML-RPC server: the thread in Server::work with its reactor, the    *)
(* acceptor and the connections, and the threads that execute methods and  *)
(* hand their responses to the connections (PoolExecutor gives each its    *)
(* thread).                                                                *)
(*                                                                         *)
(* The reactor's lock is held for single steps.  A handler runs without    *)
(* it, but what it touches besides the registry belongs to this thread, or *)
(* to a thread that reaches it through the registry: a handler is a step.  *)
(* A client has one connection and at most one unread segment in it.       *)
(***************************************************************************)
EXTENDS Naturals, Sequences, FiniteSets, FiniteSetsExt, Reactor

CONSTANTS
  Clients,
  Segments,    \* what each client may send: see Segment
  MaxSends,    \* bound on the number of its segments
  Doubtful,    \* the clients that a firewall may refuse (the program has none)
  Fds,         \* descriptors left for connections
  PipeSize,    \* bytes the interrupter's socket holds
  MaxSignals   \* bound on the signals that interrupt poll()

(* A part of a packet; a packet that calls a method, or asks the server to *)
(* stop, or names no method; one that is no HTTP request.                  *)
Segment == [kind : {"part", "call", "stop", "unknown", "bad"}, keep_alive : BOOLEAN]

Interrupter == 1
Acceptor == 2

ASSUME SegmentsAssumption == Segments \in [Clients -> SUBSET Segment]
ASSUME DoubtfulAssumption == Doubtful \subseteq Clients
ASSUME FdsAssumption == Fds \subseteq Nat \ 0 .. 2
ASSUME BoundsAssumption ==
  MaxSends \in [Clients -> Nat] /\ PipeSize \in Nat \ {0} /\ MaxSignals \in Nat

None == [kind |-> "none", keep_alive |-> FALSE]

(* A response: to the request with this number (0 for an HTTP error), and  *)
(* how much of it is still to be written.                                  *)
Response(n, left) == [to |-> n, left |-> left]
Whole == 2

VARIABLES
  loop,        \* where the thread of work() is
  exit_flag,
  handlers,    \* the reactor's registry
  polled,      \* the copy of it that poll() was given
  ready,       \* the events poll() returned, to be dispatched
  pipe,        \* bytes in the interrupter's socket
  client,      \* each client: "away", "calling", "connected" or "gone"
  inbox,       \* the segment it sent
  sends,       \* how many it has sent
  fd,          \* the descriptor of its connection, 0 when there is none
  keep_alive,
  response,
  accepted,    \* requests read from it
  replied,     \* the last request that was answered to it
  executing,   \* what its executor is doing
  deleting,    \* executors that have responded and not yet interrupted
  signals

connVars == <<fd, keep_alive, response, accepted, replied>>
clientVars == <<client, inbox, sends>>
workVars == <<executing, deleting>>
vars == <<loop, exit_flag, handlers, polled, ready, pipe, clientVars,
          connVars, workVars, signals>>

Open == {c \in Clients : fd[c] # 0}
Backlog == {c \in Clients : client[c] = "calling"}

Init ==
  /\ loop = "check"
  /\ exit_flag = FALSE
  /\ handlers = <<State(Interrupter, {"INPUT"}), State(Acceptor, {"INPUT"})>>
  /\ polled = <<>>
  /\ ready = <<>>
  /\ pipe = 0
  /\ client = [c \in Clients |-> "away"]
  /\ inbox = [c \in Clients |-> None]
  /\ sends = [c \in Clients |-> 0]
  /\ fd = [c \in Clients |-> 0]
  /\ keep_alive = [c \in Clients |-> FALSE]
  /\ response = [c \in Clients |-> Response(0, 0)]
  /\ accepted = [c \in Clients |-> 0]
  /\ replied = [c \in Clients |-> 0]
  /\ executing = [c \in Clients |-> "nothing"]
  /\ deleting = 0
  /\ signals = 0

-----------------------------------------------------------------------------
(* The clients. *)

serverVars == <<loop, exit_flag, handlers, polled, ready, pipe, connVars,
                workVars, signals>>

Connect(c) ==
  /\ client[c] = "away"
  /\ client' = [client EXCEPT ![c] = "calling"]
  /\ UNCHANGED <<serverVars, inbox, sends>>

Send(c) ==
  /\ client[c] = "connected"
  /\ inbox[c] = None
  /\ sends[c] < MaxSends[c]
  /\ \E s \in Segments[c] : inbox' = [inbox EXCEPT ![c] = s]
  /\ sends' = [sends EXCEPT ![c] = @ + 1]
  /\ UNCHANGED <<serverVars, client>>

Disconnect(c) ==
  /\ client[c] = "connected"
  /\ client' = [client EXCEPT ![c] = "gone"]
  /\ UNCHANGED <<serverVars, inbox, sends>>

-----------------------------------------------------------------------------
(* The threads of the pool, once they have an executor. *)

others == <<loop, polled, ready, clientVars, fd, keep_alive, accepted, replied, signals>>

set_exit_flag(c) ==
  /\ executing[c] = "stop"
  /\ exit_flag' = TRUE
  /\ executing' = [executing EXCEPT ![c] = "interrupt"]
  /\ UNCHANGED <<others, handlers, pipe, response, deleting>>

(* The client's end of the interrupter is a blocking socket. *)
interrupt(c) ==
  /\ executing[c] = "interrupt"
  /\ pipe < PipeSize
  /\ pipe' = pipe + 1
  /\ executing' = [executing EXCEPT ![c] = "call"]
  /\ UNCHANGED <<others, exit_flag, handlers, response, deleting>>

(* Server::schedule_response, up to the end of conn's schedule_response. *)
schedule_response(c) ==
  /\ executing[c] = "call"
  /\ response' = [response EXCEPT ![c] = Response(accepted[c], Whole)]
  /\ handlers' = register_handler(handlers, fd[c], "OUTPUT")
  /\ executing' = [executing EXCEPT ![c] = "nothing"]
  /\ deleting' = deleting + 1
  /\ UNCHANGED <<others, exit_flag, pipe>>

(* Mutant: an executor that goes without a word, as Serial_executor does. *)
delete_quietly ==
  /\ deleting > 0
  /\ deleting' = deleting - 1
  /\ UNCHANGED <<others, exit_flag, handlers, pipe, response, executing>>

(* The executor's destructor. *)
delete_executor ==
  /\ deleting > 0
  /\ pipe < PipeSize
  /\ deleting' = deleting - 1
  /\ pipe' = pipe + 1
  /\ UNCHANGED <<others, exit_flag, handlers, response, executing>>

-----------------------------------------------------------------------------
(* The thread of work(): Server::work and Reactor::handle_events. *)

(* On the way out the acceptor goes and the flag is cleared. *)
Leave ==
  /\ loop = "check"
  /\ exit_flag
  /\ exit_flag' = FALSE
  /\ handlers' = unregister_handler(handlers, Acceptor)
  /\ loop' = "left"
  /\ UNCHANGED <<polled, ready, pipe, clientVars, connVars, workVars, signals>>

(* Mutant: another round without a look at the flag. *)
CheckBlindly ==
  /\ loop = "check"
  /\ polled' = handlers
  /\ loop' = "poll"
  /\ UNCHANGED <<exit_flag, handlers, ready, pipe, clientVars, connVars,
                 workVars, signals>>

(* The flag is read and then the registry copied; nothing that another     *)
(* thread does in between changes what either finds.                       *)
Check ==
  /\ loop = "check"
  /\ ~exit_flag
  /\ polled' = handlers
  /\ loop' = "poll"
  /\ UNCHANGED <<exit_flag, handlers, ready, pipe, clientVars, connVars,
                 workVars, signals>>

(* A connection can always be written to: the peer reads, or the write     *)
(* fails.                                                                  *)
Happened(f) ==
  CASE f = Interrupter -> IF pipe > 0 THEN {"INPUT"} ELSE {}
    [] f = Acceptor    -> IF Backlog # {} THEN {"INPUT"} ELSE {}
    [] OTHER ->
         {"OUTPUT"} \cup
         IF \E c \in Clients : fd[c] = f /\ (inbox[c] # None \/ client[c] = "gone")
         THEN {"INPUT"} ELSE {}

(* Whose handler a descriptor belongs to. *)
OwnerOf(f) == {c \in Clients : fd[c] = f}

Event(s) == [fd |-> s.fd, revents |-> s.mask \cap Happened(s.fd), owner |-> OwnerOf(s.fd)]

Poll ==
  /\ loop = "poll"
  /\ ready' = poll([i \in DOMAIN polled |-> Event(polled[i])])
  /\ ready' # <<>>
  /\ polled' = <<>>
  /\ loop' = "dispatch"
  /\ UNCHANGED <<exit_flag, handlers, pipe, clientVars, connVars, workVars, signals>>

(* EINTR: "continue" leaves the do-while(false) and nothing is ready. *)
PollInterrupted ==
  /\ loop = "poll"
  /\ signals < MaxSignals
  /\ signals' = signals + 1
  /\ polled' = <<>>
  /\ loop' = "dispatch"
  /\ UNCHANGED <<exit_flag, handlers, ready, pipe, clientVars, connVars, workVars>>

EndDispatch ==
  /\ loop = "dispatch"
  /\ ready = <<>>
  /\ loop' = "check"
  /\ UNCHANGED <<exit_flag, handlers, polled, ready, pipe, clientVars,
                 connVars, workVars, signals>>

(* invoke_event_handler: the handler is looked up again, INPUT goes first. *)
Dispatching(f, event) ==
  /\ loop = "dispatch"
  /\ ready # <<>>
  /\ Head(ready).fd = f
  /\ f \in Watched(handlers)
  /\ event = IF "INPUT" \in Head(ready).revents THEN "INPUT" ELSE "OUTPUT"
  /\ ready' = Tail(ready)
  /\ UNCHANGED <<exit_flag, polled, deleting, signals>>

HandleInterrupt ==
  /\ Dispatching(Interrupter, "INPUT")
  /\ pipe' = pipe - 1
  /\ UNCHANGED <<loop, handlers, clientVars, connVars, executing>>

(* accept() gives the lowest free descriptor. *)
FreeFds == Fds \ {fd[c] : c \in Clients}

Accepting(c) ==
  /\ Dispatching(Acceptor, "INPUT")
  /\ c \in Backlog
  /\ FreeFds # {}

(* The firewall does not grant its address: the socket is just closed. *)
AcceptRefused(c) ==
  /\ Accepting(c)
  /\ c \in Doubtful
  /\ client' = [client EXCEPT ![c] = "gone"]
  /\ UNCHANGED <<loop, handlers, pipe, inbox, sends, connVars, executing>>

Accept(c) ==
  /\ Accepting(c)
  /\ client' = [client EXCEPT ![c] = "connected"]
  /\ fd' = [fd EXCEPT ![c] = Min(FreeFds)]
  /\ handlers' = register_handler(handlers, fd'[c], "INPUT")
  /\ UNCHANGED <<loop, pipe, inbox, sends, keep_alive, response, accepted,
                 replied, executing>>

(* accept() fails, for want of descriptors or otherwise: the exception     *)
(* ends work(), and with it the server.                                    *)
AcceptFails ==
  /\ Dispatching(Acceptor, "INPUT")
  /\ loop' = "dead"
  /\ UNCHANGED <<handlers, pipe, clientVars, connVars, executing>>

-----------------------------------------------------------------------------
(* The handler of a connection. *)

connOthers == <<loop, pipe, client, sends, replied>>

(* terminate: the handler is taken out of the reactor and deleted. *)
Finish(c) ==
  /\ handlers' = unregister_handler(handlers, fd[c])
  /\ fd' = [fd EXCEPT ![c] = 0]

(* recv() returned nothing, or failed. *)
InputClosed(c) ==
  /\ Dispatching(fd[c], "INPUT")
  /\ inbox[c] = None
  /\ Finish(c)
  /\ UNCHANGED <<connOthers, inbox, keep_alive, response, accepted, executing>>

Read(c, kinds) ==
  /\ fd[c] # 0
  /\ Dispatching(fd[c], "INPUT")
  /\ inbox[c].kind \in kinds
  /\ inbox' = [inbox EXCEPT ![c] = None]
  /\ UNCHANGED <<connOthers, fd>>

InputPart(c) ==
  /\ Read(c, {"part"})
  /\ UNCHANGED <<handlers, keep_alive, response, accepted, executing>>

Refusing(c) == response[c] = Response(0, response[c].left) /\ response[c].left > 0

(* The error is answered at once, and input is still waited for. What      *)
(* comes after a malformed packet may be read together with it.            *)
InputBad(c) ==
  /\ \/ Read(c, {"bad"})
     \/ Refusing(c) /\ Read(c, {"part", "call", "stop", "unknown"})
  /\ keep_alive' = [keep_alive EXCEPT ![c] = FALSE]
  /\ response' = [response EXCEPT ![c] = Response(0, Whole)]
  /\ handlers' = register_handler(handlers, fd[c], "OUTPUT")
  /\ UNCHANGED <<accepted, executing>>

(* Mutant: the connection goes on reading while its request is executed. *)
InputCallAndStay(c) ==
  /\ Read(c, {"call", "stop"})
  /\ keep_alive' = [keep_alive EXCEPT ![c] = inbox[c].keep_alive]
  /\ accepted' = [accepted EXCEPT ![c] = @ + 1]
  /\ executing' = [executing EXCEPT ![c] = inbox[c].kind]
  /\ UNCHANGED <<handlers, response>>

InputCall(c) ==
  /\ Read(c, {"call", "stop"})
  /\ keep_alive' = [keep_alive EXCEPT ![c] = inbox[c].keep_alive]
  /\ accepted' = [accepted EXCEPT ![c] = @ + 1]
  /\ handlers' = unregister_mask(handlers, fd[c], "INPUT")
  /\ executing' = [executing EXCEPT ![c] = inbox[c].kind]
  /\ UNCHANGED response

(* No such method: the fault is the response, and no thread is needed. *)
InputUnknown(c) ==
  /\ Read(c, {"unknown"})
  /\ keep_alive' = [keep_alive EXCEPT ![c] = inbox[c].keep_alive]
  /\ accepted' = [accepted EXCEPT ![c] = @ + 1]
  /\ handlers' = register_handler(unregister_mask(handlers, fd[c], "INPUT"), fd[c], "OUTPUT")
  /\ response' = [response EXCEPT ![c] = Response(accepted'[c], Whole)]
  /\ UNCHANGED executing

Write(c) ==
  /\ fd[c] # 0
  /\ Dispatching(fd[c], "OUTPUT")
  /\ UNCHANGED <<loop, pipe, clientVars, accepted, executing>>

OutputFails(c) ==
  /\ Write(c)
  /\ client[c] = "gone"
  /\ Finish(c)
  /\ UNCHANGED <<keep_alive, response, replied>>

OutputPart(c) ==
  /\ Write(c)
  /\ response[c].left > 1
  /\ response' = [response EXCEPT ![c].left = 1]
  /\ UNCHANGED <<handlers, fd, keep_alive, replied>>

OutputLast(c) ==
  /\ Write(c)
  /\ response' = [response EXCEPT ![c].left = 0]
  /\ replied' = [replied EXCEPT ![c] = IF response[c].to = 0 THEN @ ELSE response[c].to]
  /\ IF keep_alive[c]
     THEN /\ handlers' = register_handler(unregister_mask(handlers, fd[c], "OUTPUT"),
                                          fd[c], "INPUT")
          /\ fd' = fd
     ELSE Finish(c)
  /\ UNCHANGED keep_alive

-----------------------------------------------------------------------------
Handle(c) ==
  \/ InputClosed(c)
  \/ InputPart(c)
  \/ InputBad(c)
  \/ InputCall(c)
  \/ InputUnknown(c)
  \/ OutputFails(c)
  \/ OutputPart(c)
  \/ OutputLast(c)

Loop ==
  \/ Leave
  \/ Check
  \/ Poll
  \/ EndDispatch
  \/ HandleInterrupt
  \/ \E c \in Clients : AcceptRefused(c)
  \/ \E c \in Clients : Accept(c)
  \/ AcceptFails
  \/ \E c \in Clients : Handle(c)

Execute(c) ==
  \/ set_exit_flag(c)
  \/ interrupt(c)
  \/ schedule_response(c)

Next ==
  \/ \E c \in Clients : Connect(c)
  \/ \E c \in Clients : Send(c)
  \/ \E c \in Clients : Disconnect(c)
  \/ Loop
  \/ PollInterrupted
  \/ \E c \in Clients : Execute(c)
  \/ delete_executor

Spec == Init /\ [][Next]_vars

(* The threads run; nothing is asked of the clients. *)
FairSpec ==
  /\ Spec
  /\ WF_vars(Loop)
  /\ WF_vars(delete_executor)
  /\ \A c \in Clients : WF_vars(Execute(c))

-----------------------------------------------------------------------------
TypeOK ==
  /\ loop \in {"check", "poll", "dispatch", "left", "dead"}
  /\ exit_flag \in BOOLEAN
  /\ \A i \in DOMAIN handlers :
       /\ handlers[i].fd \in {Interrupter, Acceptor} \cup Fds
       /\ handlers[i].mask \subseteq Events /\ handlers[i].mask # {}
  /\ \A i, j \in DOMAIN handlers : handlers[i].fd = handlers[j].fd => i = j
  /\ pipe \in 0 .. PipeSize
  /\ client \in [Clients -> {"away", "calling", "connected", "gone"}]
  /\ inbox \in [Clients -> Segment \cup {None}]
  /\ sends \in [Clients -> Nat]
  /\ fd \in [Clients -> Fds \cup {0}]
  /\ keep_alive \in [Clients -> BOOLEAN]
  /\ response \in [Clients -> [to : Nat, left : 0 .. Whole]]
  /\ accepted \in [Clients -> Nat] /\ replied \in [Clients -> Nat]
  /\ \A c \in Clients :
       /\ replied[c] <= accepted[c] /\ response[c].to <= accepted[c]
       /\ accepted[c] <= sends[c] /\ sends[c] <= MaxSends[c]
  /\ executing \in [Clients -> {"nothing", "stop", "interrupt", "call"}]
  /\ deleting \in Nat
  /\ signals \in 0 .. MaxSignals

(* The assertion in invoke_event_handler, and more: an event that poll()   *)
(* returned reaches the connection it happened on, though connections are  *)
(* deleted and their descriptors given to others while it waits its turn.  *)
EventsReachTheirOwner ==
  \A i \in DOMAIN ready :
    /\ ready[i].fd \in Watched(handlers)
    /\ OwnerOf(ready[i].fd) = ready[i].owner

(* An executor keeps a pointer to its connection, and the connection is    *)
(* deleted when the reactor says so: only the absence of its handler keeps *)
(* it alive. Conversely a connection with neither would never be heard of  *)
(* again, nor its descriptor closed.                                       *)
WatchedOrExecuting ==
  \A c \in Clients :
    /\ executing[c] # "nothing" => fd[c] # 0
    /\ fd[c] # 0 => (fd[c] \in Watched(handlers) <=> executing[c] = "nothing")

(* Requests are answered one by one, each with its own response, which     *)
(* goes out whole: once a part of it is written no other replaces it.      *)
AnswersInOrder ==
  [][\A c \in Clients :
       /\ replied'[c] # replied[c] =>
            replied'[c] = replied[c] + 1 /\ replied'[c] = accepted[c]
       /\ response[c].to > 0 /\ response[c].left = 1 =>
            response'[c].to = response[c].to \/ fd'[c] = 0]_vars

(* The response of a method that has been called is written, unless the    *)
(* client goes or the server stops: no thread that responds fails to get   *)
(* the reactor out of a poll() that does not know of the response.         *)
CallsAnswered ==
  \A c \in Clients :
    executing[c] = "call" ~>
      \/ replied[c] = accepted[c]
      \/ client[c] = "gone"
      \/ loop \in {"left", "dead"}

(* work() returns after set_exit_flag(), though nothing else happens. *)
ExitHonoured == exit_flag ~> loop \in {"left", "dead"}
=============================================================================
