# A verification project for the dispersed calculator

`src/trunk` holds a distributed calculator of 2009. A text client reads integer
expressions, cuts each into subtrees, has XML-RPC servers compute the subtrees
in parallel and puts the results together. The XML-RPC library (libiqxmlrpc)
comes with the source and is built with it. This directory holds TLA+ models of
the program and of the parts of the library it runs on, checked with TLC, and
theorems about them, proved with TLAPS.

Paths below are relative to `src/trunk/libs/dispcalc`, `lib/` stands for its
directory `libiqxmlrpc/`. `PROJECT.json` names, for every definition that models
code, the lines it models ("map"), for every place that is hard to test the
properties that watch it ("hazards"), and for every property a change of the
model that breaks it ("mutants").

## 1. The system

### The client program

| part | state | operations | speaks to |
|---|---|---|---|
| `TextUserInterface` | `running_` | `run`, in a thread of its own: reads lines, `createMessage`, `postMessage`; `messageLoop`, in another that `run` starts: `getMessage`, shows it | message box, both ways |
| `MessageBox` (global) | `inbox_`, a multimap from addressee to message; `inboxHistory_`; a mutex (nobody waits: both loops poll) | `postMessage`, `getMessage` | everybody |
| `ClientController` and its actions | `programRunning_`, `servers_`, `supervisors_` | `run`, in the main thread: starts the user interface, takes messages and dispatches them; compute, computemaxn, status, exit and unknown; `sendTasks`, `checkStatus`, `loadServers` | message box; starts supervisors; calls `visit` on them |
| `Parser`, `ExprTree`, `Computer` | the stack of an expression; its tree | `parse`; `regenerate`, `toStack`, `chunk`, `height`; `compute` | used by the supervisor |
| `ClientControllerSupervisor` (a thread for each expression) | `resultStack_`, `computers_`, `mutex_` | `run`, `dispatchTree`, `chooseSrv`, `notify`, `finalComputation`, `abort`, `visit` | starts tasks; called back by them, and by the controller |
| `ClientControllerTask` (a thread for each subtree sent) | its server, its part of the stack, its index | `run`: one remote call, then `notify` or `abort` of its supervisor | a server; the supervisor |

### The server program

`ServerController` makes an HTTP server on port 8000 with a pool of ten threads,
a limit of 1 MiB for a request and introspection, registers three methods
(`ServerMethodCompute`, `ServerMethodStatus`, `ServerMethodConnTest`) and stays
in `work()`. `ServerMethodCompute` evaluates a postfix stack, posts a text for
every operator to a map that `ServerMethodStatus` reads, and sleeps five
seconds for every element, so that there is something to disperse.

### The library

| part | state | operations |
|---|---|---|
| client (`lib/client.cc`, `http_client.cc`, `client_conn.cc`) | options, the kept connection, its output and reader | `execute`, the connection's `process_session` and handlers |
| packets (`lib/http.cc`) | a header's options; header and content caches, size so far | `parse`, `set_option`, the validators, `set_authinfo`, `get_authinfo`; `read_request`, `read_response`, `dump` |
| values and messages (`lib/value*.cc`, `request.cc`, `response.cc`) | none | writing to and reading from XML |
| server loop (`lib/server.cc`, `http_server.cc`, `reactor*`, `connection.cc`, `acceptor.cc`) | handlers and their event masks, connections, the exit flag, the interrupter's socket | `work`, `handle_events`, `accept`, `handle_input`, `handle_output`, `schedule_response`, `set_exit_flag` |
| dispatch (`lib/server.cc`, `dispatcher_manager.cc`, `method.cc`, `auth_plugin.*`) | dispatchers in their order, interceptors, the plugin | `register_method`, `push_dispatcher`, `enable_introspection`, `push_interceptor`, `authenticate`, `schedule_execute` |
| executors of one thread (`lib/executor.cc`) | none | `Serial_executor::execute` |
| TLS (`lib/ssl_connection.cc`, `https_client.cc`, `https_server.cc`) | the state of a connection, the buffer of a write that was interrupted | `reg_*`, `switch_state`, the handlers of either end |
| pool of executors (`lib/executor.cc`) | queue, two mutexes, condition, `in_destructor` | `register_executor`, the threads' loop, destruction |

### How they interact, and what is hard

A line typed becomes a message to the controller, which answers through the same
box; a compute command starts a supervisor thread, which starts a task thread
for each subtree; each task makes one remote call; its answer is a callback into
the supervisor from the task's thread; the last one computes the final value and
posts it to the user. On the other side the reactor's thread reads requests,
hands each to the pool, and a pool thread hands the response back to the
connection and interrupts the reactor.

Hard, therefore: task threads that call back while the supervisor is still
dispatching, without the lock `notify` takes; one call of several failing;
`abort` and `visit` walking a set that others change; a scan for a server over a
map with an end in the middle; output scheduled by one thread on a connection
another polls; handlers deleted and descriptors reused between `poll()` and the
dispatch of its events; a condition variable with a queue and a destructor; a
kept connection after a call that timed out half-way; packets cut anywhere; a
TLS call that wants to be made again for an event of the other direction.

### What makes the parts correct

* **Supervisor.** A result lands in the place of its own piece. The final value
  is computed once, from all pieces, never after a failure, and eventually.
* **Choice of servers.** A task gets a server that answered its test if one did.
  The scan ends.
* **Parser, tree, evaluators.** The answer of the dispersed computation is the
  value of the expression by the grammar; what is no expression is answered with
  the value of one that is part of it, or not at all. The pieces cover the
  expression, and at least one of them is sent.
* **Message box and session.** Each addressee gets what was posted to it, in
  order. A shown id is known, exit ends the program, a result is shown.
* **Pool.** A request is executed once, in order of arrival, none is left behind
  by a lost wakeup.
* **Server loop.** A connection is watched or being executed for, never both or
  neither. Events reach the connection they happened on. Responses go out whole
  and in order. A response wakes the reactor; so does `set_exit_flag`.
* **Remote calls.** The answer belongs to the request; the method runs once as
  asked, under a name the plugin knows and past every interceptor, and is the
  first of its name; an oversized packet is never taken; an exception has a
  cause. Over TLS, besides, no connection is left waiting for an event that
  does not come.

## 2. The modules

| module | models |
|---|---|
| `Supervisor` | `ClientControllerSupervisor.cpp`, `ClientControllerTask.cpp`: supervisor, task and controller threads, with every access to shared data a step |
| `ChooseServer` | `loadServers` of `ClientController.cpp`, `chooseSrv` |
| `ExprParser`, `ExprTree`, `Computer` | `parser/Parser.h`, `parser/ExprTree.h`, `computer/Computer.h` and the loop of `ServerMethodCompute`, as operators |
| `Computation` | those three in the order a computation uses them, one `regenerate` turn per step |
| `Mailboxes` | what a message box promises: a queue for each addressee |
| `MessageBox` | `interthread/MessageBox.h` as a value: the one multimap |
| `ClientSession` | `TextUserInterface.cpp`, `ClientController.cpp`, `ClientControllerActions.cpp` around `MessageBox`; implements `Mailboxes` |
| `RequestPool` | what a pool promises: each request queued, executed once by one thread, answered |
| `PoolExecutor` | `lib/executor.cc` with its locks and condition; implements `RequestPool` |
| `Reactor` | the registry of `lib/reactor_impl.h`, as a value |
| `ServerLoop` | `lib/server.cc`, `http_server.cc`, `reactor_impl.h`, `reactor_interrupter.cc`, `connection.cc`, `acceptor.cc`: the reactor's thread, connections, executors, clients |
| `Base64`, `XmlValue`, `XmlRpc` | base64, values, requests, responses and faults, written and read |
| `HttpHeader` | the options of a header that decide something, their validators, the text that authorises a request, over `Base64` |
| `Texts` | what is sent: a text is a sequence of symbols |
| `PacketReader` | `Packet_reader` and `Packet` of `lib/http.cc`, over `HttpHeader` |
| `Dispatch` | what a `Server` is set up with, and how a request comes to a method or an error: plugin, dispatchers, interceptors, what each executor makes of an exception |
| `HttpCall` | a `Client` and the server's side of its connections, with bytes between them, over `PacketReader` and `Dispatch` |
| `Tls` | what OpenSSL's calls promise: records, alerts, "want read" and "want write", interrupted writes (external) |
| `SslConnection` | `Reaction_connection` of `lib/ssl_connection.cc`: its states and the event each of them waits for |
| `SecureCall` | `Https_client_connection` and `Https_server_connection` around it, a `Client` that makes calls, the server's side |
| `MC*` | instances for TLC |
| `DataLemmas` | facts about numbers, sequences and texts that several proofs need |
| `SupervisorProofs` | proofs of `Supervisor` and of `ChooseServer` |
| `SslConnectionProofs` | what OpenSSL's calls and the state machine over them come to: the lemmas under `SecureCallProofs` |
| `PoolExecutorProofs`, `ServerLoopProofs`, `ClientSessionProofs`, `SecureCallProofs`, `HttpCallProofs` | proofs of the module each is named for |

An action is named for the function, or the part of it between two accesses of
shared data, that it stands for; a variable has the name of the member it models
where TLA+ allows it. A few correspondences need a word.

* In `Supervisor` a piece's value is its position: a slot that holds `k` holds
  the result of the `k`-th piece, so a misplaced result shows. `pc`, `cur` and
  `copy` are the supervisor's thread (`copy` is what `push_back` moves the slots
  through when the vector grows), `tpc`, `taskIdx` and `arg` the tasks'.
  `taskIdx` is arbitrary until `setIdx`, as the member is uninitialised until
  then. A use of freed memory, or of a slot that is not there, goes unnoticed or
  ends the process: `crashed` is chosen.
* `CreateTaskFails` is all that can end `dispatchTree` between two pieces:
  `chooseSrv` without a server or with what is past the end of the map, an
  `Inet_addr` that throws, a thread that is not to be had. Nobody catches it in
  the supervisor's thread, and the process dies. `EventuallyFinal` promises a
  final result unless it happens, or a call fails.
* `Prompt` says whether an answer may come before `dispatchTree` has ended.
  Every remote computation sleeps for five seconds per element and a dispatch
  takes well under one, so in use it is FALSE; nothing in the client enforces
  it, so the models have both.
* In `ChooseServer` the entry the scan reads past the map's end is any value.
* In `Computation` tokens are records, an operand's digits one token, and
  integers unbounded.
* In `MessageBox` the order of entries with one key is that of the library in
  use: behind those that are there.
* In `PoolExecutor` the lock of the queue is a variable only where its holder
  goes on to ask for the second lock; elsewhere the section is one step. A
  sleeping thread may wake unasked.
* In `ServerLoop` a handler is one step: what it touches belongs to the
  reactor's thread, or to one that reaches it through the registry. A client
  sends segments, each a part of a packet or the end of one, that say what the
  packet is.
* In `Computation` a supervisor goes on with what the parser has left of
  anything typed, as the client does; after `top()` of an empty stack nothing is
  followed (`"undefined"`).
* In `PacketReader`, `HttpCall` and `SecureCall` a header's lines are one symbol
  that carries its options, an end of line is one, and so is a piece of a
  content. Lengths count symbols. A reader whose level of verification nobody
  sets reads with any level.
* In `HttpCall` a `setup` is a server as it is before `work()`: `MCHttpCall` has
  that of the program, built with the operators `initServer` calls, and four
  others with what the library offers besides.
* A client of `HttpCall` that closes its socket while something is unread there
  resets the connection: the server may lose the request it has not read yet,
  or read it first (`handle_input_closed`).
* In `SecureCall` a call on a kept connection puts its request in the place of
  the last one, which OpenSSL may be in the middle of writing. `OverwrittenBy` is
  what is then written: the record that was begun as it was, and what follows of
  the new string, if that is long enough; or OpenSSL refuses it, as the string
  may have moved.
* In `SslConnection` a handler is a function from the connection and the records
  under way to the set of its outcomes, one for each result OpenSSL may return
  there; `SecureCall` has an action for each member it may call.

## 3. The runs

| run | bounds | question and result |
|---|---|---|
| `supervisor_slow` | three subtrees among five pieces, `Prompt` FALSE, both ways to fail | the final result is whole, unique, never beside a failure, and comes when no call fails and every task could be made |
| `supervisor_prompt` | two subtrees, `Prompt` TRUE, one status command | a result never lands in another piece's place, whatever the index holds |
| `supervisor_collected` | two subtrees, `Prompt` TRUE | violation: a final computation starts on part of the pieces |
| `supervisor_abort` | two subtrees, network faults | violation: tasks are started after the interruption was reported |
| `supervisor_refused` | two subtrees, XML-RPC faults | violation: a refused call brings neither a result nor an interruption |
| `choose_server` | four names, five lines, two choices | a task gets a server that is up if any; down or past-the-end reads never hang the scan |
| `computation` | anything of up to four tokens, and of five without `+` and `/`; every expression of up to six; every tree of four to seven operands; heights -1 to 3 | grammar, tree, pieces and both evaluators agree with the value of the expression; of anything else, with that of a part |
| `http_call` | the program's calls in pairs, with and without keep-alive and timeout; one call for each of 144 values and one far too large; methods that throw, on either executor; users known, mistyped, anonymous, with a colon or too long, on a strict and a lenient server; limit of 8 symbols, buffers of 3, 4 under way | the answer is that of its request, or on a kept connection what a call given up before has left, the method runs once for whom it may, exceptions have causes, calls end |
| `secure_call` | two or three calls in four sequences, with and without keep-alive and timeout, and four more that are kept with a timeout: two long calls, two of four records in either order, of which the beginning of one and the end of the other make a third request, and a long one, such a one and a short one; limit of 9 symbols, records of 2, 2 under way | the same over TLS; no connection waits for an event that does not come, none that was left stays |
| `pool` | three threads, four requests, two spurious wakeups | implements `RequestPool`; no wakeup is lost; two ways to hang in destruction and no other |
| `server` | a client of two segments of any kind (that ask to be kept, but for a part and a bad packet, of which nothing else is read), a client of one call that a firewall may refuse and that ends its connection; two descriptors; an interrupter of one byte; one signal | watched or executing, order, wholeness, wakeups, exit |
| `session` | two commands of any kind, two supervisors | implements `Mailboxes`; known ids, exit, results |

**Why the bounds are enough.** Three subtrees are the least at which two tasks
race in `notify` while a third is still out, with pieces that are no tasks
before, between and after them; the interference in the dispatch is between a
task and its neighbour in the vector, so two show it (and the theorems below
hold for every list). Four names give the scan a server before, at and past its
start, and one more. Seven operands make the least tree with a chunk below a
chunk whose siblings are operands, and heights 0 to 3 cut it everywhere from its
leaves to not at all, with -1 for the height that a `size_t` takes for the
largest. Five tokens hold an expression in parentheses, two beside each other,
and every error in them. A limit of 8 with buffers of 3 puts the limit inside a
read, at its edge and past it; a packet of five symbols is cut at each of its
places. Lines of base64 are cut to 8 characters, so that values of up to 12
bytes and the longest credentials break one, and others do not. With records of
2 a packet is one record or several, and a write is interrupted within it; four
records with room for two let a write be given up in its middle and go on with
the string of the next call. Two
interceptors show an order, and so do two dispatchers with a name in common.
Three threads and four requests leave a thread asleep, one awake and unlucky,
and a request behind; the proofs cover any number. Two descriptors let one be
closed and given to the next connection while its event waits. Two commands
bring a command behind each other one, and with two supervisors an id known
beside one that is not yet.

**Deadlock.** It is checked where a system goes on for ever or ends in a step of
its own (`Supervisor`'s `Done`, `Computation`). It is off for the others, which
really stop: the scans after `MaxChoices`, a session after `exit`, a pool after
its destruction (and in the two hangs), a server that has left `work()` or whose
clients are done, a client after its last call. What must not stop early there
is a liveness property.

**Fairness.**

* `Supervisor`: the supervisor's thread and each task's. They are threads of the
  operating system, and a remote call has an answer or an error in the end (the
  task sets no timeout; that a server neither answers nor closes for ever is
  excluded by assumption). Not for the user's status commands.
* `ChooseServer`: a scan that has begun goes on. Not for the calls for it.
* `HttpCall`: the client's step, and each accepted connection's. None that a
  connection is accepted: a refusal is one of the ends of a call.
* `SecureCall`: the same. The client's loop on a descriptor that is closed is no
  step (`Spinning`).
* `PoolExecutor`: each thread. A mutex is free again and again, and `WF` of the
  whole of a thread's steps leaves open which thread takes it.
* `ServerLoop`: the reactor's thread, the executor that is being deleted, each
  execution. Nothing of the clients, who may go or fall silent.
* `ClientSession`: the controller and the thread that shows messages. Not the
  user's typing, nor the supervisors' results.

## 4. What the code does otherwise than it says

Three runs end in a violation, each of a sentence of the source.

1. `supervisor_collected`. `isResultComplete` (ClientControllerSupervisor.cpp:132)
   is to tell "czy wszystkie wyniki podobliczen sa zebrane"
   (controller/ClientControllerSupervisor.h:96); it only looks at the slots
   pushed so far, so an answer that overtakes the dispatch starts the final
   computation early. The servers' sleep hides it.
2. `supervisor_abort`. `abort` "przerywa operacje" (same header, line 71), but
   `dispatchTree` starts tasks after it.
3. `supervisor_refused`. A task is "odpowiedzialny za obliczenie zadanego
   podzadania i zwrocenie go supervisorowi" (controller/ClientControllerTask.h:28);
   on an `iqxmlrpc::Exception` it tells the user and not the supervisor, which
   waits for ever.

Four more things that the library does on connections that are kept are in the
models, and properties that hold say exactly when they happen. The program sets
a timeout for the test of its servers only (ClientController.cpp:129) and keeps
no connection, so it meets none of them.

* A connection that is kept from a call that timed out (`lib/client.cc:51`) still
  brings that call's answer. `AnswerIsOwn` of `HttpCall` and of `SecureCall`
  says what a later call may be given: its own answer, that of an earlier
  call, or the fault of what the halves of two packets make up; in the order of
  the calls, and none twice.
* `handle_events` returns "true if any handle was invoked, false on timeout"
  (`lib/reactor.h:97`); it returns false, too, when nothing is registered, which
  is so as soon as a kept TLS connection has been closed from the other side.
  `FailsForCause` of `SecureCall` has it: without a timeout, `Client_timeout` is
  thrown only for a request that was too large, by its own call or, where the
  connection is kept, a later one.
* The call after that polls the closed descriptor, of which something is
  reported at once and no handler called, for ever, whether a timeout is set or
  not. `CallsEnd` of `SecureCall` says that a call ends but there (`Spinning`).
* A write that OpenSSL began goes on, after a timeout, with the string of the
  next request (`lib/https_client.cc:144`), and the server may run what the
  beginning of one and the end of the other make up (`Splice`, in `AnswerIsOwn`),
  answer with a fault, or turn away with 400 what makes up no packet.

Smaller observations, which the models include but no sentence contradicts or
no run needs: `value()` throws `Exception` (`lib/response.cc:89`) where
`lib/response.h:40` says `Fault`; a kept connection is not replaced when it has
broken, so every later call fails; a struct's name that is only blanks is not
read back (`Expressible`); a thread of the pool that is busy during `notify_all`
sleeps through its destruction, and a woken one can hold one lock and want the
other (`MissedNotify`, `LockCycle`; the program never destroys its pool while it
serves); `accept()` out of descriptors ends the server (`loop = "dead"`); at the
end of its input the client spins (`EndOfInput`) until something else ends it;
the name of a server that does not resolve, or no server at all, ends the client
(`CreateTaskFails`, `CheckServerExits`); `StatusAction` is to
ask "wszystkich bierzacych obliczen" (controller/ClientControllerActions.h:29)
and asks the one it is given.

Of expressions: what follows an error is ignored without a word, so `2+(3` is
answered with 3 and `(2+3` with 5; a line without any expression makes a client
send the name of a missing node, for which a server pops an empty stack, and
with a negative height is answered with 0.

Of the library, where the program does not use it: credentials longer than a
line of base64 put an end of line into the header, and the server answers 400 or
closes (`http.cc:327`); a user's name with a colon is cut at it (`http.cc:317`),
so `a:b` with password `p` is `a` with `b:p` to the plugin; the value of
Connection is validated in lower case and compared as it is (`http.cc:239`), so
`Keep-Alive` is valid and closes; nobody sets the level of the client's own
reader (`http.h:197`); the connection inside a proxy's tunnel is asked for options nobody set (`https_client.cc:70`).
`Pool_executor` deletes itself before it builds its response
(`executor.cc:231`), and its handlers would use it again if building were to
throw.

## 5. The proofs

Where a proof would go by induction it takes the least counterexample instead:
`LeastExists` in `DataLemmas` says that a set of natural numbers has a least
element, because `<` is well-founded on them. The other facts there say what a
sequence is after one element is taken out of it or put into it, wherever that
is; the pool's queue, the registry and the message box need them. Those on texts
say what is left of a text after a part was cut from it or joined to it; both
models of remote calls need them.

**`SupervisorProofs`**, for every list of pieces, every number of status
commands and every set of faults.

* `Inv == TypeOK /\ Position /\ Layout /\ StoreIndex` is inductive without any
  assumption on timing. `Position` ties how far `dispatchTree` is to how many
  slots there are; `Layout` says each slot belongs to the piece at its position
  and holds nothing or that piece's value; `StoreIndex` that a task past the
  comparison of `threadId_` has its own index, however it came by it. The
  comparison is what saves a task that read an uninitialised index, and the
  invariant shows it is enough. It gives `TypeCorrect` and `ResultsStayInPlace`.
* `SlowInv` adds, under `~Prompt`, `Waiting` (calls return only when every slot
  and index is in place), `Locked` (the thread that stores and counts is alone),
  `Computed` (a result in place is that of a call that succeeded, an abort
  follows a failure) and `Finished` (only the last finds the stack complete).
  It gives `FinalCorrect`, `OneFinal` and `FinalExcludesFailure`. None of the
  three properties is inductive: that no second thread computes a final result
  rests on the order of store and test under the lock, hence on all four parts.
* Assumptions: those named in `Supervisor` (pieces are tasks and items; `Items`
  and `MaxVisits` natural). That a cut tree has a task at all is not assumed
  there but checked, in `ChunkCovers`, in the run `computation`.

**`PoolExecutorProofs`**, for every finite set of threads and every set of
requests.

* `TypeCorrect`: who holds which lock where.
* `ImplementsPromise`: `PoolExecutor` implements `RequestPool` with the queue as
  `pending` and the jobs of running threads as `working`. The mapping needs
  `OnePlace`: a request is in one place, queued once, or with one thread, or
  answered, or discarded; it is what makes `working` grow by one in `Pop`.
* `WakeupsKept`: `NoLostWakeup`, by cardinality: a registration puts one more
  request in the queue and one more thread on its way, a thread that takes one
  lowers both by one.
* Assumptions: the threads are finitely many, `main` and `nobody` are no threads
  and `NoJob` is no request.

**`ChooseServer`**, also in `SupervisorProofs`, for every set of names, however
large, every file and every answer of the servers.

* `TaskGetsAvailable`: `ChosenIsAvailable`. Two things strengthen it. `Bounded`:
  some number is beyond every name in the map, so that it has a last entry, and
  each entry a next and a previous one; without it the `CHOOSE` behind `First`,
  `Last`, `After` and `Before` means nothing. `Scanned`: what the scan has seen
  where it is. Past the end it came over the last entry, which is down; on its
  way back every entry after it is down; it returns one that is down only when
  all are.
* `ServersTypeCorrect`, for `ServersOK`, needs the same invariant: that the scan
  stays in the map is that there is a next entry.
* Assumptions: names are positive numbers, zero being the end; the two bounds
  are natural.

**`ServerLoopProofs`**, for every set of clients, of any number, whatever each
sends and whichever of them a firewall refuses, every set of descriptors, every
size of the interrupter's socket and any number of signals. One inductive
invariant, `IInv`, serves all four theorems.

* `ExactlyOneHolds`: `WatchedOrExecuting`. Besides itself it needs `Registered`
  (every descriptor in the registry is the interrupter's, the acceptor's or that
  of a connection, and has one entry), `Owned` (two connections have not the same
  descriptor) and, for the handlers that `poll()` has chosen, the next part.
* `EventsFindTheirOwner`: `EventsReachTheirOwner`. `Copied` says that what
  `poll()` was given is still in the registry while it waits: only the executors
  change the registry then, and they add to it. `Undispatched` says the same of
  the events not yet dispatched, and that the owner of each is still that of its
  descriptor: a handler deletes no connection but its own, whose event is gone
  from the list by then; and it is why a descriptor that is given again by
  `accept` cannot be one of those that wait in the list.
* `AnsweredInOrder`: `AnswersInOrder`, a property of steps. `OneAtATime` says
  that a connection has one request that is not answered while it is executed or
  its response written, and none while it waits for input; a response put in
  place of another therefore never replaces one that has begun to go out.
* The lemmas on `Reactor` (`RegisterNew`, `RegisterAgain`, `Unregister`,
  `PollGivesEvents`) say what the registry is after each operation, as a set of
  entries; the rest of the proof sees the registry through them only.
* Assumptions: those named in `ServerLoop` (what a client sends are segments,
  descriptors are beyond the three that are open from the start, the
  interrupter's socket holds at least one byte).

**`ClientSessionProofs`**, for every number of commands and of supervisors.

* `ImplementsMailboxes`: `ClientSession` implements `Mailboxes`. The box is
  sorted by addressee (`Divided`: the controller's letters, then the user's), so
  that `LowerBound` and `UpperBound`, which are CHOOSEs over positions, are one
  place each (`Bounds`), and an insertion lands behind the letters of its key.
  `CommandsKept` and `InfosKept` say that the history of an addressee is what it
  has taken and then what is in the box, letter by letter.
* `IdsAreKnown`: `AnnouncedIsKnown`. `Spoken` says that what is in a box, or was
  shown, speaks of supervisors that were started, and `Registering` that the
  controller knows all of these but, between `Announce` and `Insert`, the last.
  It is in the middle of a command then, and asks nobody.
* `TypeCorrect` follows from these: `TypeOK` says of every letter in the box,
  of everything posted, shown or executed, and of the command at hand that it
  says something to the user or asks the controller, about supervisors that were
  started (`Worded`), and that the controller knows all of them but in the middle
  of `sendTasks` (`Stated`).
* Assumptions: the two bounds are natural, and there may be one supervisor at
  least (a `computemaxn` command has an expression).

**`SecureCallProofs`**, for every set of requests with their contents and
responses, every sequence of calls, with and without keep-alive and timeout, and
every size of records, buffers, limit and room between the ends.

* `NoneForgotten`: `NeverForgotten`. `Waiting` is the heart of it, and is what
  `switch_state` and the `reg_*` members establish: an end that accepts waits to
  read when the next flight is the client's (those of even number have been sent
  by the server) and to write in the middle of its own; one that reads waits for
  input, one that writes or shuts down for output. From that follows
  (`CallsReturn`) that when no event is there the interrupted call of OpenSSL
  would ask for exactly what the connection is registered for.
* It needs more than it seems to. `Pipes`: no more records are under way than
  there is room for, so that a call that wants to write is one that has no room;
  a reset is only there where the other end is gone; and what is under way to a
  client that has gone was thrown away. `Sockets`: every connection but the
  current one has been left. `Attended`: the server never waits with its own
  alert sent, since it is deleted in the step that sends it.
* `AnswersAreOwn`: `AnswerIsOwn` of a client that keeps no connection, which is
  how the program calls. Its invariant is `OwnInv`. `Counted`: the n-th
  connection is that of the n-th call. `Exchanges` says of every connection at
  which `Stage` it is (`accepts`, `reads`, `executes`, `writes`, `ended`) and, for
  each, where the one packet of that stage has got to: what the reader was
  `Given`, the records under way (`Remains`), what OpenSSL and the connection
  still have to write, and `out_str` or the response make up the packet of the
  request, or one of `Replies`. Which record comes next is never stored anywhere,
  so without it nothing stops a step from delivering part of another packet.
  Once the client's end is gone nothing is claimed of what is under way to it.
* `RunOnce` counts the methods that ran against the connections that are `Past`
  their execution, and `Answered` says of the results what is to be shown.
* `KnownInv`: a client that has the other end's alert answers it or has done so,
  and reads nothing more: `SSL_read` of such a connection would return at once,
  and no record that is still under way would be delivered (for the server's end
  that is part of `Attended`, as `Heard`).
* The argument: a packet that is read record by record is delivered whole
  (`PieceRead`, over `Quotient` and `RecordsOf`, which say what the first i
  records of a text are); a write that OpenSSL interrupted goes on with the
  record it stopped at; a handshake leaves no data behind; and each action moves
  a connection along the stages or leaves the packet it is in the middle of.
  With keep-alive the claim is checked by TLC only: there it says what a call
  after one that timed out may be given instead, and a proof has to follow
  several packets on one connection.
* `FailuresHaveCause`: `FailsForCause` of the same client. Its invariant is
  `CauseInv`, which joins two parts. `Unharmed`: while the request on the
  connection is not too large, its call is `Sound`. Neither end has shut down
  early, so that no call of OpenSSL fails; a write goes on with the buffer it was
  begun with (`Buffers`); once the server has the request the client reads; and
  when the server's end is gone, all that the client's reader still lacks is
  under way (`ToCome`). `Caused`: every exception so far came of a request that
  is `Large`, or is a `Client_timeout` of a session with a timeout. It takes the stages of `OwnInv` besides, for the
  sizes of the packets.
* OpenSSL's calls are each given a lemma (`Handshaking`, `Reading`, `Writing`,
  `Alerting`, `Shutting`) that says what any of their outcomes may be and leave
  in the pipes, and `Switching` says what the state machine makes of any outcome:
  these are in `SslConnectionProofs`. On them rest the two forms of `Switching`
  for the ends, and a lemma for each action, in `SecureCallProofs`.
* Assumptions: those named in `SslConnection`, `PacketReader` and `SecureCall`.
  `ContentsAssumption` says what writing and parsing of messages do: a content
  is a sequence of pieces, different messages have different contents, and what
  a response is read as is no exception. That
  a message is read back as it was written is what the run `http_call` checks of
  the program's values, over `XmlRpc`.

**`HttpCallProofs`**, for every set of clients and of set-ups of the server, every
sequence of calls with whatever contents, and every size of the limit, of the
buffers and of the room between the ends.

* `TypeCorrect`: `TypeOK`, which holds what `Packet_reader` promises of the
  limit: header and content that are stored of a packet are together below it,
  however the bytes were cut. `Within` strengthens it: what is stored was counted
  in `total_sz` before. It is needed because `check_sz` looks at the count and
  never at the caches; `ReadHeader` then shows that a header which is complete
  only moves symbols from one cache to the other, `ContentAdded` that what is
  added to a content was counted when it came, and `Completed` that dropping the
  rest of a packet only makes less of it. `ReadPacket` puts the four together.
* `Sound` says that every header under way to the server has a length, so that
  `ready` compares numbers; it holds of what a client writes, of any part of it
  that is under way, and hence of what a reader has.
* `Known`: a task is of a request that could be read, and its method is one that
  the server's dispatchers create for its name. It is what makes each answer one
  of `Answers`, and so a text.
* `OnlyPermittedRun`: every method that ran is the first of its name in the order
  of the dispatchers, is nested in all interceptors and stopped by none, and ran
  under a name that the plugin lets in. `Known` carries the first and the last
  from `schedule_execute` to the pool's thread that runs it later
  (`MethodFound`, `PastInterceptors`, `Authenticated`).
* `ClientIs`: a client that keeps no connection has none while it is idle, and
  one that waits for input has nothing left to write unless it keeps its
  connection (a kept one may wait for the answer of a call that timed out).
* `AnswersAreOwn`: `AnswerIsOwn` for a client without keep-alive: a response that
  `execute()` returns is the one to its own request. `FailuresHaveCause`:
  `FailsForCause` for such a client: what it throws has its cause in its own
  call. Both are consequences of `OwnInv`, which says in which of four stages the
  exchange on the connection of the call is: the server `Reads` the request,
  `Works` on it, `Replies`, or `TurnsAway` what it has refused. It is needed
  because what is returned depends on what the two readers have been given, on
  what is under way and on what is still to be sent, all at once; `Flows` states
  of each direction that these make up one packet, and each handler of either end
  has a lemma that says to which stage it leads (`ReadsOn`, `RefusesOn`,
  `WorksOff`, `SendsOn`, `WritesOn`, `TakesIn`, `GivesUp`). `PieceRead` is the
  heart of it: whatever the cuts, a reader that has been given a packet up to
  some point and is given more either waits, has the packet with its header and
  content, or refuses it for its size or its header; `RefusedRead` and
  `DisappointedRead` say that after a refusal no packet can appear in what
  follows, on the server's side, and only the refusal itself on the client's.
* That a call is let in for its own credentials needs the round trip of base64:
  `DecodedIs` proves that what is encoded in one line is decoded again, for all
  bytes (`EncodedIs`, `FourDecoded`; of the folds of `Base64`, `LinesAdded` and
  `Flattened` show by the shortest prefix that would fail what they come to for
  every length), `SplitAtColon`
  that name and password are found again. `CallIs` puts together what a request's
  packet is refused for, or answered with.
* `ExecutedAsAsked`: `ExecutedAsSent` for such a client: each run is that of a
  call of its own, under the name that its credentials are known by
  (`NamedFor`), through the interceptors in the order they were pushed
  (`ChainIs`); without timeouts runs come in the order of the calls; and no value
  is returned that no run came to. `RunInv` says that there are two maps, from
  connections to the calls they were made for and from runs to connections,
  the first of which is increasing (`Placed`, `Ran`). It is needed because a
  client that gives up a call leaves a connection behind on which the server
  still reads and runs: `Serving` keeps for each of them the stage its exchange
  is in, whatever its client does, and `Yet` that an end which has begun to answer
  never runs a method again (`Onward`). That a client without timeouts leaves no
  such connection gives the order. `Backed` says of the call that is being
  executed that its value, if it is to have one, has its run already, or is still
  to be asked for, or will not come as the server has refused (`Denied`).
* Assumptions: those named in `HttpCall`. The contents of requests and answers
  are texts, and a content holds no header; what a document can carry is read as
  it was written, and nothing is read of what it cannot (`XmlRpc` computes it for
  the program's values, and the run `http_call` evaluates the assumption for
  them); every call has its credentials, in bytes; a `Server` has one plugin at
  most, whose names have no colon and are not empty (a name that is empty means
  nobody to `Method::authenticated`, `method.h`); its interceptors are those that
  were pushed, one after the other, and what they stop a method with is thrown;
  an HTTP error is not "200 OK".

**Model-checked only.** Liveness (`EventuallyFinal`, `ScansEnd`, `CallsEnd`,
`LeftAreDeleted`, `EveryRequestAnswered`, `CallsAnswered`, `ExitHonoured`, `ExitEnds`,
`ResultsShown`) and `HangsInTwoWays`, which uses ENABLED, are out of the
prover's reach. So are the modules that have RECURSIVE operators or extend one
that has (`ExprParser`, `ExprTree`, `Computation`, `XmlValue`, `XmlRpc`): what
they compute for every tree would need induction over data; the properties of
`Computation` (`ParsesGrammar`, `BranchesRemain`, `ChunkCovers`, `AnswerIsValue`)
are such. The properties of both kinds of calls where connections are kept have no
such obstacle and wait for their proofs (section 7).

## 6. What is not modelled

* The client's proxies, plain and through a tunnel; certificates and the blocking
  `ssl::Connection`; changes of a client's options between its calls.
* What only a peer that is not this library sends: another method than POST, a
  packet without a length, another type of content, other options. Of a header's
  options the models have those that decide something between these two ends.
* `ServerMethodStatus` and its map of texts. It is written under a mutex and read
  without it (ServerMethods.cpp:29), which is undefined; only a text for the user
  depends on it.
* Character sets, doubles, dates, the printing of values, addresses and small
  utilities: no control of their own. A string is one value.
* The reactor over `select()` is not in the build; `try.exprtree.cpp` is an
  earlier copy of the tree.
* Integers are unbounded. An operand or a result that does not fit an `int` is
  an exception nobody catches, or undefined.
* A request that OpenSSL is in the middle of writing and that a shorter one
  replaces is taken to be refused, as OpenSSL does for a buffer that got shorter.
* In `HttpCall` a response that the server writes to a client that has left does
  not take away what it has still to read.
* SIGPIPE: a write of OpenSSL to a connection the peer has closed is taken to
  return an error, as with the signal ignored, which is left to the programs
  (plain sockets are written to with MSG_NOSIGNAL, `socket.cc:100`).

## 7. The plan

Modules were written in the order: `Supervisor` and its proofs;
`Computation` and its three; `RequestPool`, `PoolExecutor` and their proofs;
`Reactor`, `ServerLoop`; `ChooseServer`; the session; the remote calls; TLS;
headers, dispatch and authentication; the proofs of `ChooseServer`, of
`ServerLoop`, of the session, of TLS and of the remote calls.

Next to model:

1. `Supervisor` composed with `ChooseServer`, and with the session's `visit`.
2. Doubles and dates as values, over the conversions they go through.
3. The tunnel through a proxy: two connections on one descriptor.

Next to prove:

1. `SecureCall`: `AnswerIsOwn` and `FailsForCause` with keep-alive, where a
   connection carries several packets.
2. `HttpCall`: its properties where a connection is kept: the stages of `OwnInv`
   for a connection that carries the packets of several calls.
