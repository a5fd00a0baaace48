---------------------------- MODULE PoolExecutor ----------------------------
(***************************************************************************)
(* Pool_executor_factory of libiqxmlrpc: the thread that runs the server's *)
(* reactor ("main") registers an executor for each request, a pool of      *)
(* threads executes them, and main destroys the factory in the end.        *)
(*                                                                         *)
(* Two mutexes and a condition variable: the lock of the queue is held     *)
(* across a step only where its holder goes on to ask for the other lock.  *)
(* A sleeping thread may wake without being notified.                      *)
(***************************************************************************)
EXTENDS Naturals, Sequences, FiniteSets

CONSTANTS
  Workers,      \* the threads made by add_threads
  Requests,     \* the executors made by create
  NoJob,        \* what a thread that executes nothing has
  MaxSpurious   \* bound on the wakeups nobody asked for

ASSUME WorkersAssumption == IsFiniteSet(Workers)
ASSUME NoJobAssumption == NoJob \notin Requests
ASSUME SpuriousAssumption == MaxSpurious \in Nat

main == "main"
nobody == "nobody"
ASSUME NamesAssumption == main \notin Workers /\ nobody \notin Workers

VARIABLES
  mpc,             \* where main is
  req_queue,
  req_queue_lock,  \* who holds it across steps
  in_destructor,
  destructor_lock,
  pc,              \* where the threads of the pool are
  job,             \* the executor a thread has popped
  answered,        \* executors whose response was scheduled; gone since
  discarded,       \* executors deleted with the queue
  spurious         \* spurious wakeups so far

vars == <<mpc, req_queue, req_queue_lock, in_destructor, destructor_lock,
          pc, job, answered, discarded, spurious>>

Queued == {req_queue[i] : i \in 1 .. Len(req_queue)}
Held == {job[w] : w \in {v \in Workers : pc[v] = "run"}}
Fresh == Requests \ (Queued \cup Held \cup answered \cup discarded)

Asleep == {w \in Workers : pc[w] = "asleep"}

Init ==
  /\ mpc = "serve"
  /\ req_queue = <<>>
  /\ req_queue_lock = nobody
  /\ in_destructor = FALSE
  /\ destructor_lock = nobody
  /\ pc = [w \in Workers |-> "lock"]
  /\ job = [w \in Workers |-> NoJob]
  /\ answered = {}
  /\ discarded = {}
  /\ spurious = 0

-----------------------------------------------------------------------------
(* The threads of the pool. *)

threadVars == <<mpc, in_destructor, destructor_lock, discarded>>

Pop(w) ==
  /\ req_queue # <<>>
  /\ pc' = [pc EXCEPT ![w] = "run"]
  /\ job' = [job EXCEPT ![w] = Head(req_queue)]
  /\ req_queue' = Tail(req_queue)

Take(w) ==
  /\ pc[w] = "lock"
  /\ req_queue_lock = nobody
  /\ Pop(w)
  /\ UNCHANGED <<threadVars, req_queue_lock, answered, spurious>>

(* Mutant: a thread that goes to sleep without looking at the queue.       *)
SleepAnyway(w) ==
  /\ pc[w] = "lock"
  /\ req_queue_lock = nobody
  /\ pc' = [pc EXCEPT ![w] = "asleep"]
  /\ UNCHANGED <<threadVars, req_queue, req_queue_lock, job, answered, spurious>>

Sleep(w) ==
  /\ pc[w] = "lock"
  /\ req_queue_lock = nobody
  /\ req_queue = <<>>
  /\ pc' = [pc EXCEPT ![w] = "asleep"]
  /\ UNCHANGED <<threadVars, req_queue, req_queue_lock, job, answered, spurious>>

WakeSpuriously(w) ==
  /\ pc[w] = "asleep"
  /\ spurious < MaxSpurious
  /\ spurious' = spurious + 1
  /\ pc' = [pc EXCEPT ![w] = "woken"]
  /\ UNCHANGED <<threadVars, req_queue, req_queue_lock, job, answered>>

(* wait() takes the lock of the queue again before it returns. *)
Relock(w) ==
  /\ pc[w] = "woken"
  /\ req_queue_lock = nobody
  /\ req_queue_lock' = w
  /\ pc' = [pc EXCEPT ![w] = "test"]
  /\ UNCHANGED <<threadVars, req_queue, job, answered, spurious>>

(* Mutant: the lock of the queue is not let go. *)
test_and_keep(w) ==
  /\ pc[w] = "test"
  /\ destructor_lock = nobody
  /\ req_queue_lock' = req_queue_lock

(* is_being_destructed() waits for the other lock with this one held. *)
is_being_destructed(w) ==
  /\ pc[w] = "test"
  /\ destructor_lock = nobody
  /\ req_queue_lock' = nobody

Exit(w) ==
  /\ is_being_destructed(w)
  /\ in_destructor
  /\ pc' = [pc EXCEPT ![w] = "exit"]
  /\ UNCHANGED <<threadVars, req_queue, job, answered, spurious>>

(* Woken, but another thread emptied the queue first. *)
WokenInVain(w) ==
  /\ is_being_destructed(w)
  /\ ~in_destructor
  /\ req_queue = <<>>
  /\ pc' = [pc EXCEPT ![w] = "lock"]
  /\ UNCHANGED <<threadVars, req_queue, job, answered, spurious>>

WokenToWork(w) ==
  /\ is_being_destructed(w)
  /\ ~in_destructor
  /\ Pop(w)
  /\ UNCHANGED <<threadVars, answered, spurious>>

(* Whatever the method did, a value or a fault becomes the response, and   *)
(* Server::schedule_response deletes the executor.                         *)
process_actual_execution(w) ==
  /\ pc[w] = "run"
  /\ answered' = answered \cup {job[w]}
  /\ job' = [job EXCEPT ![w] = NoJob]
  /\ pc' = [pc EXCEPT ![w] = "lock"]
  /\ UNCHANGED <<threadVars, req_queue, req_queue_lock, spurious>>

Thread(w) ==
  \/ Take(w)
  \/ Sleep(w)
  \/ Relock(w)
  \/ Exit(w)
  \/ WokenInVain(w)
  \/ WokenToWork(w)
  \/ process_actual_execution(w)

-----------------------------------------------------------------------------
(* The thread of the reactor. *)

notify_one ==
  \/ Asleep = {} /\ pc' = pc
  \/ \E w \in Asleep : pc' = [pc EXCEPT ![w] = "woken"]

(* Mutant: the threads are told only of the first request in the queue.    *)
register_unnotified(r) ==
  /\ mpc = "serve"
  /\ r \in Fresh
  /\ req_queue_lock = nobody
  /\ req_queue' = Append(req_queue, r)
  /\ IF req_queue = <<>> THEN notify_one ELSE pc' = pc
  /\ UNCHANGED <<mpc, req_queue_lock, in_destructor, destructor_lock, job,
                 answered, discarded, spurious>>

register_executor(r) ==
  /\ mpc = "serve"
  /\ r \in Fresh
  /\ req_queue_lock = nobody
  /\ req_queue' = Append(req_queue, r)
  /\ notify_one
  /\ UNCHANGED <<mpc, req_queue_lock, in_destructor, destructor_lock, job,
                 answered, discarded, spurious>>

destruction_started ==
  /\ mpc = "serve"
  /\ destructor_lock = nobody
  /\ destructor_lock' = main
  /\ in_destructor' = TRUE
  /\ mpc' = "notify"
  /\ UNCHANGED <<req_queue, req_queue_lock, pc, job, answered, discarded, spurious>>

notify_all ==
  /\ mpc = "notify"
  /\ req_queue_lock = nobody
  /\ pc' = [w \in Workers |-> IF pc[w] = "asleep" THEN "woken" ELSE pc[w]]
  /\ destructor_lock' = nobody
  /\ mpc' = "join"
  /\ UNCHANGED <<req_queue, req_queue_lock, in_destructor, job, answered, discarded, spurious>>

(* Mutant: the requests are deleted without waiting for the threads. *)
delete_unjoined ==
  /\ mpc = "join"
  /\ discarded' = discarded \cup Queued
  /\ req_queue' = <<>>
  /\ mpc' = "gone"
  /\ UNCHANGED <<req_queue_lock, in_destructor, destructor_lock, pc, job, answered, spurious>>

join_and_delete ==
  /\ mpc = "join"
  /\ \A w \in Workers : pc[w] = "exit"
  /\ discarded' = discarded \cup Queued
  /\ req_queue' = <<>>
  /\ mpc' = "gone"
  /\ UNCHANGED <<req_queue_lock, in_destructor, destructor_lock, pc, job, answered, spurious>>

-----------------------------------------------------------------------------
Next ==
  \/ \E w \in Workers : Take(w)
  \/ \E w \in Workers : Sleep(w)
  \/ \E w \in Workers : WakeSpuriously(w)
  \/ \E w \in Workers : Relock(w)
  \/ \E w \in Workers : Exit(w)
  \/ \E w \in Workers : WokenInVain(w)
  \/ \E w \in Workers : WokenToWork(w)
  \/ \E w \in Workers : process_actual_execution(w)
  \/ \E r \in Requests : register_executor(r)
  \/ destruction_started
  \/ notify_all
  \/ join_and_delete

Spec == Init /\ [][Next]_vars

(* The operating system runs every thread that can run, and a method       *)
(* returns: nothing is assumed of the requests that arrive.                *)
FairSpec == Spec /\ \A w \in Workers : WF_vars(Thread(w))

-----------------------------------------------------------------------------
(* Locks are held by whom the code says, jobs by the threads at work.      *)
TypeOK ==
  /\ mpc \in {"serve", "notify", "join", "gone"}
  /\ req_queue \in Seq(Requests)
  /\ req_queue_lock \in Workers \cup {nobody}
  /\ in_destructor \in BOOLEAN
  /\ destructor_lock \in {main, nobody}
  /\ pc \in [Workers -> {"lock", "asleep", "woken", "test", "run", "exit"}]
  /\ job \in [Workers -> Requests \cup {NoJob}]
  /\ answered \in SUBSET Requests
  /\ discarded \in SUBSET Requests
  /\ spurious \in 0 .. MaxSpurious
  /\ \A w \in Workers : req_queue_lock = w <=> pc[w] = "test"
  /\ \A w \in Workers : job[w] # NoJob <=> pc[w] = "run"
  /\ destructor_lock = main <=> mpc = "notify"
  /\ in_destructor <=> mpc # "serve"

(* The threads that are on their way to the queue. *)
Heading == {w \in Workers : pc[w] \in {"lock", "woken", "test"}}

(* notify_one is called once per request and a notified thread may find    *)
(* its request taken by another: still, as long as a thread sleeps there   *)
(* is a thread on its way for every request in the queue, so no request    *)
(* waits behind a long execution for want of a wakeup.                     *)
NoLostWakeup ==
  Asleep # {} /\ mpc = "serve" => Len(req_queue) <= Cardinality(Heading)

(* The pool does what RequestPool promises: requests are taken up in the   *)
(* order of register_executor, executed once, by one thread, and the       *)
(* destructor deletes none that is being executed.                         *)
Promise == INSTANCE RequestPool WITH
  pending <- req_queue,
  working <- Held,
  dropped <- discarded,
  open <- mpc = "serve"
KeepsPromise == Promise!Spec

(* Two ways for the destructor to hang. A thread that woke holds the lock  *)
(* of the queue and wants the other one, main the reverse; or a thread was *)
(* busy during notify_all, and went to sleep without looking at            *)
(* in_destructor.                                                          *)
LockCycle ==
  /\ mpc = "notify"
  /\ \E w \in Workers : req_queue_lock = w /\ pc[w] = "test"
MissedNotify ==
  /\ mpc = "join"
  /\ req_queue = <<>>
  /\ \A w \in Workers : pc[w] \in {"asleep", "exit"}
Stuck ==
  /\ mpc \in {"notify", "join"}
  /\ ~ ENABLED (notify_all \/ join_and_delete \/ \E w \in Workers : Thread(w))

(* Every hang of the destructor is one of these two: no other order of     *)
(* notifications, executions and wakeups makes one.                        *)
HangsInTwoWays == Stuck => LockCycle \/ MissedNotify

(* Every registered request is answered, unless the factory is destroyed.  *)
EveryRequestAnswered ==
  \A r \in Requests : r \in Queued ~> r \in answered \/ mpc # "serve"
=============================================================================
