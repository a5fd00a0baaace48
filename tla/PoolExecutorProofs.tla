------------------------- MODULE PoolExecutorProofs -------------------------
(***************************************************************************)
(* For every number of threads and of requests: the pool keeps its types   *)
(* and its locks, loses no wakeup, and implements RequestPool.             *)
(***************************************************************************)
EXTENDS PoolExecutor, FiniteSetTheorems, SequenceTheorems, TLAPS

(* What Init and every action of Next say, one name for each thread. *)
THEOREM TypeInit == Init => TypeOK
<1> SUFFICES ASSUME Init PROVE TypeOK
  OBVIOUS
<1>1. req_queue \in Seq(Requests)
  BY DEF Init
<1>2. spurious \in 0 .. MaxSpurious
  BY SpuriousAssumption DEF Init
<1>3. \A w \in Workers : pc[w] = "lock" /\ job[w] = NoJob /\ req_queue_lock # w
  BY NamesAssumption DEF Init
<1>4. /\ pc \in [Workers -> {"lock", "asleep", "woken", "test", "run", "exit"}]
      /\ job \in [Workers -> Requests \cup {NoJob}]
  BY DEF Init
<1> QED
  BY <1>1, <1>2, <1>3, <1>4 DEF Init, TypeOK, main, nobody

(* One step keeps TypeOK: the actions one by one. *)
LEMMA TypeStep == TypeOK /\ [Next]_vars => TypeOK'
<1> USE NoJobAssumption, NamesAssumption, SpuriousAssumption DEF TypeOK, main, nobody
<1> SUFFICES ASSUME TypeOK, [Next]_vars PROVE TypeOK'
  OBVIOUS
<1>1. ASSUME NEW w \in Workers, Take(w) PROVE TypeOK'
  <2>1. Head(req_queue) \in Requests /\ Tail(req_queue) \in Seq(Requests)
    BY <1>1, HeadTailProperties DEF Take, Pop
  <2> QED BY <1>1, <2>1 DEF Take, Pop, threadVars
<1>2. ASSUME NEW w \in Workers, Sleep(w) PROVE TypeOK'
  BY <1>2 DEF Sleep, threadVars
<1>3. ASSUME NEW w \in Workers, WakeSpuriously(w) PROVE TypeOK'
  BY <1>3 DEF WakeSpuriously, threadVars
<1>4. ASSUME NEW w \in Workers, Relock(w) PROVE TypeOK'
  BY <1>4 DEF Relock, threadVars
<1>5. ASSUME NEW w \in Workers, Exit(w) PROVE TypeOK'
  BY <1>5 DEF Exit, is_being_destructed, threadVars
<1>6. ASSUME NEW w \in Workers, WokenInVain(w) PROVE TypeOK'
  BY <1>6 DEF WokenInVain, is_being_destructed, threadVars
<1>7. ASSUME NEW w \in Workers, WokenToWork(w) PROVE TypeOK'
  <2>1. Head(req_queue) \in Requests /\ Tail(req_queue) \in Seq(Requests)
    BY <1>7, HeadTailProperties DEF WokenToWork, Pop
  <2> QED BY <1>7, <2>1 DEF WokenToWork, is_being_destructed, Pop, threadVars
<1>8. ASSUME NEW w \in Workers, process_actual_execution(w) PROVE TypeOK'
  BY <1>8 DEF process_actual_execution, threadVars
<1>9. ASSUME NEW r \in Requests, register_executor(r) PROVE TypeOK'
  <2>1. Append(req_queue, r) \in Seq(Requests)
    BY AppendProperties
  <2> QED BY <1>9, <2>1 DEF register_executor, notify_one, Asleep
<1>10. ASSUME destruction_started PROVE TypeOK'
  BY <1>10 DEF destruction_started
<1>11. ASSUME notify_all PROVE TypeOK'
  BY <1>11 DEF notify_all
<1>12. ASSUME join_and_delete PROVE TypeOK'
  <2>1. Queued \subseteq Requests
    BY DEF Queued
  <2>2. <<>> \in Seq(Requests)
    OBVIOUS
  <2> QED BY <1>12, <2>1, <2>2 DEF join_and_delete
<1>13. ASSUME UNCHANGED vars PROVE TypeOK'
  BY <1>13 DEF vars
<1> QED
  BY <1>1, <1>2, <1>3, <1>4, <1>5, <1>6, <1>7, <1>8, <1>9, <1>10, <1>11, <1>12, <1>13
  DEF Next

(* The locks are held by whom the code says and every thread has a job     *)
(* exactly while it executes one, whatever the numbers of threads and of   *)
(* requests.                                                               *)
THEOREM TypeCorrect == Spec => []TypeOK
  BY TypeInit, TypeStep, PTL DEF Spec

-----------------------------------------------------------------------------
(* What is in a queue after a request was put at its end. *)
LEMMA AppendedSet ==
  ASSUME NEW S, NEW q \in Seq(S), NEW r \in S,
         \A i, j \in 1 .. Len(q) : q[i] = q[j] => i = j,
         \A i \in 1 .. Len(q) : q[i] # r
  PROVE  LET a == Append(q, r) IN
         /\ {a[i] : i \in 1 .. Len(a)} = {q[i] : i \in 1 .. Len(q)} \cup {r}
         /\ \A i, j \in 1 .. Len(a) : a[i] = a[j] => i = j
<1> DEFINE a == Append(q, r)
<1>1. /\ Len(q) \in Nat
      /\ Len(a) = Len(q) + 1
      /\ \A i \in 1 .. Len(q) : a[i] = q[i]
      /\ a[Len(q) + 1] = r
  BY AppendProperties, LenProperties
<1>2. 1 .. Len(a) = (1 .. Len(q)) \cup {Len(q) + 1}
  BY <1>1
<1> QED BY <1>1, <1>2

(* What is in a queue after its first request was taken. *)
LEMMA PoppedSet ==
  ASSUME NEW S, NEW q \in Seq(S), q # <<>>,
         \A i, j \in 1 .. Len(q) : q[i] = q[j] => i = j
  PROVE  LET t == Tail(q) IN
         /\ {t[i] : i \in 1 .. Len(t)} = {q[i] : i \in 1 .. Len(q)} \ {Head(q)}
         /\ Head(q) \in {q[i] : i \in 1 .. Len(q)}
         /\ \A i, j \in 1 .. Len(t) : t[i] = t[j] => i = j
<1> DEFINE t == Tail(q)
<1>1. /\ Len(q) \in Nat \ {0}
      /\ Len(t) = Len(q) - 1
      /\ \A i \in 1 .. Len(t) : t[i] = q[i + 1]
      /\ Head(q) = q[1]
  BY HeadTailProperties, LenProperties, EmptySeq
<1>2. \A i \in 1 .. Len(t) : i + 1 \in 1 .. Len(q)
  BY <1>1
<1>3. 1 \in 1 .. Len(q)
  BY <1>1
<1>4. \A i \in 1 .. Len(q) : i # 1 => i - 1 \in 1 .. Len(t) /\ q[i] = t[i - 1]
  BY <1>1
<1>5. {t[i] : i \in 1 .. Len(t)} = {q[i] : i \in 1 .. Len(q)} \ {Head(q)}
  <2>1. ASSUME NEW i \in 1 .. Len(t)
        PROVE  t[i] \in {q[k] : k \in 1 .. Len(q)} \ {Head(q)}
    BY <1>1, <1>2, <1>3
  <2>2. ASSUME NEW i \in 1 .. Len(q), q[i] # Head(q)
        PROVE  q[i] \in {t[k] : k \in 1 .. Len(t)}
    <3>1. i # 1
      BY <1>1, <2>2
    <3>2. i - 1 \in 1 .. Len(t) /\ q[i] = t[i - 1]
      BY <1>4, <3>1
    <3> HIDE DEF t
    <3> QED BY <3>2
  <2> HIDE DEF t
  <2> QED BY <2>1, <2>2
<1>6. \A i, j \in 1 .. Len(t) : t[i] = t[j] => i = j
  BY <1>1, <1>2
<1> QED BY <1>1, <1>3, <1>5, <1>6

(* No executor is in two places. *)
OnePlace ==
  /\ \A i, j \in 1 .. Len(req_queue) : req_queue[i] = req_queue[j] => i = j
  /\ \A v, w \in Workers :
       pc[v] = "run" /\ pc[w] = "run" /\ job[v] = job[w] => v = w
  /\ Queued \cap Held = {}
  /\ (Queued \cup Held) \cap (answered \cup discarded) = {}

(* What taking the first request does, whichever thread takes it. *)
LEMMA PopStep ==
  ASSUME TypeOK, TypeOK', OnePlace, NEW w \in Workers, Pop(w), pc[w] # "run",
         UNCHANGED <<answered, discarded>>
  PROVE  /\ req_queue # <<>>
         /\ req_queue' = Tail(req_queue)
         /\ Held' = Held \cup {Head(req_queue)}
         /\ OnePlace'
<1> DEFINE r == Head(req_queue)
<1>1. /\ req_queue \in Seq(Requests)
      /\ req_queue # <<>>
      /\ req_queue' = Tail(req_queue)
  BY DEF TypeOK, Pop
<1>2. /\ Queued' = Queued \ {r}
      /\ r \in Queued
      /\ \A i, j \in 1 .. Len(req_queue') : req_queue'[i] = req_queue'[j] => i = j
  BY <1>1, PoppedSet DEF OnePlace, Queued
<1>3. /\ pc' = [pc EXCEPT ![w] = "run"]
      /\ job' = [job EXCEPT ![w] = r]
      /\ pc \in [Workers -> {"lock", "asleep", "woken", "test", "run", "exit"}]
      /\ job \in [Workers -> Requests \cup {NoJob}]
  BY DEF Pop, TypeOK
<1>4. Held' = Held \cup {r}
  BY <1>3 DEF Held
<1>5. \A v \in Workers : pc[v] = "run" => job[v] # r
  BY <1>2 DEF OnePlace, Held
<1>6. \A u, v \in Workers :
        pc'[u] = "run" /\ pc'[v] = "run" /\ job'[u] = job'[v] => u = v
  BY <1>3, <1>5 DEF OnePlace
<1> QED BY <1>1, <1>2, <1>4, <1>6 DEF OnePlace

(* Initially every executor is still to be registered. *)
LEMMA OnePlaceInit == Init => OnePlace
  BY DEF Init, OnePlace, Queued, Held

(* While a thread is not executing, fewer requests than threads are at work. *)
LEMMA RoomForOne ==
  ASSUME NEW w \in Workers, pc[w] # "run"
  PROVE  Cardinality(Held) < Cardinality(Workers)
<1> DEFINE R == {v \in Workers : pc[v] = "run"}
           f == [v \in R |-> job[v]]
<1>1. IsFiniteSet(R) /\ Cardinality(R) <= Cardinality(Workers) /\ R # Workers
  BY WorkersAssumption, FS_Subset
<1>2. Cardinality(R) < Cardinality(Workers)
  BY <1>1, WorkersAssumption, FS_Subset, FS_CardinalityType
<1>3. f \in Surjection(R, Held)
  BY DEF Surjection, Held
<1>4. Cardinality(Held) <= Cardinality(R) /\ IsFiniteSet(Held)
  BY <1>1, <1>3, FS_Surjection
<1> QED BY <1>1, <1>2, <1>4, WorkersAssumption, FS_CardinalityType

(* RequestPool counts as this module does. *)
LEMMA SameCardinality == \A S : Promise!Cardinality(S) = Cardinality(S)
  BY DEF Cardinality, Promise!Cardinality

(* A step that neither takes, answers, registers nor deletes a request is  *)
(* not one of RequestPool's.                                               *)
LEMMA QuietStep ==
  ASSUME TypeOK, OnePlace,
         UNCHANGED <<req_queue, job, answered, discarded>>,
         (mpc = "serve") <=> (mpc' = "serve"),
         \A v \in Workers : pc[v] = "run" <=> pc'[v] = "run"
  PROVE  UNCHANGED Promise!vars /\ OnePlace'
<1>1. Held' = Held /\ Queued' = Queued
  BY DEF Held, Queued
<1>2. UNCHANGED Promise!vars
  BY <1>1 DEF Promise!vars
<1>3. \A u, v \in Workers :
        pc'[u] = "run" /\ pc'[v] = "run" /\ job'[u] = job'[v] => u = v
  BY DEF OnePlace
<1>4. OnePlace'
  BY <1>1, <1>3 DEF OnePlace
<1> QED BY <1>2, <1>4

(* Every step is one of RequestPool's or leaves its variables alone. *)
LEMMA StepImplements ==
  TypeOK /\ TypeOK' /\ OnePlace /\ [Next]_vars
    => [Promise!Next]_(Promise!vars) /\ OnePlace'
<1> SUFFICES ASSUME TypeOK, TypeOK', OnePlace, [Next]_vars
             PROVE  [Promise!Next]_(Promise!vars) /\ OnePlace'
  OBVIOUS
<1>pc. pc \in [Workers -> {"lock", "asleep", "woken", "test", "run", "exit"}]
  BY DEF TypeOK
<1>1. ASSUME NEW w \in Workers, Take(w) \/ WokenToWork(w)
      PROVE  Promise!Next /\ OnePlace'
  <2>1. /\ Pop(w)
        /\ pc[w] # "run"
        /\ UNCHANGED <<mpc, answered, discarded>>
    BY <1>1 DEF Take, WokenToWork, is_being_destructed, threadVars
  <2>2. /\ req_queue # <<>>
        /\ req_queue' = Tail(req_queue)
        /\ Held' = Held \cup {Head(req_queue)}
        /\ OnePlace'
    BY <2>1, PopStep
  <2>3. Cardinality(Held) < Cardinality(Workers)
    BY <2>1, RoomForOne
  <2>4. Promise!TakeUp
    BY <2>1, <2>2, <2>3, SameCardinality DEF Promise!TakeUp
  <2> QED BY <2>2, <2>4 DEF Promise!Next
<1>2. ASSUME NEW w \in Workers,
             Sleep(w) \/ WakeSpuriously(w) \/ Relock(w) \/ Exit(w) \/ WokenInVain(w)
      PROVE  UNCHANGED Promise!vars /\ OnePlace'
  <2>1. /\ UNCHANGED <<mpc, req_queue, job, answered, discarded>>
        /\ pc[w] # "run"
        /\ \E p \in {"asleep", "woken", "test", "exit", "lock"} : pc' = [pc EXCEPT ![w] = p]
    BY <1>2 DEF Sleep, WakeSpuriously, Relock, Exit, WokenInVain,
                is_being_destructed, threadVars
  <2>2. \A v \in Workers : pc[v] = "run" <=> pc'[v] = "run"
    BY <2>1, <1>pc
  <2> QED BY <2>1, <2>2, QuietStep
<1>3. ASSUME NEW w \in Workers, process_actual_execution(w)
      PROVE  Promise!Next /\ OnePlace'
  <2> DEFINE r == job[w]
  <2>1. /\ pc[w] = "run"
        /\ answered' = answered \cup {r}
        /\ job' = [job EXCEPT ![w] = NoJob]
        /\ pc' = [pc EXCEPT ![w] = "lock"]
        /\ UNCHANGED <<mpc, req_queue, discarded>>
    BY <1>3 DEF process_actual_execution, threadVars
  <2>2. r \in Requests /\ r \in Held
    BY <2>1, NoJobAssumption DEF TypeOK, Held
  <2>3. \A v \in Workers : pc'[v] = "run" <=> pc[v] = "run" /\ v # w
    BY <2>1, <1>pc
  <2>4. \A v \in Workers : v # w => job'[v] = job[v]
    BY <2>1 DEF TypeOK
  <2>5. Held' = Held \ {r}
    BY <2>1, <2>3, <2>4 DEF Held, OnePlace
  <2>6. Queued' = Queued
    BY <2>1 DEF Queued
  <2>7. \A u, v \in Workers :
          pc'[u] = "run" /\ pc'[v] = "run" /\ job'[u] = job'[v] => u = v
    BY <2>3, <2>4 DEF OnePlace
  <2>8. OnePlace'
    BY <2>1, <2>2, <2>5, <2>6, <2>7 DEF OnePlace
  <2>9. Promise!Answer(r)
    BY <2>1, <2>2, <2>5 DEF Promise!Answer
  <2> QED BY <2>2, <2>8, <2>9 DEF Promise!Next
<1>4. ASSUME NEW r \in Requests, register_executor(r)
      PROVE  Promise!Next /\ OnePlace'
  <2>1. /\ mpc = "serve"
        /\ r \in Fresh
        /\ req_queue' = Append(req_queue, r)
        /\ UNCHANGED <<mpc, job, answered, discarded>>
    BY <1>4 DEF register_executor
  <2>2. \A v \in Workers : pc[v] = "run" <=> pc'[v] = "run"
    BY <1>4, <1>pc DEF register_executor, notify_one, Asleep
  <2>3. Held' = Held
    BY <2>1, <2>2 DEF Held
  <2>4. /\ Queued' = Queued \cup {r}
        /\ \A i, j \in 1 .. Len(req_queue') : req_queue'[i] = req_queue'[j] => i = j
    <3>1. \A i \in 1 .. Len(req_queue) : req_queue[i] # r
      BY <2>1 DEF Fresh, Queued
    <3>2. req_queue \in Seq(Requests)
      BY DEF TypeOK
    <3> QED BY <2>1, <3>1, <3>2, AppendedSet DEF OnePlace, Queued
  <2>5. \A u, v \in Workers :
          pc'[u] = "run" /\ pc'[v] = "run" /\ job'[u] = job'[v] => u = v
    BY <2>1, <2>2 DEF OnePlace
  <2>6. OnePlace'
    BY <2>1, <2>3, <2>4, <2>5 DEF OnePlace, Fresh
  <2>7. Promise!Register(r)
    BY <2>1, <2>3 DEF Promise!Register, Promise!Fresh, Promise!Pending, Fresh, Queued
  <2> QED BY <2>6, <2>7 DEF Promise!Next
<1>5. ASSUME destruction_started PROVE Promise!Next /\ OnePlace'
  <2>1. /\ mpc = "serve" /\ mpc' = "notify"
        /\ UNCHANGED <<req_queue, pc, job, answered, discarded>>
    BY <1>5 DEF destruction_started
  <2>2. Held' = Held /\ Queued' = Queued
    BY <2>1 DEF Held, Queued
  <2>3. OnePlace'
    BY <2>1, <2>2 DEF OnePlace
  <2>4. Promise!StopAccepting
    BY <2>1, <2>2 DEF Promise!StopAccepting
  <2> QED BY <2>3, <2>4 DEF Promise!Next
<1>6. ASSUME notify_all PROVE UNCHANGED Promise!vars /\ OnePlace'
  <2>1. /\ UNCHANGED <<req_queue, job, answered, discarded>>
        /\ (mpc = "serve") <=> (mpc' = "serve")
        /\ \A v \in Workers : pc[v] = "run" <=> pc'[v] = "run"
    BY <1>6 DEF notify_all
  <2> QED BY <2>1, QuietStep
<1>7. ASSUME join_and_delete PROVE [Promise!Next]_(Promise!vars) /\ OnePlace'
  <2>1. /\ mpc = "join" /\ mpc' = "gone"
        /\ discarded' = discarded \cup Queued
        /\ req_queue' = <<>>
        /\ UNCHANGED <<pc, job, answered>>
        /\ \A w \in Workers : pc[w] = "exit"
    BY <1>7 DEF join_and_delete
  <2>2. Held = {} /\ Held' = {}
    BY <2>1 DEF Held
  <2>3. Queued' = {}
    BY <2>1 DEF Queued
  <2>4. OnePlace'
    BY <2>1, <2>2, <2>3 DEF OnePlace
  <2>5. CASE req_queue = <<>>
    <3>1. Queued = {}
      BY <2>5 DEF Queued
    <3> QED BY <2>1, <2>2, <2>4, <2>5, <3>1 DEF Promise!vars
  <2>6. CASE req_queue # <<>>
    <3>1. Promise!Drop
      BY <2>1, <2>2, <2>6 DEF Promise!Drop, Promise!Pending, Queued
    <3> QED BY <2>4, <3>1 DEF Promise!Next
  <2> QED BY <2>5, <2>6
<1>8. ASSUME UNCHANGED vars PROVE UNCHANGED Promise!vars /\ OnePlace'
  BY <1>8, QuietStep DEF vars
<1> QED
  BY <1>1, <1>2, <1>3, <1>4, <1>5, <1>6, <1>7, <1>8 DEF Next

(* With any number of threads and of requests, the pool executes the       *)
(* requests in the order of register_executor, each once and by one        *)
(* thread, and its destructor deletes none that a thread works on.         *)
THEOREM ImplementsPromise == Spec => KeepsPromise
<1>1. Init => Promise!Init
  BY DEF Init, Promise!Init, Held
<1> QED
  BY <1>1, TypeInit, TypeStep, OnePlaceInit, StepImplements, PTL
  DEF Spec, KeepsPromise, Promise!Spec

-----------------------------------------------------------------------------
(* A thread that sets out for the queue, and one that leaves it. *)
LEMMA OneMoreHeading ==
  ASSUME NEW w \in Workers, w \notin Heading, Heading' = Heading \cup {w}
  PROVE  /\ Cardinality(Heading) \in Nat
         /\ Cardinality(Heading') = Cardinality(Heading) + 1
<1>1. IsFiniteSet(Heading)
  BY WorkersAssumption, FS_Subset DEF Heading
<1> QED BY <1>1, FS_AddElement, FS_CardinalityType

(* A thread that reaches the queue is heading for it no more. *)
LEMMA OneFewerHeading ==
  ASSUME NEW w \in Heading, Heading' = Heading \ {w}
  PROVE  /\ Cardinality(Heading) \in Nat
         /\ Cardinality(Heading') = Cardinality(Heading) - 1
<1>1. IsFiniteSet(Heading)
  BY WorkersAssumption, FS_Subset DEF Heading
<1> QED BY <1>1, FS_RemoveElement, FS_CardinalityType

(* One step loses no wakeup: what each action does to the queue and to the *)
(* two sets of threads.                                                    *)
LEMMA WakeupStep == TypeOK /\ TypeOK' /\ NoLostWakeup /\ [Next]_vars => NoLostWakeup'
<1> SUFFICES ASSUME TypeOK, TypeOK', NoLostWakeup, [Next]_vars
             PROVE  NoLostWakeup'
  OBVIOUS
<1>pc. pc \in [Workers -> {"lock", "asleep", "woken", "test", "run", "exit"}]
  BY DEF TypeOK
<1>len. Len(req_queue) \in Nat
  BY LenProperties DEF TypeOK
<1>card. Cardinality(Heading) \in Nat
  BY WorkersAssumption, FS_Subset, FS_CardinalityType DEF Heading
<1>1. ASSUME NEW w \in Workers, Take(w) \/ WokenToWork(w) PROVE NoLostWakeup'
  <2>1. /\ Pop(w) /\ w \in Heading /\ mpc' = mpc
    BY <1>1 DEF Take, WokenToWork, is_being_destructed, threadVars, Heading
  <2>2. Heading' = Heading \ {w} /\ Asleep' = Asleep
    BY <2>1, <1>pc DEF Pop, Heading, Asleep
  <2>3. Len(req_queue') = Len(req_queue) - 1
    BY <2>1, HeadTailProperties DEF Pop, TypeOK
  <2>4. Cardinality(Heading') = Cardinality(Heading) - 1
    BY <2>1, <2>2, OneFewerHeading
  <2> QED BY <2>1, <2>2, <2>3, <2>4, <1>len, <1>card DEF NoLostWakeup
<1>2. ASSUME NEW w \in Workers, Sleep(w) PROVE NoLostWakeup'
  <2>1. Len(req_queue') = 0
    BY <1>2, EmptySeq DEF Sleep
  <2>2. Cardinality(Heading') \in Nat
    BY WorkersAssumption, FS_Subset, FS_CardinalityType DEF Heading
  <2> QED BY <2>1, <2>2 DEF NoLostWakeup
<1>3. ASSUME NEW w \in Workers, WakeSpuriously(w) \/ process_actual_execution(w)
      PROVE NoLostWakeup'
  <2>1. /\ w \notin Heading
        /\ pc' = [pc EXCEPT ![w] = "woken"] \/ pc' = [pc EXCEPT ![w] = "lock"]
        /\ UNCHANGED <<mpc, req_queue>>
    BY <1>3 DEF WakeSpuriously, process_actual_execution, Heading, threadVars
  <2>2. Heading' = Heading \cup {w} /\ Asleep' \subseteq Asleep
    BY <2>1, <1>pc DEF Heading, Asleep
  <2> QED BY <2>1, <2>2, <1>len, OneMoreHeading DEF NoLostWakeup
<1>4. ASSUME NEW w \in Workers, Relock(w) \/ WokenInVain(w) PROVE NoLostWakeup'
  <2>1. Heading' = Heading /\ Asleep' = Asleep /\ UNCHANGED <<mpc, req_queue>>
    BY <1>4, <1>pc DEF Relock, WokenInVain, is_being_destructed, Heading, Asleep, threadVars
  <2> QED BY <2>1 DEF NoLostWakeup
<1>5. ASSUME NEW w \in Workers, Exit(w) PROVE NoLostWakeup'
  BY <1>5 DEF Exit, TypeOK, NoLostWakeup, threadVars
<1>6. ASSUME NEW r \in Requests, register_executor(r) PROVE NoLostWakeup'
  <2>1. Len(req_queue') = Len(req_queue) + 1 /\ mpc' = mpc
    BY <1>6, AppendProperties DEF register_executor, TypeOK
  <2>2. CASE Asleep = {} /\ pc' = pc
    BY <2>2 DEF NoLostWakeup, Asleep
  <2>3. CASE \E w \in Asleep : pc' = [pc EXCEPT ![w] = "woken"]
    <3>1. PICK w \in Asleep : pc' = [pc EXCEPT ![w] = "woken"]
      BY <2>3
    <3>2. w \in Workers /\ w \notin Heading /\ Heading' = Heading \cup {w}
      BY <3>1, <1>pc DEF Asleep, Heading
    <3>3. Cardinality(Heading') = Cardinality(Heading) + 1
      BY <3>2, OneMoreHeading
    <3> QED BY <2>1, <3>1, <3>3, <1>len, <1>card DEF NoLostWakeup
  <2> QED BY <1>6, <2>2, <2>3 DEF register_executor, notify_one
<1>7. ASSUME destruction_started \/ notify_all \/ join_and_delete PROVE NoLostWakeup'
  BY <1>7 DEF destruction_started, notify_all, join_and_delete, NoLostWakeup
<1>8. ASSUME UNCHANGED vars PROVE NoLostWakeup'
  BY <1>8 DEF vars, NoLostWakeup, Asleep, Heading
<1> QED
  BY <1>1, <1>2, <1>3, <1>4, <1>5, <1>6, <1>7, <1>8 DEF Next

(* With any number of threads, a request never waits for a busy thread     *)
(* while another one sleeps without having been notified for it.           *)
THEOREM WakeupsKept == Spec => []NoLostWakeup
<1>1. Init => NoLostWakeup
  BY DEF Init, NoLostWakeup, Asleep
<1> QED
  BY <1>1, TypeInit, TypeStep, WakeupStep, PTL DEF Spec
=============================================================================
