----------------------------- MODULE Supervisor -----------------------------
(***************************************************************************)
(* One computation of the client: ClientControllerSupervisor (the thread   *)
(* that splits an expression and collects the results), its                *)
(* ClientControllerTask threads (one remote call each), and the            *)
(* controller thread that may call visit() on it for the status command.   *)
(*                                                                         *)
(* The threads share resultStack_, computers_ and the Task objects; only   *)
(* notify() takes mutex_.  Every access of another thread's data is a step *)
(* of its own.  The value of a piece is abstracted to its position in the  *)
(* list of pieces, so a stored result tells whose value it is.             *)
(*                                                                         *)
(* A use of freed memory either goes unnoticed or ends the process, and so *)
(* does an exception that no thread catches: crashed.                      *)
(***************************************************************************)
EXTENDS Naturals, Sequences

CONSTANTS
  Pieces,     \* what dispatchTree iterates over: "task" for a subtree to be
              \* sent to a server, "item" for a lone operand or operator
  Items,      \* length of the whole expression, when it is not cut at all
  Prompt,     \* may a server's answer overtake dispatchTree?
  Faults,     \* the ways a remote call may fail
  MaxVisits   \* bound on the status commands

ASSUME PiecesAssumption == Pieces \in Seq({"task", "item"})
ASSUME ItemsAssumption == Items \in Nat
ASSUME PromptAssumption == Prompt \in BOOLEAN
ASSUME FaultsAssumption == Faults \subseteq {"network", "xmlrpc"}
ASSUME VisitsAssumption == MaxVisits \in Nat

Places == 1 .. Len(Pieces)
Tasks == {k \in Places : Pieces[k] = "task"}

(* Position 0 stands for "no thread", "no result", "never set". *)
None == 0

(* Cutting a tree higher than maxH_ leaves at least one subtree to send    *)
(* (ChunkHasTask in ExprTree).                                             *)
ASSUME TasksAssumption == Tasks # {}

VARIABLES
  low,        \* tree_.height() <= getMaxH(): not worth sending
  pc,         \* where the supervisor thread is
  cur,        \* the piece dispatchTree is at (it, and idx)
  copy,       \* resultStack_ as push_back found it before reallocating
  stack,      \* resultStack_
  computers,  \* keys of computers_; a task's thread is named by its piece
  mutex,      \* who holds mutex_
  tpc,        \* where the task threads are
  taskIdx,    \* idxInResultStack_ of the Task objects
  arg,        \* idx, the third argument of notify()
  left,       \* per abort() call: the entries its loop has yet to reach
  deleted,    \* the Task objects freed by abort()
  vpc,        \* is the controller thread inside visit()?
  vleft,      \* the entries visit() has yet to reach
  visits,     \* status commands so far
  finals,     \* the stacks finalComputation() was run on
  failed,     \* tasks whose remote call threw
  aborts,     \* completed abort() calls
  crashed     \* the process has died

dispatchVars == <<low, pc, cur, copy>>
taskVars == <<tpc, taskIdx, arg>>
abortVars == <<left, deleted, aborts>>
visitVars == <<vpc, vleft, visits>>
vars == <<dispatchVars, stack, computers, mutex, taskVars, abortVars,
          visitVars, finals, failed, crashed>>

(* ThreadResult *)
Slot(owner, result) == [owner |-> owner, result |-> result]
Slots == [owner : {None} \cup Tasks, result : Nat]

(* What push_back adds for piece k: the thread's empty slot, or the item.  *)
(* Mutants: every piece taken for a task; an item left without its value.  *)
SlotOfTask(k) == Slot(k, None)
SlotOfUnset(k) == IF Pieces[k] = "task" THEN Slot(k, None) ELSE Slot(None, None)
SlotOf(k) == IF Pieces[k] = "task" THEN Slot(k, None) ELSE Slot(None, k)

(* Mutant: only the top of the stack is looked at.                         *)
isTopComplete(s) == s[Len(s)].result # None
isResultComplete(s) == \A k \in DOMAIN s : s[k].result # None

(* A step that is undefined behaviour when `hazard' holds.                 *)
MayCrash(hazard) == crashed' \in (IF hazard THEN BOOLEAN ELSE {FALSE})

Init ==
  /\ low \in BOOLEAN /\ pc = "run" /\ cur = 1 /\ copy = <<>>
  /\ stack = <<>> /\ computers = {} /\ mutex = None
  /\ tpc = [t \in Tasks |-> "none"]
  /\ taskIdx = [t \in Tasks |-> None]
  /\ arg = [t \in Tasks |-> None]
  /\ left = [t \in Tasks |-> {}] /\ deleted = {} /\ aborts = 0
  /\ vpc = "idle" /\ vleft = {} /\ visits = 0
  /\ finals = <<>> /\ failed = {} /\ crashed = FALSE

-----------------------------------------------------------------------------
(* The supervisor thread *)

(* Every element of the expression is its own result.                      *)
LocalStack == [k \in 1 .. Items |-> Slot(None, k)]

(* run() on a low tree: assignResultStack, then finalComputation at once.  *)
RunLocally ==
  /\ ~crashed /\ pc = "run" /\ low
  /\ stack' = LocalStack
  /\ finals' = Append(finals, stack')
  /\ pc' = "done"
  /\ UNCHANGED <<low, cur, copy, computers, mutex, taskVars, abortVars, visitVars,
                 failed, crashed>>

(* run() on a tree worth sending: dispatchTree.                            *)
Dispatch ==
  /\ ~crashed /\ pc = "run" /\ ~low
  /\ pc' = "loop"
  /\ UNCHANGED <<low, cur, copy, stack, computers, mutex, taskVars, abortVars,
                 visitVars, finals, failed, crashed>>

(* create_thread: from here on the task runs beside dispatchTree.          *)
CreateTask ==
  /\ ~crashed /\ pc = "loop" /\ cur \in Tasks
  /\ tpc' = [tpc EXCEPT ![cur] = "rpc"]
  /\ pc' = "insert"
  /\ UNCHANGED <<low, cur, copy, stack, computers, mutex, taskIdx, arg, abortVars,
                 visitVars, finals, failed, crashed>>

(* Nothing catches what goes wrong before that: chooseSrv() has no server, *)
(* or ends past the last (ChooseServer); the Inet_addr of its host is not  *)
(* resolved; there is no thread to be had.                                 *)
CreateTaskFails ==
  /\ ~crashed /\ pc = "loop" /\ cur \in Tasks
  /\ crashed' = TRUE
  /\ UNCHANGED <<dispatchVars, stack, computers, mutex, taskVars, abortVars,
                 visitVars, finals, failed>>

(* computers_.insert; an abort() that is walking the map may see it or not *)
InsertTask ==
  /\ ~crashed /\ pc = "insert"
  /\ computers' = computers \cup {cur}
  /\ \E seenBy \in SUBSET {t \in Tasks : tpc[t] = "deleting"} :
       left' = [t \in Tasks |->
                  IF t \in seenBy THEN left[t] \cup {cur} ELSE left[t]]
  /\ pc' = "copy"
  /\ UNCHANGED <<low, cur, copy, stack, mutex, taskVars, deleted, aborts,
                 visitVars, finals, failed, crashed>>

(* push_back may move the slots to a larger block: the old ones are read   *)
(* here ...                                                                *)
CopySlots ==
  /\ ~crashed
  /\ \/ pc = "copy"
     \/ pc = "loop" /\ cur \in Places \ Tasks
  /\ copy' = stack
  /\ pc' = "push"
  /\ UNCHANGED <<low, cur, stack, computers, mutex, taskVars, abortVars,
                 visitVars, finals, failed, crashed>>

(* ... and replaced here, dropping what was stored in between; a push_back *)
(* with room to spare leaves them alone.                                   *)
PushSlot ==
  /\ ~crashed /\ pc = "push"
  /\ \E old \in {stack, copy} : stack' = Append(old, SlotOf(cur))
  /\ IF cur \in Tasks
       THEN pc' = "setIdx" /\ cur' = cur
       ELSE pc' = "loop" /\ cur' = cur + 1
  /\ UNCHANGED <<low, copy, computers, mutex, taskVars, abortVars, visitVars,
                 finals, failed, crashed>>

(* t->setIdx(idx), on an object abort() may have deleted.                  *)
SetIdx ==
  /\ ~crashed /\ pc = "setIdx"
  /\ taskIdx' = [taskIdx EXCEPT ![cur] = cur]
  /\ cur' = cur + 1
  /\ pc' = "loop"
  /\ MayCrash(cur \in deleted)
  /\ UNCHANGED <<low, copy, stack, computers, mutex, tpc, arg, abortVars,
                 visitVars, finals, failed>>

EndDispatch ==
  /\ ~crashed /\ pc = "loop" /\ cur \notin Places
  /\ pc' = "done"
  /\ UNCHANGED <<low, cur, copy, stack, computers, mutex, taskVars, abortVars,
                 visitVars, finals, failed, crashed>>

-----------------------------------------------------------------------------
(* The task threads: ClientControllerTask::run *)

(* execute("ServerMethodCompute") returns.  The server sleeps for seconds  *)
(* per element, so unless Prompt the dispatch is over by then.             *)
Answer(t) ==
  /\ ~crashed /\ tpc[t] = "rpc" /\ (Prompt \/ pc = "done")
  /\ tpc' = [tpc EXCEPT ![t] = "answered"]
  /\ MayCrash(t \in deleted)
  /\ UNCHANGED <<dispatchVars, stack, computers, mutex, taskIdx, arg,
                 abortVars, visitVars, finals, failed>>

(* execute throws; a network error leads to abort(), any other one ends    *)
(* the thread after a message.                                             *)
Fault(t, kind) ==
  /\ ~crashed /\ tpc[t] = "rpc"
  /\ failed' = failed \cup {t}
  /\ IF kind = "network"
       THEN /\ tpc' = [tpc EXCEPT ![t] = "deleting"]
            /\ left' = [left EXCEPT ![t] = computers]
       ELSE /\ tpc' = [tpc EXCEPT ![t] = "ended"]
            /\ left' = left
  /\ MayCrash(t \in deleted)
  /\ UNCHANGED <<dispatchVars, stack, computers, mutex, taskIdx, arg,
                 deleted, aborts, visitVars, finals>>

(* getIdx(): a member the constructor leaves uninitialized.                *)
CallNotify(t) ==
  /\ ~crashed /\ tpc[t] = "answered"
  /\ \E k \in 1 .. Len(Pieces) + 1 :
       /\ taskIdx[t] \in {None, k}
       /\ arg' = [arg EXCEPT ![t] = k]
  /\ tpc' = [tpc EXCEPT ![t] = "called"]
  /\ MayCrash(t \in deleted)
  /\ UNCHANGED <<dispatchVars, stack, computers, mutex, taskIdx, abortVars,
                 visitVars, finals, failed>>

(* Mutant: notify() does not wait for mutex_.                              *)
NoLock == TRUE
MutexFree == mutex = None

(* resultStack_[idx].threadId_ != id.  Mutant: the comparison is left out. *)
OwnsAny(t) == arg[t] \in DOMAIN stack
Owns(t) == arg[t] \in DOMAIN stack /\ stack[arg[t]].owner = t

(* notify(): lock, then turn away a thread that is not the slot's own.     *)
CheckOwner(t) ==
  /\ ~crashed /\ tpc[t] = "called" /\ MutexFree
  /\ IF Owns(t)
       THEN mutex' = t /\ tpc' = [tpc EXCEPT ![t] = "store"]
       ELSE mutex' = None /\ tpc' = [tpc EXCEPT ![t] = "ended"]
  /\ MayCrash(arg[t] \notin DOMAIN stack)
  /\ UNCHANGED <<dispatchVars, stack, computers, taskIdx, arg, abortVars,
                 visitVars, finals, failed>>

StoreResult(t) ==
  /\ ~crashed /\ tpc[t] = "store"
  /\ stack' = [stack EXCEPT ![arg[t]].result = t]
  /\ tpc' = [tpc EXCEPT ![t] = "stored"]
  /\ UNCHANGED <<dispatchVars, computers, mutex, taskIdx, arg, abortVars,
                 visitVars, finals, failed, crashed>>

(* if (!isResultComplete()) ... else finalComputation()                    *)
CheckComplete(t) ==
  /\ ~crashed /\ tpc[t] = "stored"
  /\ IF isResultComplete(stack)
       THEN mutex' = mutex /\ tpc' = [tpc EXCEPT ![t] = "final"]
       ELSE mutex' = None /\ tpc' = [tpc EXCEPT ![t] = "ended"]
  /\ UNCHANGED <<dispatchVars, stack, computers, taskIdx, arg, abortVars,
                 visitVars, finals, failed, crashed>>

(* finalComputation(); dereferencing an empty boost::optional is fatal.    *)
FinalComputation(t) ==
  /\ ~crashed /\ tpc[t] = "final"
  /\ finals' = Append(finals, stack)
  /\ crashed' = ~isResultComplete(stack)
  /\ mutex' = None
  /\ tpc' = [tpc EXCEPT ![t] = "ended"]
  /\ UNCHANGED <<dispatchVars, stack, computers, taskIdx, arg, abortVars,
                 visitVars, failed>>

(* abort(): delete one entry of computers_, through an iterator another    *)
(* abort() may have invalidated, and which it may have deleted before.     *)
DeleteTask(t) ==
  /\ ~crashed /\ tpc[t] = "deleting"
  /\ \E u \in left[t] :
       /\ left' = [left EXCEPT ![t] = @ \ {u}]
       /\ deleted' = deleted \cup {u}
       /\ MayCrash(u \in deleted \/ u \notin computers)
  /\ UNCHANGED <<dispatchVars, stack, computers, mutex, taskVars, aborts,
                 visitVars, finals, failed>>

(* ... then erase the whole map and tell the user.                         *)
EraseTasks(t) ==
  /\ ~crashed /\ tpc[t] = "deleting" /\ left[t] = {}
  /\ computers' = {}
  /\ aborts' = aborts + 1
  /\ tpc' = [tpc EXCEPT ![t] = "ended"]
  /\ UNCHANGED <<dispatchVars, stack, mutex, taskIdx, arg, left, deleted,
                 visitVars, finals, failed, crashed>>

-----------------------------------------------------------------------------
(* The controller thread: visit(), for the status command *)

VisitStart ==
  /\ ~crashed /\ vpc = "idle" /\ visits < MaxVisits
  /\ vpc' = "visiting" /\ vleft' = computers /\ visits' = visits + 1
  /\ UNCHANGED <<dispatchVars, stack, computers, mutex, taskVars, abortVars,
                 finals, failed, crashed>>

(* One ServerMethodStatus call.  Only iqxmlrpc::Exception is caught, and   *)
(* network_error is not one.                                               *)
VisitTask ==
  /\ ~crashed /\ vpc = "visiting"
  /\ \E u \in vleft :
       /\ vleft' = vleft \ {u}
       /\ MayCrash("network" \in Faults \/ u \in deleted \/ u \notin computers)
  /\ UNCHANGED <<dispatchVars, stack, computers, mutex, taskVars, abortVars,
                 vpc, visits, finals, failed>>

VisitEnd ==
  /\ ~crashed /\ vpc = "visiting" /\ vleft = {}
  /\ vpc' = "idle"
  /\ UNCHANGED <<dispatchVars, stack, computers, mutex, taskVars, abortVars,
                 vleft, visits, finals, failed, crashed>>

-----------------------------------------------------------------------------
SupervisorStep ==
  \/ RunLocally \/ Dispatch \/ CreateTask \/ CreateTaskFails \/ InsertTask
  \/ CopySlots \/ PushSlot \/ SetIdx \/ EndDispatch

TaskStep(t) ==
  \/ Answer(t) \/ (\E kind \in Faults : Fault(t, kind))
  \/ CallNotify(t) \/ CheckOwner(t) \/ StoreResult(t) \/ CheckComplete(t)
  \/ FinalComputation(t) \/ DeleteTask(t) \/ EraseTasks(t)

VisitStep == VisitStart \/ VisitTask \/ VisitEnd

Halted ==
  \/ crashed
  \/ pc = "done" /\ (\A t \in Tasks : tpc[t] \in {"none", "ended"}) /\ vpc = "idle"

Done == Halted /\ UNCHANGED vars

Next == SupervisorStep \/ (\E t \in Tasks : TaskStep(t)) \/ VisitStep \/ Done

Spec == Init /\ [][Next]_vars

(* Every thread keeps running, and a server called either answers or the   *)
(* call fails.                                                             *)
FairSpec ==
  /\ Spec
  /\ WF_vars(SupervisorStep)
  /\ \A t \in Tasks : WF_vars(TaskStep(t))

-----------------------------------------------------------------------------
TypeOK ==
  /\ low \in BOOLEAN
  /\ pc \in {"run", "loop", "insert", "copy", "push", "setIdx", "done"}
  /\ cur \in 1 .. Len(Pieces) + 1
  /\ copy \in Seq(Slots) /\ stack \in Seq(Slots)
  /\ computers \subseteq Tasks /\ deleted \subseteq Tasks
  /\ mutex \in {None} \cup Tasks
  /\ tpc \in [Tasks -> {"none", "rpc", "answered", "called", "store", "stored",
                        "final", "deleting", "ended"}]
  /\ taskIdx \in [Tasks -> {None} \cup Tasks]
  /\ arg \in [Tasks -> 0 .. Len(Pieces) + 1]
  /\ left \in [Tasks -> SUBSET Tasks]
  /\ vpc \in {"idle", "visiting"} /\ vleft \subseteq Tasks /\ visits \in Nat
  /\ finals \in Seq(Seq(Slots))
  /\ failed \subseteq Tasks /\ aborts \in Nat /\ crashed \in BOOLEAN

(* A result is only ever found in the place of the piece it is the value   *)
(* of, whatever index a task read from an object whose setIdx had not run: *)
(* the comparison of threadId_ in notify() must reject all the others, and *)
(* the slots must stay aligned with the pieces while the stack moves.      *)
ResultInOwnPlace ==
  \A k \in DOMAIN stack : stack[k].result \in {None, k}

(* What finalComputation() folds is the whole expression: every piece, in  *)
(* order, with its own value.                                              *)
FullStack ==
  IF low THEN LocalStack ELSE [k \in Places |-> Slot(SlotOf(k).owner, k)]
FinalIsWhole == \A n \in DOMAIN finals : finals[n] = FullStack

(* At most one thread finds the results complete, so the user is given one *)
(* final result.                                                           *)
AtMostOneFinal == Len(finals) <= 1

(* A computation is reported finished or reported interrupted, never both: *)
(* once a call has failed no final result may come out.                    *)
NoFinalAfterFailure == finals # <<>> => failed = {} /\ aborts = 0

(* The client died where dispatchTree was to make a task.                  *)
DiedDispatching == crashed /\ pc = "loop" /\ cur \in Tasks

(* Class comment of the supervisor: it collects the returned results and   *)
(* does the final computation on them; so it does, unless a call fails or  *)
(* a task could not be made.                                               *)
EventuallyFinal == <>(finals # <<>> \/ failed # {} \/ DiedDispatching)

(* ClientControllerTask.h: the task thread is responsible for computing    *)
(* its subtask and returning it to the supervisor.  So if no call meets a  *)
(* network error, the supervisor gets to its final computation.            *)
TaskReturnsResult == <>(finals # <<>> \/ aborts > 0 \/ crashed)

(* ClientControllerSupervisor.h: isResultComplete tells whether all the    *)
(* results of the subcomputations are collected.                           *)
CompleteMeansCollected ==
  \A t \in Tasks : tpc[t] = "final" => DOMAIN stack = Places

(* ClientControllerSupervisor.h: abort() interrupts the operation, so no   *)
(* task is started after it.                                               *)
AbortStopsDispatch ==
  [][aborts > 0 => \A t \in Tasks : tpc[t] = "none" => tpc'[t] = "none"]_vars
=============================================================================
