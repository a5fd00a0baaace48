-------------------------- MODULE SupervisorProofs --------------------------
(***************************************************************************)
(* What holds of Supervisor for every list of pieces: type correctness,    *)
(* that results stay in their own places under every timing, and, when the *)
(* servers answer after the dispatch, that the final computation is run    *)
(* once at most, on the whole expression, and never beside a failure; and  *)
(* of the choice of a task's server, in ChooseServer.                      *)
(***************************************************************************)
EXTENDS Supervisor, ChooseServer, DataLemmas, SequenceTheorems, TLAPS

(* Appending a slot keeps the others where they are. *)
LEMMA AppendSlot ==
  ASSUME NEW S, NEW s \in Seq(S), NEW e \in S
  PROVE  /\ Append(s, e) \in Seq(S)
         /\ Len(Append(s, e)) = Len(s) + 1
         /\ DOMAIN Append(s, e) = 1 .. Len(s) + 1
         /\ \A k \in 1 .. Len(s) : Append(s, e)[k] = s[k]
         /\ Append(s, e)[Len(s) + 1] = e
  OBVIOUS

(* Places, tasks and slots for any list of pieces. *)
LEMMA ConstantTypes ==
  /\ Len(Pieces) \in Nat
  /\ Places = 1 .. Len(Pieces) /\ Tasks \subseteq Places /\ Places \subseteq Nat
  /\ \A k \in Places : SlotOf(k) \in Slots
  /\ \A k \in Places : SlotOf(k).owner = IF k \in Tasks THEN k ELSE None
  /\ \A k \in Places : SlotOf(k).result = IF k \in Tasks THEN None ELSE k
  /\ LocalStack \in Seq(Slots)
  /\ Len(LocalStack) = Items
  <1>1. Len(Pieces) \in Nat
    BY PiecesAssumption
  <1>2. LocalStack \in Seq(Slots) /\ Len(LocalStack) = Items
    BY ItemsAssumption DEF LocalStack, Slot, Slots, None
  <1>. QED
    BY <1>1, <1>2 DEF Places, Tasks, SlotOf, Slot, Slots, None

(* A hazardous step leaves the process alive or dead. *)
LEMMA CrashType ==
  ASSUME NEW hazard, MayCrash(hazard)
  PROVE  crashed' \in BOOLEAN
  BY Zenon DEF MayCrash

(* The fields of a slot that receives a result. *)
LEMMA StoreSlot ==
  ASSUME NEW s \in Seq(Slots), NEW k \in 1 .. Len(s), NEW r \in Nat
  PROVE  LET n == [s EXCEPT ![k].result = r]
         IN  /\ n \in Seq(Slots) /\ Len(n) = Len(s)
             /\ \A j \in 1 .. Len(s) : /\ n[j].owner = s[j].owner
                                       /\ n[j].result = IF j = k THEN r ELSE s[j].result
  <1>1. \A j \in 1 .. Len(s) : s[j] \in Slots
    BY ElementOfSeq
  <1>2. [s[k] EXCEPT !.result = r] \in Slots
    BY <1>1 DEF Slots
  <1>. DEFINE n == [s EXCEPT ![k].result = r]
  <1>3. n = [s EXCEPT ![k] = [s[k] EXCEPT !.result = r]]
    OBVIOUS
  <1>4. /\ n \in Seq(Slots) /\ Len(n) = Len(s)
        /\ \A j \in 1 .. Len(s) : n[j] = IF j = k THEN [s[k] EXCEPT !.result = r] ELSE s[j]
    BY <1>2, <1>3, ExceptSeq
  <1>. QED
    BY <1>1, <1>4 DEF Slots

-----------------------------------------------------------------------------
(* The inductive invariant. *)

(* How far dispatchTree is, and what must exist by then. *)
Position ==
  /\ pc \in {"insert", "copy", "setIdx"} => cur \in Tasks
  /\ pc = "push" => cur \in Places /\ Len(copy) = Len(stack)
  /\ low => pc \in {"run", "done"}
  /\ low \/ pc = "run" => \A t \in Tasks : tpc[t] = "none"
  /\ pc = "run" => cur = 1 /\ stack = <<>>
  /\ ~low => Len(stack) = IF pc = "setIdx" THEN cur ELSE cur - 1
  /\ ~low /\ pc = "done" => cur = Len(Pieces) + 1

(* The slots are those of the first pieces, each empty or with its own value. *)
Aligned(s) ==
  \A k \in 1 .. Len(s) :
    /\ s[k].owner = SlotOf(k).owner
    /\ s[k].result \in {SlotOf(k).result, k}

Layout ==
  /\ ~low => Aligned(stack)
  /\ pc = "push" => Aligned(copy)
  /\ low /\ pc = "done" => stack = LocalStack

(* Past the comparison of threadId_, the index is the thread's own. *)
StoreIndex ==
  \A t \in Tasks : tpc[t] = "store" => arg[t] = t /\ t \in 1 .. Len(stack)

Inv == TypeOK /\ Position /\ Layout /\ StoreIndex

(* The invariant holds when the supervisor is made. *)
LEMMA InvInit == Init => Inv
  <1>. SUFFICES ASSUME Init PROVE Inv
    OBVIOUS
  <1>1. copy \in Seq(Slots) /\ stack \in Seq(Slots) /\ finals \in Seq(Seq(Slots))
    BY EmptySeq DEF Init
  <1>2. /\ pc \in {"run", "loop", "insert", "copy", "push", "setIdx", "done"}
        /\ cur \in 1 .. Len(Pieces) + 1 /\ visits \in Nat /\ aborts \in Nat
    BY ConstantTypes DEF Init
  <1>3. /\ arg \in [Tasks -> 0 .. Len(Pieces) + 1]
        /\ taskIdx \in [Tasks -> {None} \cup Tasks]
    BY ConstantTypes DEF Init, None
  <1>4. TypeOK
    BY <1>1, <1>2, <1>3 DEF Init, TypeOK
  <1>5. Position /\ Layout /\ StoreIndex
    BY DEF Init, Position, Layout, StoreIndex, Aligned
  <1>. QED
    BY <1>4, <1>5 DEF Inv

(* The steps that leave the slots and the dispatch alone. *)
LEMMA InvFrame ==
  ASSUME Inv, TypeOK', UNCHANGED <<dispatchVars, stack>>,
         \A t \in Tasks : tpc'[t] = "none" <=> tpc[t] = "none",
         \A t \in Tasks : tpc'[t] = "store" =>
           \/ tpc[t] = "store" /\ arg'[t] = arg[t]
           \/ arg'[t] = t /\ t \in 1 .. Len(stack)
  PROVE  Inv'
  BY DEF Inv, Position, Layout, StoreIndex, Aligned, dispatchVars

(* Every step of every thread keeps it. *)
LEMMA InvNext == Inv /\ [Next]_vars => Inv'
  <1>. SUFFICES ASSUME Inv, [Next]_vars PROVE Inv'
    OBVIOUS
  <1>0. /\ TypeOK /\ Position /\ Layout /\ StoreIndex
        /\ Len(Pieces) \in Nat /\ Places = 1 .. Len(Pieces)
        /\ Tasks \subseteq Places /\ Places \subseteq Nat
    BY ConstantTypes DEF Inv
  <1>. USE DEF dispatchVars, taskVars, abortVars, visitVars
  <1>1. CASE RunLocally
    <2>1. TypeOK'
      BY <1>0, <1>1, AppendSlot, ConstantTypes DEF RunLocally, TypeOK
    <2>2. Position' /\ Layout' /\ StoreIndex'
      BY <1>0, <1>1 DEF RunLocally, Position, Layout, StoreIndex
    <2>. QED BY <2>1, <2>2 DEF Inv
  <1>2. CASE Dispatch
    <2>1. TypeOK'
      BY <1>0, <1>2 DEF Dispatch, TypeOK
    <2>2. Position' /\ Layout' /\ StoreIndex'
      BY <1>0, <1>2 DEF Dispatch, Position, Layout, StoreIndex
    <2>. QED BY <2>1, <2>2 DEF Inv
  <1>3. CASE CreateTask
    <2>1. TypeOK'
      BY <1>0, <1>3 DEF CreateTask, TypeOK
    <2>2. Position' /\ Layout' /\ StoreIndex'
      BY <1>0, <1>3 DEF CreateTask, Position, Layout, StoreIndex, TypeOK
    <2>. QED BY <2>1, <2>2 DEF Inv
  <1>4. CASE InsertTask
    <2>1. left' \in [Tasks -> SUBSET Tasks]
      BY <1>0, <1>4 DEF InsertTask, TypeOK, Position
    <2>2. TypeOK'
      BY <2>1, <1>0, <1>4 DEF InsertTask, TypeOK, Position
    <2>3. Position' /\ Layout' /\ StoreIndex'
      BY <1>0, <1>4 DEF InsertTask, Position, Layout, StoreIndex
    <2>. QED BY <2>2, <2>3 DEF Inv
  <1>5. CASE CopySlots
    <2>1. TypeOK'
      BY <1>0, <1>5 DEF CopySlots, TypeOK
    <2>2. Position' /\ Layout' /\ StoreIndex'
      BY <1>0, <1>5 DEF CopySlots, Position, Layout, StoreIndex, Aligned
    <2>. QED BY <2>1, <2>2 DEF Inv
  <1>6. CASE PushSlot
    <2>1. PICK old \in {stack, copy} : stack' = Append(old, SlotOf(cur))
      BY <1>6 DEF PushSlot
    <2>2. /\ cur \in Places /\ SlotOf(cur) \in Slots /\ old \in Seq(Slots)
          /\ Len(old) = Len(stack) /\ cur = Len(stack) + 1 /\ Aligned(old)
          /\ ~low
      <3>1. pc = "push" /\ cur \in Places /\ Len(copy) = Len(stack) /\ ~low
            /\ Len(stack) = cur - 1 /\ Aligned(stack) /\ Aligned(copy)
        BY <1>0, <1>6 DEF PushSlot, Position, Layout
      <3>2. stack \in Seq(Slots) /\ copy \in Seq(Slots) /\ cur \in Nat
        BY <3>1, <1>0 DEF TypeOK
      <3>. QED BY <3>1, <3>2, <2>1, ConstantTypes
    <2>3. /\ stack' \in Seq(Slots) /\ Len(stack') = cur
          /\ \A k \in 1 .. Len(stack) : stack'[k] = old[k]
          /\ stack'[cur] = SlotOf(cur)
      BY <2>1, <2>2, AppendSlot
    <2>a. cur' \in 1 .. Len(Pieces) + 1 /\ pc' \in {"setIdx", "loop"}
      BY <2>2, <1>0, <1>6 DEF PushSlot
    <2>4. TypeOK'
      BY <2>a, <2>3, <1>0, <1>6 DEF PushSlot, TypeOK
    <2>5. Aligned(stack)'
      BY <2>2, <2>3, <1>0 DEF Aligned
    <2>6. Position' /\ Layout' /\ StoreIndex'
      BY <2>2, <2>3, <2>5, <1>0, <1>6 DEF PushSlot, Position, Layout, StoreIndex
    <2>. QED BY <2>4, <2>6 DEF Inv
  <1>7. CASE SetIdx
    <2>1. cur \in Tasks /\ cur + 1 \in 1 .. Len(Pieces) + 1
      BY <1>0, <1>7 DEF SetIdx, Position
    <2>2. crashed' \in BOOLEAN
      BY <1>7, CrashType DEF SetIdx
    <2>3. TypeOK'
      BY <2>1, <2>2, <1>0, <1>7 DEF SetIdx, TypeOK
    <2>4. Position' /\ Layout' /\ StoreIndex'
      BY <2>1, <1>0, <1>7 DEF SetIdx, Position, Layout, StoreIndex, TypeOK
    <2>. QED BY <2>3, <2>4 DEF Inv
  <1>8. CASE EndDispatch
    <2>1. TypeOK'
      BY <1>0, <1>8 DEF EndDispatch, TypeOK
    <2>2. Position' /\ Layout' /\ StoreIndex'
      BY <1>0, <1>8 DEF EndDispatch, Position, Layout, StoreIndex, TypeOK
    <2>. QED BY <2>1, <2>2 DEF Inv
  <1>9. ASSUME NEW t \in Tasks, TaskStep(t) PROVE Inv'
    <2>1. CASE Answer(t)
      <3>1. crashed' \in BOOLEAN
        BY <2>1, CrashType DEF Answer
      <3>2. TypeOK'
        BY <3>1, <1>0, <2>1 DEF Answer, TypeOK
      <3>. QED BY <3>2, <1>0, <2>1, InvFrame DEF Answer, TypeOK, StoreIndex
    <2>2. ASSUME NEW kind \in Faults, Fault(t, kind) PROVE Inv'
      <3>1. crashed' \in BOOLEAN
        BY <2>2, CrashType DEF Fault
      <3>2. CASE kind = "network"
        <4>a. left' = [left EXCEPT ![t] = computers]
          BY <3>2, <2>2 DEF Fault
        <4>b. left \in [Tasks -> SUBSET Tasks] /\ computers \in SUBSET Tasks
          BY <1>0 DEF TypeOK
        <4>0. left' \in [Tasks -> SUBSET Tasks]
          BY <4>a, <4>b
        <4>1. TypeOK'
          BY <3>1, <3>2, <4>0, <1>0, <2>2 DEF Fault, TypeOK
        <4>2. /\ UNCHANGED <<dispatchVars, stack>> /\ arg' = arg /\ t \in Tasks
              /\ tpc[t] = "rpc" /\ tpc' = [tpc EXCEPT ![t] = "deleting"]
          BY <3>2, <2>2 DEF Fault
        <4>3. \A u \in Tasks : /\ tpc'[u] = "none" <=> tpc[u] = "none"
                               /\ tpc'[u] = "store" => tpc[u] = "store"
          BY <4>2, <1>0 DEF TypeOK
        <4>. QED BY <4>1, <4>2, <4>3, <1>0, InvFrame DEF Inv
      <3>3. CASE kind # "network"
        <4>1. TypeOK'
          BY <3>1, <3>3, <1>0, <2>2 DEF Fault, TypeOK
        <4>2. /\ UNCHANGED <<dispatchVars, stack>> /\ arg' = arg /\ t \in Tasks
              /\ tpc[t] = "rpc" /\ tpc' = [tpc EXCEPT ![t] = "ended"]
          BY <3>3, <2>2 DEF Fault
        <4>3. \A u \in Tasks : /\ tpc'[u] = "none" <=> tpc[u] = "none"
                               /\ tpc'[u] = "store" => tpc[u] = "store"
          BY <4>2, <1>0 DEF TypeOK
        <4>. QED BY <4>1, <4>2, <4>3, <1>0, InvFrame DEF Inv
      <3>. QED BY <3>2, <3>3
    <2>3. CASE CallNotify(t)
      <3>1. crashed' \in BOOLEAN
        BY <2>3, CrashType DEF CallNotify
      <3>2. TypeOK'
        BY <3>1, <1>0, <2>3, SMTT(30) DEF CallNotify, TypeOK
      <3>3. /\ UNCHANGED <<dispatchVars, stack>>
            /\ tpc[t] # "none" /\ tpc' = [tpc EXCEPT ![t] = "called"]
        BY <2>3 DEF CallNotify
      <3>4. \A u \in Tasks : tpc'[u] = IF u = t THEN "called" ELSE tpc[u]
        BY <3>3, <1>0 DEF TypeOK
      <3>5. \A u \in Tasks : tpc'[u] = "none" <=> tpc[u] = "none"
        BY <3>3, <3>4
      <3>6. \A u \in Tasks : tpc'[u] = "store" => tpc[u] = "store" /\ u # t
        BY <3>3, <3>4
      <3>7. \A u \in Tasks : u # t => arg'[u] = arg[u]
        BY <2>3, <1>0 DEF CallNotify, TypeOK
      <3>. QED BY <3>2, <3>3, <3>5, <3>6, <3>7, InvFrame
    <2>4. CASE CheckOwner(t)
      <3>1. crashed' \in BOOLEAN
        BY <2>4, CrashType DEF CheckOwner, Owns, MutexFree
      <3>2. TypeOK'
        BY <3>1, <1>0, <2>4 DEF CheckOwner, Owns, MutexFree, TypeOK
      <3>3. DOMAIN stack = 1 .. Len(stack) /\ Len(stack) \in Nat
        BY <1>0 DEF TypeOK
      <3>4. ~low
        BY <1>0, <2>4 DEF CheckOwner, Owns, MutexFree, Position
      <3>5. Len(stack) <= Len(Pieces)
        BY <3>4, <1>0 DEF Position, TypeOK
      <3>6. ASSUME arg[t] \in DOMAIN stack, stack[arg[t]].owner = t
            PROVE  arg[t] = t
        <4>1. arg[t] \in Places /\ SlotOf(arg[t]).owner = t
          BY <3>3, <3>4, <3>5, <3>6, <1>0 DEF Layout, Aligned
        <4>. QED BY <4>1, <1>0, ConstantTypes DEF None
      <3>7. /\ UNCHANGED <<dispatchVars, stack, arg>> /\ tpc[t] = "called"
            /\ \/ tpc' = [tpc EXCEPT ![t] = "store"] /\ Owns(t)
               \/ tpc' = [tpc EXCEPT ![t] = "ended"]
        BY <2>4 DEF CheckOwner
      <3>8. \A u \in Tasks : u # t => tpc'[u] = tpc[u]
        BY <3>7, <1>0 DEF TypeOK
      <3>9. tpc'[t] = "store" => arg'[t] = t /\ t \in 1 .. Len(stack)
        BY <3>3, <3>6, <3>7, <1>0 DEF Owns, TypeOK
      <3>10. tpc'[t] # "none"
        BY <3>7, <1>0 DEF TypeOK
      <3>11. \A u \in Tasks : tpc'[u] = "none" <=> tpc[u] = "none"
        BY <3>7, <3>8, <3>10
      <3>12. \A u \in Tasks : tpc'[u] = "store" =>
               \/ tpc[u] = "store" /\ arg'[u] = arg[u]
               \/ arg'[u] = u /\ u \in 1 .. Len(stack)
        BY <3>7, <3>8, <3>9
      <3>. QED BY <3>2, <3>7, <3>11, <3>12, <1>0, InvFrame
    <2>5. CASE StoreResult(t)
      <3>1. arg[t] = t /\ t \in 1 .. Len(stack) /\ t \in Nat /\ stack \in Seq(Slots)
        BY <1>0, <2>5 DEF StoreResult, StoreIndex, TypeOK
      <3>2. stack' = [stack EXCEPT ![t].result = t]
        BY <3>1, <2>5 DEF StoreResult
      <3>3. /\ stack' \in Seq(Slots) /\ Len(stack') = Len(stack)
            /\ \A j \in 1 .. Len(stack) :
                 /\ stack'[j].owner = stack[j].owner
                 /\ stack'[j].result = IF j = t THEN t ELSE stack[j].result
        BY <3>1, <3>2, StoreSlot
      <3>4. TypeOK'
        BY <3>3, <1>0, <2>5 DEF StoreResult, TypeOK
      <3>5. ~low
        BY <1>0, <2>5 DEF StoreResult, Position
      <3>6. Aligned(stack)'
        BY <3>3, <3>5, <1>0 DEF Layout, Aligned
      <3>7. pc # "run"
        BY <1>0, <2>5 DEF StoreResult, Position
      <3>8. Position' /\ Layout' /\ StoreIndex'
        BY <3>3, <3>5, <3>6, <3>7, <1>0, <2>5
        DEF StoreResult, Position, Layout, StoreIndex, TypeOK, Aligned
      <3>. QED BY <3>4, <3>8 DEF Inv
    <2>6. CASE CheckComplete(t)
      <3>1. TypeOK'
        BY <1>0, <2>6 DEF CheckComplete, TypeOK
      <3>. QED BY <3>1, <1>0, <2>6, InvFrame, SMTT(30) DEF CheckComplete, TypeOK, StoreIndex
    <2>7. CASE FinalComputation(t)
      <3>1. finals' \in Seq(Seq(Slots))
        BY <1>0, <2>7, AppendSlot DEF FinalComputation, TypeOK
      <3>2. TypeOK'
        BY <3>1, <1>0, <2>7 DEF FinalComputation, TypeOK, isResultComplete
      <3>. QED BY <3>2, <1>0, <2>7, InvFrame DEF FinalComputation, TypeOK, StoreIndex
    <2>8. CASE DeleteTask(t)
      <3>1. PICK u \in left[t] :
              /\ left' = [left EXCEPT ![t] = @ \ {u}]
              /\ deleted' = deleted \cup {u}
              /\ MayCrash(u \in deleted \/ u \notin computers)
        BY <2>8 DEF DeleteTask
      <3>2. crashed' \in BOOLEAN
        BY <3>1, CrashType
      <3>3. u \in Tasks
        BY <3>1, <1>0 DEF TypeOK
      <3>4. TypeOK'
        BY <3>1, <3>2, <3>3, <1>0, <2>8 DEF DeleteTask, TypeOK
      <3>. QED BY <3>4, <1>0, <2>8, InvFrame DEF DeleteTask, TypeOK, StoreIndex
    <2>9. CASE EraseTasks(t)
      <3>1. TypeOK'
        BY <1>0, <2>9, SMTT(30) DEF EraseTasks, TypeOK
      <3>. QED BY <3>1, <1>0, <2>9, InvFrame DEF EraseTasks, TypeOK, StoreIndex
    <2>. QED
      BY <1>9, <2>1, <2>2, <2>3, <2>4, <2>5, <2>6, <2>7, <2>8, <2>9 DEF TaskStep
  <1>10. CASE VisitStep
    <2>1. CASE VisitStart
      <3>1. TypeOK'
        BY <1>0, <2>1, SMTT(30) DEF VisitStart, TypeOK
      <3>. QED BY <3>1, <1>0, <2>1, InvFrame DEF VisitStart, StoreIndex
    <2>2. CASE VisitTask
      <3>1. PICK u \in vleft :
              /\ vleft' = vleft \ {u}
              /\ MayCrash("network" \in Faults \/ u \in deleted \/ u \notin computers)
        BY <2>2 DEF VisitTask
      <3>2. crashed' \in BOOLEAN
        BY <3>1, CrashType
      <3>3. TypeOK'
        BY <3>1, <3>2, <1>0, <2>2 DEF VisitTask, TypeOK
      <3>. QED BY <3>3, <1>0, <2>2, InvFrame DEF VisitTask, StoreIndex
    <2>3. CASE VisitEnd
      <3>1. TypeOK'
        BY <1>0, <2>3 DEF VisitEnd, TypeOK
      <3>. QED BY <3>1, <1>0, <2>3, InvFrame DEF VisitEnd, StoreIndex
    <2>. QED BY <1>10, <2>1, <2>2, <2>3 DEF VisitStep
  <1>11. CASE UNCHANGED vars
    <2>1. TypeOK'
      BY <1>0, <1>11 DEF vars, TypeOK
    <2>. QED BY <2>1, <1>0, <1>11, InvFrame DEF vars, StoreIndex
  <1>12. CASE CreateTaskFails
    <2>1. TypeOK'
      BY <1>0, <1>12 DEF CreateTaskFails, TypeOK
    <2>. QED BY <2>1, <1>0, <1>12, InvFrame DEF CreateTaskFails, StoreIndex
  <1>. QED
    BY <1>1, <1>2, <1>3, <1>4, <1>5, <1>6, <1>7, <1>8, <1>9, <1>10, <1>11, <1>12
    DEF Next, SupervisorStep, Done

(* And so it always holds. *)
LEMMA InvAlways == Spec => []Inv
  BY InvInit, InvNext, PTL DEF Spec

-----------------------------------------------------------------------------
(* Every variable keeps its type. *)
THEOREM TypeCorrect == Spec => []TypeOK
  <1>1. Inv => TypeOK
    BY DEF Inv
  <1>. QED BY <1>1, InvAlways, PTL

(* Whatever the order of answers and dispatch, and whatever index a task   *)
(* reads before its setIdx has run, notify() stores a result only in the   *)
(* place of the piece it is the value of.                                  *)
THEOREM ResultsStayInPlace == Spec => []ResultInOwnPlace
  <1>1. Inv => ResultInOwnPlace
    <2>. SUFFICES ASSUME Inv, NEW k \in DOMAIN stack
                  PROVE  stack[k].result \in {None, k}
      BY DEF ResultInOwnPlace
    <2>1. DOMAIN stack = 1 .. Len(stack) /\ Len(stack) \in Nat
      BY DEF Inv, TypeOK
    <2>2. CASE ~low
      <3>0. /\ Len(Pieces) \in Nat /\ Places = 1 .. Len(Pieces)
            /\ Tasks \subseteq Places
        BY ConstantTypes
      <3>01. Len(stack) <= Len(Pieces)
        BY <2>2, <3>0 DEF Inv, Position, TypeOK
      <3>1. k \in Places
        BY <2>1, <3>0, <3>01
      <3>. QED BY <2>1, <2>2, <3>1, ConstantTypes DEF Inv, Layout, Aligned
    <2>3. CASE low
      <3>1. stack = <<>> \/ stack = LocalStack
        BY <2>3 DEF Inv, Layout, Position
      <3>11. stack # <<>>
        BY <2>1
      <3>2. k \in 1 .. Items
        BY <2>1, <3>1, <3>11 DEF LocalStack
      <3>3. LocalStack[k].result = k
        BY <3>2 DEF LocalStack, Slot
      <3>. QED BY <3>1, <3>11, <3>3
    <2>. QED BY <2>2, <2>3
  <1>. QED BY <1>1, InvAlways, PTL

-----------------------------------------------------------------------------
(* Answers that come after the dispatch: ~Prompt. *)

(* Calls return only when every slot and every index is in place ... *)
Waiting ==
  /\ \A t \in Tasks :
       tpc[t] \in {"answered", "called", "store", "stored", "final"} => pc = "done"
  /\ pc = "push" => copy = stack
  /\ \A t \in Tasks : ~low /\ t < cur => taskIdx[t] = t
  /\ \A t \in Tasks : tpc[t] = "called" => arg[t] = t
  /\ \A t \in Tasks : t > cur \/ (t = cur /\ pc = "loop") => tpc[t] = "none"

(* ... the thread that stores and counts the results is alone ... *)
Locked == \A t \in Tasks : tpc[t] \in {"store", "stored", "final"} <=> mutex = t

(* ... a result in place is that of a call that succeeded ... *)
Computed ==
  /\ \A t \in Tasks : ~low /\ t \in 1 .. Len(stack) /\ stack[t].result = t =>
                        tpc[t] \in {"stored", "final", "ended"} /\ t \notin failed
  /\ \A t \in failed : tpc[t] \in {"deleting", "ended"}
  /\ \A t \in Tasks : tpc[t] = "deleting" => t \in failed
  /\ aborts # 0 => failed # {}

(* ... and the last thread to store is the one that finds them complete.   *)
Finished ==
  /\ \A t \in Tasks : tpc[t] = "final" => isResultComplete(stack)
  /\ finals # <<>> => /\ pc = "done" /\ finals = <<FullStack>> /\ failed = {}
                      /\ low \/ \A t \in Tasks : tpc[t] = "ended"

SlowInv == Inv /\ Waiting /\ Locked /\ Computed /\ Finished

(* The same for the invariant of a dispatch that answers do not overtake. *)
LEMMA SlowInit == Init => SlowInv
  <1>. SUFFICES ASSUME Init PROVE SlowInv
    OBVIOUS
  <1>1. Tasks \subseteq Nat /\ (\A t \in Tasks : t >= 1)
    BY ConstantTypes
  <1>2. Waiting /\ Locked /\ Computed /\ Finished
    BY <1>1 DEF Init, Waiting, Locked, Computed, Finished, None
  <1>. QED BY <1>2, InvInit DEF SlowInv

(* A complete stack of the right length is the whole expression. *)
LEMMA CompleteIsFull ==
  ASSUME Inv, ~low, pc = "done", isResultComplete(stack)
  PROVE  stack = FullStack /\ \A t \in Tasks : t \in 1 .. Len(stack) /\ stack[t].result = t
  <1>1. /\ Len(Pieces) \in Nat /\ Places = 1 .. Len(Pieces)
        /\ Tasks \subseteq Places /\ Places \subseteq Nat
    BY ConstantTypes
  <1>2. stack \in Seq(Slots) /\ Len(stack) = Len(Pieces) /\ DOMAIN stack = Places
    BY <1>1 DEF Inv, Position, TypeOK
  <1>3. ASSUME NEW k \in Places
        PROVE  stack[k].owner = SlotOf(k).owner /\ stack[k].result = k
    <2>1. /\ stack[k].owner = SlotOf(k).owner
          /\ stack[k].result \in {SlotOf(k).result, k}
          /\ stack[k].result # None
      BY <1>1, <1>2 DEF Inv, Layout, Aligned, isResultComplete
    <2>2. SlotOf(k).result \in {None, k}
      BY ConstantTypes
    <2>. QED BY <2>1, <2>2
  <1>4. \A k \in Places : stack[k] = Slot(SlotOf(k).owner, k)
    <2>1. \A k \in Places : stack[k] \in Slots
      BY <1>1, <1>2, ElementOfSeq
    <2>. QED BY <2>1, <1>3 DEF Slots, Slot
  <1>5. stack = [k \in Places |-> stack[k]]
    BY <1>1, <1>2
  <1>6. stack = FullStack
    BY <1>4, <1>5 DEF FullStack
  <1>. QED BY <1>1, <1>2, <1>3, <1>6

(* Steps outside the mutex that store nothing. *)
LEMMA SlowFrame ==
  ASSUME SlowInv, Inv', UNCHANGED <<stack, mutex, finals, failed, low>>,
         aborts' # 0 => aborts # 0 \/ failed # {},
         finals # <<>> => pc' = pc /\ tpc' = tpc,
         \A t \in Tasks : \/ tpc'[t] = tpc[t]
                          \/ /\ tpc[t] \notin {"store", "stored", "final", "ended", "deleting"}
                             /\ tpc'[t] \notin {"store", "stored", "final", "ended", "deleting"}
                          \/ tpc[t] = "deleting" /\ tpc'[t] = "ended"
  PROVE  Locked' /\ Computed' /\ Finished'
  <1>0. failed \subseteq Tasks
    BY DEF SlowInv, Inv, TypeOK
  <1>. USE <1>0 DEF SlowInv
  <1>1. Locked'
    BY DEF Locked
  <1>2. Computed'
    BY DEF Computed
  <1>3. Finished'
    BY DEF Finished, isResultComplete, FullStack
  <1>. QED BY <1>1, <1>2, <1>3

(* Every step keeps it, one case for each action. *)
LEMMA SlowNext == ASSUME ~Prompt PROVE SlowInv /\ [Next]_vars => SlowInv'
  <1>. SUFFICES ASSUME SlowInv, [Next]_vars PROVE SlowInv'
    OBVIOUS
  <1>0. /\ TypeOK /\ Position /\ Layout /\ StoreIndex /\ Waiting /\ Locked
        /\ Computed /\ Finished /\ Inv /\ Inv'
        /\ Tasks \subseteq Places /\ Places \subseteq Nat /\ None \notin Tasks
        /\ Places = 1 .. Len(Pieces) /\ Len(Pieces) \in Nat
    BY InvNext, ConstantTypes DEF SlowInv, Inv, None
  <1>. USE DEF dispatchVars, taskVars, abortVars, visitVars
  <1>1. CASE RunLocally
    <2>1. /\ low /\ finals = <<>> /\ finals' = Append(finals, LocalStack)
          /\ pc' = "done" /\ low' = low /\ tpc' = tpc /\ mutex' = mutex
          /\ UNCHANGED <<taskIdx, arg, cur, failed, aborts>>
      BY <1>0, <1>1 DEF RunLocally, Finished
    <2>2. \A t \in Tasks : tpc[t] = "none"
      BY <1>0, <2>1 DEF Position
    <2>3. failed = {}
      BY <1>0, <2>2 DEF Computed, TypeOK
    <2>4. finals' = <<FullStack>> /\ FullStack' = FullStack
      BY <2>1 DEF FullStack
    <2>5. Waiting' /\ Locked' /\ Computed'
      BY <2>1, <2>2, <2>3, <1>0 DEF Waiting, Locked, Computed
    <2>6. Finished'
      BY <2>1, <2>2, <2>3, <2>4 DEF Finished
    <2>. QED BY <1>0, <2>5, <2>6 DEF SlowInv
  <1>2. CASE Dispatch
    <2>1. Waiting'
      BY <1>0, <1>2 DEF Dispatch, Waiting, Position
    <2>. QED BY <2>1, <1>0, <1>2, SlowFrame DEF Dispatch, SlowInv, Finished
  <1>3. CASE CreateTask
    <2>1. Waiting'
      BY <1>0, <1>3 DEF CreateTask, Waiting, TypeOK
    <2>2. tpc[cur] = "none" /\ finals = <<>>
      BY <1>0, <1>3 DEF CreateTask, Waiting, Finished
    <2>3. \A t \in Tasks : tpc'[t] = IF t = cur THEN "rpc" ELSE tpc[t]
      BY <1>0, <1>3 DEF CreateTask, TypeOK
    <2>. QED BY <2>1, <2>2, <2>3, <1>0, <1>3, SlowFrame DEF CreateTask, SlowInv
  <1>4. CASE InsertTask
    <2>1. Waiting'
      BY <1>0, <1>4 DEF InsertTask, Waiting
    <2>. QED BY <2>1, <1>0, <1>4, SlowFrame DEF InsertTask, SlowInv, Finished
  <1>5. CASE CopySlots
    <2>1. Waiting'
      BY <1>0, <1>5 DEF CopySlots, Waiting
    <2>. QED BY <2>1, <1>0, <1>5, SlowFrame DEF CopySlots, SlowInv, Finished
  <1>6. CASE PushSlot
    <2>a. copy = stack
      BY <1>0, <1>6 DEF PushSlot, Waiting
    <2>b. finals = <<>>
      BY <1>0, <1>6 DEF PushSlot, Finished
    <2>1. stack' = Append(stack, SlotOf(cur)) /\ finals = <<>>
      BY <2>a, <2>b, <1>6 DEF PushSlot
    <2>2. /\ cur = Len(stack) + 1 /\ cur \in Places /\ ~low
          /\ stack \in Seq(Slots) /\ SlotOf(cur) \in Slots
      BY <1>0, <1>6, ConstantTypes DEF PushSlot, Position, TypeOK
    <2>3. /\ Len(stack') = Len(stack) + 1
          /\ \A k \in 1 .. Len(stack) : stack'[k] = stack[k]
          /\ stack'[Len(stack) + 1] = SlotOf(cur)
      BY <2>1, <2>2, AppendSlot
    <2>4. Waiting'
      <3>1. UNCHANGED <<tpc, taskIdx, arg, low>> /\ cur \in Nat
        BY <2>2, <1>0, <1>6 DEF PushSlot
      <3>2. \/ pc' = "setIdx" /\ cur' = cur
            \/ pc' = "loop" /\ cur' = cur + 1 /\ cur \notin Tasks
        BY <1>6 DEF PushSlot
      <3>. QED BY <3>1, <3>2, <1>0, <1>6 DEF PushSlot, Waiting
    <2>5. Locked' /\ Finished'
      BY <2>1, <1>0, <1>6 DEF PushSlot, Locked, Finished, Waiting
    <2>6. Computed'
      BY <2>2, <2>3, <1>0, <1>6, ConstantTypes DEF PushSlot, Computed, None
    <2>. QED BY <1>0, <2>4, <2>5, <2>6 DEF SlowInv
  <1>7. CASE SetIdx
    <2>1. Waiting'
      BY <1>0, <1>7 DEF SetIdx, Waiting, TypeOK, Position
    <2>. QED BY <2>1, <1>0, <1>7, SlowFrame DEF SetIdx, SlowInv, Finished
  <1>8. CASE EndDispatch
    <2>1. Waiting'
      BY <1>0, <1>8 DEF EndDispatch, Waiting
    <2>. QED BY <2>1, <1>0, <1>8, SlowFrame DEF EndDispatch, SlowInv, Finished
  <1>9. ASSUME NEW t \in Tasks, TaskStep(t) PROVE SlowInv'
    <2>0. tpc[t] # "none" /\ tpc[t] # "ended" => ~low /\ finals = <<>>
      BY <1>0 DEF Position, Finished
    <2>1. CASE Answer(t)
      <3>1. pc = "done"
        BY <2>1 DEF Answer
      <3>2. Waiting'
        BY <3>1, <1>0, <2>1 DEF Answer, Waiting, TypeOK
      <3>. QED BY <3>2, <2>0, <1>0, <2>1, SlowFrame DEF Answer, SlowInv, TypeOK
    <2>2. ASSUME NEW kind \in Faults, Fault(t, kind) PROVE SlowInv'
      <3>1. /\ tpc[t] = "rpc" /\ failed' = failed \cup {t}
            /\ tpc' = [tpc EXCEPT ![t] = tpc'[t]] /\ tpc'[t] \in {"deleting", "ended"}
        BY <1>0, <2>2 DEF Fault, TypeOK
      <3>2. Waiting'
        BY <3>1, <1>0, <2>2 DEF Fault, Waiting, TypeOK
      <3>3. Locked'
        BY <3>1, <1>0, <2>2 DEF Fault, Locked, TypeOK
      <3>4. Computed'
        <4>1. UNCHANGED <<stack, low, aborts>>
          BY <2>2 DEF Fault
        <4>2. \A u \in Tasks : u # t => tpc'[u] = tpc[u]
          BY <3>1, <1>0 DEF TypeOK
        <4>3. t \in failed' /\ \A u \in failed' : u = t \/ u \in failed
          BY <3>1
        <4>4. failed \subseteq Tasks
          BY <1>0 DEF TypeOK
        <4>5. ~(~low /\ t \in 1 .. Len(stack) /\ stack[t].result = t)
          BY <3>1, <1>0 DEF Computed
        <4>. QED BY <3>1, <4>1, <4>2, <4>3, <4>4, <4>5, <1>0 DEF Computed
      <3>5. Finished'
        BY <3>1, <2>0, <1>0, <2>2 DEF Fault, Finished, TypeOK
      <3>. QED BY <1>0, <3>2, <3>3, <3>4, <3>5 DEF SlowInv
    <2>3. CASE CallNotify(t)
      <3>1. PICK k \in 1 .. Len(Pieces) + 1 :
              taskIdx[t] \in {None, k} /\ arg' = [arg EXCEPT ![t] = k]
        BY <2>3 DEF CallNotify
      <3>2. pc = "done" /\ ~low /\ t < cur
        BY <2>0, <1>0, <2>3 DEF CallNotify, Waiting, Position
      <3>3. arg'[t] = t
        BY <3>1, <3>2, <1>0 DEF Waiting, TypeOK, None
      <3>4. Waiting'
        BY <3>1, <3>2, <3>3, <1>0, <2>3 DEF CallNotify, Waiting, TypeOK
      <3>. QED BY <3>4, <2>0, <1>0, <2>3, SlowFrame DEF CallNotify, SlowInv, TypeOK
    <2>4. CASE CheckOwner(t)
      <3>1. pc = "done" /\ ~low /\ arg[t] = t /\ finals = <<>>
        BY <2>0, <1>0, <2>4 DEF CheckOwner, Owns, MutexFree, Waiting
      <3>2. arg[t] \in DOMAIN stack /\ stack[arg[t]].owner = t
        BY <3>1, <1>0, ConstantTypes DEF Position, Layout, Aligned, TypeOK
      <3>3. mutex = None /\ mutex' = t /\ tpc' = [tpc EXCEPT ![t] = "store"]
        BY <3>2, <2>4 DEF CheckOwner, Owns, MutexFree
      <3>4. Waiting'
        BY <3>1, <3>3, <1>0, <2>4 DEF CheckOwner, Owns, MutexFree, Waiting, TypeOK
      <3>5. Locked'
        BY <3>3, <1>0 DEF Locked, TypeOK
      <3>6. Computed'
        BY <3>3, <1>0, <2>4 DEF CheckOwner, Owns, MutexFree, Computed, TypeOK
      <3>7. Finished'
        BY <3>1, <3>3, <1>0, <2>4 DEF CheckOwner, Owns, MutexFree, Finished, TypeOK
      <3>. QED BY <1>0, <3>4, <3>5, <3>6, <3>7 DEF SlowInv
    <2>5. CASE StoreResult(t)
      <3>1. arg[t] = t /\ t \in 1 .. Len(stack) /\ t \in Nat /\ stack \in Seq(Slots)
        BY <1>0, <2>5 DEF StoreResult, StoreIndex, TypeOK
      <3>2. stack' = [stack EXCEPT ![t].result = t]
        BY <3>1, <2>5 DEF StoreResult
      <3>3. /\ Len(stack') = Len(stack)
            /\ \A j \in 1 .. Len(stack) :
                 stack'[j].result = IF j = t THEN t ELSE stack[j].result
        BY <3>1, <3>2, StoreSlot
      <3>4. pc = "done" /\ finals = <<>>
        BY <2>0, <1>0, <2>5 DEF StoreResult, Waiting
      <3>5. Waiting'
        BY <3>4, <1>0, <2>5 DEF StoreResult, Waiting, TypeOK
      <3>6. Locked'
        BY <1>0, <2>5 DEF StoreResult, Locked, TypeOK
      <3>7. Computed'
        BY <3>3, <1>0, <2>5 DEF StoreResult, Computed, TypeOK
      <3>8. Finished'
        BY <3>4, <1>0, <2>5 DEF StoreResult, Finished, Locked, TypeOK
      <3>. QED BY <1>0, <3>5, <3>6, <3>7, <3>8 DEF SlowInv
    <2>6. CASE CheckComplete(t)
      <3>1. pc = "done" /\ finals = <<>>
        BY <2>0, <1>0, <2>6 DEF CheckComplete, Waiting
      <3>2. Waiting'
        BY <3>1, <1>0, <2>6 DEF CheckComplete, Waiting, TypeOK
      <3>3. Locked'
        BY <1>0, <2>6 DEF CheckComplete, Locked, TypeOK
      <3>4. Computed'
        BY <1>0, <2>6 DEF CheckComplete, Computed, TypeOK
      <3>5. Finished'
        BY <3>1, <1>0, <2>6 DEF CheckComplete, Finished, TypeOK, isResultComplete
      <3>. QED BY <1>0, <3>2, <3>3, <3>4, <3>5 DEF SlowInv
    <2>7. CASE FinalComputation(t)
      <3>1. pc = "done" /\ finals = <<>> /\ ~low /\ isResultComplete(stack)
        BY <2>0, <1>0, <2>7 DEF FinalComputation, Waiting, Finished
      <3>2. /\ stack = FullStack
            /\ \A u \in Tasks : u \in 1 .. Len(stack) /\ stack[u].result = u
        BY <3>1, <1>0, CompleteIsFull
      <3>3. finals' = <<FullStack>> /\ FullStack' = FullStack
        BY <3>1, <3>2, <2>7 DEF FinalComputation, FullStack
      <3>4. failed = {} /\ \A u \in Tasks : u # t => tpc[u] = "ended"
        <4>1. \A u \in Tasks : tpc[u] \in {"stored", "final", "ended"} /\ u \notin failed
          BY <3>1, <3>2, <1>0 DEF Computed
        <4>2. mutex = t /\ \A u \in Tasks : tpc[u] \in {"stored", "final"} => u = t
          BY <1>0, <2>7 DEF FinalComputation, Locked
        <4>. QED BY <4>1, <4>2, <1>0 DEF TypeOK
      <3>5. Waiting'
        BY <3>1, <1>0, <2>7 DEF FinalComputation, Waiting, TypeOK
      <3>6. Locked'
        BY <1>0, <2>7 DEF FinalComputation, Locked, TypeOK
      <3>7. Computed'
        BY <1>0, <2>7 DEF FinalComputation, Computed, TypeOK
      <3>8. Finished'
        BY <3>1, <3>3, <3>4, <1>0, <2>7 DEF FinalComputation, Finished, TypeOK
      <3>. QED BY <1>0, <3>5, <3>6, <3>7, <3>8 DEF SlowInv
    <2>8. CASE DeleteTask(t)
      <3>1. Waiting'
        BY <1>0, <2>8 DEF DeleteTask, Waiting
      <3>. QED BY <3>1, <1>0, <2>8, SlowFrame DEF DeleteTask, SlowInv
    <2>9. CASE EraseTasks(t)
      <3>1. Waiting'
        BY <1>0, <2>9 DEF EraseTasks, Waiting, TypeOK
      <3>2. failed # {}
        BY <1>0, <2>9 DEF EraseTasks, Computed
      <3>. QED BY <3>1, <3>2, <2>0, <1>0, <2>9, SlowFrame DEF EraseTasks, SlowInv, TypeOK
    <2>. QED
      BY <1>9, <2>1, <2>2, <2>3, <2>4, <2>5, <2>6, <2>7, <2>8, <2>9 DEF TaskStep
  <1>10. CASE VisitStep
    <2>1. Waiting'
      BY <1>0, <1>10 DEF VisitStep, VisitStart, VisitTask, VisitEnd, Waiting
    <2>. QED
      BY <2>1, <1>0, <1>10, SlowFrame
      DEF VisitStep, VisitStart, VisitTask, VisitEnd, SlowInv
  <1>11. CASE UNCHANGED vars
    <2>1. Waiting'
      BY <1>0, <1>11 DEF vars, Waiting
    <2>. QED BY <2>1, <1>0, <1>11, SlowFrame DEF vars, SlowInv
  <1>12. CASE CreateTaskFails
    <2>1. Waiting'
      BY <1>0, <1>12 DEF CreateTaskFails, Waiting
    <2>. QED BY <2>1, <1>0, <1>12, SlowFrame DEF CreateTaskFails, SlowInv
  <1>. QED
    BY <1>1, <1>2, <1>3, <1>4, <1>5, <1>6, <1>7, <1>8, <1>9, <1>10, <1>11, <1>12
    DEF Next, SupervisorStep, Done

(* And so it always holds then. *)
LEMMA SlowAlways == ASSUME ~Prompt PROVE Spec => []SlowInv
  BY SlowInit, SlowNext, PTL DEF Spec

(* When no answer overtakes the dispatch, finalComputation() is only run   *)
(* on the whole expression, each piece with its own value.                 *)
THEOREM FinalCorrect == ASSUME ~Prompt PROVE Spec => []FinalIsWhole
  <1>1. SlowInv => FinalIsWhole
    BY DEF SlowInv, Finished, FinalIsWhole
  <1>. QED BY <1>1, SlowAlways, PTL

(* ... at most once ... *)
THEOREM OneFinal == ASSUME ~Prompt PROVE Spec => []AtMostOneFinal
  <1>1. SlowInv => AtMostOneFinal
    BY DEF SlowInv, Finished, AtMostOneFinal
  <1>. QED BY <1>1, SlowAlways, PTL

(* ... and never when a call has failed or the computation was aborted.    *)
THEOREM FinalExcludesFailure == ASSUME ~Prompt PROVE Spec => []NoFinalAfterFailure
  <1>1. SlowInv => NoFinalAfterFailure
    BY DEF SlowInv, Finished, Computed, NoFinalAfterFailure
  <1>. QED BY <1>1, SlowAlways, PTL

-----------------------------------------------------------------------------
(* The choice of a server, for every set of names, every file and every    *)
(* answer of the servers.                                                  *)

(* The map has a last entry: some number bounds its names. *)
Bounded == \E b \in Nat : \A n \in Known : n <= b

LEMMA Ends ==
  ASSUME ServersOK, Bounded, Known # {}
  PROVE  /\ First \in Known /\ \A m \in Known : First <= m
         /\ Last \in Known /\ \A m \in Known : m <= Last
<1>1. Known \subseteq Nat
  BY NamesAssumption DEF ServersOK
<1>2. \E n \in Known : \A m \in Known : n <= m
  BY <1>1, LeastExists
<1>3. \E n \in Known : \A m \in Known : m <= n
  BY <1>1, GreatestExists DEF Bounded
<1> QED BY <1>2, <1>3 DEF First, Last

LEMMA AfterIsNext ==
  ASSUME ServersOK, Bounded, NEW n \in Known
  PROVE  IF n = Last THEN After(n) = End ELSE After(n) \in Known
<1>1. CASE n = Last
  BY <1>1 DEF After
<1>2. CASE n # Last
  <2> DEFINE S == {m \in Known : m > n}
  <2>1. Known \subseteq Nat /\ Last \in Known /\ n <= Last
    BY Ends, NamesAssumption DEF ServersOK
  <2>2. S \subseteq Nat /\ S # {}
    <3>1. Last \in S
      BY <1>2, <2>1
    <3> QED BY <2>1, <3>1
  <2>3. PICK m \in S : \A k \in S : m <= k
    <3> HIDE DEF S
    <3> QED BY <2>2, LeastExists
  <2>4. \E x \in Known : x > n /\ \A k \in Known : k > n => x <= k
    BY <2>3
  <2> QED BY <1>2, <2>4 DEF After
<1> QED BY <1>1, <1>2

LEMMA BeforeIsPrevious ==
  ASSUME ServersOK, Bounded, NEW n \in Known, n # First
  PROVE  Before(n) \in Known /\ \A k \in Known : k < n => k <= Before(n)
<1> DEFINE S == {m \in Known : m < n}
<1>1. Known \subseteq Nat /\ First \in Known /\ First <= n /\ n # End
  BY Ends, NamesAssumption DEF ServersOK, End
<1>2. S \subseteq Nat /\ S # {} /\ \A m \in S : m <= n
  <2>1. First \in S
    BY <1>1
  <2>2. \A m \in S : m \in Nat /\ m <= n
    BY <1>1
  <2> QED BY <2>1, <2>2
<1>3. PICK m \in S : \A k \in S : k <= m
  <2>1. n \in Nat
    BY <1>1
  <2> HIDE DEF S
  <2> QED BY <1>2, <2>1, GreatestExists
<1>4. \E x \in Known : x < n /\ \A k \in Known : k < n => k <= x
  BY <1>3
<1> QED BY <1>1, <1>4 DEF Before

-----------------------------------------------------------------------------
(* What the scan has seen where it is: past the end it came over the last  *)
(* entry, which is down; it leaves for "return" at an entry that is up, or *)
(* when all are down.                                                      *)
Scanned ==
  /\ at \in {"load", "exited"} => chosen = 0
  /\ at \in {"forward", "check", "backward", "return"} => Known # {}
  /\ at \in {"forward", "check", "backward", "return"} /\ iter = End => ~servers_[Last]
  /\ at = "check" /\ iter # End => servers_[iter]
  /\ at = "backward" /\ iter # End => \A n \in Known : n > iter => ~servers_[n]
  /\ at = "return" /\ iter # End /\ ~servers_[iter] => Available = {}

ScanInv == ServersOK /\ Bounded /\ Scanned /\ ChosenIsAvailable

LEMMA ScanInit == ServersInit => ScanInv
<1> SUFFICES ASSUME ServersInit PROVE ScanInv
  OBVIOUS
<1>1. Known = {}
  BY DEF ServersInit, Known
<1>2. ServersOK
  <2>1. servers_ \in [Known -> BOOLEAN]
    BY <1>1 DEF ServersInit
  <2>2. 0 \in 0 .. MaxLines /\ 0 \in 0 .. MaxChoices
    BY BoundsAssumption
  <2> QED BY <1>1, <2>1, <2>2 DEF ServersInit, ServersOK
<1>3. Bounded
  BY <1>1 DEF Bounded
<1> QED BY <1>1, <1>2, <1>3 DEF ScanInv, ServersInit, Scanned, ChosenIsAvailable

(* A step of the scan, of the choice of its start or of its end leaves the *)
(* map alone, and with it what is said of the map.                         *)
LEMMA SameMap ==
  ASSUME UNCHANGED servers_
  PROVE  /\ Known' = Known /\ Last' = Last /\ Available' = Available
         /\ Bounded => Bounded'
BY DEF Known, Last, Available, Bounded

LEMMA LoadKeeps ==
  ASSUME ScanInv, NEW n \in Names, NEW up \in BOOLEAN, LoadServer(n, up)
  PROVE  ScanInv'
<1> USE DEF ScanInv
<1>1. Known' = Known \cup {n} /\ at = "load" /\ at' = "load" /\ chosen' = 0
  BY DEF LoadServer, insert, Known, Scanned
<1>2. ServersOK'
  <2>1. servers_' \in [Known' -> BOOLEAN]
    BY <1>1 DEF LoadServer, insert, ServersOK
  <2>2. lines' \in 0 .. MaxLines
    BY BoundsAssumption DEF LoadServer, ServersOK
  <2> QED BY <1>1, <2>1, <2>2 DEF LoadServer, ServersOK
<1>3. Bounded'
  <2>1. PICK b \in Nat : \A m \in Known : m <= b
    BY DEF Bounded
  <2>2. n \in Nat /\ Known \subseteq Nat
    BY NamesAssumption DEF ServersOK
  <2>3. \A m \in Known' : m <= b + n
    BY <1>1, <2>1, <2>2
  <2> QED BY <2>1, <2>2, <2>3 DEF Bounded
<1>4. Scanned'
  BY <1>1 DEF Scanned
<1>5. ChosenIsAvailable'
  BY <1>1 DEF ChosenIsAvailable
<1> QED BY <1>2, <1>3, <1>4, <1>5

LEMMA ForwardKeeps == ScanInv /\ Forward => ScanInv'
<1> SUFFICES ASSUME ScanInv, Forward PROVE ScanInv'
  OBVIOUS
<1> USE DEF ScanInv
<1>1. UNCHANGED <<lines, servers_, chosen, told, choices>> /\ at = "forward"
  BY DEF Forward
<1>2. Known' = Known /\ Last' = Last /\ Available' = Available /\ Bounded'
  BY <1>1, SameMap
<1>3. PICK up \in Up :
        IF up \/ iter = End THEN at' = "check" /\ iter' = iter
        ELSE at' = at /\ iter' = After(iter)
  BY DEF Forward
<1>4. iter # End => up = servers_[iter] /\ iter \in Known
  BY DEF Up, ServersOK
<1>5. CASE up \/ iter = End
  BY <1>1, <1>2, <1>3, <1>4, <1>5 DEF ServersOK, Scanned, ChosenIsAvailable
<1>6. CASE ~(up \/ iter = End)
  <2>1. IF iter = Last THEN iter' = End ELSE iter' \in Known
    BY <1>3, <1>4, <1>6, AfterIsNext
  <2>2. iter' = End => ~servers_[Last]
    BY <1>4, <1>6, <2>1, NamesAssumption DEF ServersOK, End
  <2> QED BY <1>1, <1>2, <1>3, <1>4, <1>6, <2>1, <2>2 DEF ServersOK, Scanned, ChosenIsAvailable
<1> QED BY <1>5, <1>6

LEMMA CheckKeeps == ScanInv /\ Check => ScanInv'
<1> SUFFICES ASSUME ScanInv, Check PROVE ScanInv'
  OBVIOUS
<1> USE DEF ScanInv
<1>1. UNCHANGED <<lines, servers_, iter, chosen, told, choices>> /\ at = "check"
  BY DEF Check
<1>2. Known' = Known /\ Last' = Last /\ Available' = Available /\ Bounded'
  BY <1>1, SameMap
<1>3. PICK up \in Up : at' = IF iter = End \/ ~up THEN "backward" ELSE "return"
  BY DEF Check
<1>4. iter # End => up = servers_[iter] /\ servers_[iter]
  BY <1>1 DEF Up, Scanned
<1>5. at' = IF iter = End THEN "backward" ELSE "return"
  BY <1>3, <1>4
<1> QED BY <1>1, <1>2, <1>4, <1>5 DEF ServersOK, Scanned, ChosenIsAvailable

LEMMA BackwardKeeps == ScanInv /\ Backward => ScanInv'
<1> SUFFICES ASSUME ScanInv, Backward PROVE ScanInv'
  OBVIOUS
<1> USE DEF ScanInv
<1>1. UNCHANGED <<lines, servers_, chosen, told, choices>> /\ at = "backward" /\ Known # {}
  BY DEF Backward, Scanned
<1>2. Known' = Known /\ Last' = Last /\ Available' = Available /\ Bounded'
  BY <1>1, SameMap
<1>3. PICK up \in Up :
        IF up \/ iter = First THEN at' = "return" /\ iter' = iter
        ELSE at' = at /\ iter' = Before(iter)
  BY DEF Backward
<1>4. iter # End => up = servers_[iter] /\ iter \in Known
  BY DEF Up, ServersOK
<1>5. /\ First \in Known /\ \A m \in Known : First <= m
      /\ Last \in Known /\ \A m \in Known : m <= Last
      /\ Known \subseteq Nat \ {0}
  BY <1>1, Ends, NamesAssumption DEF ServersOK
<1>6. CASE up \/ iter = First
  <2>1. iter # End /\ ~servers_[iter] => iter = First /\ \A n \in Known : n > First => ~servers_[n]
    BY <1>1, <1>4, <1>6 DEF Scanned
  <2>2. iter # End /\ ~servers_[iter] => Available = {}
    <3> SUFFICES ASSUME iter # End, ~servers_[iter], NEW n \in Known PROVE ~servers_[n]
      BY DEF Available
    <3>1. n = First \/ n > First
      BY <1>5
    <3> QED BY <2>1, <3>1
  <2> QED BY <1>1, <1>2, <1>3, <1>6, <2>2 DEF ServersOK, Scanned, ChosenIsAvailable
<1>7. CASE ~(up \/ iter = First)
  <2>1. iter' = Before(iter) /\ at' = "backward"
    BY <1>1, <1>3, <1>7
  <2>2. iter' \in Known
    BY <1>4, <1>5, <1>7, <2>1, BeforeIsPrevious DEF Before
  <2>3. ASSUME NEW n \in Known, n > iter' PROVE ~servers_[n]
    <3>1. CASE iter = End
      BY <1>5, <2>1, <2>3, <3>1 DEF Before
    <3>2. CASE iter # End
      <4>1. iter \in Known /\ ~servers_[iter] /\ \A k \in Known : k > iter => ~servers_[k]
        BY <1>1, <1>4, <1>7, <3>2 DEF Scanned
      <4>2. \A k \in Known : k < iter => k <= iter'
        BY <1>7, <2>1, <4>1, BeforeIsPrevious
      <4>3. n >= iter
        BY <1>5, <2>2, <2>3, <4>1, <4>2
      <4> QED BY <1>5, <4>1, <4>3
    <3> QED BY <3>1, <3>2
  <2> QED BY <1>1, <1>2, <1>5, <2>1, <2>2, <2>3 DEF ServersOK, Scanned, ChosenIsAvailable, End
<1> QED BY <1>6, <1>7

LEMMA ScanStep == ScanInv /\ [ServersNext]_serverVars => ScanInv'
<1> SUFFICES ASSUME ScanInv, [ServersNext]_serverVars PROVE ScanInv'
  OBVIOUS
<1>1. ASSUME NEW n \in Names, NEW up \in BOOLEAN, LoadServer(n, up) PROVE ScanInv'
  BY <1>1, LoadKeeps
<1>2. CASE CheckServerExits
  BY <1>2, SameMap DEF CheckServerExits, ScanInv, ServersOK, Scanned, ChosenIsAvailable
<1>3. CASE Loaded
  BY <1>3, SameMap DEF Loaded, ScanInv, ServersOK, Scanned, ChosenIsAvailable
<1>4. ASSUME NEW n \in Known, ChooseStart(n) PROVE ScanInv'
  <2>1. choices' \in 0 .. MaxChoices /\ n # End
    BY <1>4, BoundsAssumption, NamesAssumption DEF ChooseStart, ScanInv, ServersOK, End
  <2> QED BY <1>4, <2>1, SameMap DEF ChooseStart, ScanInv, ServersOK, Scanned, ChosenIsAvailable
<1>5. CASE NoServers
  BY <1>5, SameMap DEF NoServers, ScanInv, ServersOK, Scanned, ChosenIsAvailable
<1>6. CASE Forward
  BY <1>6, ForwardKeeps
<1>7. CASE Check
  BY <1>7, CheckKeeps
<1>8. CASE Backward
  BY <1>8, BackwardKeeps
<1>9. CASE Return
  <2>1. iter \in Known /\ iter' = iter /\ UNCHANGED servers_ /\ at' = "idle"
    BY <1>9 DEF Return, ScanInv, ServersOK
  <2>2. Known' = Known /\ Available' = Available /\ Bounded'
    BY <2>1, SameMap DEF ScanInv
  <2>3. servers_[iter] \in BOOLEAN
    BY <2>1 DEF ScanInv, ServersOK
  <2>4. ChosenIsAvailable'
    <3>1. CASE servers_[iter]
      BY <1>9, <2>1, <2>2, <3>1 DEF Return, Available, ChosenIsAvailable
    <3>2. CASE ~servers_[iter]
      BY <1>9, <2>1, <2>2, <3>2 DEF Return, Available, ChosenIsAvailable, ScanInv, Scanned
    <3> QED BY <3>1, <3>2
  <2> QED BY <1>9, <2>1, <2>2, <2>3, <2>4 DEF Return, ScanInv, ServersOK, Scanned
<1>10. CASE ReturnEnd
  BY <1>10, SameMap DEF ReturnEnd, ScanInv, ServersOK, Scanned, ChosenIsAvailable
<1>11. CASE UNCHANGED serverVars
  BY <1>11, SameMap DEF serverVars, ScanInv, ServersOK, Scanned, ChosenIsAvailable
<1> QED BY <1>1, <1>2, <1>3, <1>4, <1>5, <1>6, <1>7, <1>8, <1>9, <1>10, <1>11 DEF ServersNext

-----------------------------------------------------------------------------
(* loadServers and chooseSrv keep the types of what they share: the host   *)
(* of a task is always a name of the file, the scan's position an entry of *)
(* the map or its end.                                                     *)
THEOREM ServersTypeCorrect == ServersSpec => []ServersOK
<1>1. ScanInv => ServersOK
  BY DEF ScanInv
<1> QED BY <1>1, ScanInit, ScanStep, PTL DEF ServersSpec

(* chooseSrv: wherever the scan starts and whatever it reads past the end  *)
(* of the map, a task gets a server that answered its test if one did, the *)
(* user is told if none did, and only a map whose last server is down, or  *)
(* that is empty, lets it crash.                                           *)
THEOREM TaskGetsAvailable == ServersSpec => []ChosenIsAvailable
<1>1. ScanInv => ChosenIsAvailable
  BY DEF ScanInv
<1> QED BY <1>1, ScanInit, ScanStep, PTL DEF ServersSpec
=============================================================================
