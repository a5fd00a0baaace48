--------------------------- MODULE ClientSession ---------------------------
(***************************************************************************)
(* The client program: the thread that reads commands and the one that     *)
(* shows messages (TextUserInterface), the controller's message loop       *)
(* (ClientController and its actions) and the supervisors it starts, which *)
(* talk through the global message box.                                    *)
(*                                                                         *)
(* A command is what createMessage makes of a line.  A supervisor is known *)
(* by its number, which stands for the id of its thread; all it does here  *)
(* is to post its result (module Supervisor has the rest).                 *)
(***************************************************************************)
EXTENDS Naturals, Sequences, FiniteSets

CONSTANTS
  MaxCommands,     \* bound on the lines the user types
  MaxSupervisors   \* bound on the expressions in them

ASSUME BoundsAssumption == MaxCommands \in Nat /\ MaxSupervisors \in Nat \ {0}

Supervisors == 1 .. MaxSupervisors

(* The names actions_ knows, and any other. "exprs" is the number of       *)
(* expressions, "id" what status is asked about (0: an id of nobody).      *)
Computes == [action : {"compute"}, exprs : 0 .. MaxSupervisors]
ComputesMaxN == [action : {"computemaxn"}, height : {"number", "word", "none"}, exprs : 0 .. 1]
Exit == [action |-> "exit"]
Unknown == [action |-> "unknown"]
Status(id) == [action |-> "status", id |-> id]
StatusOfNothing == [action |-> "status"]

VARIABLES
  inbox,            \* the global message box
  posted,           \* inboxHistory_, per addressee
  typed,            \* lines read so far
  input,            \* "open", or "eof"
  shown,            \* what the message loop has written
  running_,         \* of the user interface
  programRunning_,  \* of the controller
  pc,               \* where the controller is
  command,          \* the command it executes
  left,             \* expressions of it that are still to be sent
  started,          \* supervisors whose thread was created
  supervisors_,     \* those checkStatus knows
  finished,         \* those that have posted their result
  process           \* "alive", "ended" or "crashed"

uiVars == <<typed, input, shown, running_>>
boxVars == <<inbox, posted>>
controllerVars == <<programRunning_, pc, command, left, supervisors_>>
vars == <<boxVars, uiVars, controllerVars, started, finished, process>>

Addressees == {"controller", "ui"}
Box == INSTANCE MessageBox WITH Keys <- <<"controller", "ui">>

Init ==
  /\ inbox = <<>>
  /\ posted = [a \in Addressees |-> <<>>]
  /\ typed = 0
  /\ input = "open"
  /\ shown = <<>>
  /\ running_ = TRUE
  /\ programRunning_ = TRUE
  /\ pc = "get"
  /\ command = Unknown
  /\ left = 0
  /\ started = 0
  /\ supervisors_ = {}
  /\ finished = {}
  /\ process = "alive"

Post(to, m) ==
  /\ inbox' = Box!postMessage(inbox, to, m)
  /\ posted' = [posted EXCEPT ![to] = Append(@, m)]

Get(to) ==
  /\ Box!Has(inbox, to)
  /\ inbox' = Box!erased(inbox, to)
  /\ posted' = posted

Info(kind) == [info |-> kind]
InfoOn(kind, k) == [info |-> kind, of |-> k]
Shown(m) == \E i \in DOMAIN shown : shown[i] = m

-----------------------------------------------------------------------------
(* The thread that reads commands. An id can be typed once it was shown.   *)

Commands ==
  Computes \cup ComputesMaxN \cup {Exit, Unknown, StatusOfNothing, Status(0)}
    \cup {Status(k) : k \in {j \in Supervisors : Shown(InfoOn("id", j))}}

TypeCommand ==
  /\ process = "alive"
  /\ input = "open"
  /\ typed < MaxCommands
  /\ \E c \in Commands : Post("controller", c)
  /\ typed' = typed + 1
  /\ UNCHANGED <<input, shown, running_, controllerVars, started, finished, process>>

(* From here on the loop around getline() only spins. *)
EndOfInput ==
  /\ process = "alive"
  /\ input = "open"
  /\ input' = "eof"
  /\ UNCHANGED <<boxVars, typed, shown, running_, controllerVars, started, finished, process>>

(* The thread that shows messages. *)
ShowMessage ==
  /\ process = "alive"
  /\ running_
  /\ Get("ui")
  /\ shown' = Append(shown, Box!found(inbox, "ui"))
  /\ UNCHANGED <<typed, input, running_, controllerVars, started, finished, process>>

(* A supervisor's thread posts its result. *)
PostResult(k) ==
  /\ process = "alive"
  /\ k <= started
  /\ k \notin finished
  /\ Post("ui", InfoOn("result", k))
  /\ finished' = finished \cup {k}
  /\ UNCHANGED <<uiVars, controllerVars, started, process>>

-----------------------------------------------------------------------------
(* The controller. *)

rest == <<uiVars, started, finished, process>>

GetMessage ==
  /\ process = "alive"
  /\ pc = "get"
  /\ programRunning_
  /\ Get("controller")
  /\ command' = Box!found(inbox, "controller")
  /\ pc' = "dispatch"
  /\ UNCHANGED <<rest, programRunning_, left, supervisors_>>

Dispatch ==
  /\ process = "alive"
  /\ pc = "dispatch"
  /\ Post("ui", Info("got action"))
  /\ pc' = "execute"
  /\ UNCHANGED <<rest, programRunning_, command, left, supervisors_>>

Executing(action) ==
  /\ process = "alive"
  /\ pc = "execute"
  /\ command.action = action

(* params[0] of no parameters, a lexical_cast that throws. *)
Crash ==
  /\ process' = "crashed"
  /\ UNCHANGED <<boxVars, uiVars, controllerVars, started, finished>>

(* Mutant: the user interface is told to stop, not the controller. *)
ExecuteExitHalf ==
  /\ Executing("exit")
  /\ running_' = FALSE
  /\ pc' = "get"
  /\ UNCHANGED <<boxVars, typed, input, shown, started, finished, process,
                 programRunning_, command, left, supervisors_>>

ExecuteExit ==
  /\ Executing("exit")
  /\ running_' = FALSE
  /\ pc' = "stop"
  /\ UNCHANGED <<boxVars, typed, input, shown, started, finished, process,
                 programRunning_, command, left, supervisors_>>

StopController ==
  /\ process = "alive"
  /\ pc = "stop"
  /\ programRunning_' = FALSE
  /\ pc' = "get"
  /\ UNCHANGED <<boxVars, rest, command, left, supervisors_>>

ExecuteUnknown ==
  /\ Executing("unknown")
  /\ pc' = "get"
  /\ UNCHANGED <<boxVars, rest, programRunning_, command, left, supervisors_>>

ExecuteCompute ==
  /\ Executing("compute")
  /\ left' = command.exprs
  /\ pc' = "send"
  /\ UNCHANGED <<boxVars, rest, programRunning_, command, supervisors_>>

(* "Wrong number of parameters" is only written: the cast follows. *)
ExecuteComputeMaxN ==
  /\ Executing("computemaxn")
  /\ command.height = "number"
  /\ left' = command.exprs
  /\ pc' = "send"
  /\ UNCHANGED <<boxVars, rest, programRunning_, command, supervisors_>>

ComputeMaxNFails ==
  /\ Executing("computemaxn")
  /\ command.height # "number"
  /\ Crash

(* visit() posts what it finds. *)
checkStatus ==
  /\ Executing("status")
  /\ "id" \in DOMAIN command
  /\ Post("ui", IF command.id \in supervisors_
                THEN InfoOn("state", command.id) ELSE InfoOn("wrong id", command.id))
  /\ pc' = "get"
  /\ UNCHANGED <<rest, programRunning_, command, left, supervisors_>>

StatusFails ==
  /\ Executing("status")
  /\ "id" \notin DOMAIN command
  /\ Crash

(* sendTasks: the thread is created, its id announced, and then inserted.  *)
CreateThread ==
  /\ process = "alive"
  /\ pc = "send"
  /\ left > 0
  /\ started < MaxSupervisors
  /\ started' = started + 1
  /\ pc' = "announce"
  /\ UNCHANGED <<boxVars, uiVars, finished, process, programRunning_, command, left, supervisors_>>

(* Mutant: what is announced is how many are left. *)
AnnounceLeft ==
  /\ process = "alive"
  /\ pc = "announce"
  /\ Post("ui", InfoOn("id", left))
  /\ pc' = "insert"
  /\ UNCHANGED <<rest, programRunning_, command, left, supervisors_>>

Announce ==
  /\ process = "alive"
  /\ pc = "announce"
  /\ Post("ui", InfoOn("id", started))
  /\ pc' = "insert"
  /\ UNCHANGED <<rest, programRunning_, command, left, supervisors_>>

(* Mutant: only the last expression's supervisor is kept. *)
InsertLast ==
  /\ process = "alive"
  /\ pc = "insert"
  /\ supervisors_' = {started}
  /\ left' = left - 1
  /\ pc' = "send"
  /\ UNCHANGED <<boxVars, rest, programRunning_, command>>

Insert ==
  /\ process = "alive"
  /\ pc = "insert"
  /\ supervisors_' = supervisors_ \cup {started}
  /\ left' = left - 1
  /\ pc' = "send"
  /\ UNCHANGED <<boxVars, rest, programRunning_, command>>

(* All is sent, or the bound on supervisors is reached. *)
Sent ==
  /\ process = "alive"
  /\ pc = "send"
  /\ left = 0 \/ started = MaxSupervisors
  /\ pc' = "get"
  /\ UNCHANGED <<boxVars, rest, programRunning_, command, left, supervisors_>>

(* run() returns, and main with it: the other threads end where they are.  *)
EndProgram ==
  /\ process = "alive"
  /\ pc = "get"
  /\ ~programRunning_
  /\ process' = "ended"
  /\ UNCHANGED <<boxVars, uiVars, controllerVars, started, finished>>

-----------------------------------------------------------------------------
Controller ==
  \/ GetMessage
  \/ Dispatch
  \/ ExecuteExit
  \/ StopController
  \/ ExecuteUnknown
  \/ ExecuteCompute
  \/ ExecuteComputeMaxN
  \/ ComputeMaxNFails
  \/ checkStatus
  \/ StatusFails
  \/ CreateThread
  \/ Announce
  \/ Insert
  \/ Sent
  \/ EndProgram

Next ==
  \/ TypeCommand
  \/ EndOfInput
  \/ ShowMessage
  \/ \E k \in Supervisors : PostResult(k)
  \/ Controller

Spec == Init /\ [][Next]_vars

(* The loops of the controller and of the messages run; a supervisor may   *)
(* take for ever.                                                          *)
FairSpec == Spec /\ WF_vars(Controller) /\ WF_vars(ShowMessage)

-----------------------------------------------------------------------------
(* What may be said to the user, and asked by him, when n supervisors were *)
(* started.                                                                *)
Sayings(n) ==
  {Info("got action"), InfoOn("wrong id", 0)}
    \cup {InfoOn("id", k) : k \in 1 .. n}
    \cup {InfoOn("result", k) : k \in 1 .. n}
    \cup {InfoOn("state", k) : k \in 1 .. n}
Askings(n) ==
  Computes \cup ComputesMaxN \cup {Exit, Unknown, StatusOfNothing} \cup {Status(k) : k \in 0 .. n}

Worded ==
  /\ inbox \in Seq([to : {"controller"}, message : Askings(started)]
                     \cup [to : {"ui"}, message : Sayings(started)])
  /\ posted["controller"] \in Seq(Askings(started))
  /\ posted["ui"] \in Seq(Sayings(started))
  /\ shown \in Seq(Sayings(started))
  /\ command \in Askings(started)

Stated ==
  /\ DOMAIN posted = Addressees
  /\ typed \in 0 .. MaxCommands
  /\ input \in {"open", "eof"}
  /\ running_ \in BOOLEAN
  /\ programRunning_ \in BOOLEAN
  /\ pc \in {"get", "dispatch", "execute", "stop", "send", "announce", "insert"}
  /\ left \in 0 .. MaxSupervisors
  /\ started \in 0 .. MaxSupervisors
  /\ finished \subseteq 1 .. started
  /\ supervisors_ \subseteq 1 .. started
  /\ process \in {"alive", "ended", "crashed"}
  /\ programRunning_ \/ ~running_
  /\ pc \in {"send", "announce", "insert"} \/ supervisors_ = 1 .. started

(* Every letter in the box, and all that was posted, shown or executed,    *)
(* says something to the user of supervisors that were started, or asks    *)
(* the controller about such; a letter never meets the wrong loop. Beside  *)
(* sendTasks, all that were started are known, and a controller that has   *)
(* stopped has stopped the user interface.                                 *)
TypeOK == Worded /\ Stated

(* The global box is two mailboxes: what commands, supervisors and the     *)
(* controller post in whatever order, each loop gets it all and in order;  *)
(* the user is shown what was posted, and the controller executes it.      *)
Waiting(a) == Len(Box!MessagesFor(inbox, a))
Executed ==
  LET n == Len(posted["controller"]) - Waiting("controller")
  IN  IF n = 0 THEN <<>> ELSE Append(SubSeq(posted["controller"], 1, n - 1), command)

Promise == INSTANCE Mailboxes WITH
  got <- [a \in Addressees |-> IF a = "ui" THEN shown ELSE Executed]
KeepsPromise == Promise!Spec

(* A status for an id that was shown is never refused, though the id is    *)
(* shown before sendTasks has put it into supervisors_.                    *)
AnnouncedIsKnown ==
  \A k \in Supervisors : InfoOn("wrong id", k) \notin {posted["ui"][i] : i \in DOMAIN posted["ui"]}

(* exit ends the program, unless an earlier command has crashed it. *)
ExitEnds ==
  (\E i \in DOMAIN inbox : inbox[i].to = "controller" /\ inbox[i].message = Exit)
    ~> process # "alive"

(* A result that is posted is shown, unless the program is told to exit. *)
ResultsShown ==
  \A k \in Supervisors :
    k \in finished ~> Shown(InfoOn("result", k)) \/ ~running_ \/ process # "alive"
=============================================================================
