---------------------------- MODULE ChooseServer ----------------------------
(***************************************************************************)
(* The client's servers: ClientController::loadServers tests each name of  *)
(* serwery.txt once, and every task has a server chosen for it by the      *)
(* scans of ClientControllerSupervisor::chooseSrv.                         *)
(*                                                                         *)
(* A name is a number, smaller where the map puts it first.  The position  *)
(* past the map's end holds no entry: what is read there is any value.     *)
(***************************************************************************)
EXTENDS Naturals, FiniteSets

CONSTANTS
  Names,       \* what the lines of the file may say
  MaxLines,    \* bound on their number
  MaxChoices   \* bound on the tasks

ASSUME NamesAssumption == Names \subseteq Nat \ {0}
ASSUME BoundsAssumption == MaxLines \in Nat /\ MaxChoices \in Nat

VARIABLES
  at,        \* "load", "idle", "forward", "check", "backward", "return",
             \* "crashed" or "exited"
  lines,     \* lines read
  servers_,  \* the map, as a function from the names it has
  iter,      \* the scan's position: a name, or End
  chosen,    \* the host of the last task, 0 before the first
  told,      \* was the user told that there is none?
  choices

serverVars == <<at, lines, servers_, iter, chosen, told, choices>>

End == 0
Known == DOMAIN servers_
First == CHOOSE n \in Known : \A m \in Known : n <= m
Last == CHOOSE n \in Known : \A m \in Known : m <= n

After(n) ==
  IF n = Last THEN End
  ELSE CHOOSE m \in Known : m > n /\ \A k \in Known : k > n => m <= k
Before(n) ==
  IF n = End THEN Last
  ELSE CHOOSE m \in Known : m < n /\ \A k \in Known : k < n => k <= m

(* Mutant: a name keeps the blanks of its line, and is another name. *)
insertUntrimmed(n, up) ==
  [m \in Known \cup {n + 100} |-> IF m \in Known THEN servers_[m] ELSE up]

insert(n, up) ==
  [m \in Known \cup {n} |-> IF m \in Known THEN servers_[m] ELSE up]

ServersInit ==
  /\ at = "load"
  /\ lines = 0
  /\ servers_ = [n \in {} |-> FALSE]
  /\ iter = End
  /\ chosen = 0
  /\ told = FALSE
  /\ choices = 0

(* checkServer of a name that is resolved: the answer is 1, another one,   *)
(* or the network fails.                                                   *)
LoadServer(n, up) ==
  /\ at = "load"
  /\ lines < MaxLines
  /\ lines' = lines + 1
  /\ servers_' = insert(n, up)
  /\ UNCHANGED <<at, iter, chosen, told, choices>>

(* The program ends: at a fault, as from a server that has no              *)
(* ServerMethodConnTest, and at a name that is not resolved, as nothing    *)
(* catches what its Inet_addr throws.                                      *)
CheckServerExits ==
  /\ at = "load"
  /\ lines < MaxLines
  /\ at' = "exited"
  /\ UNCHANGED <<lines, servers_, iter, chosen, told, choices>>

Loaded ==
  /\ at = "load"
  /\ at' = "idle"
  /\ UNCHANGED <<lines, servers_, iter, chosen, told, choices>>

(* The start is rand() % servers_.size(). *)
ChooseStart(n) ==
  /\ at = "idle"
  /\ choices < MaxChoices
  /\ choices' = choices + 1
  /\ iter' = n
  /\ chosen' = 0
  /\ told' = FALSE
  /\ at' = "forward"
  /\ UNCHANGED <<lines, servers_>>

NoServers ==
  /\ at = "idle"
  /\ choices < MaxChoices
  /\ Known = {}
  /\ at' = "crashed"
  /\ UNCHANGED <<lines, servers_, iter, chosen, told, choices>>

(* iter->second, whatever it is past the end. *)
Up == IF iter = End THEN BOOLEAN ELSE {servers_[iter]}

(* Mutant: the scan steps over the end of the map. *)
ForwardAround ==
  /\ at = "forward"
  /\ \E up \in Up :
       IF up \/ iter = End THEN at' = "check" /\ iter' = iter
       ELSE at' = at /\ iter' = IF iter = Last THEN First ELSE After(iter)
  /\ UNCHANGED <<lines, servers_, chosen, told, choices>>

Forward ==
  /\ at = "forward"
  /\ \E up \in Up :
       IF up \/ iter = End THEN at' = "check" /\ iter' = iter
       ELSE at' = at /\ iter' = After(iter)
  /\ UNCHANGED <<lines, servers_, chosen, told, choices>>

Check ==
  /\ at = "check"
  /\ \E up \in Up : at' = IF iter = End \/ ~up THEN "backward" ELSE "return"
  /\ UNCHANGED <<lines, servers_, iter, chosen, told, choices>>

(* Mutant: the first entry is left out of the scan backwards. *)
BackwardShort ==
  /\ at = "backward"
  /\ \E up \in Up :
       IF up \/ iter = First \/ Before(iter) = First THEN at' = "return" /\ iter' = iter
       ELSE at' = at /\ iter' = Before(iter)
  /\ UNCHANGED <<lines, servers_, chosen, told, choices>>

Backward ==
  /\ at = "backward"
  /\ \E up \in Up :
       IF up \/ iter = First THEN at' = "return" /\ iter' = iter
       ELSE at' = at /\ iter' = Before(iter)
  /\ UNCHANGED <<lines, servers_, chosen, told, choices>>

(* iter->first past the end is no string. *)
Return ==
  /\ at = "return"
  /\ iter # End
  /\ told' = ~servers_[iter]
  /\ chosen' = iter
  /\ at' = "idle"
  /\ UNCHANGED <<lines, servers_, iter, choices>>

ReturnEnd ==
  /\ at = "return"
  /\ iter = End
  /\ at' = "crashed"
  /\ UNCHANGED <<lines, servers_, iter, chosen, told, choices>>

Scan == Forward \/ Check \/ Backward \/ Return \/ ReturnEnd

ServersNext ==
  \/ \E n \in Names, up \in BOOLEAN : LoadServer(n, up)
  \/ CheckServerExits
  \/ Loaded
  \/ \E n \in Known : ChooseStart(n)
  \/ NoServers
  \/ Forward
  \/ Check
  \/ Backward
  \/ Return
  \/ ReturnEnd

ServersSpec == ServersInit /\ [][ServersNext]_serverVars
FairServers == ServersSpec /\ WF_serverVars(Scan)

-----------------------------------------------------------------------------
ServersOK ==
  /\ at \in {"load", "idle", "forward", "check", "backward", "return", "crashed", "exited"}
  /\ lines \in 0 .. MaxLines
  /\ Known \subseteq Names
  /\ servers_ \in [Known -> BOOLEAN]
  /\ iter \in Known \cup {End}
  /\ chosen \in Known \cup {0}
  /\ told \in BOOLEAN
  /\ choices \in 0 .. MaxChoices

Available == {n \in Known : servers_[n]}

(* A task gets a server that answered its test, wherever the scan began    *)
(* and whatever was read past the end, if there is one; else the user is   *)
(* told, and the task is given a server all the same.  Only the entry past *)
(* the end makes a scan fail, and only one that began behind the last      *)
(* available server: with servers that all answer the client does not      *)
(* crash here.                                                             *)
ChosenIsAvailable ==
  /\ chosen # 0 => (chosen \in Available <=> Available # {}) /\ (told <=> Available = {})
  /\ at = "crashed" => Known = {} \/ ~servers_[Last]

(* The two scans come to an end. *)
ScansEnd == at = "forward" ~> at \in {"idle", "crashed"}

=============================================================================
