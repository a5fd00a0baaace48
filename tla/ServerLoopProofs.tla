-------------------------- MODULE ServerLoopProofs --------------------------
(***************************************************************************)
(* For every set of clients and whatever they send, and for every size of  *)
(* the interrupter's socket: a connection is watched or executed and never *)
(* both, an event that poll() returned reaches the connection it happened  *)
(* on, and requests are answered one by one.                               *)
(***************************************************************************)
EXTENDS ServerLoop, DataLemmas

(* Registries: one entry for a descriptor. *)
HandlerState == [fd : {Interrupter, Acceptor} \cup Fds, mask : (SUBSET Events) \ {{}}]
Entries(reg) == {reg[i] : i \in DOMAIN reg}
Distinct(seq) == \A i, j \in DOMAIN seq : seq[i].fd = seq[j].fd => i = j
Registry(reg) == reg \in Seq(HandlerState) /\ Distinct(reg)

LEMMA WatchedEntries ==
  ASSUME NEW reg, Registry(reg)
  PROVE  /\ Watched(reg) = {s.fd : s \in Entries(reg)}
         /\ \A s, t \in Entries(reg) : s.fd = t.fd => s = t
  BY DEF Registry, Distinct, Watched, Entries

LEMMA RegisterNew ==
  ASSUME NEW reg, Registry(reg), NEW fd_ \in ({Interrupter, Acceptor} \cup Fds) \ Watched(reg), NEW event \in Events
  PROVE  /\ Registry(register_handler(reg, fd_, event))
         /\ Entries(register_handler(reg, fd_, event)) =
              Entries(reg) \cup {State(fd_, {event})}
<1> DEFINE new == Append(reg, State(fd_, {event}))
<1>1. State(fd_, {event}) \in HandlerState
  <2>1. {event} \in (SUBSET Events) \ {{}}
    BY DEF Events
  <2> QED BY <2>1 DEF State, HandlerState
<1>2. register_handler(reg, fd_, event) = new
  BY DEF register_handler
<1>3. /\ new \in Seq(HandlerState) /\ Len(new) = Len(reg) + 1
      /\ \A i \in 1 .. Len(reg) : new[i] = reg[i]
      /\ new[Len(reg) + 1] = State(fd_, {event})
  BY <1>1, AppendProperties DEF Registry
<1>4. Len(reg) \in Nat /\ DOMAIN reg = 1 .. Len(reg) /\ DOMAIN new = 1 .. Len(reg) + 1
  BY <1>3, LenProperties DEF Registry
<1> HIDE DEF new
<1>5. Distinct(new)
  <2> SUFFICES ASSUME NEW i \in DOMAIN new, NEW j \in DOMAIN new, new[i].fd = new[j].fd
               PROVE  i = j
    BY DEF Distinct
  <2>1. \A k \in 1 .. Len(reg) : new[k].fd # fd_
    BY <1>3, <1>4 DEF Watched
  <2>2. new[Len(reg) + 1].fd = fd_
    BY <1>3 DEF State
  <2>3. CASE i \in 1 .. Len(reg) /\ j \in 1 .. Len(reg)
    BY <1>3, <1>4, <2>3 DEF Registry, Distinct
  <2>4. CASE i = Len(reg) + 1 /\ j = Len(reg) + 1
    BY <2>4
  <2> QED BY <1>4, <2>1, <2>2, <2>3, <2>4
<1>6. Entries(new) = Entries(reg) \cup {State(fd_, {event})}
  BY <1>3, <1>4 DEF Entries
<1> QED BY <1>2, <1>3, <1>5, <1>6 DEF Registry

LEMMA RegisterAgain ==
  ASSUME NEW reg, Registry(reg), NEW s \in Entries(reg), NEW event \in Events
  PROVE  /\ Registry(register_handler(reg, s.fd, event))
         /\ Entries(register_handler(reg, s.fd, event)) =
              (Entries(reg) \ {s}) \cup {State(s.fd, s.mask \cup {event})}
<1> DEFINE new == [i \in DOMAIN reg |->
                     IF reg[i].fd = s.fd THEN State(s.fd, reg[i].mask \cup {event}) ELSE reg[i]]
<1>1. s.fd \in Watched(reg)
  BY DEF Watched, Entries
<1>2. register_handler(reg, s.fd, event) = new
  BY <1>1 DEF register_handler
<1>3. /\ Len(reg) \in Nat /\ DOMAIN reg = 1 .. Len(reg)
      /\ \A i \in DOMAIN reg : reg[i] \in HandlerState
  BY LenProperties, ElementOfSeq DEF Registry
<1>4. \A i \in DOMAIN reg : new[i] \in HandlerState /\ new[i].fd = reg[i].fd
  <2> SUFFICES ASSUME NEW i \in DOMAIN reg
               PROVE  new[i] \in HandlerState /\ new[i].fd = reg[i].fd
    OBVIOUS
  <2>1. reg[i].mask \cup {event} \in (SUBSET Events) \ {{}}
    BY <1>3 DEF HandlerState
  <2> QED BY <1>3, <2>1 DEF State, HandlerState
<1>5. new \in Seq(HandlerState) /\ DOMAIN new = DOMAIN reg
  BY <1>3, <1>4, SeqDef
<1>6. PICK k \in DOMAIN reg : reg[k] = s
  BY DEF Entries
<1>7. \A i \in DOMAIN reg : reg[i].fd = s.fd <=> i = k
  BY <1>6 DEF Registry, Distinct
<1>8. \A i \in DOMAIN reg : i # k => reg[i] # s
  BY <1>6, <1>7
<1>9. /\ new[k] = State(s.fd, s.mask \cup {event})
      /\ \A i \in DOMAIN reg : i # k => new[i] = reg[i]
  BY <1>6, <1>7
<1> HIDE DEF new
<1>10. Entries(new) = (Entries(reg) \ {s}) \cup {State(s.fd, s.mask \cup {event})}
  BY <1>5, <1>6, <1>8, <1>9 DEF Entries
<1>11. Distinct(new)
  BY <1>4, <1>5 DEF Registry, Distinct
<1> QED BY <1>2, <1>5, <1>10, <1>11 DEF Registry

LEMMA Unregister ==
  ASSUME NEW reg, Registry(reg), NEW fd_
  PROVE  /\ Registry(unregister_handler(reg, fd_))
         /\ Entries(unregister_handler(reg, fd_)) = {s \in Entries(reg) : s.fd # fd_}
<1>1. CASE fd_ \notin Watched(reg)
  BY <1>1 DEF unregister_handler, Watched, Entries
<1>2. CASE fd_ \in Watched(reg)
  <2> DEFINE k == find_handler_state(reg, fd_)
             new == Without(reg, k)
  <2>1. /\ Len(reg) \in Nat /\ DOMAIN reg = 1 .. Len(reg)
        /\ \A i \in DOMAIN reg : reg[i] \in HandlerState
    BY LenProperties, ElementOfSeq DEF Registry
  <2>2. k \in DOMAIN reg /\ reg[k].fd = fd_
    <3> DEFINE S == {i \in DOMAIN reg : reg[i].fd = fd_}
    <3>1. S # {} /\ S \subseteq Nat /\ \A i \in S : i \in DOMAIN reg /\ reg[i].fd = fd_
      BY <1>2, <2>1 DEF Watched
    <3>2. \A i \in 1 .. Len(reg) : reg[i].fd = fd_ => i \in S
      BY <2>1
    <3> HIDE DEF S
    <3>3. PICK m \in S : \A i \in S : m <= i
      BY <3>1, LeastExists
    <3>4. \A j \in 1 .. m - 1 : reg[j].fd # fd_
      BY <2>1, <3>1, <3>2, <3>3
    <3> QED BY <3>1, <3>4 DEF find_handler_state
  <2>3. unregister_handler(reg, fd_) = new
    BY <1>2 DEF unregister_handler, RemoveAt, Without
  <2> HIDE DEF k
  <2>4. /\ new \in Seq(HandlerState) /\ Len(new) = Len(reg) - 1 /\ DOMAIN new = 1 .. Len(reg) - 1
        /\ \A i \in 1 .. Len(reg) - 1 : new[i] = IF i < k THEN reg[i] ELSE reg[i + 1]
    BY <2>2, OneLess DEF Registry
  <2> HIDE DEF new
  <2>5. Distinct(new)
    <3> SUFFICES ASSUME NEW i \in DOMAIN new, NEW j \in DOMAIN new, new[i].fd = new[j].fd
                 PROVE  i = j
      BY DEF Distinct
    <3> DEFINE Old(n) == IF n < k THEN n ELSE n + 1
    <3>1. /\ Old(i) \in DOMAIN reg /\ Old(j) \in DOMAIN reg
          /\ new[i] = reg[Old(i)] /\ new[j] = reg[Old(j)]
      BY <2>1, <2>2, <2>4
    <3>2. Old(i) = Old(j)
      <4> HIDE DEF Old
      <4> QED BY <3>1 DEF Registry, Distinct
    <3> QED BY <2>1, <2>2, <2>4, <3>2
  <2>6. ASSUME NEW i \in DOMAIN new PROVE new[i] \in Entries(reg) /\ new[i].fd # fd_
    <3>1. PICK n \in DOMAIN reg : n # k /\ new[i] = reg[n]
      BY <2>1, <2>2, <2>4
    <3> QED BY <2>2, <3>1 DEF Registry, Distinct, Entries
  <2>7. ASSUME NEW n \in DOMAIN reg, reg[n].fd # fd_ PROVE \E i \in DOMAIN new : new[i] = reg[n]
    <3>1. n # k
      BY <2>2, <2>7
    <3>2. CASE n < k
      BY <2>1, <2>2, <2>4, <3>2
    <3>3. CASE n > k
      <4>1. n - 1 \in 1 .. Len(reg) - 1 /\ ~ (n - 1 < k) /\ (n - 1) + 1 = n
        BY <2>1, <2>2, <3>3
      <4> QED BY <2>4, <4>1
    <3> QED BY <2>1, <2>2, <3>1, <3>2, <3>3
  <2>8. Entries(new) = {s \in Entries(reg) : s.fd # fd_}
    BY <2>6, <2>7 DEF Entries
  <2> QED BY <2>3, <2>4, <2>5, <2>8 DEF Registry
<1> QED BY <1>1, <1>2

(* poll() gives back entries it was asked about, no descriptor twice.      *)
LEMMA PollGivesEvents ==
  ASSUME NEW S, NEW asked \in Seq(S), Distinct(asked)
  PROVE  /\ poll(asked) \in Seq(S) /\ Distinct(poll(asked))
         /\ \A i \in DOMAIN poll(asked) :
              poll(asked)[i] \in Entries(asked) /\ poll(asked)[i].revents # {}
<1> DEFINE Turn(f, i) ==
             IF i = 0 THEN <<>>
             ELSE IF asked[i].revents = {} THEN f[i - 1] ELSE Append(f[i - 1], asked[i])
           Runs(f, n) == f = [i \in 0 .. n |-> Turn(f, i)]
<1>1. Len(asked) \in Nat /\ \A i \in 1 .. Len(asked) : i \in DOMAIN asked /\ asked[i] \in S
  BY LenProperties, ElementOfSeq
<1>2. ASSUME NEW n \in Nat, \A m \in Nat : m < n => \E f : Runs(f, m)
      PROVE  \E f : Runs(f, n)
  <2>1. CASE n = 0
    <3>1. Runs([i \in 0 .. 0 |-> <<>>], 0)
      OBVIOUS
    <3> QED BY <2>1, <3>1
  <2>2. CASE n # 0
    <3>1. n - 1 \in Nat /\ n - 1 < n
      BY <2>2
    <3>2. PICK f : Runs(f, n - 1)
      <4> HIDE DEF Runs
      <4> QED BY <1>2, <3>1
    <3> DEFINE g == [i \in 0 .. n |-> IF i = n THEN Turn(f, n) ELSE f[i]]
    <3>3. \A i \in 0 .. n : g[i] = Turn(g, i)
      <4> SUFFICES ASSUME NEW i \in 0 .. n PROVE g[i] = Turn(g, i)
        OBVIOUS
      <4>1. i # 0 => i - 1 \in 0 .. n - 1 /\ g[i - 1] = f[i - 1]
        OBVIOUS
      <4>2. CASE i = n
        BY <2>2, <4>1, <4>2
      <4>3. CASE i # n
        <5>1. i \in 0 .. n - 1 /\ g[i] = f[i]
          BY <4>3
        <5>2. f[i] = Turn(f, i)
          BY <3>2, <5>1
        <5> QED BY <4>1, <5>1, <5>2
      <4> QED BY <4>2, <4>3
    <3>4. Runs(g, n)
      BY <3>3
    <3> QED BY <3>4
  <2> QED BY <2>1, <2>2
<1>3. \E f : Runs(f, Len(asked))
  <2> DEFINE bad == {n \in Nat : ~ \E f : Runs(f, n)}
  <2>1. bad = {}
    <3> SUFFICES ASSUME bad # {} PROVE FALSE
      OBVIOUS
    <3>1. PICK n \in bad : \A m \in bad : n <= m
      <4>1. bad \subseteq Nat
        OBVIOUS
      <4> HIDE DEF bad
      <4> QED BY <4>1, LeastExists
    <3>2. n \in Nat /\ ~ \E f : Runs(f, n)
      OBVIOUS
    <3>3. \A m \in Nat : m < n => \E f : Runs(f, m)
      <4> HIDE DEF Runs
      <4> QED BY <3>1, <3>2
    <3> HIDE DEF Runs, bad
    <3> QED BY <1>2, <3>2, <3>3
  <2> HIDE DEF Runs
  <2> QED BY <1>1, <2>1
<1> DEFINE out == CHOOSE f : Runs(f, Len(asked))
<1>4. poll(asked) = out[Len(asked)]
  BY DEF poll
<1>5. Runs(out, Len(asked))
  <2> HIDE DEF Runs
  <2> QED BY <1>3
<1> HIDE DEF out
<1> DEFINE Good(q, n) ==
             /\ q \in Seq(S) /\ Distinct(q)
             /\ \A i \in DOMAIN q :
                  q[i].revents # {} /\ \E j \in 1 .. n : q[i] = asked[j]
<1>6. ASSUME NEW n \in 0 .. Len(asked), \A m \in 0 .. Len(asked) : m < n => Good(out[m], m)
      PROVE  Good(out[n], n)
  <2>1. out[n] = Turn(out, n)
    BY <1>5
  <2>2. CASE n = 0
    BY <2>1, <2>2 DEF Distinct
  <2>3. CASE n # 0
    <3>1. n - 1 \in 0 .. Len(asked) /\ n - 1 < n /\ n \in 1 .. Len(asked)
      BY <1>1, <2>3
    <3>2. Good(out[n - 1], n - 1)
      <4> HIDE DEF Good
      <4> QED BY <1>6, <3>1
    <3>3. CASE asked[n].revents = {}
      BY <1>1, <2>1, <2>3, <3>2, <3>3
    <3>4. CASE asked[n].revents # {}
      <4> DEFINE q == out[n - 1]
                 new == Append(q, asked[n])
      <4>1. out[n] = new
        BY <2>1, <2>3, <3>4
      <4> HIDE DEF q
      <4>2. q \in Seq(S) /\ asked[n] \in S /\ Len(q) \in Nat /\ DOMAIN q = 1 .. Len(q)
        BY <1>1, <3>1, <3>2, LenProperties DEF q
      <4>3. /\ new \in Seq(S) /\ Len(new) = Len(q) + 1
            /\ \A i \in 1 .. Len(q) : new[i] = q[i]
            /\ new[Len(q) + 1] = asked[n]
        BY <4>2, AppendProperties
      <4>4. DOMAIN new = 1 .. Len(q) + 1
        BY <4>2, <4>3, LenProperties
      <4> HIDE DEF new
      <4>5. ASSUME NEW i \in 1 .. Len(q)
            PROVE  new[i].revents # {} /\ \E j \in 1 .. n - 1 : new[i] = asked[j]
        BY <3>2, <4>2, <4>3 DEF q
      <4>6. ASSUME NEW i \in 1 .. Len(q) PROVE new[i].fd # new[Len(q) + 1].fd
        <5>1. PICK j \in 1 .. n - 1 : new[i] = asked[j]
          BY <4>5
        <5>2. j \in DOMAIN asked /\ n \in DOMAIN asked /\ j # n
          BY <1>1, <3>1
        <5> QED BY <4>3, <5>1, <5>2 DEF Distinct
      <4>7. Distinct(q)
        BY <3>2 DEF q
      <4>8. Distinct(new)
        <5> SUFFICES ASSUME NEW i \in DOMAIN new, NEW j \in DOMAIN new, new[i].fd = new[j].fd
                     PROVE  i = j
          BY DEF Distinct
        <5>1. CASE i \in 1 .. Len(q) /\ j \in 1 .. Len(q)
          BY <4>2, <4>3, <4>7, <5>1 DEF Distinct
        <5> QED BY <4>2, <4>4, <4>6, <5>1
      <4>9. \A i \in DOMAIN new : new[i].revents # {} /\ \E j \in 1 .. n : new[i] = asked[j]
        BY <1>1, <3>1, <3>4, <4>2, <4>3, <4>4, <4>5
      <4> QED BY <4>1, <4>3, <4>8, <4>9
    <3> QED BY <3>3, <3>4
  <2> QED BY <2>2, <2>3
<1>7. Good(out[Len(asked)], Len(asked))
  <2> DEFINE bad == {n \in 0 .. Len(asked) : ~ Good(out[n], n)}
  <2> HIDE DEF Good
  <2>1. bad = {}
    <3> SUFFICES ASSUME bad # {} PROVE FALSE
      OBVIOUS
    <3>1. PICK n \in bad : \A m \in bad : n <= m
      <4>1. bad \subseteq Nat
        BY <1>1
      <4> HIDE DEF bad
      <4> QED BY <4>1, LeastExists
    <3> QED BY <1>1, <1>6, <3>1
  <2> QED BY <1>1, <2>1
<1> QED BY <1>1, <1>4, <1>7 DEF Entries

-----------------------------------------------------------------------------
(* The inductive invariant. *)

(* The interrupter and the acceptor stay, and every other descriptor that  *)
(* is watched is that of a connection.                                     *)
Registered ==
  /\ Registry(handlers)
  /\ Interrupter \in Watched(handlers)
  /\ loop # "left" => Acceptor \in Watched(handlers)
  /\ \A f \in Watched(handlers) \ {Interrupter, Acceptor} : \E c \in Clients : fd[c] = f

(* A descriptor has one owner, and a client that was not accepted none.    *)
Owned ==
  /\ \A c, d \in Clients : fd[c] = fd[d] /\ fd[c] # 0 => c = d
  /\ \A c \in Clients : client[c] \in {"away", "calling"} => fd[c] = 0

(* What was read of a client had been sent, on its connection. *)
Counted ==
  \A c \in Clients :
    /\ accepted[c] + (IF inbox[c] = None THEN 0 ELSE 1) <= sends[c]
    /\ client[c] \in {"away", "calling"} => sends[c] = 0

(* A connection has one request that is not answered while it is executed  *)
(* or its response is written, and none while input is waited for; a       *)
(* response that is written then is that of an error.                      *)
Quiet(c) == response[c].to = 0 \/ response[c].left = 0

Unanswered(c) == accepted[c] = replied[c] + 1

Waiting(c, mask) ==
  IF "INPUT" \in mask
  THEN /\ replied[c] = accepted[c] /\ Quiet(c)
       /\ "OUTPUT" \in mask => response[c].to = 0
  ELSE Unanswered(c) /\ response[c].to = accepted[c]

OneAtATime ==
  \A c \in Clients :
    /\ executing[c] # "nothing" => Unanswered(c) /\ Quiet(c)
    /\ \A s \in Entries(handlers) : s.fd = fd[c] => Waiting(c, s.mask)

(* What poll() was given is still in the registry; what it returned and is *)
(* not yet dispatched, too.                                                *)
Copied ==
  loop = "poll" =>
    /\ polled \in Seq(HandlerState) /\ Distinct(polled)
    /\ Entries(polled) \subseteq Entries(handlers)

ReadyState == [fd : Nat, revents : SUBSET Events, owner : SUBSET Clients]
Undispatched ==
  /\ ready \in Seq(ReadyState) /\ Distinct(ready)
  /\ loop \in {"check", "poll", "left"} => ready = <<>>
  /\ \A e \in Entries(ready) :
       /\ e.revents # {} /\ e.owner = OwnerOf(e.fd)
       /\ \E s \in Entries(handlers) : s.fd = e.fd /\ e.revents \subseteq s.mask
       /\ e.fd = Interrupter => pipe > 0

IInv ==
  /\ TypeOK /\ WatchedOrExecuting
  /\ Registered /\ Owned /\ Counted /\ OneAtATime /\ Copied /\ Undispatched

-----------------------------------------------------------------------------
LEMMA Constants ==
  /\ Fds \subseteq Nat /\ 0 \notin Fds /\ Interrupter \notin Fds /\ Acceptor \notin Fds
  /\ PipeSize \in Nat \ {0} /\ MaxSignals \in Nat /\ MaxSends \in [Clients -> Nat]
  /\ \A c \in Clients : Segments[c] \subseteq Segment
  /\ None \notin Segment
  BY SegmentsAssumption, FdsAssumption, BoundsAssumption
     DEF Interrupter, Acceptor, None, Segment

LEMMA EntryTyped ==
  ASSUME NEW reg, Registry(reg), NEW s \in Entries(reg)
  PROVE  /\ s \in HandlerState /\ s.fd \in Watched(reg)
         /\ s.fd \in Nat /\ s.fd # 0 /\ s.fd \in {Interrupter, Acceptor} \cup Fds
         /\ s.mask \subseteq Events /\ s.mask # {}
<1>1. s \in HandlerState /\ s.fd \in Watched(reg)
  BY LenProperties, ElementOfSeq DEF Registry, Entries, Watched
<1>2. s.fd \in {Interrupter, Acceptor} \cup Fds /\ s.mask \subseteq Events /\ s.mask # {}
  BY <1>1 DEF HandlerState
<1>3. CASE s.fd \in Fds
  <2>1. Fds \subseteq Nat /\ 0 \notin Fds
    BY Constants
  <2>2. s.fd \in Nat /\ s.fd # 0
    BY <1>3, <2>1
  <2> QED BY <1>1, <1>2, <2>2
<1>4. CASE s.fd \in {Interrupter, Acceptor}
  <2>1. s.fd \in Nat /\ s.fd # 0
    BY <1>4 DEF Interrupter, Acceptor
  <2> QED BY <1>1, <1>2, <2>1
<1> QED BY <1>2, <1>3, <1>4

(* What TypeOK says of the registry.                                       *)
LEMMA HandlersTyped ==
  ASSUME NEW reg, Registry(reg)
  PROVE  /\ \A i \in DOMAIN reg :
              /\ reg[i].fd \in {Interrupter, Acceptor} \cup Fds
              /\ reg[i].mask \subseteq Events /\ reg[i].mask # {}
         /\ \A i, j \in DOMAIN reg : reg[i].fd = reg[j].fd => i = j
<1>1. \A i \in DOMAIN reg : reg[i] \in HandlerState
  BY LenProperties, ElementOfSeq DEF Registry
<1> QED BY <1>1 DEF Registry, Distinct, HandlerState

LEMMA InvInit == Init => IInv
<1> SUFFICES ASSUME Init PROVE IInv
  OBVIOUS
<1> DEFINE s == State(Interrupter, {"INPUT"})
           t == State(Acceptor, {"INPUT"})
<1>1. /\ s \in HandlerState /\ t \in HandlerState /\ handlers = <<s, t>>
      /\ s.fd = Interrupter /\ t.fd = Acceptor
  <2>1. {"INPUT"} \in (SUBSET Events) \ {{}}
    BY DEF Events
  <2> QED BY <2>1 DEF Init, State, HandlerState
<1>2. /\ handlers \in Seq(HandlerState) /\ DOMAIN handlers = 1 .. 2
      /\ handlers[1] = s /\ handlers[2] = t
  BY <1>1
<1> HIDE DEF s, t
<1>3. Entries(handlers) = {s, t} /\ Watched(handlers) = {Interrupter, Acceptor}
  BY <1>1, <1>2 DEF Entries, Watched
<1>4. Registry(handlers)
  BY <1>1, <1>2 DEF Registry, Distinct, Interrupter, Acceptor
<1>5. Registered
  BY <1>3, <1>4 DEF Registered
<1>6. TypeOK
  <2>1. [to |-> 0, left |-> 0] \in [to : Nat, left : 0 .. Whole]
    BY DEF Whole
  <2>2. /\ sends \in [Clients -> Nat] /\ accepted \in [Clients -> Nat] /\ replied \in [Clients -> Nat]
        /\ response \in [Clients -> [to : Nat, left : 0 .. Whole]]
    BY <2>1 DEF Init, Response
  <2>3. \A c \in Clients :
          /\ replied[c] <= accepted[c] /\ response[c].to <= accepted[c]
          /\ accepted[c] <= sends[c] /\ sends[c] <= MaxSends[c]
    BY Constants DEF Init, Response
  <2>4. /\ loop \in {"check", "poll", "dispatch", "left", "dead"}
        /\ pipe \in 0 .. PipeSize /\ deleting \in Nat /\ signals \in 0 .. MaxSignals
    BY Constants DEF Init
  <2>5. /\ exit_flag \in BOOLEAN
        /\ client \in [Clients -> {"away", "calling", "connected", "gone"}]
        /\ inbox \in [Clients -> Segment \cup {None}]
        /\ fd \in [Clients -> Fds \cup {0}]
        /\ keep_alive \in [Clients -> BOOLEAN]
        /\ executing \in [Clients -> {"nothing", "stop", "interrupt", "call"}]
    BY DEF Init
  <2> QED BY <1>4, <2>2, <2>3, <2>4, <2>5, HandlersTyped DEF TypeOK
<1>7. \A c \in Clients : fd[c] = 0 /\ executing[c] = "nothing"
  BY DEF Init
<1>8. OneAtATime
  <2>1. \A u \in Entries(handlers) : u.fd # 0
    BY <1>1, <1>3 DEF Interrupter, Acceptor
  <2> QED BY <1>7, <2>1 DEF OneAtATime
<1>9. ready = <<>> /\ ready \in Seq(ReadyState) /\ Distinct(ready) /\ Entries(ready) = {}
  BY DEF Init, Distinct, Entries
<1>10. Undispatched /\ Copied
  BY <1>9 DEF Init, Undispatched, Copied
<1> QED BY <1>5, <1>6, <1>7, <1>8, <1>10 DEF IInv, WatchedOrExecuting, Owned, Counted, Init

LEMMA FreeFd ==
  ASSUME FreeFds # {}
  PROVE  /\ Min(FreeFds) \in Fds
         /\ \A c \in Clients : fd[c] # Min(FreeFds)
<1>1. FreeFds \subseteq Nat
  BY Constants DEF FreeFds
<1>2. \E n \in FreeFds : \A m \in FreeFds : n <= m
  BY <1>1, LeastExists
<1>3. Min(FreeFds) \in FreeFds
  BY <1>2 DEF Min
<1> QED BY <1>3 DEF FreeFds

(* The event that is being dispatched is still waited for by its owner.    *)
LEMMA Dispatched ==
  ASSUME IInv, NEW f, NEW event, Dispatching(f, event)
  PROVE  /\ loop = "dispatch"
         /\ ready' \in Seq(ReadyState) /\ Distinct(ready')
         /\ \A e \in Entries(ready') : e \in Entries(ready) /\ e.fd # f
         /\ \E s \in Entries(handlers) : s.fd = f /\ event \in s.mask
         /\ f = Interrupter => pipe > 0
<1>1. /\ ready \in Seq(ReadyState) /\ ready # <<>> /\ ready' = Tail(ready)
      /\ Head(ready) \in ReadyState /\ Head(ready).fd = f /\ Head(ready) = ready[1]
      /\ Distinct(ready)
  BY HeadTailProperties DEF IInv, Undispatched, Dispatching
<1>2. /\ Len(ready) \in Nat \ {0} /\ DOMAIN ready = 1 .. Len(ready)
      /\ ready' \in Seq(ReadyState) /\ DOMAIN ready' = 1 .. Len(ready) - 1
      /\ \A i \in 1 .. Len(ready) - 1 : ready'[i] = ready[i + 1]
  BY <1>1, HeadTailProperties, LenProperties, EmptySeq
<1>3. ASSUME NEW i \in DOMAIN ready'
      PROVE  i + 1 \in DOMAIN ready /\ ready'[i] = ready[i + 1] /\ ready'[i].fd # f
  <2>1. i + 1 \in DOMAIN ready /\ 1 \in DOMAIN ready /\ i + 1 # 1
    BY <1>2
  <2> QED BY <1>1, <1>2, <2>1 DEF Distinct
<1>4. Distinct(ready')
  <2> SUFFICES ASSUME NEW i \in DOMAIN ready', NEW j \in DOMAIN ready', ready'[i].fd = ready'[j].fd
               PROVE  i = j
    BY DEF Distinct
  <2>1. i + 1 = j + 1
    BY <1>1, <1>3 DEF Distinct
  <2> QED BY <1>2, <2>1
<1>5. \A e \in Entries(ready') : e \in Entries(ready) /\ e.fd # f
  BY <1>3 DEF Entries
<1>6. Head(ready) \in Entries(ready)
  BY <1>1, <1>2 DEF Entries
<1>7. PICK s \in Entries(handlers) : s.fd = f /\ Head(ready).revents \subseteq s.mask
  BY <1>1, <1>6 DEF IInv, Undispatched
<1>8. event \in Head(ready).revents
  <2>1. Head(ready).revents \subseteq Events /\ Head(ready).revents # {}
    BY <1>1, <1>6 DEF ReadyState, IInv, Undispatched
  <2> QED BY <2>1 DEF Dispatching, Events
<1>9. f = Interrupter => pipe > 0
  BY <1>1, <1>6 DEF IInv, Undispatched
<1> QED BY <1>1, <1>2, <1>4, <1>5, <1>7, <1>8, <1>9 DEF Dispatching

-----------------------------------------------------------------------------
(* What a step leaves alone of the invariant. *)

(* A step that only adds to the registry, and that dispatches nothing.     *)
LEMMA EventsKept ==
  ASSUME IInv, UNCHANGED <<loop, polled, ready, fd>>, pipe' \in Nat, pipe' >= pipe,
         Entries(handlers) \subseteq Entries(handlers')
  PROVE  Copied' /\ Undispatched'
<1>1. \A f : OwnerOf(f)' = OwnerOf(f)
  BY DEF OwnerOf
<1>2. Copied'
  BY DEF IInv, Copied
<1>3. \A e \in Entries(ready) : e.fd = Interrupter => pipe' > 0
  BY DEF IInv, Undispatched, TypeOK
<1>4. Undispatched'
  BY <1>1, <1>3 DEF IInv, Undispatched
<1> QED BY <1>2, <1>4

(* A handler changes the registry for its own descriptor only.             *)
LEMMA OthersKept ==
  ASSUME IInv, NEW f, NEW event, Dispatching(f, event),
         loop' \in {"dispatch", "dead"},
         \A s \in Entries(handlers) : s.fd # f => s \in Entries(handlers'),
         \A g \in Nat : g # f /\ g # 0 => OwnerOf(g)' = OwnerOf(g) \/ g \notin Watched(handlers),
         pipe' = pipe \/ f = Interrupter
  PROVE  Copied' /\ Undispatched'
<1>1. Copied'
  BY DEF Copied
<1>2. /\ ready' \in Seq(ReadyState) /\ Distinct(ready')
      /\ \A e \in Entries(ready') : e \in Entries(ready) /\ e.fd # f
  BY Dispatched
<1>3. ASSUME NEW e \in Entries(ready')
      PROVE  /\ e.revents # {} /\ e.owner = OwnerOf(e.fd)'
             /\ \E s \in Entries(handlers') : s.fd = e.fd /\ e.revents \subseteq s.mask
             /\ e.fd = Interrupter => pipe' > 0
  <2>1. /\ e \in Entries(ready) /\ e.fd # f
        /\ e.revents # {} /\ e.owner = OwnerOf(e.fd)
        /\ e.fd = Interrupter => pipe > 0
    BY <1>2, <1>3 DEF IInv, Undispatched
  <2>2. PICK s \in Entries(handlers) : s.fd = e.fd /\ e.revents \subseteq s.mask
    BY <2>1 DEF IInv, Undispatched
  <2>3. Registry(handlers)
    BY DEF IInv, Registered
  <2>4. e.fd \in Nat /\ e.fd # 0 /\ e.fd \in Watched(handlers)
    BY <2>2, <2>3, EntryTyped
  <2> QED BY <2>1, <2>2, <2>3, <2>4
<1>4. Undispatched'
  BY <1>2, <1>3 DEF Undispatched
<1> QED BY <1>1, <1>4

(* The registry is the same: so are what rests on it and on fd.            *)
LEMMA SameRegistry ==
  ASSUME IInv, UNCHANGED <<handlers, fd>>, loop # "left" \/ loop' = "left"
  PROVE  Registered'
  BY DEF IInv, Registered, Registry, Distinct, Watched

-----------------------------------------------------------------------------
(* The clients. *)

LEMMA ClientsKeep ==
  ASSUME IInv, UNCHANGED serverVars
  PROVE  WatchedOrExecuting' /\ Registered' /\ OneAtATime' /\ Copied' /\ Undispatched'
<1> USE DEF serverVars, connVars, workVars
<1>1. Registered'
  BY SameRegistry
<1>2. Copied' /\ Undispatched'
  BY EventsKept DEF IInv, TypeOK
<1>3. WatchedOrExecuting'
  BY DEF IInv, WatchedOrExecuting
<1>4. OneAtATime'
  BY DEF IInv, OneAtATime, Waiting, Unanswered, Quiet
<1> QED BY <1>1, <1>2, <1>3, <1>4

LEMMA ConnectKeeps ==
  ASSUME IInv, NEW c \in Clients, Connect(c)
  PROVE  IInv'
<1>1. UNCHANGED <<serverVars, inbox, sends>>
  BY DEF Connect
<1>2. TypeOK'
  BY <1>1 DEF IInv, TypeOK, Connect, serverVars, connVars, workVars
<1>3. Owned' /\ Counted'
  BY <1>1 DEF IInv, TypeOK, Owned, Counted, Connect, serverVars, connVars
<1> QED BY <1>1, <1>2, <1>3, ClientsKeep DEF IInv

LEMMA DisconnectKeeps ==
  ASSUME IInv, NEW c \in Clients, Disconnect(c)
  PROVE  IInv'
<1>1. UNCHANGED <<serverVars, inbox, sends>>
  BY DEF Disconnect
<1>2. TypeOK'
  BY <1>1 DEF IInv, TypeOK, Disconnect, serverVars, connVars, workVars
<1>3. Owned' /\ Counted'
  BY <1>1 DEF IInv, TypeOK, Owned, Counted, Disconnect, serverVars, connVars
<1> QED BY <1>1, <1>2, <1>3, ClientsKeep DEF IInv

LEMMA SendKeeps ==
  ASSUME IInv, NEW c \in Clients, Send(c)
  PROVE  IInv'
<1>1. UNCHANGED <<serverVars, client>>
  BY DEF Send
<1>2. PICK s \in Segment : inbox' = [inbox EXCEPT ![c] = s]
  BY Constants DEF Send
<1>3. /\ inbox' \in [Clients -> Segment \cup {None}]
      /\ \A d \in Clients : d # c => inbox'[d] = inbox[d]
  BY <1>2 DEF IInv, TypeOK
<1>4. /\ inbox[c] = None /\ sends'[c] = sends[c] + 1 /\ sends'[c] <= MaxSends[c]
      /\ sends' \in [Clients -> Nat]
      /\ \A d \in Clients : d # c => sends'[d] = sends[d]
  <2>1. /\ inbox[c] = None /\ sends[c] < MaxSends[c] /\ sends' = [sends EXCEPT ![c] = @ + 1]
        /\ sends \in [Clients -> Nat] /\ MaxSends[c] \in Nat
    BY Constants DEF Send, IInv, TypeOK
  <2> QED BY <2>1
<1>5. TypeOK'
  BY <1>1, <1>3, <1>4, Constants DEF IInv, TypeOK, serverVars, connVars, workVars
<1>6. Owned'
  BY <1>1 DEF IInv, Owned, serverVars, connVars
<1>7. Counted'
  <2>1. \A d \in Clients : accepted'[d] = accepted[d] /\ client'[d] = client[d]
    BY <1>1 DEF serverVars, connVars
  <2>2. /\ accepted'[c] + 1 <= sends'[c] /\ client'[c] \notin {"away", "calling"}
        /\ accepted'[c] + 0 <= sends'[c]
    BY <1>4, <2>1 DEF Send, IInv, TypeOK, Counted
  <2>3. ASSUME NEW d \in Clients, d # c
        PROVE  /\ accepted'[d] + (IF inbox'[d] = None THEN 0 ELSE 1) <= sends'[d]
               /\ client'[d] \in {"away", "calling"} => sends'[d] = 0
    BY <1>3, <1>4, <2>1, <2>3 DEF IInv, Counted
  <2> QED BY <2>2, <2>3 DEF Counted
<1> QED BY <1>1, <1>5, <1>6, <1>7, ClientsKeep DEF IInv

-----------------------------------------------------------------------------
(* What a step of one connection must do. *)

(* All that changes in the registry is the entry of its descriptor, X: it  *)
(* is there unless the connection has an executor or goes, and what it     *)
(* waits for fits the connection.                                          *)
LEMMA ConnectionKeeps ==
  ASSUME IInv, NEW c \in Clients, fd[c] # 0, UNCHANGED <<loop, client>>,
         NEW X, Registry(handlers'),
         Entries(handlers') = {s \in Entries(handlers) : s.fd # fd[c]} \cup X,
         \A s \in X : s.fd = fd[c] /\ Waiting(c, s.mask)',
         \/ fd' = fd /\ (X # {} <=> executing'[c] = "nothing")
         \/ fd' = [fd EXCEPT ![c] = 0] /\ X = {} /\ executing'[c] = "nothing",
         executing'[c] # "nothing" => Unanswered(c)' /\ Quiet(c)',
         \A d \in Clients \ {c} :
           /\ executing'[d] = executing[d] /\ response'[d] = response[d]
           /\ accepted'[d] = accepted[d] /\ replied'[d] = replied[d]
  PROVE  Registered' /\ Owned' /\ WatchedOrExecuting' /\ OneAtATime'
<1>1. /\ Registry(handlers) /\ fd \in [Clients -> Fds \cup {0}]
      /\ \A d, e \in Clients : fd[d] = fd[e] /\ fd[d] # 0 => d = e
  BY DEF IInv, TypeOK, Registered, Owned
<1>2. /\ Watched(handlers) = {s.fd : s \in Entries(handlers)}
      /\ Watched(handlers') = {s.fd : s \in Entries(handlers')}
  BY <1>1, WatchedEntries
<1>3. fd[c] \in Fds /\ fd[c] # Interrupter /\ fd[c] # Acceptor
  BY <1>1, Constants
<1>4. \A d \in Clients : d # c => fd'[d] = fd[d]
  BY <1>1
<1>5. fd'[c] = fd[c] \/ fd'[c] = 0
  BY <1>1
<1>6. \A f : f # fd[c] => (f \in Watched(handlers') <=> f \in Watched(handlers))
  BY <1>2
<1>7. fd[c] \in Watched(handlers') <=> X # {}
  BY <1>2
<1>8. Registered'
  <2>1. /\ Interrupter \in Watched(handlers')
        /\ loop' # "left" => Acceptor \in Watched(handlers')
    BY <1>3, <1>6 DEF IInv, Registered
  <2>2. ASSUME NEW f \in Watched(handlers') \ {Interrupter, Acceptor}
        PROVE  \E d \in Clients : fd'[d] = f
    <3>1. CASE f = fd[c]
      BY <1>7, <2>2, <3>1
    <3>2. CASE f # fd[c]
      <4>1. PICK d \in Clients : fd[d] = f
        BY <1>6, <2>2, <3>2 DEF IInv, Registered
      <4> QED BY <1>4, <3>2, <4>1
    <3> QED BY <3>1, <3>2
  <2> QED BY <2>1, <2>2 DEF Registered
<1>9. Owned'
  <2>1. \A d, e \in Clients : fd'[d] = fd'[e] /\ fd'[d] # 0 => d = e
    BY <1>1, <1>4, <1>5
  <2>2. \A d \in Clients : client'[d] \in {"away", "calling"} => fd'[d] = 0
    BY <1>4, <1>5 DEF IInv, Owned
  <2> QED BY <2>1, <2>2 DEF Owned
<1>10. WatchedOrExecuting'
  <2>1. ASSUME NEW d \in Clients, d # c
        PROVE  /\ executing'[d] # "nothing" => fd'[d] # 0
               /\ fd'[d] # 0 => (fd'[d] \in Watched(handlers') <=> executing'[d] = "nothing")
    BY <1>1, <1>4, <1>6, <2>1 DEF IInv, WatchedOrExecuting
  <2>2. /\ executing'[c] # "nothing" => fd'[c] # 0
        /\ fd'[c] # 0 => (fd'[c] \in Watched(handlers') <=> executing'[c] = "nothing")
    BY <1>1, <1>7
  <2> QED BY <2>1, <2>2 DEF WatchedOrExecuting
<1>11. OneAtATime'
  <2>1. ASSUME NEW d \in Clients, d # c
        PROVE  /\ executing'[d] # "nothing" => Unanswered(d)' /\ Quiet(d)'
               /\ \A s \in Entries(handlers') : s.fd = fd'[d] => Waiting(d, s.mask)'
    <3>1. ASSUME NEW s \in Entries(handlers'), s.fd = fd'[d]
          PROVE  s \in Entries(handlers) /\ s.fd = fd[d]
      <4>1. s.fd = fd[d] /\ s.fd # 0
        BY <1>1, <1>4, <2>1, <3>1, EntryTyped
      <4> QED BY <1>1, <2>1, <4>1
    <3> QED BY <2>1, <3>1 DEF IInv, OneAtATime, Waiting, Unanswered, Quiet
  <2>2. ASSUME NEW s \in Entries(handlers'), s.fd = fd'[c]
        PROVE  Waiting(c, s.mask)'
    <3>1. s.fd = fd[c]
      BY <1>5, <2>2, EntryTyped
    <3> QED BY <3>1
  <2> QED BY <2>1, <2>2 DEF OneAtATime
<1> QED BY <1>8, <1>9, <1>10, <1>11

-----------------------------------------------------------------------------
(* The executors. *)

LEMMA ExecutorKeeps ==
  ASSUME IInv, NEW c \in Clients, executing[c] # "nothing"
  PROVE  /\ fd[c] \in Fds /\ fd[c] # 0 /\ fd[c] \notin Watched(handlers)
         /\ Entries(handlers) = {s \in Entries(handlers) : s.fd # fd[c]}
         /\ Registry(handlers) /\ Unanswered(c) /\ Quiet(c)
<1>1. Registry(handlers) /\ Unanswered(c) /\ Quiet(c)
  BY DEF IInv, Registered, OneAtATime
<1>2. fd[c] \in Fds /\ fd[c] # 0 /\ fd[c] \notin Watched(handlers)
  BY DEF IInv, TypeOK, WatchedOrExecuting
<1>3. \A s \in Entries(handlers) : s.fd # fd[c]
  BY <1>1, <1>2, WatchedEntries
<1> QED BY <1>1, <1>2, <1>3

LEMMA SetExitFlagKeeps ==
  ASSUME IInv, NEW c \in Clients, set_exit_flag(c)
  PROVE  IInv'
<1> USE DEF others, clientVars
<1>1. /\ UNCHANGED <<others, handlers, pipe, response, deleting>> /\ exit_flag' = TRUE
      /\ executing[c] # "nothing" /\ executing'[c] # "nothing"
      /\ executing' \in [Clients -> {"nothing", "stop", "interrupt", "call"}]
      /\ \A d \in Clients \ {c} : executing'[d] = executing[d]
  BY DEF set_exit_flag, IInv, TypeOK
<1>2. TypeOK'
  <2> HIDE DEF others, clientVars
  <2> QED BY <1>1 DEF IInv, TypeOK, others, clientVars
<1>3. Registered' /\ Owned' /\ WatchedOrExecuting' /\ OneAtATime'
  <2>1. Unanswered(c)' /\ Quiet(c)'
    BY <1>1, ExecutorKeeps DEF Unanswered, Quiet
  <2> DEFINE X == {}
  <2>2. \A s \in X : s.fd = fd[c] /\ Waiting(c, s.mask)'
    OBVIOUS
  <2>3. X = {}
    OBVIOUS
  <2> HIDE DEF X
  <2> QED BY <1>1, <2>1, <2>2, <2>3, ExecutorKeeps, ConnectionKeeps
<1>4. Counted'
  BY <1>1 DEF IInv, Counted
<1>5. Copied' /\ Undispatched'
  BY <1>1, EventsKept DEF IInv, TypeOK
<1> QED BY <1>2, <1>3, <1>4, <1>5 DEF IInv

LEMMA InterruptKeeps ==
  ASSUME IInv, NEW c \in Clients, interrupt(c)
  PROVE  IInv'
<1> USE DEF others, clientVars
<1>1. /\ UNCHANGED <<others, exit_flag, handlers, response, deleting>>
      /\ executing[c] # "nothing" /\ executing'[c] # "nothing"
      /\ executing' \in [Clients -> {"nothing", "stop", "interrupt", "call"}]
      /\ \A d \in Clients \ {c} : executing'[d] = executing[d]
  BY DEF interrupt, IInv, TypeOK
<1>2. pipe' \in 0 .. PipeSize /\ pipe' \in Nat /\ pipe' >= pipe
  BY Constants DEF interrupt, IInv, TypeOK
<1>3. TypeOK'
  BY <1>1, <1>2 DEF IInv, TypeOK
<1>4. Registered' /\ Owned' /\ WatchedOrExecuting' /\ OneAtATime'
  <2>1. Unanswered(c)' /\ Quiet(c)'
    BY <1>1, ExecutorKeeps DEF Unanswered, Quiet
  <2> DEFINE X == {}
  <2>2. \A s \in X : s.fd = fd[c] /\ Waiting(c, s.mask)'
    OBVIOUS
  <2>3. X = {}
    OBVIOUS
  <2> HIDE DEF X
  <2> QED BY <1>1, <2>1, <2>2, <2>3, ExecutorKeeps, ConnectionKeeps
<1>5. Counted'
  BY <1>1 DEF IInv, Counted
<1>6. Copied' /\ Undispatched'
  BY <1>1, <1>2, EventsKept
<1> QED BY <1>3, <1>4, <1>5, <1>6 DEF IInv

(* The handler is put back for output: the descriptor was free of one.     *)
LEMMA ScheduleResponseKeeps ==
  ASSUME IInv, NEW c \in Clients, schedule_response(c)
  PROVE  IInv'
<1> USE DEF others, clientVars
<1>1. /\ UNCHANGED <<others, exit_flag, pipe>> /\ deleting' = deleting + 1
      /\ executing[c] # "nothing" /\ executing'[c] = "nothing"
      /\ executing' \in [Clients -> {"nothing", "stop", "interrupt", "call"}]
      /\ \A d \in Clients \ {c} : executing'[d] = executing[d]
      /\ response' = [response EXCEPT ![c] = Response(accepted[c], Whole)]
      /\ handlers' = register_handler(handlers, fd[c], "OUTPUT")
  BY DEF schedule_response, IInv, TypeOK
<1>2. /\ Registry(handlers')
      /\ Entries(handlers') = Entries(handlers) \cup {State(fd[c], {"OUTPUT"})}
  BY <1>1, ExecutorKeeps, RegisterNew DEF Events
<1>3. /\ response' \in [Clients -> [to : Nat, left : 0 .. Whole]]
      /\ response'[c].to = accepted[c]
      /\ \A d \in Clients \ {c} : response'[d] = response[d]
  BY <1>1 DEF IInv, TypeOK, Response, Whole
<1>4. TypeOK'
  <2>1. \A d \in Clients :
          /\ replied'[d] <= accepted'[d] /\ response'[d].to <= accepted'[d]
          /\ accepted'[d] <= sends'[d] /\ sends'[d] <= MaxSends[d]
    BY <1>1, <1>3 DEF IInv, TypeOK
  <2>2. deleting' \in Nat
    BY <1>1 DEF IInv, TypeOK
  <2> QED BY <1>1, <1>2, <1>3, <2>1, <2>2, HandlersTyped DEF IInv, TypeOK
<1>5. Registered' /\ Owned' /\ WatchedOrExecuting' /\ OneAtATime'
  <2> DEFINE X == {State(fd[c], {"OUTPUT"})}
  <2>1. Waiting(c, {"OUTPUT"})'
    BY <1>1, <1>3, ExecutorKeeps DEF Waiting, Unanswered
  <2>2. \A s \in X : s.fd = fd[c] /\ Waiting(c, s.mask)'
    BY <2>1 DEF State
  <2>3. X # {} /\ Entries(handlers') = {s \in Entries(handlers) : s.fd # fd[c]} \cup X
    BY <1>1, <1>2, ExecutorKeeps
  <2> HIDE DEF X
  <2> QED BY <1>1, <1>2, <1>3, <2>2, <2>3, ExecutorKeeps, ConnectionKeeps
<1>6. Counted'
  BY <1>1 DEF IInv, Counted
<1>7. Copied' /\ Undispatched'
  BY <1>1, <1>2, EventsKept DEF IInv, TypeOK
<1> QED BY <1>4, <1>5, <1>6, <1>7 DEF IInv

LEMMA DeleteExecutorKeeps ==
  ASSUME IInv, delete_executor
  PROVE  IInv'
<1> USE DEF others, clientVars
<1>1. UNCHANGED <<others, exit_flag, handlers, response, executing>>
  BY DEF delete_executor
<1>2. pipe' \in 0 .. PipeSize /\ pipe' \in Nat /\ pipe' >= pipe /\ deleting' \in Nat
  BY Constants DEF delete_executor, IInv, TypeOK
<1>3. TypeOK'
  BY <1>1, <1>2 DEF IInv, TypeOK
<1>4. Registered'
  BY <1>1, SameRegistry
<1>5. WatchedOrExecuting' /\ Owned' /\ Counted' /\ OneAtATime'
  BY <1>1 DEF IInv, WatchedOrExecuting, Owned, Counted, OneAtATime, Waiting, Unanswered, Quiet
<1>6. Copied' /\ Undispatched'
  BY <1>1, <1>2, EventsKept
<1> QED BY <1>3, <1>4, <1>5, <1>6 DEF IInv

-----------------------------------------------------------------------------
(* The loop. *)

LEMMA LeaveKeeps ==
  ASSUME IInv, Leave
  PROVE  IInv'
<1> USE DEF clientVars, connVars, workVars
<1>1. /\ UNCHANGED <<polled, ready, pipe, clientVars, connVars, workVars, signals>>
      /\ loop = "check" /\ loop' = "left" /\ exit_flag' = FALSE
      /\ handlers' = unregister_handler(handlers, Acceptor)
  BY DEF Leave
<1>2. /\ Registry(handlers) /\ Registry(handlers')
      /\ Entries(handlers') = {s \in Entries(handlers) : s.fd # Acceptor}
      /\ fd \in [Clients -> Fds \cup {0}]
  BY <1>1, Unregister DEF IInv, Registered, TypeOK
<1>3. /\ Watched(handlers) = {s.fd : s \in Entries(handlers)}
      /\ Watched(handlers') = {s.fd : s \in Entries(handlers')}
  BY <1>2, WatchedEntries
<1>4. \A f : f # Acceptor => (f \in Watched(handlers') <=> f \in Watched(handlers))
  BY <1>2, <1>3
<1>5. Acceptor # Interrupter /\ Acceptor \notin Watched(handlers')
  BY <1>2, <1>3 DEF Acceptor, Interrupter
<1>6. TypeOK'
  BY <1>1, <1>2, HandlersTyped DEF IInv, TypeOK
<1>7. Registered'
  BY <1>1, <1>2, <1>4, <1>5 DEF IInv, Registered
<1>8. WatchedOrExecuting'
  <2>1. \A c \in Clients : fd[c] # Acceptor
    BY <1>2, Constants DEF Acceptor
  <2> QED BY <1>1, <1>4, <2>1 DEF IInv, WatchedOrExecuting
<1>9. Owned' /\ Counted' /\ OneAtATime'
  BY <1>1, <1>2 DEF IInv, Owned, Counted, OneAtATime, Waiting, Unanswered, Quiet
<1>10. Copied' /\ Undispatched'
  <2>1. ready' = <<>> /\ Entries(ready') = {}
    BY <1>1 DEF IInv, Undispatched, Entries
  <2> QED BY <1>1, <2>1 DEF IInv, Copied, Undispatched
<1> QED BY <1>6, <1>7, <1>8, <1>9, <1>10 DEF IInv

LEMMA CheckKeeps ==
  ASSUME IInv, Check
  PROVE  IInv'
<1> USE DEF clientVars, connVars, workVars
<1>1. /\ UNCHANGED <<exit_flag, handlers, ready, pipe, clientVars, connVars, workVars, signals>>
      /\ loop = "check" /\ loop' = "poll" /\ polled' = handlers
  BY DEF Check
<1>2. TypeOK'
  BY <1>1 DEF IInv, TypeOK
<1>3. Registered'
  BY <1>1, SameRegistry
<1>4. WatchedOrExecuting' /\ Owned' /\ Counted' /\ OneAtATime'
  BY <1>1 DEF IInv, WatchedOrExecuting, Owned, Counted, OneAtATime, Waiting, Unanswered, Quiet
<1>5. Copied'
  BY <1>1 DEF IInv, Copied, Registered, Registry
<1>6. Undispatched'
  <2>1. ready' = <<>> /\ Entries(ready') = {}
    BY <1>1 DEF IInv, Undispatched, Entries
  <2> QED BY <1>1, <2>1 DEF IInv, Undispatched
<1> QED BY <1>2, <1>3, <1>4, <1>5, <1>6 DEF IInv

(* What poll() returns is of descriptors that it was asked about, and they *)
(* are still registered for all that they were asked for.                  *)
LEMMA PollKeeps ==
  ASSUME IInv, Poll
  PROVE  IInv'
<1> USE DEF clientVars, connVars, workVars
<1> DEFINE asked == [i \in DOMAIN polled |-> Event(polled[i])]
<1>1. /\ UNCHANGED <<exit_flag, handlers, pipe, clientVars, connVars, workVars, signals>>
      /\ loop = "poll" /\ loop' = "dispatch" /\ ready' = poll(asked)
  BY DEF Poll
<1>2. /\ polled \in Seq(HandlerState) /\ Distinct(polled)
      /\ Entries(polled) \subseteq Entries(handlers)
      /\ Registry(handlers)
  BY <1>1 DEF IInv, Copied, Registered
<1>3. /\ Len(polled) \in Nat /\ DOMAIN polled = 1 .. Len(polled)
      /\ \A i \in DOMAIN polled : polled[i] \in Entries(polled)
  BY <1>2, LenProperties DEF Entries
<1>4. ASSUME NEW s \in Entries(handlers)
      PROVE  /\ Event(s) \in ReadyState /\ Event(s).fd = s.fd
             /\ Event(s).owner = OwnerOf(s.fd) /\ Event(s).revents \subseteq s.mask
             /\ s.fd = Interrupter /\ Event(s).revents # {} => pipe > 0
  <2>1. s.fd \in Nat /\ s.mask \subseteq Events
    BY <1>2, EntryTyped
  <2>2. OwnerOf(s.fd) \subseteq Clients
    BY DEF OwnerOf
  <2>3. s.fd = Interrupter /\ pipe = 0 => Happened(s.fd) = {}
    BY DEF Happened, Interrupter, Acceptor
  <2>4. pipe \in Nat
    BY Constants DEF IInv, TypeOK
  <2> QED BY <2>1, <2>2, <2>3, <2>4 DEF Event, ReadyState
<1>5. asked \in Seq(ReadyState) /\ DOMAIN asked = DOMAIN polled
  <2>1. \A i \in DOMAIN polled : Event(polled[i]) \in ReadyState
    BY <1>2, <1>3, <1>4
  <2> HIDE DEF Event
  <2> QED BY <1>3, <2>1, SeqDef
<1>6. Distinct(asked)
  BY <1>2, <1>3, <1>4, <1>5 DEF Distinct
<1>7. \A e \in Entries(asked) : \E s \in Entries(handlers) : e = Event(s)
  BY <1>2, <1>3, <1>5 DEF Entries
<1> HIDE DEF asked
<1>8. /\ ready' \in Seq(ReadyState) /\ Distinct(ready')
      /\ \A e \in Entries(ready') : e \in Entries(asked) /\ e.revents # {}
  BY <1>1, <1>5, <1>6, PollGivesEvents DEF Entries
<1>9. TypeOK'
  BY <1>1 DEF IInv, TypeOK
<1>10. Registered'
  BY <1>1, SameRegistry
<1>11. WatchedOrExecuting' /\ Owned' /\ Counted' /\ OneAtATime'
  BY <1>1 DEF IInv, WatchedOrExecuting, Owned, Counted, OneAtATime, Waiting, Unanswered, Quiet
<1>12. Copied'
  BY <1>1 DEF Copied
<1>13. Undispatched'
  <2>1. ASSUME NEW e \in Entries(ready')
        PROVE  /\ e.revents # {} /\ e.owner = OwnerOf(e.fd)'
               /\ \E s \in Entries(handlers') : s.fd = e.fd /\ e.revents \subseteq s.mask
               /\ e.fd = Interrupter => pipe' > 0
    <3>1. PICK s \in Entries(handlers) : e = Event(s)
      BY <1>7, <1>8
    <3>2. /\ e.fd = s.fd /\ e.revents # {} /\ e.owner = OwnerOf(e.fd)
          /\ e.revents \subseteq s.mask
          /\ e.fd = Interrupter => pipe > 0
      BY <1>4, <1>8, <3>1
    <3>3. OwnerOf(e.fd)' = OwnerOf(e.fd)
      BY <1>1 DEF OwnerOf
    <3>4. Entries(handlers') = Entries(handlers) /\ pipe' = pipe
      BY <1>1
    <3>5. \E t \in Entries(handlers') : t.fd = e.fd /\ e.revents \subseteq t.mask
      BY <3>2, <3>4
    <3> QED BY <3>2, <3>3, <3>4, <3>5
  <2> QED BY <1>1, <1>8, <2>1 DEF Undispatched
<1> QED BY <1>9, <1>10, <1>11, <1>12, <1>13 DEF IInv

LEMMA PollInterruptedKeeps ==
  ASSUME IInv, PollInterrupted
  PROVE  IInv'
<1> USE DEF clientVars, connVars, workVars
<1>1. /\ UNCHANGED <<exit_flag, handlers, ready, pipe, clientVars, connVars, workVars>>
      /\ loop = "poll" /\ loop' = "dispatch"
  BY DEF PollInterrupted
<1>2. signals' \in 0 .. MaxSignals
  BY Constants DEF PollInterrupted, IInv, TypeOK
<1>3. TypeOK'
  BY <1>1, <1>2 DEF IInv, TypeOK
<1>4. Registered'
  BY <1>1, SameRegistry
<1>5. WatchedOrExecuting' /\ Owned' /\ Counted' /\ OneAtATime'
  BY <1>1 DEF IInv, WatchedOrExecuting, Owned, Counted, OneAtATime, Waiting, Unanswered, Quiet
<1>6. Copied'
  BY <1>1 DEF Copied
<1>7. Undispatched'
  BY <1>1 DEF IInv, Undispatched, OwnerOf
<1> QED BY <1>3, <1>4, <1>5, <1>6, <1>7 DEF IInv

LEMMA EndDispatchKeeps ==
  ASSUME IInv, EndDispatch
  PROVE  IInv'
<1> USE DEF clientVars, connVars, workVars
<1>1. /\ UNCHANGED <<exit_flag, handlers, ready, pipe, clientVars, connVars, workVars, signals>>
      /\ ready = <<>> /\ loop = "dispatch" /\ loop' = "check"
  BY DEF EndDispatch
<1>2. TypeOK'
  BY <1>1 DEF IInv, TypeOK
<1>3. Registered'
  BY <1>1, SameRegistry
<1>4. WatchedOrExecuting' /\ Owned' /\ Counted' /\ OneAtATime'
  BY <1>1 DEF IInv, WatchedOrExecuting, Owned, Counted, OneAtATime, Waiting, Unanswered, Quiet
<1>5. Copied'
  BY <1>1 DEF Copied
<1>6. Undispatched'
  BY <1>1 DEF IInv, Undispatched, OwnerOf
<1> QED BY <1>2, <1>3, <1>4, <1>5, <1>6 DEF IInv

LEMMA HandleInterruptKeeps ==
  ASSUME IInv, HandleInterrupt
  PROVE  IInv'
<1> USE DEF clientVars, connVars, workVars
<1>1. /\ UNCHANGED <<loop, handlers, clientVars, connVars, executing, exit_flag, polled, deleting, signals>>
      /\ Dispatching(Interrupter, "INPUT") /\ pipe' = pipe - 1
  BY DEF HandleInterrupt, Dispatching
<1>2. loop = "dispatch" /\ pipe > 0
  BY <1>1, Dispatched
<1>3. pipe' \in 0 .. PipeSize
  BY <1>1, <1>2, Constants DEF IInv, TypeOK
<1>4. TypeOK'
  BY <1>1, <1>3 DEF IInv, TypeOK
<1>5. Registered'
  BY <1>1, SameRegistry
<1>6. WatchedOrExecuting' /\ Owned' /\ Counted' /\ OneAtATime'
  BY <1>1 DEF IInv, WatchedOrExecuting, Owned, Counted, OneAtATime, Waiting, Unanswered, Quiet
<1>7. \A g : OwnerOf(g)' = OwnerOf(g)
  BY <1>1 DEF OwnerOf
<1>8. Copied' /\ Undispatched'
  BY <1>1, <1>2, <1>7, OthersKept
<1> QED BY <1>4, <1>5, <1>6, <1>8 DEF IInv

(* The acceptor's descriptor is no connection's.                           *)
LEMMA AcceptorKeeps ==
  ASSUME IInv, NEW c \in Clients, Accepting(c)
  PROVE  /\ Dispatching(Acceptor, "INPUT") /\ loop = "dispatch"
         /\ client[c] = "calling" /\ fd[c] = 0 /\ executing[c] = "nothing"
         /\ replied[c] = accepted[c] /\ response[c].to = 0
<1>1. Dispatching(Acceptor, "INPUT") /\ client[c] = "calling"
  BY DEF Accepting, Backlog
<1>2. fd[c] = 0 /\ executing[c] = "nothing"
  BY <1>1 DEF IInv, Owned, WatchedOrExecuting
<1>3. sends[c] = 0
  BY <1>1 DEF IInv, Counted
<1>4. /\ replied[c] \in Nat /\ accepted[c] \in Nat /\ response[c].to \in Nat
      /\ replied[c] <= accepted[c] /\ response[c].to <= accepted[c] /\ accepted[c] <= sends[c]
  BY DEF IInv, TypeOK
<1>5. replied[c] = accepted[c] /\ response[c].to = 0
  BY <1>3, <1>4
<1> QED BY <1>1, <1>2, <1>5, Dispatched

LEMMA AcceptRefusedKeeps ==
  ASSUME IInv, NEW c \in Clients, AcceptRefused(c)
  PROVE  IInv'
<1> USE DEF clientVars, connVars, workVars
<1>1. /\ UNCHANGED <<loop, handlers, pipe, inbox, sends, connVars, executing, exit_flag, polled, deleting, signals>>
      /\ client' = [client EXCEPT ![c] = "gone"] /\ Accepting(c)
      /\ Dispatching(Acceptor, "INPUT")
  BY DEF AcceptRefused, Accepting, Dispatching
<1>2. TypeOK'
  BY <1>1 DEF IInv, TypeOK
<1>3. Registered'
  BY <1>1, SameRegistry
<1>4. WatchedOrExecuting' /\ OneAtATime'
  BY <1>1 DEF IInv, WatchedOrExecuting, OneAtATime, Waiting, Unanswered, Quiet
<1>5. Owned' /\ Counted'
  BY <1>1 DEF IInv, TypeOK, Owned, Counted
<1>6. \A g : OwnerOf(g)' = OwnerOf(g)
  BY <1>1 DEF OwnerOf
<1>7. Copied' /\ Undispatched'
  BY <1>1, <1>6, AcceptorKeeps, OthersKept
<1> QED BY <1>2, <1>3, <1>4, <1>5, <1>7 DEF IInv

LEMMA AcceptFailsKeeps ==
  ASSUME IInv, AcceptFails
  PROVE  IInv'
<1> USE DEF clientVars, connVars, workVars
<1>1. /\ UNCHANGED <<handlers, pipe, clientVars, connVars, executing, exit_flag, polled, deleting, signals>>
      /\ loop' = "dead" /\ Dispatching(Acceptor, "INPUT")
  BY DEF AcceptFails, Dispatching
<1>2. TypeOK'
  BY <1>1 DEF IInv, TypeOK
<1>3. loop = "dispatch"
  BY <1>1, Dispatched
<1>4. Registered'
  BY <1>1, <1>3, SameRegistry
<1>5. WatchedOrExecuting' /\ Owned' /\ Counted' /\ OneAtATime'
  BY <1>1 DEF IInv, WatchedOrExecuting, Owned, Counted, OneAtATime, Waiting, Unanswered, Quiet
<1>6. \A g : OwnerOf(g)' = OwnerOf(g)
  BY <1>1 DEF OwnerOf
<1>7. Copied' /\ Undispatched'
  BY <1>1, <1>6, OthersKept
<1> QED BY <1>2, <1>4, <1>5, <1>7 DEF IInv

(* A descriptor that is given again is neither watched nor of an event     *)
(* that waits to be dispatched.                                            *)
LEMMA AcceptKeeps ==
  ASSUME IInv, NEW c \in Clients, Accept(c)
  PROVE  IInv'
<1> USE DEF clientVars, connVars, workVars
<1> DEFINE f == Min(FreeFds)
<1>1. /\ UNCHANGED <<loop, pipe, inbox, sends, keep_alive, response, accepted, replied, executing,
                     exit_flag, polled, deleting, signals>>
      /\ client' = [client EXCEPT ![c] = "connected"] /\ Accepting(c) /\ FreeFds # {}
      /\ fd' = [fd EXCEPT ![c] = f]
      /\ handlers' = register_handler(handlers, fd'[c], "INPUT")
  BY DEF Accept, Accepting, Dispatching
<1>2. f \in Fds /\ \A d \in Clients : fd[d] # f
  BY <1>1, FreeFd
<1> HIDE DEF f
<1>3. /\ Registry(handlers) /\ fd \in [Clients -> Fds \cup {0}]
      /\ client \in [Clients -> {"away", "calling", "connected", "gone"}]
  BY DEF IInv, TypeOK, Registered
<1>4. /\ fd' \in [Clients -> Fds \cup {0}] /\ fd'[c] = f
      /\ client' \in [Clients -> {"away", "calling", "connected", "gone"}] /\ client'[c] = "connected"
      /\ \A d \in Clients : d # c => fd'[d] = fd[d] /\ client'[d] = client[d]
  BY <1>1, <1>2, <1>3
<1>5. f \notin Watched(handlers) /\ f \notin {0, Interrupter, Acceptor}
  BY <1>2, Constants DEF IInv, Registered
<1>6. /\ Registry(handlers')
      /\ Entries(handlers') = Entries(handlers) \cup {State(f, {"INPUT"})}
  BY <1>1, <1>2, <1>3, <1>4, <1>5, RegisterNew DEF Events
<1>7. /\ Watched(handlers) = {s.fd : s \in Entries(handlers)}
      /\ Watched(handlers') = {s.fd : s \in Entries(handlers')}
  BY <1>3, <1>6, WatchedEntries
<1>8. Watched(handlers') = Watched(handlers) \cup {f}
  <2> DEFINE new == State(f, {"INPUT"})
  <2>1. new.fd = f
    BY DEF State
  <2> HIDE DEF new
  <2>2. Entries(handlers') = Entries(handlers) \cup {new}
    BY <1>6 DEF new
  <2> QED BY <1>7, <2>1, <2>2
<1>9. TypeOK'
  BY <1>1, <1>4, <1>6, HandlersTyped DEF IInv, TypeOK
<1>10. Registered'
  <2>1. ASSUME NEW g \in Watched(handlers') \ {Interrupter, Acceptor}
        PROVE  \E d \in Clients : fd'[d] = g
    <3>1. CASE g = f
      BY <1>4, <3>1
    <3>2. CASE g # f
      <4>1. PICK d \in Clients : fd[d] = g
        BY <1>8, <2>1, <3>2 DEF IInv, Registered
      <4>2. d # c
        BY <1>1, <1>3, <2>1, <4>1, <1>8, <3>2, EntryTyped, <1>7, AcceptorKeeps
      <4> QED BY <1>4, <4>1, <4>2
    <3> QED BY <3>1, <3>2
  <2> QED BY <1>1, <1>6, <1>8, <2>1 DEF IInv, Registered
<1>11. Owned'
  BY <1>2, <1>4 DEF IInv, Owned
<1>12. WatchedOrExecuting'
  <2>1. ASSUME NEW d \in Clients, d # c
        PROVE  /\ executing'[d] # "nothing" => fd'[d] # 0
               /\ fd'[d] # 0 => (fd'[d] \in Watched(handlers') <=> executing'[d] = "nothing")
    BY <1>1, <1>2, <1>4, <1>8, <2>1 DEF IInv, WatchedOrExecuting
  <2>2. fd'[c] # 0 /\ fd'[c] \in Watched(handlers') /\ executing'[c] = "nothing"
    BY <1>1, <1>4, <1>5, <1>8, AcceptorKeeps
  <2> QED BY <2>1, <2>2 DEF WatchedOrExecuting
<1>13. Counted'
  BY <1>1, <1>4 DEF IInv, Counted
<1>14. OneAtATime'
  <2>1. ASSUME NEW d \in Clients, NEW s \in Entries(handlers'), s.fd = fd'[d]
        PROVE  Waiting(d, s.mask)'
    <3>1. CASE d # c
      <4>1. s.fd = fd[d] /\ s.fd # f
        BY <1>2, <1>4, <2>1, <3>1
      <4>2. s \in Entries(handlers)
        BY <1>6, <4>1 DEF State
      <4> QED BY <1>1, <4>1, <4>2 DEF IInv, OneAtATime, Waiting, Unanswered, Quiet
    <3>2. CASE d = c
      <4>1. s = State(f, {"INPUT"})
        BY <1>4, <1>5, <1>6, <1>7, <2>1, <3>2
      <4>2. s.mask = {"INPUT"} /\ "INPUT" \in s.mask /\ "OUTPUT" \notin s.mask
        BY <4>1 DEF State
      <4> QED BY <1>1, <3>2, <4>2, AcceptorKeeps DEF Waiting, Quiet
    <3> QED BY <3>1, <3>2
  <2>2. \A d \in Clients : executing'[d] # "nothing" => Unanswered(d)' /\ Quiet(d)'
    BY <1>1 DEF IInv, OneAtATime, Unanswered, Quiet
  <2> QED BY <2>1, <2>2 DEF OneAtATime
<1>15. Copied' /\ Undispatched'
  <2>1. \A g \in Nat : g # Acceptor /\ g # 0 => OwnerOf(g)' = OwnerOf(g) \/ g \notin Watched(handlers)
    <3>1. SUFFICES ASSUME NEW g \in Nat, g # 0, g # f PROVE OwnerOf(g)' = OwnerOf(g)
      BY <1>5
    <3>2. fd[c] = 0
      BY <1>1, AcceptorKeeps
    <3>3. \A d \in Clients : fd'[d] = g <=> fd[d] = g
      BY <1>4, <3>1, <3>2
    <3> QED BY <3>3 DEF OwnerOf
  <2>2. loop' = "dispatch" /\ Dispatching(Acceptor, "INPUT")
    BY <1>1, AcceptorKeeps
  <2>3. \A s \in Entries(handlers) : s.fd # Acceptor => s \in Entries(handlers')
    BY <1>6
  <2> QED BY <1>1, <2>1, <2>2, <2>3, OthersKept
<1> QED BY <1>9, <1>10, <1>11, <1>12, <1>13, <1>14, <1>15 DEF IInv

-----------------------------------------------------------------------------
(* The handler of a connection. *)

(* An event on its descriptor finds the connection without an executor,    *)
(* with one entry in the registry that waits for the event.                *)
LEMMA HandlerEntry ==
  ASSUME IInv, NEW c \in Clients, NEW event, Dispatching(fd[c], event)
  PROVE  \E s \in Entries(handlers) :
           /\ s.fd = fd[c] /\ event \in s.mask /\ Waiting(c, s.mask)
           /\ \A t \in Entries(handlers) : t.fd = fd[c] => t = s
<1>1. Registry(handlers)
  BY DEF IInv, Registered
<1>2. PICK s \in Entries(handlers) : s.fd = fd[c] /\ event \in s.mask
  BY Dispatched
<1>3. Waiting(c, s.mask)
  BY <1>2 DEF IInv, OneAtATime
<1>4. \A t \in Entries(handlers) : t.fd = fd[c] => t = s
  BY <1>1, <1>2, WatchedEntries
<1> QED BY <1>2, <1>3, <1>4

LEMMA HandlerKeeps ==
  ASSUME IInv, NEW c \in Clients, NEW event, Dispatching(fd[c], event)
  PROVE  /\ loop = "dispatch" /\ fd[c] \in Fds /\ fd[c] # 0 /\ executing[c] = "nothing"
         /\ client[c] \notin {"away", "calling"} /\ Registry(handlers)
         /\ UNCHANGED <<exit_flag, polled, deleting, signals>>
<1>1. Registry(handlers) /\ fd[c] \in Fds \cup {0} /\ loop = "dispatch"
  BY Dispatched DEF IInv, Registered, TypeOK
<1>2. PICK s \in Entries(handlers) : s.fd = fd[c]
  BY Dispatched
<1>3. fd[c] # 0 /\ fd[c] \in Watched(handlers)
  BY <1>1, <1>2, EntryTyped
<1>4. executing[c] = "nothing" /\ client[c] \notin {"away", "calling"}
  BY <1>3 DEF IInv, WatchedOrExecuting, Owned
<1> QED BY <1>1, <1>3, <1>4 DEF Dispatching

LEMMA HandlerEvents ==
  ASSUME IInv, NEW c \in Clients, NEW event, Dispatching(fd[c], event),
         UNCHANGED <<loop, pipe>>,
         {s \in Entries(handlers) : s.fd # fd[c]} \subseteq Entries(handlers'),
         fd' = fd \/ fd' = [fd EXCEPT ![c] = 0]
  PROVE  Copied' /\ Undispatched'
<1>1. loop' = "dispatch"
  BY HandlerKeeps
<1>2. ASSUME NEW g \in Nat, g # fd[c], g # 0 PROVE OwnerOf(g)' = OwnerOf(g)
  <2>1. \A d \in Clients : fd'[d] = g <=> fd[d] = g
    BY <1>2 DEF IInv, TypeOK
  <2> QED BY <2>1 DEF OwnerOf
<1> QED BY <1>1, <1>2, OthersKept

LEMMA FinishKeeps ==
  ASSUME IInv, NEW c \in Clients, NEW event, Dispatching(fd[c], event), Finish(c),
         UNCHANGED <<loop, pipe, client>>,
         executing' = executing, accepted' = accepted,
         \A d \in Clients \ {c} : response'[d] = response[d] /\ replied'[d] = replied[d]
  PROVE  /\ Registered' /\ Owned' /\ WatchedOrExecuting' /\ OneAtATime'
         /\ Copied' /\ Undispatched'
         /\ Registry(handlers') /\ fd' \in [Clients -> Fds \cup {0}]
<1>1. fd' = [fd EXCEPT ![c] = 0] /\ fd' \in [Clients -> Fds \cup {0}]
  BY DEF Finish, IInv, TypeOK
<1>2. /\ Registry(handlers')
      /\ Entries(handlers') = {s \in Entries(handlers) : s.fd # fd[c]}
  <2>1. Registry(handlers)
    BY HandlerKeeps
  <2> QED BY <2>1, Unregister DEF Finish
<1>3. Copied' /\ Undispatched'
  BY <1>1, <1>2, HandlerEvents
<1>4. fd[c] # 0 /\ executing[c] = "nothing"
  BY HandlerKeeps
<1> DEFINE X == {}
<1>5. \A s \in X : s.fd = fd[c] /\ Waiting(c, s.mask)'
  OBVIOUS
<1>6. X = {}
  OBVIOUS
<1> HIDE DEF X
<1>7. Registered' /\ Owned' /\ WatchedOrExecuting' /\ OneAtATime'
  BY <1>1, <1>2, <1>4, <1>5, <1>6, ConnectionKeeps
<1> QED BY <1>1, <1>2, <1>3, <1>7

LEMMA InputClosedKeeps ==
  ASSUME IInv, NEW c \in Clients, InputClosed(c)
  PROVE  IInv'
<1> USE DEF connOthers
<1>1. /\ Dispatching(fd[c], "INPUT") /\ Finish(c)
      /\ UNCHANGED <<connOthers, inbox, keep_alive, response, accepted, executing>>
      /\ UNCHANGED <<exit_flag, polled, deleting, signals>>
  BY HandlerKeeps DEF InputClosed
<1>2. /\ Registered' /\ Owned' /\ WatchedOrExecuting' /\ OneAtATime'
      /\ Copied' /\ Undispatched'
      /\ Registry(handlers') /\ fd' \in [Clients -> Fds \cup {0}]
  BY <1>1, FinishKeeps
<1>3. TypeOK'
  BY <1>1, <1>2, HandlersTyped DEF IInv, TypeOK
<1>4. Counted'
  BY <1>1 DEF IInv, Counted
<1> QED BY <1>2, <1>3, <1>4 DEF IInv

(* What is read of a client is a segment that was not counted yet.         *)
LEMMA ReadKeeps ==
  ASSUME IInv, NEW c \in Clients, NEW kinds, Read(c, kinds),
         kinds \subseteq {"part", "call", "stop", "unknown", "bad"}
  PROVE  /\ Dispatching(fd[c], "INPUT") /\ UNCHANGED <<connOthers, fd>>
         /\ UNCHANGED <<exit_flag, polled, deleting, signals>>
         /\ inbox[c] \in Segment /\ inbox[c].kind \in kinds
         /\ accepted[c] + 1 <= sends[c]
         /\ inbox' \in [Clients -> Segment \cup {None}] /\ inbox'[c] = None
         /\ \A d \in Clients \ {c} : inbox'[d] = inbox[d]
<1>1. /\ Dispatching(fd[c], "INPUT") /\ UNCHANGED <<connOthers, fd>>
      /\ UNCHANGED <<exit_flag, polled, deleting, signals>>
      /\ inbox' = [inbox EXCEPT ![c] = None] /\ inbox[c].kind \in kinds
  BY HandlerKeeps DEF Read
<1>2. inbox \in [Clients -> Segment \cup {None}]
  BY DEF IInv, TypeOK
<1>3. inbox[c] # None
  BY <1>1 DEF None
<1>4. accepted[c] + 1 <= sends[c]
  BY <1>3 DEF IInv, Counted
<1> QED BY <1>1, <1>2, <1>3, <1>4

(* A request is accepted: it is one more than the last.                    *)
LEMMA NumbersKeep ==
  ASSUME IInv, NEW c \in Clients, UNCHANGED <<sends, client>>,
         replied' \in [Clients -> Nat], accepted' \in [Clients -> Nat],
         response' \in [Clients -> [to : Nat, left : 0 .. Whole]],
         inbox' \in [Clients -> Segment \cup {None}],
         \A d \in Clients \ {c} :
           /\ replied'[d] = replied[d] /\ accepted'[d] = accepted[d]
           /\ response'[d] = response[d] /\ inbox'[d] = inbox[d],
         replied'[c] <= accepted'[c], response'[c].to <= accepted'[c],
         accepted'[c] <= sends[c],
         \/ inbox'[c] = None
         \/ inbox'[c] = inbox[c] /\ accepted'[c] = accepted[c],
         client[c] \notin {"away", "calling"}
  PROVE  /\ \A d \in Clients :
              /\ replied'[d] <= accepted'[d] /\ response'[d].to <= accepted'[d]
              /\ accepted'[d] <= sends'[d] /\ sends'[d] <= MaxSends[d]
         /\ Counted'
<1>1. \A d \in Clients :
        /\ replied'[d] <= accepted'[d] /\ response'[d].to <= accepted'[d]
        /\ accepted'[d] <= sends'[d] /\ sends'[d] <= MaxSends[d]
  BY DEF IInv, TypeOK
<1>2. ASSUME NEW d \in Clients
      PROVE  /\ accepted'[d] + (IF inbox'[d] = None THEN 0 ELSE 1) <= sends'[d]
             /\ client'[d] \in {"away", "calling"} => sends'[d] = 0
  <2>1. CASE d = c
    <3>1. CASE inbox'[c] = None
      BY <2>1, <3>1
    <3>2. CASE inbox'[c] = inbox[c] /\ accepted'[c] = accepted[c]
      BY <2>1, <3>2 DEF IInv, Counted
    <3> QED BY <3>1, <3>2
  <2>2. CASE d # c
    BY <2>2 DEF IInv, Counted
  <2> QED BY <2>1, <2>2
<1> QED BY <1>1, <1>2 DEF Counted

LEMMA InputPartKeeps ==
  ASSUME IInv, NEW c \in Clients, InputPart(c)
  PROVE  IInv'
<1> USE DEF connOthers
<1>1. /\ Read(c, {"part"})
      /\ UNCHANGED <<handlers, keep_alive, response, accepted, executing>>
  BY DEF InputPart
<1>2. /\ Dispatching(fd[c], "INPUT") /\ UNCHANGED <<connOthers, fd>>
      /\ UNCHANGED <<exit_flag, polled, deleting, signals>>
      /\ inbox' \in [Clients -> Segment \cup {None}] /\ inbox'[c] = None
      /\ \A d \in Clients \ {c} : inbox'[d] = inbox[d]
  BY <1>1, ReadKeeps
<1>3. client[c] \notin {"away", "calling"}
  BY <1>2, HandlerKeeps
<1>4. TypeOK'
  BY <1>1, <1>2 DEF IInv, TypeOK
<1>5. Counted'
  <2>1. /\ response \in [Clients -> [to : Nat, left : 0 .. Whole]]
        /\ replied \in [Clients -> Nat] /\ accepted \in [Clients -> Nat]
        /\ replied[c] <= accepted[c] /\ response[c].to <= accepted[c] /\ accepted[c] <= sends[c]
    BY DEF IInv, TypeOK
  <2> QED BY <1>1, <1>2, <1>3, <2>1, NumbersKeep
<1>6. Registered'
  BY <1>1, <1>2, SameRegistry
<1>7. WatchedOrExecuting' /\ Owned' /\ OneAtATime'
  BY <1>1, <1>2 DEF IInv, WatchedOrExecuting, Owned, OneAtATime, Waiting, Unanswered, Quiet
<1>8. Copied' /\ Undispatched'
  BY <1>1, <1>2, HandlerEvents
<1> QED BY <1>4, <1>5, <1>6, <1>7, <1>8 DEF IInv

(* The error waits to be written while input is waited for: it answers no  *)
(* request.                                                                *)
LEMMA InputBadKeeps ==
  ASSUME IInv, NEW c \in Clients, InputBad(c)
  PROVE  IInv'
<1> USE DEF connOthers
<1>1. PICK kinds \in {{"bad"}, {"part", "call", "stop", "unknown"}} : Read(c, kinds)
  BY DEF InputBad
<1>2. /\ keep_alive' = [keep_alive EXCEPT ![c] = FALSE]
      /\ response' = [response EXCEPT ![c] = Response(0, Whole)]
      /\ handlers' = register_handler(handlers, fd[c], "OUTPUT")
      /\ UNCHANGED <<accepted, executing>>
  BY DEF InputBad
<1>3. /\ Dispatching(fd[c], "INPUT") /\ UNCHANGED <<connOthers, fd>>
      /\ UNCHANGED <<exit_flag, polled, deleting, signals>>
      /\ inbox' \in [Clients -> Segment \cup {None}] /\ inbox'[c] = None
      /\ \A d \in Clients \ {c} : inbox'[d] = inbox[d]
  BY <1>1, ReadKeeps
<1>4. /\ fd[c] # 0 /\ executing[c] = "nothing" /\ client[c] \notin {"away", "calling"}
      /\ Registry(handlers)
  BY <1>3, HandlerKeeps
<1>5. PICK s \in Entries(handlers) :
        /\ s.fd = fd[c] /\ "INPUT" \in s.mask /\ Waiting(c, s.mask)
        /\ \A t \in Entries(handlers) : t.fd = fd[c] => t = s
  BY <1>3, HandlerEntry
<1> DEFINE X == {State(fd[c], s.mask \cup {"OUTPUT"})}
<1>6. /\ Registry(handlers')
      /\ Entries(handlers') = {t \in Entries(handlers) : t.fd # fd[c]} \cup X
  <2>1. /\ Registry(handlers')
        /\ Entries(handlers') = (Entries(handlers) \ {s}) \cup X
    BY <1>2, <1>4, <1>5, RegisterAgain DEF Events
  <2>2. Entries(handlers) \ {s} = {t \in Entries(handlers) : t.fd # fd[c]}
    BY <1>5
  <2> QED BY <2>1, <2>2
<1>7. /\ response' \in [Clients -> [to : Nat, left : 0 .. Whole]]
      /\ response'[c].to = 0
      /\ \A d \in Clients \ {c} : response'[d] = response[d]
  BY <1>2 DEF IInv, TypeOK, Response, Whole
<1>8. /\ Counted'
      /\ \A d \in Clients :
           /\ replied'[d] <= accepted'[d] /\ response'[d].to <= accepted'[d]
           /\ accepted'[d] <= sends'[d] /\ sends'[d] <= MaxSends[d]
  <2>1. /\ replied \in [Clients -> Nat] /\ accepted \in [Clients -> Nat]
        /\ replied[c] <= accepted[c] /\ 0 <= accepted[c] /\ accepted[c] <= sends[c]
    BY DEF IInv, TypeOK
  <2> QED BY <1>2, <1>3, <1>4, <1>7, <2>1, NumbersKeep
<1>9. TypeOK'
  <2>1. keep_alive' \in [Clients -> BOOLEAN]
    BY <1>2 DEF IInv, TypeOK
  <2> QED BY <1>2, <1>3, <1>6, <1>7, <1>8, <2>1, HandlersTyped DEF IInv, TypeOK
<1>10. Registered' /\ Owned' /\ WatchedOrExecuting' /\ OneAtATime'
  <2>1. Waiting(c, s.mask \cup {"OUTPUT"})'
    BY <1>2, <1>3, <1>5, <1>7 DEF Waiting, Quiet
  <2>2. \A t \in X : t.fd = fd[c] /\ Waiting(c, t.mask)'
    BY <2>1 DEF State
  <2>3. X # {}
    OBVIOUS
  <2> HIDE DEF X
  <2> QED BY <1>2, <1>3, <1>4, <1>6, <1>7, <2>2, <2>3, ConnectionKeeps
<1>11. Copied' /\ Undispatched'
  BY <1>3, <1>6, HandlerEvents
<1> QED BY <1>8, <1>9, <1>10, <1>11 DEF IInv

(* The handler is taken out while the request is executed.                 *)
LEMMA InputCallKeeps ==
  ASSUME IInv, NEW c \in Clients, InputCall(c)
  PROVE  IInv'
<1> USE DEF connOthers
<1>1. /\ Read(c, {"call", "stop"}) /\ UNCHANGED response
      /\ keep_alive' = [keep_alive EXCEPT ![c] = inbox[c].keep_alive]
      /\ accepted' = [accepted EXCEPT ![c] = @ + 1]
      /\ handlers' = unregister_handler(handlers, fd[c])
      /\ executing' = [executing EXCEPT ![c] = inbox[c].kind]
  BY DEF InputCall, unregister_mask
<1>2. /\ Dispatching(fd[c], "INPUT") /\ UNCHANGED <<connOthers, fd>>
      /\ UNCHANGED <<exit_flag, polled, deleting, signals>>
      /\ inbox[c] \in Segment /\ inbox[c].kind \in {"call", "stop"}
      /\ accepted[c] + 1 <= sends[c]
      /\ inbox' \in [Clients -> Segment \cup {None}] /\ inbox'[c] = None
      /\ \A d \in Clients \ {c} : inbox'[d] = inbox[d]
  BY <1>1, ReadKeeps
<1>3. /\ fd[c] # 0 /\ executing[c] = "nothing" /\ client[c] \notin {"away", "calling"}
      /\ Registry(handlers)
  BY <1>2, HandlerKeeps
<1>4. replied[c] = accepted[c] /\ Quiet(c)
  <2>1. PICK s \in Entries(handlers) : "INPUT" \in s.mask /\ Waiting(c, s.mask)
    BY <1>2, HandlerEntry
  <2> QED BY <2>1 DEF Waiting
<1>5. /\ Registry(handlers')
      /\ Entries(handlers') = {t \in Entries(handlers) : t.fd # fd[c]}
  BY <1>1, <1>3, Unregister
<1>6. /\ accepted \in [Clients -> Nat] /\ replied \in [Clients -> Nat]
      /\ response \in [Clients -> [to : Nat, left : 0 .. Whole]]
      /\ response[c].to <= accepted[c] /\ response[c].to \in Nat
      /\ executing \in [Clients -> {"nothing", "stop", "interrupt", "call"}]
  BY DEF IInv, TypeOK
<1>7. /\ accepted' \in [Clients -> Nat] /\ accepted'[c] = accepted[c] + 1
      /\ \A d \in Clients \ {c} : accepted'[d] = accepted[d]
  BY <1>1, <1>6
<1>8. /\ executing' \in [Clients -> {"nothing", "stop", "interrupt", "call"}]
      /\ executing'[c] # "nothing"
      /\ \A d \in Clients \ {c} : executing'[d] = executing[d]
  BY <1>1, <1>2, <1>6
<1>9. /\ Counted'
      /\ \A d \in Clients :
           /\ replied'[d] <= accepted'[d] /\ response'[d].to <= accepted'[d]
           /\ accepted'[d] <= sends'[d] /\ sends'[d] <= MaxSends[d]
  <2>1. replied'[c] <= accepted'[c] /\ response'[c].to <= accepted'[c] /\ accepted'[c] <= sends[c]
    BY <1>1, <1>2, <1>4, <1>6, <1>7
  <2> QED BY <1>1, <1>2, <1>3, <1>6, <1>7, <2>1, NumbersKeep
<1>10. TypeOK'
  <2>1. keep_alive' \in [Clients -> BOOLEAN]
    <3>1. inbox[c].keep_alive \in BOOLEAN
      BY <1>2 DEF Segment
    <3> QED BY <1>1, <3>1 DEF IInv, TypeOK
  <2> QED BY <1>1, <1>2, <1>5, <1>6, <1>7, <1>8, <1>9, <2>1, HandlersTyped DEF IInv, TypeOK
<1>11. Registered' /\ Owned' /\ WatchedOrExecuting' /\ OneAtATime'
  <2>1. Unanswered(c)' /\ Quiet(c)'
    BY <1>1, <1>2, <1>4, <1>7 DEF Unanswered, Quiet
  <2> DEFINE X == {}
  <2>2. \A t \in X : t.fd = fd[c] /\ Waiting(c, t.mask)'
    OBVIOUS
  <2>3. X = {}
    OBVIOUS
  <2> HIDE DEF X
  <2> QED BY <1>1, <1>2, <1>3, <1>5, <1>7, <1>8, <2>1, <2>2, <2>3, ConnectionKeeps
<1>12. Copied' /\ Undispatched'
  BY <1>2, <1>5, HandlerEvents
<1> QED BY <1>9, <1>10, <1>11, <1>12 DEF IInv

(* The handler is put back at once, for output.                            *)
LEMMA InputUnknownKeeps ==
  ASSUME IInv, NEW c \in Clients, InputUnknown(c)
  PROVE  IInv'
<1> USE DEF connOthers
<1>1. /\ Read(c, {"unknown"}) /\ UNCHANGED executing
      /\ keep_alive' = [keep_alive EXCEPT ![c] = inbox[c].keep_alive]
      /\ accepted' = [accepted EXCEPT ![c] = @ + 1]
      /\ handlers' = register_handler(unregister_handler(handlers, fd[c]), fd[c], "OUTPUT")
      /\ response' = [response EXCEPT ![c] = Response(accepted'[c], Whole)]
  BY DEF InputUnknown, unregister_mask
<1>2. /\ Dispatching(fd[c], "INPUT") /\ UNCHANGED <<connOthers, fd>>
      /\ UNCHANGED <<exit_flag, polled, deleting, signals>>
      /\ inbox[c] \in Segment
      /\ accepted[c] + 1 <= sends[c]
      /\ inbox' \in [Clients -> Segment \cup {None}] /\ inbox'[c] = None
      /\ \A d \in Clients \ {c} : inbox'[d] = inbox[d]
  BY <1>1, ReadKeeps
<1>3. /\ fd[c] # 0 /\ fd[c] \in Fds /\ executing[c] = "nothing" /\ client[c] \notin {"away", "calling"}
      /\ Registry(handlers)
  BY <1>2, HandlerKeeps
<1>4. replied[c] = accepted[c]
  <2>1. PICK s \in Entries(handlers) : "INPUT" \in s.mask /\ Waiting(c, s.mask)
    BY <1>2, HandlerEntry
  <2> QED BY <2>1 DEF Waiting
<1> DEFINE X == {State(fd[c], {"OUTPUT"})}
<1>5. /\ Registry(handlers')
      /\ Entries(handlers') = {t \in Entries(handlers) : t.fd # fd[c]} \cup X
  <2> DEFINE reg == unregister_handler(handlers, fd[c])
  <2>1. Registry(reg) /\ Entries(reg) = {t \in Entries(handlers) : t.fd # fd[c]}
    BY <1>3, Unregister
  <2> HIDE DEF reg
  <2>2. fd[c] \notin Watched(reg)
    BY <2>1, WatchedEntries
  <2>3. /\ Registry(register_handler(reg, fd[c], "OUTPUT"))
        /\ Entries(register_handler(reg, fd[c], "OUTPUT")) = Entries(reg) \cup X
    BY <1>3, <2>1, <2>2, RegisterNew DEF Events
  <2> QED BY <1>1, <2>1, <2>3 DEF reg
<1>6. /\ accepted \in [Clients -> Nat] /\ replied \in [Clients -> Nat]
      /\ response \in [Clients -> [to : Nat, left : 0 .. Whole]]
  BY DEF IInv, TypeOK
<1>7. /\ accepted' \in [Clients -> Nat] /\ accepted'[c] = accepted[c] + 1
      /\ \A d \in Clients \ {c} : accepted'[d] = accepted[d]
  BY <1>1, <1>6
<1>8. /\ response' \in [Clients -> [to : Nat, left : 0 .. Whole]]
      /\ response'[c].to = accepted'[c]
      /\ \A d \in Clients \ {c} : response'[d] = response[d]
  BY <1>1, <1>6, <1>7 DEF Response, Whole
<1>9. /\ Counted'
      /\ \A d \in Clients :
           /\ replied'[d] <= accepted'[d] /\ response'[d].to <= accepted'[d]
           /\ accepted'[d] <= sends'[d] /\ sends'[d] <= MaxSends[d]
  <2>1. replied'[c] <= accepted'[c] /\ response'[c].to <= accepted'[c] /\ accepted'[c] <= sends[c]
    BY <1>1, <1>2, <1>4, <1>6, <1>7, <1>8
  <2> QED BY <1>1, <1>2, <1>3, <1>6, <1>7, <1>8, <2>1, NumbersKeep
<1>10. TypeOK'
  <2>1. keep_alive' \in [Clients -> BOOLEAN]
    <3>1. inbox[c].keep_alive \in BOOLEAN
      BY <1>2 DEF Segment
    <3> QED BY <1>1, <3>1 DEF IInv, TypeOK
  <2> QED BY <1>1, <1>2, <1>5, <1>6, <1>7, <1>8, <1>9, <2>1, HandlersTyped DEF IInv, TypeOK
<1>11. Registered' /\ Owned' /\ WatchedOrExecuting' /\ OneAtATime'
  <2>1. Waiting(c, {"OUTPUT"})'
    BY <1>1, <1>2, <1>4, <1>7, <1>8 DEF Waiting, Unanswered
  <2>2. \A t \in X : t.fd = fd[c] /\ Waiting(c, t.mask)'
    BY <2>1 DEF State
  <2>3. X # {}
    OBVIOUS
  <2> HIDE DEF X
  <2> QED BY <1>1, <1>2, <1>3, <1>5, <1>7, <1>8, <2>2, <2>3, ConnectionKeeps
<1>12. Copied' /\ Undispatched'
  BY <1>2, <1>5, HandlerEvents
<1> QED BY <1>9, <1>10, <1>11, <1>12 DEF IInv

LEMMA WriteKeeps ==
  ASSUME IInv, NEW c \in Clients, Write(c)
  PROVE  /\ Dispatching(fd[c], "OUTPUT") /\ fd[c] # 0 /\ fd[c] \in Fds /\ executing[c] = "nothing"
         /\ UNCHANGED <<loop, pipe, client, inbox, sends, accepted, executing>>
         /\ UNCHANGED <<exit_flag, polled, deleting, signals>>
         /\ client[c] \notin {"away", "calling"} /\ Registry(handlers)
  BY HandlerKeeps DEF Write, clientVars

LEMMA OutputFailsKeeps ==
  ASSUME IInv, NEW c \in Clients, OutputFails(c)
  PROVE  IInv'
<1>1. Finish(c) /\ Write(c) /\ UNCHANGED <<keep_alive, response, replied>>
  BY DEF OutputFails
<1>2. /\ Dispatching(fd[c], "OUTPUT")
      /\ UNCHANGED <<loop, pipe, client, inbox, sends, accepted, executing>>
      /\ UNCHANGED <<exit_flag, polled, deleting, signals>>
  BY <1>1, WriteKeeps
<1>3. /\ Registered' /\ Owned' /\ WatchedOrExecuting' /\ OneAtATime'
      /\ Copied' /\ Undispatched'
      /\ Registry(handlers') /\ fd' \in [Clients -> Fds \cup {0}]
  BY <1>1, <1>2, FinishKeeps
<1>4. TypeOK'
  BY <1>1, <1>2, <1>3, HandlersTyped DEF IInv, TypeOK
<1>5. Counted'
  BY <1>2 DEF IInv, Counted
<1> QED BY <1>3, <1>4, <1>5 DEF IInv

LEMMA OutputPartKeeps ==
  ASSUME IInv, NEW c \in Clients, OutputPart(c)
  PROVE  IInv'
<1>1. /\ Write(c) /\ UNCHANGED <<handlers, fd, keep_alive, replied>>
      /\ response[c].left > 1 /\ response' = [response EXCEPT ![c].left = 1]
  BY DEF OutputPart
<1>2. /\ Dispatching(fd[c], "OUTPUT") /\ fd[c] # 0 /\ executing[c] = "nothing"
      /\ UNCHANGED <<loop, pipe, client, inbox, sends, accepted, executing>>
      /\ UNCHANGED <<exit_flag, polled, deleting, signals>>
  BY <1>1, WriteKeeps
<1>3. response \in [Clients -> [to : Nat, left : 0 .. Whole]]
  BY DEF IInv, TypeOK
<1>4. /\ response' \in [Clients -> [to : Nat, left : 0 .. Whole]]
      /\ \A d \in Clients : response'[d].to = response[d].to
      /\ \A d \in Clients \ {c} : response'[d] = response[d]
  BY <1>1, <1>3 DEF Whole
<1>5. TypeOK'
  BY <1>1, <1>2, <1>4 DEF IInv, TypeOK
<1>6. Registered'
  BY <1>1, <1>2, SameRegistry
<1>7. WatchedOrExecuting' /\ Owned' /\ Counted'
  BY <1>1, <1>2 DEF IInv, WatchedOrExecuting, Owned, Counted
<1>8. OneAtATime'
  <2>1. ASSUME NEW d \in Clients
        PROVE  response[d].left = 0 => response'[d].left = 0
    BY <1>1, <1>3, <1>4
  <2> QED BY <1>1, <1>2, <1>4, <2>1 DEF IInv, OneAtATime, Waiting, Unanswered, Quiet
<1>9. Copied' /\ Undispatched'
  BY <1>1, <1>2, HandlerEvents
<1> QED BY <1>5, <1>6, <1>7, <1>8, <1>9 DEF IInv

(* A response is gone: the next request is waited for, if there is to be   *)
(* one, and the one that was accepted has been answered.                   *)
LEMMA OutputLastKeeps ==
  ASSUME IInv, NEW c \in Clients, OutputLast(c)
  PROVE  IInv'
<1>1. /\ Write(c) /\ UNCHANGED keep_alive
      /\ response' = [response EXCEPT ![c].left = 0]
      /\ replied' = [replied EXCEPT ![c] = IF response[c].to = 0 THEN @ ELSE response[c].to]
  BY DEF OutputLast
<1>2. /\ Dispatching(fd[c], "OUTPUT") /\ fd[c] # 0 /\ fd[c] \in Fds /\ executing[c] = "nothing"
      /\ UNCHANGED <<loop, pipe, client, inbox, sends, accepted, executing>>
      /\ UNCHANGED <<exit_flag, polled, deleting, signals>>
      /\ client[c] \notin {"away", "calling"} /\ Registry(handlers)
  BY <1>1, WriteKeeps
<1>3. /\ response \in [Clients -> [to : Nat, left : 0 .. Whole]]
      /\ replied \in [Clients -> Nat] /\ accepted \in [Clients -> Nat]
      /\ replied[c] <= accepted[c] /\ response[c].to <= accepted[c] /\ accepted[c] <= sends[c]
      /\ fd \in [Clients -> Fds \cup {0}]
  BY DEF IInv, TypeOK
<1>4. /\ response' \in [Clients -> [to : Nat, left : 0 .. Whole]]
      /\ \A d \in Clients : response'[d].to = response[d].to
      /\ \A d \in Clients \ {c} : response'[d] = response[d]
      /\ response'[c].left = 0
  BY <1>1, <1>3 DEF Whole
<1>5. /\ replied' \in [Clients -> Nat]
      /\ \A d \in Clients \ {c} : replied'[d] = replied[d]
      /\ replied'[c] = IF response[c].to = 0 THEN replied[c] ELSE response[c].to
  BY <1>1, <1>3
<1>6. replied'[c] = accepted[c]
  <2>1. PICK s \in Entries(handlers) : "OUTPUT" \in s.mask /\ Waiting(c, s.mask)
    BY <1>2, HandlerEntry
  <2>2. CASE "INPUT" \in s.mask
    BY <1>5, <2>1, <2>2 DEF Waiting
  <2>3. CASE "INPUT" \notin s.mask
    <3>1. response[c].to = accepted[c] /\ accepted[c] = replied[c] + 1
      BY <2>1, <2>3 DEF Waiting, Unanswered
    <3> QED BY <1>3, <1>5, <3>1
  <2> QED BY <2>2, <2>3
<1>7. /\ Counted'
      /\ \A d \in Clients :
           /\ replied'[d] <= accepted'[d] /\ response'[d].to <= accepted'[d]
           /\ accepted'[d] <= sends'[d] /\ sends'[d] <= MaxSends[d]
  <2>1. /\ replied'[c] <= accepted'[c] /\ response'[c].to <= accepted'[c] /\ accepted'[c] <= sends[c]
        /\ inbox'[c] = inbox[c] /\ accepted'[c] = accepted[c] /\ inbox' \in [Clients -> Segment \cup {None}]
    BY <1>2, <1>3, <1>4, <1>6 DEF IInv, TypeOK
  <2> QED BY <1>2, <1>3, <1>4, <1>5, <2>1, NumbersKeep
<1>8. /\ Registered' /\ Owned' /\ WatchedOrExecuting' /\ OneAtATime'
      /\ Copied' /\ Undispatched'
      /\ Registry(handlers') /\ fd' \in [Clients -> Fds \cup {0}]
  <2>1. CASE Finish(c)
    BY <1>2, <1>4, <1>5, <2>1, FinishKeeps
  <2>2. CASE /\ handlers' = register_handler(unregister_handler(handlers, fd[c]), fd[c], "INPUT")
             /\ fd' = fd
    <3> DEFINE X == {State(fd[c], {"INPUT"})}
    <3>1. /\ Registry(handlers')
          /\ Entries(handlers') = {t \in Entries(handlers) : t.fd # fd[c]} \cup X
      <4> DEFINE reg == unregister_handler(handlers, fd[c])
      <4>1. Registry(reg) /\ Entries(reg) = {t \in Entries(handlers) : t.fd # fd[c]}
        BY <1>2, Unregister
      <4> HIDE DEF reg
      <4>2. fd[c] \notin Watched(reg)
        BY <4>1, WatchedEntries
      <4>3. /\ Registry(register_handler(reg, fd[c], "INPUT"))
            /\ Entries(register_handler(reg, fd[c], "INPUT")) = Entries(reg) \cup X
        BY <1>2, <4>1, <4>2, RegisterNew DEF Events
      <4> QED BY <2>2, <4>1, <4>3 DEF reg
    <3>2. Waiting(c, {"INPUT"})'
      BY <1>2, <1>4, <1>6 DEF Waiting, Quiet
    <3>3. \A t \in X : t.fd = fd[c] /\ Waiting(c, t.mask)'
      BY <3>2 DEF State
    <3>4. X # {}
      OBVIOUS
    <3> HIDE DEF X
    <3>5. Registered' /\ Owned' /\ WatchedOrExecuting' /\ OneAtATime'
      BY <1>2, <1>4, <1>5, <2>2, <3>1, <3>3, <3>4, ConnectionKeeps
    <3>6. Copied' /\ Undispatched'
      BY <1>2, <2>2, <3>1, HandlerEvents
    <3> QED BY <1>3, <2>2, <3>1, <3>5, <3>6
  <2> QED BY <2>1, <2>2 DEF OutputLast, unregister_mask
<1>9. TypeOK'
  BY <1>1, <1>2, <1>3, <1>4, <1>5, <1>7, <1>8, HandlersTyped DEF IInv, TypeOK
<1> QED BY <1>7, <1>8, <1>9 DEF IInv

-----------------------------------------------------------------------------
LEMMA InvStep == IInv /\ [Next]_vars => IInv'
<1> SUFFICES ASSUME IInv, [Next]_vars PROVE IInv'
  OBVIOUS
<1>1. ASSUME NEW c \in Clients, Connect(c) \/ Send(c) \/ Disconnect(c) PROVE IInv'
  BY <1>1, ConnectKeeps, SendKeeps, DisconnectKeeps
<1>2. ASSUME NEW c \in Clients, Execute(c) PROVE IInv'
  BY <1>2, SetExitFlagKeeps, InterruptKeeps, ScheduleResponseKeeps DEF Execute
<1>3. CASE delete_executor
  BY <1>3, DeleteExecutorKeeps
<1>4. CASE PollInterrupted
  BY <1>4, PollInterruptedKeeps
<1>5. ASSUME NEW c \in Clients, Handle(c) PROVE IInv'
  BY <1>5, InputClosedKeeps, InputPartKeeps, InputBadKeeps, InputCallKeeps, InputUnknownKeeps,
     OutputFailsKeeps, OutputPartKeeps, OutputLastKeeps DEF Handle
<1>6. ASSUME NEW c \in Clients, AcceptRefused(c) \/ Accept(c) PROVE IInv'
  BY <1>6, AcceptRefusedKeeps, AcceptKeeps
<1>7. CASE Leave \/ Check \/ Poll \/ EndDispatch \/ HandleInterrupt \/ AcceptFails
  BY <1>7, LeaveKeeps, CheckKeeps, PollKeeps, EndDispatchKeeps, HandleInterruptKeeps, AcceptFailsKeeps
<1>8. CASE UNCHANGED vars
  <2> USE <1>8 DEF vars, clientVars, connVars, workVars
  <2>1. TypeOK'
    BY DEF IInv, TypeOK
  <2>2. Registered'
    BY SameRegistry
  <2>3. WatchedOrExecuting' /\ Owned' /\ Counted' /\ OneAtATime'
    BY DEF IInv, WatchedOrExecuting, Owned, Counted, OneAtATime, Waiting, Unanswered, Quiet
  <2>4. Copied' /\ Undispatched'
    BY DEF IInv, Copied, Undispatched, OwnerOf
  <2> QED BY <2>1, <2>2, <2>3, <2>4 DEF IInv
<1> QED BY <1>1, <1>2, <1>3, <1>4, <1>5, <1>6, <1>7, <1>8 DEF Next, Loop

THEOREM Invariance == Spec => []IInv
  BY InvInit, InvStep, PTL DEF Spec

(* Every variable of the server stays within its type.                     *)
THEOREM TypeCorrect == Spec => []TypeOK
<1>1. IInv => TypeOK
  BY DEF IInv
<1> QED BY <1>1, Invariance, PTL

(* A connection is watched, or it has an executor, and never both: the     *)
(* executor's pointer to it stays good.                                    *)
THEOREM ExactlyOneHolds == Spec => []WatchedOrExecuting
<1>1. IInv => WatchedOrExecuting
  BY DEF IInv
<1> QED BY <1>1, Invariance, PTL

(* The assertion in invoke_event_handler holds, and the handler it finds   *)
(* is that of the connection the event happened on.                        *)
THEOREM EventsFindTheirOwner == Spec => []EventsReachTheirOwner
<1>1. ASSUME IInv PROVE EventsReachTheirOwner
  <2>1. Registry(handlers)
    BY <1>1 DEF IInv, Registered
  <2>2. ASSUME NEW i \in DOMAIN ready
        PROVE  ready[i].fd \in Watched(handlers) /\ OwnerOf(ready[i].fd) = ready[i].owner
    <3>1. ready[i] \in Entries(ready)
      BY DEF Entries
    <3>2. /\ ready[i].owner = OwnerOf(ready[i].fd)
          /\ \E s \in Entries(handlers) : s.fd = ready[i].fd
      BY <1>1, <3>1 DEF IInv, Undispatched
    <3> QED BY <2>1, <3>2, WatchedEntries
  <2> QED BY <2>2 DEF EventsReachTheirOwner
<1> QED BY <1>1, Invariance, PTL

-----------------------------------------------------------------------------
(* Answers. *)

InOrder(c) ==
  /\ replied'[c] # replied[c] =>
       replied'[c] = replied[c] + 1 /\ replied'[c] = accepted[c]
  /\ response[c].to > 0 /\ response[c].left = 1 =>
       response'[c].to = response[c].to \/ fd'[c] = 0

(* Nothing is answered by a step that leaves the response of c alone, nor  *)
(* by one that replaces a response of which nothing was to be written.     *)
LEMMA NoAnswer ==
  ASSUME NEW c \in Clients, replied'[c] = replied[c],
         response'[c].to = response[c].to \/ Quiet(c),
         response[c].left \in Nat
  PROVE  InOrder(c)
  BY DEF InOrder, Quiet

LEMMA StepInOrder ==
  ASSUME IInv, [Next]_vars, NEW c \in Clients
  PROVE  InOrder(c)
<1>1. /\ response \in [Clients -> [to : Nat, left : 0 .. Whole]]
      /\ replied \in [Clients -> Nat] /\ response[c].left \in Nat
  <2>1. response \in [Clients -> [to : Nat, left : 0 .. Whole]] /\ replied \in [Clients -> Nat]
    BY DEF IInv, TypeOK
  <2> QED BY <2>1 DEF Whole
<1>2. CASE UNCHANGED <<replied, response>>
  BY <1>1, <1>2, NoAnswer
<1>3. ASSUME NEW d \in Clients, schedule_response(d) PROVE InOrder(c)
  <2>1. replied' = replied /\ response' = [response EXCEPT ![d] = Response(accepted[d], Whole)]
    BY <1>3 DEF schedule_response, others
  <2>2. Quiet(d)
    BY <1>3, ExecutorKeeps DEF schedule_response
  <2> QED BY <1>1, <2>1, <2>2, NoAnswer
<1>4. ASSUME NEW d \in Clients, InputBad(d) \/ InputUnknown(d) PROVE InOrder(c)
  <2>1. /\ replied' = replied
        /\ \A e \in Clients \ {d} : response'[e] = response[e]
        /\ Dispatching(fd[d], "INPUT")
    BY <1>1, <1>4 DEF InputBad, InputUnknown, Read, connOthers
  <2>2. Quiet(d)
    <3>1. PICK s \in Entries(handlers) : "INPUT" \in s.mask /\ Waiting(d, s.mask)
      BY <2>1, HandlerEntry
    <3> QED BY <3>1 DEF Waiting
  <2> QED BY <1>1, <2>1, <2>2, NoAnswer
<1>5. ASSUME NEW d \in Clients, OutputPart(d) PROVE InOrder(c)
  <2>1. replied' = replied /\ response'[c].to = response[c].to
    BY <1>1, <1>5 DEF OutputPart
  <2> QED BY <1>1, <2>1, NoAnswer
<1>6. ASSUME NEW d \in Clients, OutputLast(d) PROVE InOrder(c)
  <2>1. /\ Dispatching(fd[d], "OUTPUT")
        /\ response'[c].to = response[c].to
        /\ replied' = [replied EXCEPT ![d] = IF response[d].to = 0 THEN @ ELSE response[d].to]
    BY <1>1, <1>6, WriteKeeps DEF OutputLast
  <2>2. CASE c # d \/ response[d].to = 0
    <3>1. replied'[c] = replied[c]
      BY <1>1, <2>1, <2>2
    <3> QED BY <1>1, <2>1, <3>1, NoAnswer
  <2>3. CASE c = d /\ response[d].to # 0
    <3>1. PICK s \in Entries(handlers) : "OUTPUT" \in s.mask /\ Waiting(c, s.mask)
      BY <2>1, <2>3, HandlerEntry
    <3>2. response[c].to = accepted[c] /\ accepted[c] = replied[c] + 1
      BY <2>3, <3>1 DEF Waiting, Unanswered
    <3>3. replied'[c] = response[c].to
      BY <1>1, <2>1, <2>3
    <3> QED BY <2>1, <3>2, <3>3 DEF InOrder
  <2> QED BY <2>2, <2>3
<1>7. ASSUME NEW d \in Clients, Handle(d) PROVE InOrder(c)
  <2>1. CASE InputClosed(d) \/ InputPart(d)
    BY <1>2, <2>1 DEF InputClosed, InputPart, Read, connOthers
  <2>2. CASE InputCall(d)
    BY <1>2, <2>2 DEF InputCall, Read, connOthers
  <2>3. CASE OutputFails(d)
    BY <1>2, <2>3 DEF OutputFails
  <2> QED BY <1>4, <1>5, <1>6, <1>7, <2>1, <2>2, <2>3 DEF Handle
<1>8. CASE Loop
  <2>1. CASE Leave \/ Check \/ Poll \/ EndDispatch \/ HandleInterrupt \/ AcceptFails
    BY <1>2, <2>1 DEF Leave, Check, Poll, EndDispatch, HandleInterrupt, AcceptFails, connVars
  <2>2. ASSUME NEW d \in Clients, AcceptRefused(d) \/ Accept(d) PROVE InOrder(c)
    BY <1>2, <2>2 DEF AcceptRefused, Accept, connVars
  <2> QED BY <1>7, <1>8, <2>1, <2>2 DEF Loop
<1>9. ASSUME NEW d \in Clients, Execute(d) PROVE InOrder(c)
  <2>1. CASE set_exit_flag(d) \/ interrupt(d)
    BY <1>2, <2>1 DEF set_exit_flag, interrupt, others
  <2> QED BY <1>3, <1>9, <2>1 DEF Execute
<1>10. ASSUME NEW d \in Clients, Connect(d) \/ Send(d) \/ Disconnect(d) PROVE InOrder(c)
  BY <1>2, <1>10 DEF Connect, Send, Disconnect, serverVars, connVars
<1>11. CASE PollInterrupted \/ delete_executor \/ UNCHANGED vars
  BY <1>2, <1>11 DEF PollInterrupted, delete_executor, others, vars, connVars
<1> QED BY <1>8, <1>9, <1>10, <1>11 DEF Next

(* Requests are answered one at a time, in the order they were accepted,   *)
(* and a response that has begun to go out is not replaced.                *)
THEOREM AnsweredInOrder == Spec => AnswersInOrder
<1>1. IInv /\ [Next]_vars => [\A c \in Clients : InOrder(c)]_vars
  BY StepInOrder
<1>2. (\A c \in Clients : InOrder(c)) <=>
      \A c \in Clients :
        /\ replied'[c] # replied[c] =>
             replied'[c] = replied[c] + 1 /\ replied'[c] = accepted[c]
        /\ response[c].to > 0 /\ response[c].left = 1 =>
             response'[c].to = response[c].to \/ fd'[c] = 0
  BY DEF InOrder
<1> QED BY <1>1, <1>2, Invariance, PTL DEF Spec, AnswersInOrder, InOrder
=============================================================================
