------------------------ MODULE ClientSessionProofs ------------------------
(***************************************************************************)
(* For every number of commands and of supervisors: the box that the two   *)
(* loops share implements two mailboxes, and an id that was shown to the   *)
(* user is known when he asks about it.                                    *)
(***************************************************************************)
EXTENDS ClientSession, DataLemmas

Messages == Sayings(MaxSupervisors) \cup Askings(MaxSupervisors)
Letters == [to : Addressees, message : Messages]

(* The first n letters are the controller's, the rest the user's. *)
Divided(box, n) ==
  /\ box \in Seq(Letters) /\ n \in 0 .. Len(box)
  /\ \A j \in 1 .. Len(box) : box[j].to = IF j <= n THEN "controller" ELSE "ui"

(* What was posted to the controller is what it has taken, of which it     *)
(* remembers the last, and then what is in the box.                        *)
CommandsKept(n) ==
  LET p == posted["controller"]
  IN  /\ n <= Len(p)
      /\ \A j \in 1 .. n : inbox[j].message = p[Len(p) - n + j]
      /\ Len(p) > n => command = p[Len(p) - n]

(* What was posted to the user is what was shown and then what is in the   *)
(* box.                                                                    *)
InfosKept(n) ==
  LET p == posted["ui"]
  IN  /\ Len(shown) + (Len(inbox) - n) = Len(p)
      /\ \A j \in 1 .. Len(shown) : shown[j] = p[j]
      /\ \A j \in 1 .. Len(inbox) - n : inbox[n + j].message = p[Len(shown) + j]

Kept(n) == Divided(inbox, n) /\ CommandsKept(n) /\ InfosKept(n)

(* Nobody speaks of a supervisor that was not started. *)
Spoken ==
  /\ posted \in [Addressees -> Seq(Messages)]
  /\ posted["controller"] \in Seq(Askings(started))
  /\ posted["ui"] \in Seq(Sayings(started))
  /\ shown \in Seq(Messages)
  /\ command \in Askings(started)

(* Between the creation of a thread and the insertion of its supervisor,   *)
(* the last that was started is not known.                                 *)
Registering ==
  /\ pc = "stop" => ~running_
  /\ pc = "send" => supervisors_ = 1 .. started
  /\ pc \in {"announce", "insert"} => left > 0 /\ started > 0 /\ supervisors_ = 1 .. started - 1

IInv == Stated /\ Spoken /\ Registering /\ \E n \in 0 .. Len(inbox) : Kept(n)

-----------------------------------------------------------------------------
(* The box. *)

LEMMA KeyOrder ==
  Box!Rank("controller") = 1 /\ Box!Rank("ui") = 2
<1>1. /\ DOMAIN <<"controller", "ui">> = 1 .. 2
      /\ <<"controller", "ui">>[1] = "controller" /\ <<"controller", "ui">>[2] = "ui"
  OBVIOUS
<1>2. \A i \in 1 .. 2 : i = 1 \/ i = 2
  OBVIOUS
<1>3. \A i \in 1 .. 2 : <<"controller", "ui">>[i] = "controller" <=> i = 1
  BY <1>1, <1>2
<1>4. \A i \in 1 .. 2 : <<"controller", "ui">>[i] = "ui" <=> i = 2
  BY <1>1, <1>2
<1> QED BY <1>1, <1>3, <1>4 DEF Box!Rank

LEMMA Bounds ==
  ASSUME NEW box, NEW n, Divided(box, n)
  PROVE  /\ Box!LowerBound(box, "controller") = 1
         /\ Box!UpperBound(box, "controller") = n + 1
         /\ Box!LowerBound(box, "ui") = n + 1
         /\ Box!UpperBound(box, "ui") = Len(box) + 1
<1>1. /\ Len(box) \in Nat /\ DOMAIN box = 1 .. Len(box) /\ n \in 0 .. Len(box)
      /\ \A j \in 1 .. Len(box) : Box!Rank(box[j].to) = IF j <= n THEN 1 ELSE 2
  BY KeyOrder, LenProperties DEF Divided
<1> DEFINE P(i, r) == \A j \in DOMAIN box : Box!Rank(box[j].to) < r <=> j < i
           Q(i, r) == \A j \in DOMAIN box : Box!Rank(box[j].to) <= r <=> j < i
<1>2. \A i \in 1 .. Len(box) + 1 : P(i, 1) <=> i = 1
  <2>1. P(1, 1)
    BY <1>1
  <2>2. ASSUME NEW i \in 1 .. Len(box) + 1, i # 1 PROVE ~ P(i, 1)
    <3>1. 1 \in DOMAIN box /\ 1 < i /\ ~ (Box!Rank(box[1].to) < 1)
      BY <1>1, <2>2
    <3> QED BY <3>1
  <2> QED BY <2>1, <2>2
<1>3. \A i \in 1 .. Len(box) + 1 : Q(i, 1) <=> i = n + 1
  <2>1. Q(n + 1, 1)
    BY <1>1
  <2>2. ASSUME NEW i \in 1 .. Len(box) + 1, i # n + 1 PROVE ~ Q(i, 1)
    <3>1. CASE i < n + 1
      <4>1. i \in DOMAIN box /\ ~ (i < i) /\ Box!Rank(box[i].to) <= 1
        BY <1>1, <3>1
      <4> QED BY <4>1
    <3>2. CASE i > n + 1
      <4>1. n + 1 \in DOMAIN box /\ n + 1 < i /\ ~ (Box!Rank(box[n + 1].to) <= 1)
        BY <1>1, <2>2, <3>2
      <4> QED BY <4>1
    <3> QED BY <1>1, <2>2, <3>1, <3>2
  <2> QED BY <2>1, <2>2
<1>4. \A i \in 1 .. Len(box) + 1 : P(i, 2) <=> i = n + 1
  <2>1. \A i : P(i, 2) <=> Q(i, 1)
    BY <1>1
  <2> HIDE DEF P, Q
  <2> QED BY <1>3, <2>1
<1>5. \A i \in 1 .. Len(box) + 1 : Q(i, 2) <=> i = Len(box) + 1
  <2>1. Q(Len(box) + 1, 2)
    BY <1>1
  <2>2. ASSUME NEW i \in 1 .. Len(box) + 1, i # Len(box) + 1 PROVE ~ Q(i, 2)
    <3>1. i \in DOMAIN box /\ ~ (i < i) /\ Box!Rank(box[i].to) <= 2
      BY <1>1, <2>2
    <3> QED BY <3>1
  <2> QED BY <2>1, <2>2
<1>6. /\ 1 \in 1 .. Len(box) + 1 /\ n + 1 \in 1 .. Len(box) + 1
      /\ Len(box) + 1 \in 1 .. Len(box) + 1
  BY <1>1
<1>7. /\ Box!LowerBound(box, "controller") = CHOOSE i \in 1 .. Len(box) + 1 : P(i, 1)
      /\ Box!UpperBound(box, "controller") = CHOOSE i \in 1 .. Len(box) + 1 : Q(i, 1)
      /\ Box!LowerBound(box, "ui") = CHOOSE i \in 1 .. Len(box) + 1 : P(i, 2)
      /\ Box!UpperBound(box, "ui") = CHOOSE i \in 1 .. Len(box) + 1 : Q(i, 2)
  BY KeyOrder DEF Box!LowerBound, Box!UpperBound
<1> HIDE DEF P, Q
<1> QED BY <1>2, <1>3, <1>4, <1>5, <1>6, <1>7

LEMMA Waits ==
  ASSUME NEW box, NEW n, Divided(box, n)
  PROVE  Len(Box!MessagesFor(box, "controller")) = n
<1>1. Box!MessagesFor(box, "controller") = SubSeq(box, 1, n)
  <2>1. n \in Int /\ (n + 1) - 1 = n
    BY LenProperties DEF Divided
  <2> QED BY <2>1, Bounds DEF Box!MessagesFor
<1>2. /\ box \in Seq(Letters) /\ Len(box) \in Nat /\ n \in 0 .. Len(box)
      /\ \A i \in 1 .. n : i \in DOMAIN box /\ box[i] \in Letters
  BY LenProperties, ElementOfSeq DEF Divided
<1>3. Len(SubSeq(box, 1, n)) = n
  BY <1>2, SubSeqProperties
<1> QED BY <1>1, <1>3

(* A message to the controller is put behind the others of the controller. *)
LEMMA PostToController ==
  ASSUME NEW box, NEW n, Divided(box, n), NEW m \in Messages
  PROVE  LET new == Box!postMessage(box, "controller", m)
         IN  /\ Divided(new, n + 1) /\ Len(new) = Len(box) + 1
             /\ \A j \in 1 .. n : new[j] = box[j]
             /\ new[n + 1].message = m
             /\ \A j \in n + 1 .. Len(box) : new[j + 1] = box[j]
<1> DEFINE new == Box!postMessage(box, "controller", m)
           e == Box!Entry("controller", m)
<1>1. e \in Letters /\ e.to = "controller" /\ e.message = m
  BY DEF Box!Entry, Letters, Addressees
<1>2. new = With(box, n + 1, e)
  BY Bounds DEF Box!postMessage, Box!InsertAt, With
<1>3. /\ Len(box) \in Nat /\ n \in 0 .. Len(box) /\ box \in Seq(Letters)
      /\ \A j \in 1 .. Len(box) : box[j].to = IF j <= n THEN "controller" ELSE "ui"
  BY LenProperties DEF Divided
<1> HIDE DEF e, new
<1>4. n + 1 \in 1 .. Len(box) + 1
  BY <1>3
<1>5. /\ new \in Seq(Letters) /\ Len(new) = Len(box) + 1
      /\ new[n + 1] = e
      /\ \A i \in 1 .. Len(box) : i < n + 1 => new[i] = box[i]
      /\ \A i \in 1 .. Len(box) : i >= n + 1 => new[i + 1] = box[i]
  BY <1>1, <1>2, <1>3, <1>4, OneMore
<1>6. \A j \in 1 .. n : new[j] = box[j]
  BY <1>3, <1>5
<1>7. \A j \in n + 1 .. Len(box) : new[j + 1] = box[j]
  BY <1>3, <1>5
<1>8. ASSUME NEW j \in 1 .. Len(new) PROVE new[j].to = IF j <= n + 1 THEN "controller" ELSE "ui"
  <2>1. CASE j <= n
    BY <1>3, <1>6, <2>1
  <2>2. CASE j = n + 1
    BY <1>1, <1>3, <1>5, <2>2
  <2>3. CASE j > n + 1
    <3>1. j - 1 \in n + 1 .. Len(box) /\ (j - 1) + 1 = j
      BY <1>3, <1>5, <2>3
    <3>2. new[j] = box[j - 1] /\ box[j - 1].to = "ui"
      BY <1>3, <1>7, <3>1
    <3> QED BY <1>3, <2>3, <3>2
  <2> QED BY <1>3, <2>1, <2>2, <2>3
<1>9. Divided(new, n + 1)
  BY <1>3, <1>5, <1>8 DEF Divided
<1> QED BY <1>1, <1>5, <1>6, <1>7, <1>9 DEF new

LEMMA PostToUi ==
  ASSUME NEW box, NEW n, Divided(box, n), NEW m \in Messages
  PROVE  LET new == Box!postMessage(box, "ui", m)
         IN  /\ Divided(new, n) /\ Len(new) = Len(box) + 1
             /\ \A j \in 1 .. Len(box) : new[j] = box[j]
             /\ new[Len(box) + 1].message = m
<1> DEFINE new == Box!postMessage(box, "ui", m)
           e == Box!Entry("ui", m)
<1>1. e \in Letters /\ e.to = "ui" /\ e.message = m
  BY DEF Box!Entry, Letters, Addressees
<1>2. new = With(box, Len(box) + 1, e)
  BY Bounds DEF Box!postMessage, Box!InsertAt, With
<1>3. /\ Len(box) \in Nat /\ n \in 0 .. Len(box) /\ box \in Seq(Letters)
      /\ \A j \in 1 .. Len(box) : box[j].to = IF j <= n THEN "controller" ELSE "ui"
  BY LenProperties DEF Divided
<1> HIDE DEF e, new
<1>4. Len(box) + 1 \in 1 .. Len(box) + 1
  BY <1>3
<1>5. /\ new \in Seq(Letters) /\ Len(new) = Len(box) + 1
      /\ new[Len(box) + 1] = e
      /\ \A i \in 1 .. Len(box) : i < Len(box) + 1 => new[i] = box[i]
  <2> DEFINE k == Len(box) + 1
  <2>1. k \in 1 .. Len(box) + 1 /\ new = With(box, k, e)
    BY <1>2, <1>4
  <2> HIDE DEF k
  <2>2. /\ new \in Seq(Letters) /\ Len(new) = Len(box) + 1 /\ new[k] = e
        /\ \A i \in 1 .. Len(box) : i < k => new[i] = box[i]
    BY <1>1, <1>3, <2>1, OneMore
  <2> QED BY <2>2 DEF k
<1>6. \A j \in 1 .. Len(box) : new[j] = box[j]
  BY <1>3, <1>5
<1>7. \A j \in 1 .. Len(new) : new[j].to = IF j <= n THEN "controller" ELSE "ui"
  BY <1>1, <1>3, <1>5, <1>6
<1>8. Divided(new, n)
  BY <1>3, <1>5, <1>7 DEF Divided
<1> QED BY <1>1, <1>5, <1>6, <1>8 DEF new

(* The first letter goes, or the first of the user's. *)
LEMMA GetController ==
  ASSUME NEW box, NEW n, Divided(box, n), Box!Has(box, "controller")
  PROVE  LET new == Box!erased(box, "controller")
         IN  /\ n > 0 /\ Box!found(box, "controller") = box[1].message
             /\ Divided(new, n - 1) /\ Len(new) = Len(box) - 1
             /\ \A j \in 1 .. Len(new) : new[j] = box[j + 1]
<1> DEFINE new == Box!erased(box, "controller")
<1>1. /\ Len(box) \in Nat /\ n \in 0 .. Len(box) /\ box \in Seq(Letters) /\ DOMAIN box = 1 .. Len(box)
      /\ \A j \in 1 .. Len(box) : box[j].to = IF j <= n THEN "controller" ELSE "ui"
  BY LenProperties DEF Divided
<1>2. n > 0
  <2>1. PICK i \in 1 .. Len(box) : box[i].to = "controller"
    BY <1>1 DEF Box!Has
  <2> QED BY <1>1, <2>1
<1>3. Box!found(box, "controller") = box[1].message
  BY Bounds DEF Box!found
<1>4. new = Without(box, 1)
  BY Bounds DEF Box!erased, Box!RemoveAt, Without
<1> HIDE DEF new
<1>5. 1 \in DOMAIN box
  BY <1>1, <1>2
<1>6. /\ new \in Seq(Letters) /\ Len(new) = Len(box) - 1
      /\ \A i \in 1 .. Len(box) - 1 : new[i] = IF i < 1 THEN box[i] ELSE box[i + 1]
  BY <1>1, <1>4, <1>5, OneLess
<1>7. \A j \in 1 .. Len(new) : new[j] = box[j + 1]
  BY <1>6
<1>8. \A j \in 1 .. Len(new) : new[j].to = IF j <= n - 1 THEN "controller" ELSE "ui"
  BY <1>1, <1>2, <1>6, <1>7
<1>9. Divided(new, n - 1)
  BY <1>1, <1>2, <1>6, <1>8 DEF Divided
<1> QED BY <1>2, <1>3, <1>6, <1>7, <1>9 DEF new

LEMMA GetUi ==
  ASSUME NEW box, NEW n, Divided(box, n), Box!Has(box, "ui")
  PROVE  LET new == Box!erased(box, "ui")
         IN  /\ Len(box) > n /\ Box!found(box, "ui") = box[n + 1].message
             /\ Divided(new, n) /\ Len(new) = Len(box) - 1
             /\ \A j \in 1 .. n : new[j] = box[j]
             /\ \A j \in n + 1 .. Len(new) : new[j] = box[j + 1]
<1> DEFINE new == Box!erased(box, "ui")
<1>1. /\ Len(box) \in Nat /\ n \in 0 .. Len(box) /\ box \in Seq(Letters) /\ DOMAIN box = 1 .. Len(box)
      /\ \A j \in 1 .. Len(box) : box[j].to = IF j <= n THEN "controller" ELSE "ui"
  BY LenProperties DEF Divided
<1>2. Len(box) > n
  <2>1. PICK i \in 1 .. Len(box) : box[i].to = "ui"
    BY <1>1 DEF Box!Has
  <2> QED BY <1>1, <2>1
<1>3. Box!found(box, "ui") = box[n + 1].message
  BY Bounds DEF Box!found
<1>4. new = Without(box, n + 1)
  BY Bounds DEF Box!erased, Box!RemoveAt, Without
<1> HIDE DEF new
<1>5. n + 1 \in DOMAIN box
  BY <1>1, <1>2
<1>6. /\ new \in Seq(Letters) /\ Len(new) = Len(box) - 1
      /\ \A i \in 1 .. Len(box) - 1 : new[i] = IF i < n + 1 THEN box[i] ELSE box[i + 1]
  BY <1>1, <1>4, <1>5, OneLess
<1>7. \A j \in 1 .. n : new[j] = box[j]
  BY <1>1, <1>2, <1>6
<1>8. \A j \in n + 1 .. Len(new) : new[j] = box[j + 1]
  BY <1>1, <1>6
<1>9. \A j \in 1 .. Len(new) : new[j].to = IF j <= n THEN "controller" ELSE "ui"
  BY <1>1, <1>2, <1>6, <1>7, <1>8
<1>10. Divided(new, n)
  BY <1>1, <1>2, <1>6, <1>9 DEF Divided
<1> QED BY <1>2, <1>3, <1>6, <1>7, <1>8, <1>10 DEF new

-----------------------------------------------------------------------------
(* What is said and asked. *)

LEMMA SayingsGrow ==
  ASSUME NEW n \in Nat
  PROVE  Sayings(n) \subseteq Sayings(n + 1) /\ Askings(n) \subseteq Askings(n + 1)
<1>1. 1 .. n \subseteq 1 .. n + 1 /\ 0 .. n \subseteq 0 .. n + 1
  OBVIOUS
<1>2. Sayings(n) \subseteq Sayings(n + 1)
  <2>1. \A kind : {InfoOn(kind, k) : k \in 1 .. n} \subseteq {InfoOn(kind, k) : k \in 1 .. n + 1}
    BY <1>1
  <2> QED BY <2>1 DEF Sayings
<1>3. Askings(n) \subseteq Askings(n + 1)
  <2>1. {Status(k) : k \in 0 .. n} \subseteq {Status(k) : k \in 0 .. n + 1}
    BY <1>1
  <2> QED BY <2>1 DEF Askings
<1> QED BY <1>2, <1>3

LEMMA AllAreMessages ==
  ASSUME NEW n \in 0 .. MaxSupervisors
  PROVE  Sayings(n) \subseteq Messages /\ Askings(n) \subseteq Messages
<1>1. 1 .. n \subseteq 1 .. MaxSupervisors /\ 0 .. n \subseteq 0 .. MaxSupervisors
  BY BoundsAssumption
<1>2. Sayings(n) \subseteq Messages
  <2>1. \A kind : {InfoOn(kind, k) : k \in 1 .. n} \subseteq {InfoOn(kind, k) : k \in 1 .. MaxSupervisors}
    BY <1>1
  <2> QED BY <2>1 DEF Sayings, Messages
<1>3. Askings(n) \subseteq Messages
  <2>1. {Status(k) : k \in 0 .. n} \subseteq {Status(k) : k \in 0 .. MaxSupervisors}
    BY <1>1
  <2> QED BY <2>1 DEF Askings, Messages
<1> QED BY <1>2, <1>3

LEMMA SeqOf ==
  ASSUME NEW S, NEW T, NEW s \in Seq(S), \A i \in 1 .. Len(s) : s[i] \in T
  PROVE  s \in Seq(T)
<1>1. Len(s) \in Nat /\ s \in [1 .. Len(s) -> S]
  BY LenProperties
<1>2. s \in [1 .. Len(s) -> T]
  BY <1>1
<1> QED BY <1>1, <1>2, SeqDef

LEMMA InvInit == Init => IInv
<1> SUFFICES ASSUME Init PROVE IInv
  OBVIOUS
<1>1. /\ inbox = <<>> /\ inbox \in Seq(Letters) /\ Len(inbox) = 0 /\ DOMAIN inbox = {}
      /\ shown = <<>> /\ shown \in Seq(Messages) /\ Len(shown) = 0
  BY DEF Init
<1>2. /\ posted["controller"] = <<>> /\ posted["ui"] = <<>> /\ DOMAIN posted = Addressees
      /\ posted \in [Addressees -> Seq(Messages)]
      /\ Len(posted["controller"]) = 0 /\ Len(posted["ui"]) = 0
  BY DEF Init, Addressees
<1>3. Kept(0)
  BY <1>1, <1>2 DEF Kept, Divided, CommandsKept, InfosKept
<1>4. Spoken
  <2>1. <<>> \in Seq(Askings(started)) /\ <<>> \in Seq(Sayings(started))
    OBVIOUS
  <2>2. command \in Askings(started)
    BY DEF Init, Askings
  <2> QED BY <1>1, <1>2, <2>1, <2>2 DEF Spoken
<1>5. supervisors_ = 1 .. 0 /\ finished = {} /\ started = 0 /\ left = 0 /\ typed = 0
  BY DEF Init
<1>6. Stated
  BY <1>1, <1>2, <1>5, BoundsAssumption DEF Init, Stated
<1> QED BY <1>1, <1>3, <1>4, <1>6 DEF IInv, Registering, Init

(* Nothing moves in the box, and at most one more supervisor is started.   *)
LEMMA SameBox ==
  ASSUME IInv, UNCHANGED <<inbox, posted, shown, command>>,
         started' \in {started, started + 1}
  PROVE  Spoken' /\ \E n \in 0 .. Len(inbox') : Kept(n)'
<1>1. /\ Sayings(started) \subseteq Sayings(started')
      /\ Askings(started) \subseteq Askings(started')
  <2>1. started \in Nat
    BY BoundsAssumption DEF IInv, Stated
  <2> QED BY <2>1, SayingsGrow
<1>2. Spoken'
  <2>1. /\ posted'["controller"] \in Seq(Askings(started'))
        /\ posted'["ui"] \in Seq(Sayings(started'))
    BY <1>1, SeqMonotonic DEF IInv, Spoken
  <2> QED BY <1>1, <2>1 DEF IInv, Spoken
<1>3. \E n \in 0 .. Len(inbox') : Kept(n)'
  BY DEF IInv, Kept, Divided, CommandsKept, InfosKept
<1> QED BY <1>2, <1>3

LEMMA Speaking ==
  ASSUME IInv, NEW n, Kept(n), NEW m \in Sayings(started), Post("ui", m),
         UNCHANGED <<shown, command, started>>
  PROVE  /\ Spoken' /\ n \in 0 .. Len(inbox') /\ Kept(n)'
         /\ posted'["ui"] = Append(posted["ui"], m) /\ posted'["controller"] = posted["controller"]
<1> DEFINE p == posted["ui"]
           q == Append(p, m)
<1>1. started \in 0 .. MaxSupervisors
  BY DEF IInv, Stated
<1>2. m \in Messages
  BY <1>1, AllAreMessages
<1>3. /\ posted \in [Addressees -> Seq(Messages)] /\ p \in Seq(Sayings(started)) /\ p \in Seq(Messages)
      /\ posted' = [posted EXCEPT !["ui"] = q]
  BY DEF IInv, Spoken, Post, Addressees
<1>4. /\ posted'["ui"] = q /\ posted'["controller"] = posted["controller"]
  BY <1>3 DEF Addressees
<1>5. /\ q \in Seq(Sayings(started)) /\ q \in Seq(Messages)
      /\ Len(q) = Len(p) + 1 /\ q[Len(p) + 1] = m
      /\ \A i \in 1 .. Len(p) : q[i] = p[i]
      /\ Len(p) \in Nat
  BY <1>2, <1>3, AppendProperties, LenProperties
<1> HIDE DEF q
<1>6. posted' \in [Addressees -> Seq(Messages)]
  BY <1>3, <1>5
<1>7. Spoken'
  BY <1>3, <1>4, <1>5, <1>6 DEF IInv, Spoken
<1>8. /\ Divided(inbox', n) /\ Len(inbox') = Len(inbox) + 1
      /\ \A j \in 1 .. Len(inbox) : inbox'[j] = inbox[j]
      /\ inbox'[Len(inbox) + 1].message = m
  BY <1>2, PostToUi DEF Kept, Post
<1>9. Len(inbox) \in Nat /\ n \in 0 .. Len(inbox) /\ Len(shown) \in Nat
  BY LenProperties DEF Kept, Divided, IInv, Spoken
<1>10. CommandsKept(n)'
  <2>1. \A j \in 1 .. n : inbox'[j] = inbox[j]
    BY <1>8, <1>9
  <2> QED BY <1>4, <2>1 DEF Kept, CommandsKept
<1>11. InfosKept(n)'
  <2>1. Len(shown) + (Len(inbox) - n) = Len(p)
    BY DEF Kept, InfosKept
  <2>2. Len(shown') + (Len(inbox') - n) = Len(posted'["ui"])
    <3>1. Len(shown') = Len(shown) /\ Len(inbox') = Len(inbox) + 1 /\ Len(posted'["ui"]) = Len(p) + 1
      BY <1>4, <1>5, <1>8
    <3>2. n \in Int /\ Len(inbox) \in Int /\ Len(shown) \in Int
      BY <1>9
    <3> QED BY <2>1, <3>1, <3>2
  <2>3. \A j \in 1 .. Len(shown') : shown'[j] = posted'["ui"][j]
    BY <1>4, <1>5, <1>9, <2>1 DEF Kept, InfosKept
  <2>4. ASSUME NEW j \in 1 .. Len(inbox') - n
        PROVE  inbox'[n + j].message = posted'["ui"][Len(shown') + j]
    <3>1. CASE j = Len(inbox) + 1 - n
      <4>1. n + j = Len(inbox) + 1 /\ Len(shown) + j = Len(p) + 1
        BY <1>9, <2>1, <3>1
      <4> QED BY <1>4, <1>5, <1>8, <4>1
    <3>2. CASE j # Len(inbox) + 1 - n
      <4>1. j \in 1 .. Len(inbox) - n /\ n + j \in 1 .. Len(inbox) /\ Len(shown) + j \in 1 .. Len(p)
        BY <1>8, <1>9, <2>1, <3>2
      <4> QED BY <1>4, <1>5, <1>8, <4>1 DEF Kept, InfosKept
    <3> QED BY <3>1, <3>2
  <2> QED BY <2>2, <2>3, <2>4 DEF InfosKept
<1>12. Kept(n)' /\ n \in 0 .. Len(inbox')
  BY <1>8, <1>9, <1>10, <1>11 DEF Kept
<1> QED BY <1>4, <1>7, <1>12 DEF q

LEMMA Asking ==
  ASSUME IInv, NEW n, Kept(n), NEW m \in Askings(started), Post("controller", m),
         UNCHANGED <<shown, command, started>>
  PROVE  /\ Spoken' /\ n + 1 \in 0 .. Len(inbox') /\ Kept(n + 1)'
         /\ posted'["controller"] = Append(posted["controller"], m) /\ posted'["ui"] = posted["ui"]
<1> DEFINE p == posted["controller"]
           q == Append(p, m)
<1>1. started \in 0 .. MaxSupervisors
  BY DEF IInv, Stated
<1>2. m \in Messages
  BY <1>1, AllAreMessages
<1>3. /\ posted \in [Addressees -> Seq(Messages)] /\ p \in Seq(Askings(started)) /\ p \in Seq(Messages)
      /\ posted' = [posted EXCEPT !["controller"] = q]
  BY DEF IInv, Spoken, Post, Addressees
<1>4. /\ posted'["controller"] = q /\ posted'["ui"] = posted["ui"]
  BY <1>3 DEF Addressees
<1>5. /\ q \in Seq(Askings(started)) /\ q \in Seq(Messages)
      /\ Len(q) = Len(p) + 1 /\ q[Len(p) + 1] = m
      /\ \A i \in 1 .. Len(p) : q[i] = p[i]
      /\ Len(p) \in Nat
  BY <1>2, <1>3, AppendProperties, LenProperties
<1> HIDE DEF q
<1>6. posted' \in [Addressees -> Seq(Messages)]
  BY <1>3, <1>5
<1>7. Spoken'
  BY <1>3, <1>4, <1>5, <1>6 DEF IInv, Spoken
<1>8. /\ Divided(inbox', n + 1) /\ Len(inbox') = Len(inbox) + 1
      /\ \A j \in 1 .. n : inbox'[j] = inbox[j]
      /\ inbox'[n + 1].message = m
      /\ \A j \in n + 1 .. Len(inbox) : inbox'[j + 1] = inbox[j]
  BY <1>2, PostToController DEF Kept, Post
<1>9. Len(inbox) \in Nat /\ n \in 0 .. Len(inbox) /\ Len(shown) \in Nat
  BY LenProperties DEF Kept, Divided, IInv, Spoken
<1>10. CommandsKept(n + 1)'
  <2>1. n <= Len(p) /\ (Len(p) + 1) - (n + 1) = Len(p) - n
    BY <1>5, <1>9 DEF Kept, CommandsKept
  <2>2. ASSUME NEW j \in 1 .. n + 1 PROVE inbox'[j].message = posted'["controller"][Len(p) - n + j]
    <3>1. CASE j = n + 1
      <4>1. Len(p) - n + j = Len(p) + 1
        <5>1. n \in Int /\ Len(p) \in Int
          BY <1>5, <1>9
        <5> HIDE DEF p
        <5> QED BY <3>1, <5>1
      <4> QED BY <1>4, <1>5, <1>8, <3>1, <4>1
    <3>2. CASE j # n + 1
      <4>1. j \in 1 .. n /\ Len(p) - n + j \in 1 .. Len(p)
        BY <1>5, <1>9, <2>1, <3>2
      <4> QED BY <1>4, <1>5, <1>8, <4>1 DEF Kept, CommandsKept
    <3> QED BY <3>1, <3>2
  <2>3. Len(p) > n => command' = posted'["controller"][Len(p) - n]
    <3>1. n \in Nat /\ Len(p) \in Nat
      BY <1>5, <1>9
    <3>2. Len(p) > n => Len(p) - n \in 1 .. Len(p)
      BY <3>1
    <3> QED BY <1>4, <1>5, <3>2 DEF Kept, CommandsKept
  <2>4. n + 1 <= Len(q) /\ Len(q) - (n + 1) = Len(p) - n /\ (Len(q) > n + 1 <=> Len(p) > n)
    <3>1. n \in Int /\ Len(p) \in Int /\ Len(q) = Len(p) + 1 /\ n <= Len(p)
      BY <1>5, <1>9, <2>1
    <3> HIDE DEF p
    <3> QED BY <3>1
  <2> HIDE DEF p
  <2> QED BY <1>4, <2>2, <2>3, <2>4 DEF CommandsKept
<1>11. InfosKept(n + 1)'
  <2>1. Len(inbox') - (n + 1) = Len(inbox) - n
    BY <1>8, <1>9
  <2>2. ASSUME NEW j \in 1 .. Len(inbox) - n
        PROVE  inbox'[(n + 1) + j].message = posted["ui"][Len(shown) + j]
    <3>1. n + j \in n + 1 .. Len(inbox) /\ (n + j) + 1 = (n + 1) + j
      BY <1>9
    <3>2. inbox'[(n + 1) + j] = inbox[n + j]
      BY <1>8, <3>1
    <3> QED BY <3>2 DEF Kept, InfosKept
  <2> QED BY <1>4, <2>1, <2>2 DEF Kept, InfosKept
<1>12. Kept(n + 1)' /\ n + 1 \in 0 .. Len(inbox')
  BY <1>8, <1>9, <1>10, <1>11 DEF Kept
<1> QED BY <1>4, <1>7, <1>12 DEF q

LEMMA SaidOf ==
  ASSUME NEW n, NEW k
  PROVE  /\ InfoOn("id", k) \in Sayings(n) => k \in 1 .. n
         /\ InfoOn("wrong id", k) \in Sayings(n) => k = 0
<1>1. /\ \A kind, kind2, l : InfoOn(kind, k) = InfoOn(kind2, l) => kind = kind2 /\ k = l
      /\ \A kind, kind2 : InfoOn(kind, k) = Info(kind2) => kind = kind2
  <2>1. ASSUME NEW kind, NEW kind2, NEW l, InfoOn(kind, k) = InfoOn(kind2, l)
        PROVE  kind = kind2 /\ k = l
    <3>1. InfoOn(kind, k).info = InfoOn(kind2, l).info /\ InfoOn(kind, k).of = InfoOn(kind2, l).of
      BY <2>1
    <3> QED BY <3>1 DEF InfoOn
  <2>2. ASSUME NEW kind, NEW kind2, InfoOn(kind, k) = Info(kind2)
        PROVE  kind = kind2
    <3>1. InfoOn(kind, k).info = Info(kind2).info
      BY <2>2
    <3> QED BY <3>1 DEF InfoOn, Info
  <2> QED BY <2>1, <2>2
<1>2. /\ "id" # "got action" /\ "wrong id" # "got action"
      /\ "wrong id" # "id" /\ "wrong id" # "result" /\ "wrong id" # "state"
      /\ "id" # "result" /\ "id" # "state"
  OBVIOUS
<1>3. ASSUME InfoOn("id", k) \in Sayings(n) PROVE k \in 1 .. n
  <2>1. InfoOn("id", k) # Info("got action") /\ InfoOn("id", k) # InfoOn("wrong id", 0)
    BY <1>1, <1>2
  <2>2. \A l \in 1 .. n : InfoOn("id", k) # InfoOn("result", l) /\ InfoOn("id", k) # InfoOn("state", l)
    BY <1>1, <1>2
  <2>3. PICK l \in 1 .. n : InfoOn("id", k) = InfoOn("id", l)
    BY <1>3, <2>1, <2>2 DEF Sayings
  <2> QED BY <1>1, <2>3
<1>4. ASSUME InfoOn("wrong id", k) \in Sayings(n) PROVE k = 0
  <2>1. InfoOn("wrong id", k) # Info("got action")
    BY <1>1, <1>2
  <2>2. \A l \in 1 .. n : /\ InfoOn("wrong id", k) # InfoOn("id", l)
                          /\ InfoOn("wrong id", k) # InfoOn("result", l)
                          /\ InfoOn("wrong id", k) # InfoOn("state", l)
    BY <1>1, <1>2
  <2>3. InfoOn("wrong id", k) = InfoOn("wrong id", 0)
    BY <1>4, <2>1, <2>2 DEF Sayings
  <2> QED BY <1>1, <2>3
<1> QED BY <1>3, <1>4

LEMMA AskedOf ==
  ASSUME NEW n, NEW c \in Askings(n)
  PROVE  /\ c.action = "compute" => c.exprs \in 0 .. MaxSupervisors
         /\ c.action = "computemaxn" => c.exprs \in 0 .. MaxSupervisors
         /\ c.action = "status" /\ "id" \in DOMAIN c => c.id \in 0 .. n
<1>1. 0 .. 1 \subseteq 0 .. MaxSupervisors
  BY BoundsAssumption
<1>2. CASE c \in Computes
  BY <1>2 DEF Computes
<1>3. CASE c \in ComputesMaxN
  BY <1>1, <1>3 DEF ComputesMaxN
<1>4. CASE c \in {Exit, Unknown}
  BY <1>4 DEF Exit, Unknown
<1>5. CASE c = StatusOfNothing
  BY <1>5 DEF StatusOfNothing
<1>6. CASE \E k \in 0 .. n : c = Status(k)
  BY <1>6 DEF Status
<1> QED BY <1>2, <1>3, <1>4, <1>5, <1>6 DEF Askings

-----------------------------------------------------------------------------
(* The steps. *)

(* Where nothing is posted, taken, shown or started, the controller's and  *)
(* the interface's own state is all there is.                              *)
LEMMA QuietStep ==
  ASSUME IInv, UNCHANGED <<inbox, posted, shown, command>>,
         started' \in {started, started + 1}
  PROVE  /\ DOMAIN posted' = Addressees
         /\ Spoken' /\ \E n \in 0 .. Len(inbox') : Kept(n)'
  BY SameBox DEF IInv, Stated

LEMMA SpeakingStep ==
  ASSUME IInv, NEW m \in Sayings(started), Post("ui", m), UNCHANGED <<shown, command, started>>
  PROVE  /\ DOMAIN posted' = Addressees
         /\ Spoken' /\ \E n \in 0 .. Len(inbox') : Kept(n)'
<1>1. PICK n \in 0 .. Len(inbox) : Kept(n)
  BY DEF IInv
<1>2. Spoken' /\ n \in 0 .. Len(inbox') /\ Kept(n)'
  BY <1>1, Speaking
<1> QED BY <1>2 DEF Spoken

LEMMA AskingStep ==
  ASSUME IInv, NEW m \in Askings(started), Post("controller", m), UNCHANGED <<shown, command, started>>
  PROVE  /\ DOMAIN posted' = Addressees
         /\ Spoken' /\ \E n \in 0 .. Len(inbox') : Kept(n)'
<1>1. PICK n \in 0 .. Len(inbox) : Kept(n)
  BY DEF IInv
<1>2. Spoken' /\ n + 1 \in 0 .. Len(inbox') /\ Kept(n + 1)'
  BY <1>1, Asking
<1> QED BY <1>2 DEF Spoken

LEMMA TypeCommandKeeps ==
  ASSUME IInv, TypeCommand
  PROVE  IInv'
<1> USE DEF controllerVars
<1>1. /\ UNCHANGED <<input, shown, running_, controllerVars, started, finished, process>>
      /\ typed' = typed + 1 /\ typed < MaxCommands
  BY DEF TypeCommand
<1>2. PICK c \in Commands : Post("controller", c)
  BY DEF TypeCommand
<1>3. c \in Askings(started)
  <2>1. ASSUME NEW k \in Supervisors, Shown(InfoOn("id", k)) PROVE k \in 1 .. started
    <3>1. PICK i \in DOMAIN shown : shown[i] = InfoOn("id", k)
      BY <2>1 DEF Shown
    <3>2. PICK n \in 0 .. Len(inbox) : Kept(n)
      BY DEF IInv
    <3>3. /\ i \in 1 .. Len(shown) /\ Len(shown) \in Nat /\ Len(inbox) \in Nat
          /\ Len(shown) + (Len(inbox) - n) = Len(posted["ui"])
          /\ shown[i] = posted["ui"][i]
      BY <3>2, LenProperties DEF IInv, Spoken, Kept, InfosKept, Divided
    <3>4. i \in 1 .. Len(posted["ui"])
      BY <3>3
    <3>5. posted["ui"][i] \in Sayings(started)
      BY <3>4, ElementOfSeq DEF IInv, Spoken
    <3> QED BY <3>1, <3>3, <3>5, SaidOf
  <2>2. CASE \E k \in Supervisors : Shown(InfoOn("id", k)) /\ c = Status(k)
    <3>1. \A k \in 1 .. started : k \in 0 .. started
      BY BoundsAssumption DEF IInv, Stated
    <3> QED BY <2>1, <2>2, <3>1 DEF Askings
  <2>3. CASE c = Status(0)
    <3>1. 0 \in 0 .. started
      BY BoundsAssumption DEF IInv, Stated
    <3> QED BY <2>3, <3>1 DEF Askings
  <2> QED BY <2>2, <2>3 DEF Commands, Askings
<1>4. /\ DOMAIN posted' = Addressees
      /\ Spoken' /\ \E n \in 0 .. Len(inbox') : Kept(n)'
  BY <1>1, <1>2, <1>3, AskingStep
<1>5. typed' \in 0 .. MaxCommands
  BY <1>1, BoundsAssumption DEF IInv, Stated
<1>6. Stated'
  BY <1>1, <1>4, <1>5 DEF IInv, Stated
<1>7. Registering'
  BY <1>1 DEF IInv, Registering
<1> QED BY <1>4, <1>6, <1>7 DEF IInv

LEMMA EndOfInputKeeps ==
  ASSUME IInv, EndOfInput
  PROVE  IInv'
<1> USE DEF controllerVars, boxVars
<1>1. /\ UNCHANGED <<boxVars, typed, shown, running_, controllerVars, started, finished, process>>
      /\ input' = "eof"
  BY DEF EndOfInput
<1>2. Stated' /\ Registering'
  BY <1>1 DEF IInv, Stated, Registering
<1> QED BY <1>1, <1>2, QuietStep DEF IInv

(* The message that is shown is the next of those that were posted.        *)
LEMMA Showing ==
  ASSUME IInv, NEW n \in 0 .. Len(inbox), Kept(n), ShowMessage
  PROVE  /\ shown \in Seq(Messages)
         /\ Len(shown) < Len(posted["ui"]) /\ shown' = Append(shown, posted["ui"][Len(shown) + 1])
         /\ posted' = posted /\ command' = command /\ Spoken'
         /\ n \in 0 .. Len(inbox') /\ Kept(n)'
<1>1. /\ Box!Has(inbox, "ui") /\ inbox' = Box!erased(inbox, "ui")
      /\ shown' = Append(shown, Box!found(inbox, "ui"))
      /\ UNCHANGED <<posted, command, started>>
  BY DEF ShowMessage, Get, controllerVars
<1> DEFINE m == Box!found(inbox, "ui")
           p == posted["ui"]
<1>2. /\ Len(inbox) > n /\ m = inbox[n + 1].message
      /\ Divided(inbox', n) /\ Len(inbox') = Len(inbox) - 1
      /\ \A j \in 1 .. n : inbox'[j] = inbox[j]
      /\ \A j \in n + 1 .. Len(inbox') : inbox'[j] = inbox[j + 1]
  BY <1>1, GetUi DEF Kept
<1>3. /\ Len(inbox) \in Nat /\ n \in 0 .. Len(inbox) /\ Len(shown) \in Nat /\ Len(p) \in Nat
      /\ shown \in Seq(Messages) /\ p \in Seq(Messages)
      /\ Len(shown) + (Len(inbox) - n) = Len(p)
  BY LenProperties DEF Kept, Divided, InfosKept, IInv, Spoken, Addressees
<1> HIDE DEF m, p
<1>4. Len(shown) + 1 \in 1 .. Len(p)
  BY <1>2, <1>3
<1>5. m = p[Len(shown) + 1]
  <2>1. 1 \in 1 .. Len(inbox) - n
    BY <1>2, <1>3
  <2> QED BY <1>2, <2>1 DEF Kept, InfosKept, p
<1>6. m \in Messages
  BY <1>3, <1>4, <1>5, ElementOfSeq
<1>7. /\ shown' \in Seq(Messages) /\ Len(shown') = Len(shown) + 1 /\ shown'[Len(shown) + 1] = m
      /\ \A i \in 1 .. Len(shown) : shown'[i] = shown[i]
  <2>1. shown' = Append(shown, m)
    BY <1>1 DEF m
  <2> QED BY <1>3, <1>6, <2>1, AppendProperties
<1>8. Spoken'
  BY <1>1, <1>7 DEF IInv, Spoken
<1>9. CommandsKept(n)'
  BY <1>1, <1>2 DEF Kept, CommandsKept
<1>10. InfosKept(n)'
  <2>1. Len(shown') + (Len(inbox') - n) = Len(p)
    <3>1. Len(inbox') = Len(inbox) - 1 /\ Len(shown') = Len(shown) + 1
      BY <1>2, <1>7
    <3>2. n \in Int /\ Len(inbox) \in Int /\ Len(shown) \in Int /\ Len(p) \in Int
      BY <1>3
    <3> QED BY <1>3, <3>1, <3>2
  <2>2. \A j \in 1 .. Len(shown') : shown'[j] = p[j]
    <3> SUFFICES ASSUME NEW j \in 1 .. Len(shown') PROVE shown'[j] = p[j]
      OBVIOUS
    <3>1. CASE j = Len(shown) + 1
      BY <1>5, <1>7, <3>1
    <3>2. CASE j # Len(shown) + 1
      <4>1. j \in 1 .. Len(shown)
        BY <1>3, <1>7, <3>2
      <4> QED BY <1>7, <4>1 DEF Kept, InfosKept, p
    <3> QED BY <3>1, <3>2
  <2>3. ASSUME NEW j \in 1 .. Len(inbox') - n
        PROVE  inbox'[n + j].message = p[Len(shown') + j]
    <3>0. /\ n \in Nat /\ Len(inbox) \in Nat /\ Len(shown) \in Nat /\ j \in Nat
          /\ Len(inbox') = Len(inbox) - 1 /\ Len(shown') = Len(shown) + 1
          /\ 1 <= j /\ j <= (Len(inbox) - 1) - n
      BY <1>2, <1>3, <1>7
    <3>1. /\ n + j \in n + 1 .. Len(inbox') /\ j + 1 \in 1 .. Len(inbox) - n
          /\ (n + j) + 1 = n + (j + 1) /\ Len(shown') + j = Len(shown) + (j + 1)
      BY <3>0
    <3>2. inbox'[n + j] = inbox[n + (j + 1)]
      BY <1>2, <3>1
    <3>3. inbox[n + (j + 1)].message = p[Len(shown) + (j + 1)]
      BY <3>1 DEF Kept, InfosKept, p
    <3> QED BY <3>1, <3>2, <3>3
  <2> QED BY <1>1, <2>1, <2>2, <2>3 DEF InfosKept, p
<1>11. Kept(n)' /\ n \in 0 .. Len(inbox')
  BY <1>2, <1>3, <1>9, <1>10 DEF Kept
<1> QED BY <1>1, <1>3, <1>4, <1>5, <1>8, <1>11 DEF m, p

LEMMA ShowMessageKeeps ==
  ASSUME IInv, ShowMessage
  PROVE  IInv'
<1>1. /\ UNCHANGED <<typed, input, running_, controllerVars, started, finished, process>>
      /\ posted' = posted
  BY DEF ShowMessage, Get
<1>2. PICK n \in 0 .. Len(inbox) : Kept(n)
  BY DEF IInv
<1>3. Spoken' /\ n \in 0 .. Len(inbox') /\ Kept(n)'
  BY <1>2, Showing
<1>4. Stated' /\ Registering'
  BY <1>1, <1>3 DEF IInv, Stated, Spoken, Registering, controllerVars
<1> QED BY <1>3, <1>4 DEF IInv

(* The command that is taken is the next of those that were posted.        *)
LEMMA Taking ==
  ASSUME IInv, NEW n \in 0 .. Len(inbox), Kept(n), GetMessage
  PROVE  /\ n > 0 /\ command' = posted["controller"][Len(posted["controller"]) - n + 1]
         /\ posted' = posted /\ shown' = shown /\ Spoken'
         /\ n - 1 \in 0 .. Len(inbox') /\ Kept(n - 1)'
<1>1. /\ Box!Has(inbox, "controller") /\ inbox' = Box!erased(inbox, "controller")
      /\ command' = Box!found(inbox, "controller")
      /\ UNCHANGED <<posted, shown, started>>
  BY DEF GetMessage, Get, rest, uiVars
<1> DEFINE p == posted["controller"]
<1>2. /\ n > 0 /\ command' = inbox[1].message
      /\ Divided(inbox', n - 1) /\ Len(inbox') = Len(inbox) - 1
      /\ \A j \in 1 .. Len(inbox') : inbox'[j] = inbox[j + 1]
  BY <1>1, GetController DEF Kept
<1>3. /\ Len(inbox) \in Nat /\ n \in 0 .. Len(inbox) /\ Len(p) \in Nat /\ n <= Len(p)
      /\ p \in Seq(Askings(started))
  BY LenProperties DEF Kept, Divided, CommandsKept, IInv, Spoken
<1>4. \A j \in 1 .. n : inbox[j].message = p[Len(p) - n + j]
  BY DEF Kept, CommandsKept
<1>5. Len(shown) + (Len(inbox) - n) = Len(posted["ui"])
  BY DEF Kept, InfosKept
<1>6. \A j \in 1 .. Len(inbox) - n : inbox[n + j].message = posted["ui"][Len(shown) + j]
  BY DEF Kept, InfosKept
<1>7. \A j \in 1 .. Len(shown) : shown[j] = posted["ui"][j]
  BY DEF Kept, InfosKept
<1> HIDE DEF p
<1>8. 1 \in 1 .. n /\ Len(p) - n + 1 \in 1 .. Len(p)
  BY <1>2, <1>3
<1>9. command' = p[Len(p) - n + 1] /\ command' \in Askings(started)
  <2>1. command' = p[Len(p) - n + 1]
    BY <1>2, <1>4, <1>8
  <2> QED BY <1>3, <1>8, <2>1, ElementOfSeq
<1>10. Spoken'
  BY <1>1, <1>9 DEF IInv, Spoken
<1>11. CommandsKept(n - 1)'
  <2>1. n - 1 <= Len(p) /\ Len(p) - (n - 1) = Len(p) - n + 1
    BY <1>3
  <2>2. ASSUME NEW j \in 1 .. n - 1 PROVE inbox'[j].message = p[Len(p) - (n - 1) + j]
    <3>1. j \in 1 .. Len(inbox') /\ j + 1 \in 1 .. n /\ Len(p) - (n - 1) + j = Len(p) - n + (j + 1)
      BY <1>2, <1>3
    <3> QED BY <1>2, <1>4, <3>1
  <2> QED BY <1>1, <1>9, <2>1, <2>2 DEF CommandsKept, p
<1>12. InfosKept(n - 1)'
  <2>1. Len(inbox') - (n - 1) = Len(inbox) - n
    BY <1>2, <1>3
  <2>2. ASSUME NEW j \in 1 .. Len(inbox) - n
        PROVE  inbox'[(n - 1) + j].message = posted["ui"][Len(shown) + j]
    <3>1. (n - 1) + j \in 1 .. Len(inbox') /\ ((n - 1) + j) + 1 = n + j
      BY <1>2, <1>3
    <3> QED BY <1>2, <1>6, <3>1
  <2> QED BY <1>1, <1>5, <1>7, <2>1, <2>2 DEF InfosKept
<1>13. Kept(n - 1)' /\ n - 1 \in 0 .. Len(inbox')
  BY <1>2, <1>3, <1>11, <1>12 DEF Kept
<1> QED BY <1>1, <1>2, <1>9, <1>10, <1>13 DEF p

LEMMA GetMessageKeeps ==
  ASSUME IInv, GetMessage
  PROVE  IInv'
<1>1. /\ UNCHANGED <<rest, programRunning_, left, supervisors_>>
      /\ pc = "get" /\ pc' = "dispatch" /\ posted' = posted
  BY DEF GetMessage, Get
<1>2. PICK n \in 0 .. Len(inbox) : Kept(n)
  BY DEF IInv
<1>3. Spoken' /\ n - 1 \in 0 .. Len(inbox') /\ Kept(n - 1)'
  BY <1>2, Taking
<1>4. Stated' /\ Registering'
  BY <1>1, <1>3 DEF IInv, Stated, Spoken, Registering, rest, uiVars
<1> QED BY <1>3, <1>4 DEF IInv

LEMMA PostResultKeeps ==
  ASSUME IInv, NEW k \in Supervisors, PostResult(k)
  PROVE  IInv'
<1>1. /\ UNCHANGED <<uiVars, controllerVars, started, process>>
      /\ Post("ui", InfoOn("result", k))
      /\ k <= started /\ finished' = finished \cup {k}
  BY DEF PostResult
<1>2. k \in 1 .. started
  BY <1>1, BoundsAssumption DEF Supervisors, IInv, Stated
<1>3. InfoOn("result", k) \in Sayings(started)
  BY <1>2 DEF Sayings
<1>4. /\ DOMAIN posted' = Addressees
      /\ Spoken' /\ \E n \in 0 .. Len(inbox') : Kept(n)'
  BY <1>1, <1>3, SpeakingStep DEF uiVars, controllerVars
<1>5. finished' \subseteq 1 .. started'
  BY <1>1, <1>2 DEF IInv, Stated
<1>6. Stated' /\ Registering'
  BY <1>1, <1>4, <1>5 DEF IInv, Stated, Registering, uiVars, controllerVars
<1> QED BY <1>4, <1>6 DEF IInv

LEMMA DispatchKeeps ==
  ASSUME IInv, Dispatch
  PROVE  IInv'
<1>1. /\ UNCHANGED <<rest, programRunning_, command, left, supervisors_>>
      /\ Post("ui", Info("got action")) /\ pc = "dispatch" /\ pc' = "execute"
  BY DEF Dispatch
<1>2. Info("got action") \in Sayings(started)
  BY DEF Sayings
<1>3. /\ DOMAIN posted' = Addressees
      /\ Spoken' /\ \E n \in 0 .. Len(inbox') : Kept(n)'
  BY <1>1, <1>2, SpeakingStep DEF rest, uiVars
<1>4. Stated' /\ Registering'
  BY <1>1, <1>3 DEF IInv, Stated, Registering, rest, uiVars
<1> QED BY <1>3, <1>4 DEF IInv

(* Where commands are executed every supervisor that was started is known, *)
(* so only an id of nobody is a wrong one.                                 *)
LEMMA CheckStatusKeeps ==
  ASSUME IInv, checkStatus
  PROVE  IInv'
<1> DEFINE m == IF command.id \in supervisors_
                THEN InfoOn("state", command.id) ELSE InfoOn("wrong id", command.id)
<1>1. /\ UNCHANGED <<rest, programRunning_, command, left, supervisors_>>
      /\ Post("ui", m) /\ pc = "execute" /\ pc' = "get"
      /\ command.action = "status" /\ "id" \in DOMAIN command
  BY DEF checkStatus, Executing
<1>2. command.id \in 0 .. started /\ supervisors_ = 1 .. started
  BY <1>1, AskedOf DEF IInv, Spoken, Stated
<1>3. m \in Sayings(started)
  <2>1. CASE command.id \in supervisors_
    BY <1>2, <2>1 DEF Sayings
  <2>2. CASE command.id \notin supervisors_
    <3>1. command.id = 0
      BY <1>2, <2>2
    <3> QED BY <2>2, <3>1 DEF Sayings
  <2> QED BY <2>1, <2>2
<1> HIDE DEF m
<1>4. /\ DOMAIN posted' = Addressees
      /\ Spoken' /\ \E n \in 0 .. Len(inbox') : Kept(n)'
  BY <1>1, <1>3, SpeakingStep DEF rest, uiVars
<1>5. Stated' /\ Registering'
  BY <1>1, <1>4 DEF IInv, Stated, Registering, rest, uiVars
<1> QED BY <1>4, <1>5 DEF IInv

LEMMA AnnounceKeeps ==
  ASSUME IInv, Announce
  PROVE  IInv'
<1>1. /\ UNCHANGED <<rest, programRunning_, command, left, supervisors_>>
      /\ Post("ui", InfoOn("id", started)) /\ pc = "announce" /\ pc' = "insert"
  BY DEF Announce
<1>2. started \in 1 .. started
  BY <1>1, BoundsAssumption DEF IInv, Stated, Registering
<1>3. InfoOn("id", started) \in Sayings(started)
  BY <1>2 DEF Sayings
<1>4. /\ DOMAIN posted' = Addressees
      /\ Spoken' /\ \E n \in 0 .. Len(inbox') : Kept(n)'
  BY <1>1, <1>3, SpeakingStep DEF rest, uiVars
<1>5. Stated' /\ Registering'
  BY <1>1, <1>4 DEF IInv, Stated, Registering, rest, uiVars
<1> QED BY <1>4, <1>5 DEF IInv

LEMMA ExecuteExitKeeps ==
  ASSUME IInv, ExecuteExit
  PROVE  IInv'
<1>1. /\ UNCHANGED <<boxVars, typed, input, shown, started, finished, process,
                     programRunning_, command, left, supervisors_>>
      /\ running_' = FALSE /\ pc = "execute" /\ pc' = "stop"
  BY DEF ExecuteExit, Executing
<1>2. Stated' /\ Registering'
  BY <1>1 DEF IInv, Stated, Registering, boxVars
<1> QED BY <1>1, <1>2, QuietStep DEF IInv, boxVars

LEMMA StopControllerKeeps ==
  ASSUME IInv, StopController
  PROVE  IInv'
<1>1. /\ UNCHANGED <<boxVars, rest, command, left, supervisors_>>
      /\ programRunning_' = FALSE /\ pc = "stop" /\ pc' = "get"
  BY DEF StopController
<1>2. Stated' /\ Registering'
  BY <1>1 DEF IInv, Stated, Registering, boxVars, rest, uiVars
<1> QED BY <1>1, <1>2, QuietStep DEF IInv, boxVars, rest, uiVars

LEMMA ExecuteUnknownKeeps ==
  ASSUME IInv, ExecuteUnknown
  PROVE  IInv'
<1>1. /\ UNCHANGED <<boxVars, rest, programRunning_, command, left, supervisors_>>
      /\ pc = "execute" /\ pc' = "get"
  BY DEF ExecuteUnknown, Executing
<1>2. Stated' /\ Registering'
  BY <1>1 DEF IInv, Stated, Registering, boxVars, rest, uiVars
<1> QED BY <1>1, <1>2, QuietStep DEF IInv, boxVars, rest, uiVars

LEMMA ComputingKeeps ==
  ASSUME IInv, ExecuteCompute \/ ExecuteComputeMaxN
  PROVE  IInv'
<1>1. /\ UNCHANGED <<boxVars, rest, programRunning_, command, supervisors_>>
      /\ command.action \in {"compute", "computemaxn"}
      /\ left' = command.exprs /\ pc = "execute" /\ pc' = "send"
  BY DEF ExecuteCompute, ExecuteComputeMaxN, Executing
<1>2. left' \in 0 .. MaxSupervisors
  BY <1>1, AskedOf DEF IInv, Spoken
<1>3. Stated' /\ Registering'
  BY <1>1, <1>2 DEF IInv, Stated, Registering, boxVars, rest, uiVars
<1> QED BY <1>1, <1>3, QuietStep DEF IInv, boxVars, rest, uiVars

LEMMA EndKeeps ==
  ASSUME IInv, ComputeMaxNFails \/ StatusFails \/ EndProgram
  PROVE  IInv'
<1>1. /\ UNCHANGED <<boxVars, uiVars, controllerVars, started, finished>>
      /\ process' \in {"ended", "crashed"}
  BY DEF ComputeMaxNFails, StatusFails, EndProgram, Crash
<1>2. Stated' /\ Registering'
  BY <1>1 DEF IInv, Stated, Registering, boxVars, uiVars, controllerVars
<1> QED BY <1>1, <1>2, QuietStep DEF IInv, boxVars, uiVars, controllerVars

LEMMA CreateThreadKeeps ==
  ASSUME IInv, CreateThread
  PROVE  IInv'
<1>1. /\ UNCHANGED <<boxVars, uiVars, finished, process, programRunning_, command, left, supervisors_>>
      /\ left > 0 /\ started < MaxSupervisors /\ started' = started + 1
      /\ pc = "send" /\ pc' = "announce"
  BY DEF CreateThread
<1>2. started \in Nat /\ MaxSupervisors \in Nat
  BY BoundsAssumption DEF IInv, Stated
<1>3. /\ started' \in 0 .. MaxSupervisors /\ started' > 0 /\ started' - 1 = started
      /\ 1 .. started \subseteq 1 .. started'
  BY <1>1, <1>2
<1>4. Stated' /\ Registering'
  BY <1>1, <1>3 DEF IInv, Stated, Registering, boxVars, uiVars
<1> QED BY <1>1, <1>4, QuietStep DEF IInv, boxVars, uiVars

LEMMA InsertKeeps ==
  ASSUME IInv, Insert
  PROVE  IInv'
<1>1. /\ UNCHANGED <<boxVars, rest, programRunning_, command>>
      /\ supervisors_' = supervisors_ \cup {started} /\ left' = left - 1
      /\ pc = "insert" /\ pc' = "send"
  BY DEF Insert
<1>2. /\ left > 0 /\ started > 0 /\ supervisors_ = 1 .. started - 1
      /\ left \in 0 .. MaxSupervisors /\ started \in Nat /\ MaxSupervisors \in Nat
  BY <1>1, BoundsAssumption DEF IInv, Stated, Registering
<1>3. left' \in 0 .. MaxSupervisors /\ supervisors_' = 1 .. started
  BY <1>1, <1>2
<1>4. Stated' /\ Registering'
  BY <1>1, <1>3 DEF IInv, Stated, Registering, boxVars, rest, uiVars
<1> QED BY <1>1, <1>4, QuietStep DEF IInv, boxVars, rest, uiVars

LEMMA SentKeeps ==
  ASSUME IInv, Sent
  PROVE  IInv'
<1>1. /\ UNCHANGED <<boxVars, rest, programRunning_, command, left, supervisors_>>
      /\ pc = "send" /\ pc' = "get"
  BY DEF Sent
<1>2. Stated' /\ Registering'
  BY <1>1 DEF IInv, Stated, Registering, boxVars, rest, uiVars
<1> QED BY <1>1, <1>2, QuietStep DEF IInv, boxVars, rest, uiVars

LEMMA InvStep == IInv /\ [Next]_vars => IInv'
<1> SUFFICES ASSUME IInv, [Next]_vars PROVE IInv'
  OBVIOUS
<1>1. CASE UNCHANGED vars
  <2>1. Stated' /\ Registering'
    BY <1>1 DEF vars, IInv, Stated, Registering, boxVars, uiVars, controllerVars
  <2> QED BY <1>1, <2>1, QuietStep DEF IInv, vars, boxVars, uiVars, controllerVars
<1>2. CASE Controller
  BY <1>2, GetMessageKeeps, DispatchKeeps, ExecuteExitKeeps, StopControllerKeeps,
     ExecuteUnknownKeeps, ComputingKeeps, EndKeeps, CheckStatusKeeps, CreateThreadKeeps,
     AnnounceKeeps, InsertKeeps, SentKeeps DEF Controller
<1> QED
  BY <1>1, <1>2, TypeCommandKeeps, EndOfInputKeeps, ShowMessageKeeps, PostResultKeeps DEF Next

THEOREM Invariance == Spec => []IInv
  BY InvInit, InvStep, PTL DEF Spec

LEMMA LetterIs ==
  ASSUME NEW S, NEW a \in Addressees, NEW e \in Letters, e.to = a, e.message \in S
  PROVE  e \in [to : {a}, message : S]
  BY DEF Letters

(* Nobody else could have said or asked what is in the box: it was posted, *)
(* and is kept.                                                            *)
LEMMA BoxIsWorded ==
  ASSUME IInv
  PROVE  inbox \in Seq([to : {"controller"}, message : Askings(started)]
                       \cup [to : {"ui"}, message : Sayings(started)])
<1> DEFINE Asked == [to : {"controller"}, message : Askings(started)]
           Said == [to : {"ui"}, message : Sayings(started)]
           c == posted["controller"]
           u == posted["ui"]
<1>1. PICK n \in 0 .. Len(inbox) : Kept(n)
  BY DEF IInv
<1>2. /\ inbox \in Seq(Letters) /\ Len(inbox) \in Nat /\ n \in Nat
      /\ \A j \in 1 .. Len(inbox) : inbox[j] \in Letters
      /\ \A j \in 1 .. Len(inbox) : inbox[j].to = IF j <= n THEN "controller" ELSE "ui"
  BY <1>1, LenProperties, ElementOfSeq DEF Kept, Divided
<1>3. /\ c \in Seq(Askings(started)) /\ Len(c) \in Nat /\ u \in Seq(Sayings(started)) /\ Len(u) \in Nat
      /\ shown \in Seq(Messages) /\ Len(shown) \in Nat
  BY LenProperties DEF IInv, Spoken
<1>4. /\ \A j \in 1 .. Len(c) : c[j] \in Askings(started)
      /\ \A j \in 1 .. Len(u) : u[j] \in Sayings(started)
  <2> HIDE DEF c, u
  <2> QED BY <1>3, ElementOfSeq
<1>5. /\ n <= Len(c) /\ \A j \in 1 .. n : inbox[j].message = c[Len(c) - n + j]
      /\ Len(shown) + (Len(inbox) - n) = Len(u)
      /\ \A j \in 1 .. Len(inbox) - n : inbox[n + j].message = u[Len(shown) + j]
  BY <1>1 DEF Kept, CommandsKept, InfosKept
<1> HIDE DEF c, u
<1>6. ASSUME NEW j \in 1 .. Len(inbox) PROVE inbox[j] \in Asked \cup Said
  <2>1. CASE j <= n
    <3>1. j \in 1 .. n /\ Len(c) - n + j \in 1 .. Len(c)
      BY <1>2, <1>3, <1>5, <2>1
    <3>2. inbox[j].to = "controller" /\ inbox[j].message \in Askings(started)
      BY <1>2, <1>4, <1>5, <2>1, <3>1
    <3> QED BY <1>2, <3>2, LetterIs DEF Addressees
  <2>2. CASE ~ (j <= n)
    <3>1. j - n \in 1 .. Len(inbox) - n /\ n + (j - n) = j /\ Len(shown) + (j - n) \in 1 .. Len(u)
      BY <1>2, <1>3, <1>5, <2>2
    <3>2. inbox[n + (j - n)].message = u[Len(shown) + (j - n)]
      BY <1>5, <3>1
    <3>3. inbox[j].to = "ui" /\ inbox[j].message \in Sayings(started)
      BY <1>2, <1>4, <2>2, <3>1, <3>2
    <3> QED BY <1>2, <3>3, LetterIs DEF Addressees
  <2> QED BY <2>1, <2>2
<1> HIDE DEF Asked, Said
<1>7. inbox \in Seq(Asked \cup Said)
  BY <1>2, <1>6, SeqOf
<1> QED BY <1>7 DEF Asked, Said

LEMMA ShownIsWorded ==
  ASSUME IInv
  PROVE  shown \in Seq(Sayings(started))
<1> DEFINE u == posted["ui"]
<1>1. PICK n \in 0 .. Len(inbox) : Kept(n)
  BY DEF IInv
<1>2. /\ u \in Seq(Sayings(started)) /\ Len(u) \in Nat /\ shown \in Seq(Messages) /\ Len(shown) \in Nat
      /\ Len(inbox) \in Nat
  BY <1>1, LenProperties DEF IInv, Spoken, Kept, Divided
<1>3. Len(shown) <= Len(u) /\ \A j \in 1 .. Len(shown) : shown[j] = u[j]
  BY <1>1, <1>2 DEF Kept, InfosKept
<1> HIDE DEF u
<1>4. \A j \in 1 .. Len(shown) : shown[j] \in Sayings(started)
  <2> SUFFICES ASSUME NEW j \in 1 .. Len(shown) PROVE shown[j] \in Sayings(started)
    OBVIOUS
  <2>1. j \in 1 .. Len(u)
    BY <1>2, <1>3
  <2> QED BY <1>2, <1>3, <2>1, ElementOfSeq
<1> QED BY <1>2, <1>4, SeqOf

(* Whatever the user types and in whatever order the two loops and the     *)
(* supervisors meet in the box: every letter in it, and all that is        *)
(* posted, shown or executed, says something to the user, or asks the      *)
(* controller, about supervisors that were started, none before its        *)
(* thread; neither loop is ever given a letter to the other. Beside        *)
(* sendTasks, all that were started are known, and a controller that has   *)
(* stopped has stopped the user interface.                                 *)
THEOREM TypeCorrect == Spec => []TypeOK
<1>1. IInv => Worded
  BY BoxIsWorded, ShownIsWorded DEF IInv, Spoken, Worded
<1>2. IInv => TypeOK
  BY <1>1 DEF IInv, TypeOK
<1> QED BY <1>2, Invariance, PTL

(* Whatever the user types and whenever supervisors finish, checkStatus    *)
(* refuses the id of no supervisor: the ids it is asked about have been    *)
(* shown, and sendTasks, which announces an id before it inserts the       *)
(* supervisor, returns before the controller takes the next command.       *)
THEOREM IdsAreKnown == Spec => []AnnouncedIsKnown
<1>1. 0 \notin Supervisors
  BY BoundsAssumption DEF Supervisors
<1>2. IInv => AnnouncedIsKnown
  <2> SUFFICES ASSUME IInv, NEW k \in Supervisors, NEW i \in DOMAIN posted["ui"],
                      posted["ui"][i] = InfoOn("wrong id", k)
               PROVE  FALSE
    BY DEF AnnouncedIsKnown
  <2>1. posted["ui"] \in Seq(Sayings(started))
    BY DEF IInv, Spoken
  <2>2. posted["ui"][i] \in Sayings(started)
    <3> DEFINE p == posted["ui"]
    <3>1. p \in Seq(Sayings(started)) /\ i \in DOMAIN p
      BY <2>1
    <3> HIDE DEF p
    <3>2. p[i] \in Sayings(started)
      BY <3>1, LenProperties, ElementOfSeq
    <3> QED BY <3>2 DEF p
  <2>3. InfoOn("wrong id", k) \in Sayings(started)
    BY <2>2
  <2>4. k = 0
    BY <2>3, SaidOf
  <2> QED BY <1>1, <2>4
<1> QED BY <1>2, Invariance, PTL

-----------------------------------------------------------------------------
(* The refinement: what the controller has executed is what was posted to  *)
(* it, without what waits in the box.                                      *)
Executions(box, p, c) ==
  LET n == Len(p) - Len(Box!MessagesFor(box, "controller"))
  IN  IF n = 0 THEN <<>> ELSE Append(SubSeq(p, 1, n - 1), c)

LEMMA WhatIsExecuted ==
  Executed = Executions(inbox, posted["controller"], command)
  BY DEF Executed, Executions, Waiting

LEMMA ExecutedIs ==
  ASSUME NEW box, NEW n, Divided(box, n), NEW p \in Seq(Messages), n <= Len(p),
         NEW c, Len(p) > n => c = p[Len(p) - n]
  PROVE  /\ Executions(box, p, c) = SubSeq(p, 1, Len(p) - n)
         /\ Executions(box, p, c) \in Seq(Messages)
         /\ Len(Executions(box, p, c)) = Len(p) - n
<1>1. Len(p) \in Nat /\ n \in Nat /\ \A i \in 1 .. Len(p) : p[i] \in Messages
  BY LenProperties, ElementOfSeq DEF Divided
<1> DEFINE k == Len(p) - n
<1>2. k \in 0 .. Len(p) /\ k \in Nat
  BY <1>1
<1>3. Executions(box, p, c) = IF k = 0 THEN <<>> ELSE Append(SubSeq(p, 1, k - 1), c)
  BY Waits DEF Executions
<1>4. k > 0 => c = p[k]
  BY <1>1
<1> HIDE DEF k
<1>5. Executions(box, p, c) = SubSeq(p, 1, k)
  <2>1. CASE k = 0
    BY <1>3, <2>1, SubSeqEmpty
  <2>2. CASE k # 0
    <3>1. k \in 1 .. Len(p) /\ c = p[k]
      BY <1>2, <1>4, <2>2
    <3>2. p[k] \in Messages
      BY <1>1, <3>1
    <3> QED BY <1>3, <2>2, <3>1, <3>2, PrefixesGrow
  <2> QED BY <2>1, <2>2
<1>6. SubSeq(p, 1, k) \in Seq(Messages) /\ Len(SubSeq(p, 1, k)) = k
  <2>1. \A i \in 1 .. k : p[i] \in Messages
    BY <1>1, <1>2
  <2> QED BY <1>2, <2>1, SubSeqProperties
<1> QED BY <1>5, <1>6 DEF k

LEMMA SaysToUi ==
  ASSUME IInv, IInv', NEW m, Post("ui", m), UNCHANGED <<shown, command, started>>
  PROVE  Promise!Next
<1> DEFINE p == posted["ui"]
           q == Append(p, m)
           c == posted["controller"]
<1>1. p \in Seq(Sayings(started)) /\ posted \in [Addressees -> Seq(Messages)] /\ p \in Seq(Messages)
      /\ c \in Seq(Messages)
  BY DEF IInv, Spoken, Addressees
<1>2. posted' = [posted EXCEPT !["ui"] = q] /\ posted'["ui"] = q /\ posted'["controller"] = c
  BY <1>1 DEF Post, Addressees
<1>3. q \in Seq(Sayings(started))
  BY <1>2 DEF IInv, Spoken
<1>4. m \in Sayings(started)
  <2> DEFINE S == Sayings(started) \cup {m}
  <2>1. p \in Seq(S) /\ m \in S
    BY <1>1, SeqMonotonic
  <2>2. q[Len(p) + 1] = m /\ Len(q) = Len(p) + 1 /\ Len(p) \in Nat
    BY <2>1, AppendProperties, LenProperties
  <2> HIDE DEF q
  <2>3. q[Len(p) + 1] \in Sayings(started)
    <3>1. Len(p) + 1 \in 1 .. Len(q)
      BY <2>2
    <3> QED BY <1>3, <3>1, ElementOfSeq
  <2> QED BY <2>2, <2>3
<1>5. m \in Messages
  BY <1>4, AllAreMessages DEF IInv, Stated
<1>6. PICK n \in 0 .. Len(inbox) : Kept(n)
  BY DEF IInv
<1>7. Kept(n)'
  BY <1>4, <1>6, Speaking
<1>8. Executed' = Executed
  <2>1. Executions(inbox, c, command) = SubSeq(c, 1, Len(c) - n)
    <3>1. Divided(inbox, n) /\ n <= Len(c) /\ (Len(c) > n => command = c[Len(c) - n])
      BY <1>6 DEF Kept, CommandsKept
    <3> QED BY <1>1, <3>1, ExecutedIs, ZenonT(60)
  <2>2. Executions(inbox', c, command) = SubSeq(c, 1, Len(c) - n)
    <3>1. Divided(inbox', n) /\ n <= Len(c) /\ (Len(c) > n => command = c[Len(c) - n])
      BY <1>2, <1>7 DEF Kept, CommandsKept
    <3> QED BY <1>1, <3>1, ExecutedIs, ZenonT(60)
  <2> QED BY <1>2, <2>1, <2>2, WhatIsExecuted DEF Executed, Executions, Waiting
<1>9. Len(q) = Len(p) + 1 /\ SubSeq(q, 1, Len(p)) = p
  <2>1. Len(p) \in 0 .. Len(p)
    BY <1>1, LenProperties
  <2>2. SubSeq(q, 1, Len(p)) = SubSeq(p, 1, Len(p))
    BY <1>1, <1>5, <2>1, PrefixesGrow
  <2> QED BY <1>1, <1>5, <2>2, SubSeqFull, AppendProperties
<1>10. Promise!Post("ui")
  BY <1>2, <1>8, <1>9 DEF Promise!Post
<1> QED BY <1>10 DEF Promise!Next, Addressees

LEMMA AsksController ==
  ASSUME IInv, IInv', NEW m, Post("controller", m), UNCHANGED <<shown, command, started>>
  PROVE  Promise!Next
<1> DEFINE p == posted["controller"]
           q == Append(p, m)
<1>1. p \in Seq(Askings(started)) /\ posted \in [Addressees -> Seq(Messages)] /\ p \in Seq(Messages)
  BY DEF IInv, Spoken, Addressees
<1>2. posted' = [posted EXCEPT !["controller"] = q] /\ posted'["controller"] = q
  BY <1>1 DEF Post, Addressees
<1>3. q \in Seq(Askings(started)) /\ q \in Seq(Messages)
  BY <1>2 DEF IInv, Spoken, Addressees
<1>4. m \in Askings(started)
  <2> DEFINE S == Askings(started) \cup {m}
  <2>1. p \in Seq(S) /\ m \in S
    BY <1>1, SeqMonotonic
  <2>2. q[Len(p) + 1] = m /\ Len(q) = Len(p) + 1 /\ Len(p) \in Nat
    BY <2>1, AppendProperties, LenProperties
  <2> HIDE DEF q
  <2>3. q[Len(p) + 1] \in Askings(started)
    <3>1. Len(p) + 1 \in 1 .. Len(q)
      BY <2>2
    <3> QED BY <1>3, <3>1, ElementOfSeq
  <2> QED BY <2>2, <2>3
<1>5. m \in Messages
  BY <1>4, AllAreMessages DEF IInv, Stated
<1>6. PICK n \in 0 .. Len(inbox) : Kept(n)
  BY DEF IInv
<1>7. Kept(n + 1)'
  BY <1>4, <1>6, Asking
<1>8. Len(q) = Len(p) + 1 /\ SubSeq(q, 1, Len(p)) = p
  <2>1. Len(p) \in 0 .. Len(p)
    BY <1>1, LenProperties
  <2>2. SubSeq(q, 1, Len(p)) = SubSeq(p, 1, Len(p))
    BY <1>1, <1>5, <2>1, PrefixesGrow
  <2> QED BY <1>1, <1>5, <2>2, SubSeqFull, AppendProperties
<1>9. Executed' = Executed
  <2>1. Executions(inbox, p, command) = SubSeq(p, 1, Len(p) - n)
    BY <1>1, <1>6, ExecutedIs, ZenonT(60) DEF Kept, CommandsKept
  <2>2. Executions(inbox', q, command) = SubSeq(q, 1, Len(q) - (n + 1))
    <3>1. /\ Divided(inbox', n + 1) /\ n + 1 <= Len(q)
          /\ Len(q) > n + 1 => command = q[Len(q) - (n + 1)]
      BY <1>2, <1>7 DEF Kept, CommandsKept
    <3> HIDE DEF q
    <3> QED BY <1>3, <3>1, ExecutedIs
  <2>3. Len(q) - (n + 1) = Len(p) - n /\ Len(p) - n \in 0 .. Len(p)
    <3>1. Len(p) \in Nat /\ n \in Nat /\ n <= Len(p)
      BY <1>1, <1>6, LenProperties DEF Kept, CommandsKept
    <3> HIDE DEF p, q
    <3> QED BY <1>8, <3>1
  <2>4. SubSeq(q, 1, Len(p) - n) = SubSeq(p, 1, Len(p) - n)
    BY <1>1, <1>5, <2>3, PrefixesGrow
  <2> QED BY <1>2, <2>1, <2>2, <2>3, <2>4, WhatIsExecuted DEF Executed, Executions, Waiting
<1>10. Promise!Post("controller")
  BY <1>2, <1>8, <1>9 DEF Promise!Post
<1> QED BY <1>10 DEF Promise!Next, Addressees

LEMMA Shows ==
  ASSUME IInv, ShowMessage
  PROVE  Promise!Next
<1> DEFINE c == posted["controller"]
           g == [a \in Addressees |-> IF a = "ui" THEN shown ELSE Executed]
<1>1. PICK n \in 0 .. Len(inbox) : Kept(n)
  BY DEF IInv
<1>2. /\ Len(shown) < Len(posted["ui"]) /\ shown' = Append(shown, posted["ui"][Len(shown) + 1])
      /\ posted' = posted /\ command' = command /\ Kept(n)'
  BY <1>1, Showing
<1>3. c \in Seq(Messages)
  BY DEF IInv, Spoken, Addressees
<1>4. Executed' = Executed
  <2>1. Executions(inbox, c, command) = SubSeq(c, 1, Len(c) - n)
    BY <1>1, <1>3, ExecutedIs, SMTT(30) DEF Kept, CommandsKept
  <2>2. Executions(inbox', c, command) = SubSeq(c, 1, Len(c) - n)
    <3>1. Divided(inbox', n) /\ n <= Len(c) /\ (Len(c) > n => command = c[Len(c) - n])
      BY <1>2 DEF Kept, CommandsKept
    <3> QED BY <1>3, <3>1, ExecutedIs, ZenonT(60)
  <2> QED BY <1>2, <2>1, <2>2, WhatIsExecuted DEF Executed, Executions, Waiting
<1>5. g' = [g EXCEPT !["ui"] = Append(@, posted["ui"][Len(@) + 1])]
  BY <1>2, <1>4 DEF Addressees
<1>6. Promise!Take("ui")
  BY <1>2, <1>5 DEF Promise!Take, Addressees
<1> QED BY <1>6 DEF Promise!Next, Addressees

LEMMA Takes ==
  ASSUME IInv, GetMessage
  PROVE  Promise!Next
<1> DEFINE p == posted["controller"]
           g == [a \in Addressees |-> IF a = "ui" THEN shown ELSE Executed]
<1>1. PICK n \in 0 .. Len(inbox) : Kept(n)
  BY DEF IInv
<1>2. /\ n > 0 /\ command' = p[Len(p) - n + 1]
      /\ posted' = posted /\ shown' = shown /\ Kept(n - 1)'
  BY <1>1, Taking
<1>3. p \in Seq(Messages) /\ Len(p) \in Nat /\ n \in Nat /\ n <= Len(p)
  BY <1>1, LenProperties DEF IInv, Spoken, Addressees, Kept, CommandsKept
<1>4. /\ Executions(inbox, p, command) = SubSeq(p, 1, Len(p) - n)
      /\ Len(Executions(inbox, p, command)) = Len(p) - n
  BY <1>1, <1>3, ExecutedIs, ZenonT(60) DEF Kept, CommandsKept
<1>5. Executions(inbox', p, command') = SubSeq(p, 1, Len(p) - (n - 1))
  <2>1. /\ Divided(inbox', n - 1) /\ n - 1 <= Len(p)
        /\ Len(p) > n - 1 => command' = p[Len(p) - (n - 1)]
    BY <1>2 DEF Kept, CommandsKept
  <2> HIDE DEF p
  <2> QED BY <1>3, <2>1, ExecutedIs
<1>6. /\ Executed = Executions(inbox, p, command)
      /\ Executed' = Executions(inbox', p, command')
  BY <1>2 DEF Executed, Executions, Waiting
<1> HIDE DEF p
<1>7. /\ Len(p) - (n - 1) \in 1 .. Len(p) /\ (Len(p) - (n - 1)) - 1 = Len(p) - n
      /\ Len(p) - (n - 1) = (Len(p) - n) + 1 /\ Len(p) - n < Len(p)
  BY <1>2, <1>3
<1>8. SubSeq(p, 1, (Len(p) - n) + 1) = Append(SubSeq(p, 1, Len(p) - n), p[(Len(p) - n) + 1])
  <2>1. \E e : e \in Messages
    BY DEF Messages, Sayings
  <2>2. \A k \in 1 .. Len(p) : SubSeq(p, 1, k) = Append(SubSeq(p, 1, k - 1), p[k])
    BY <1>3, <2>1, PrefixesGrow
  <2> QED BY <1>7, <2>2
<1>9. /\ Executed' = Append(Executed, p[Len(Executed) + 1]) /\ Len(Executed) < Len(p)
  BY <1>4, <1>5, <1>6, <1>7, <1>8
<1>10. g' = [g EXCEPT !["controller"] = Append(@, posted["controller"][Len(@) + 1])]
  BY <1>2, <1>9 DEF Addressees, p
<1>11. Promise!Take("controller")
  BY <1>2, <1>9, <1>10 DEF Promise!Take, Addressees, p
<1> QED BY <1>11 DEF Promise!Next, Addressees

LEMMA StepImplements == IInv /\ IInv' /\ [Next]_vars => [Promise!Next]_(Promise!vars)
<1> SUFFICES ASSUME IInv, IInv', [Next]_vars PROVE [Promise!Next]_(Promise!vars)
  OBVIOUS
<1> USE DEF boxVars, uiVars, controllerVars, rest
<1>1. ASSUME UNCHANGED <<inbox, posted, shown, command>> PROVE UNCHANGED Promise!vars
  BY <1>1 DEF Promise!vars, Executed, Waiting
<1>2. CASE TypeCommand
  <2>1. PICK m \in Commands : Post("controller", m)
    BY <1>2 DEF TypeCommand
  <2> QED BY <1>2, <2>1, AsksController DEF TypeCommand
<1>3. ASSUME NEW m, Post("ui", m), UNCHANGED <<shown, command, started>> PROVE Promise!Next
  BY <1>3, SaysToUi
<1>4. CASE \E k \in Supervisors : PostResult(k)
  BY <1>3, <1>4 DEF PostResult
<1>5. CASE Dispatch \/ checkStatus \/ Announce
  BY <1>3, <1>5 DEF Dispatch, checkStatus, Announce
<1>6. CASE ShowMessage \/ GetMessage
  BY <1>6, Shows, Takes
<1>7. CASE EndOfInput \/ ExecuteExit \/ StopController \/ ExecuteUnknown \/ ExecuteCompute
           \/ ExecuteComputeMaxN \/ CreateThread \/ Insert \/ Sent \/ UNCHANGED vars
  BY <1>1, <1>7 DEF EndOfInput, ExecuteExit, StopController, ExecuteUnknown, ExecuteCompute,
     ExecuteComputeMaxN, CreateThread, Insert, Sent, vars
<1>8. CASE ComputeMaxNFails \/ StatusFails \/ EndProgram
  BY <1>1, <1>8 DEF ComputeMaxNFails, StatusFails, EndProgram, Crash
<1> QED BY <1>2, <1>4, <1>5, <1>6, <1>7, <1>8 DEF Next, Controller

(* However commands, announcements and results meet in the global box, its *)
(* multimap serves the controller and the user interface as a mailbox      *)
(* each: the loop of each is given what was posted to it, all of it, once  *)
(* and in the order of the posts.                                          *)
THEOREM ImplementsMailboxes == Spec => KeepsPromise
<1>1. Init => Promise!Init
  <2> SUFFICES ASSUME Init PROVE Promise!Init
    OBVIOUS
  <2>1. posted = [a \in Addressees |-> <<>>] /\ shown = <<>> /\ inbox = <<>>
    BY DEF Init
  <2>2. Executed = <<>>
    <3>1. Divided(inbox, 0) /\ posted["controller"] \in Seq(Messages) /\ Len(posted["controller"]) = 0
      <4>1. <<>> \in Seq(Letters) /\ <<>> \in Seq(Messages) /\ Len(<<>>) = 0
        OBVIOUS
      <4> QED BY <2>1, <4>1 DEF Divided, Addressees
    <3>2. Len(Box!MessagesFor(inbox, "controller")) = 0
      BY <3>1, Waits
    <3> QED BY <3>1, <3>2 DEF Executed, Waiting
  <2> QED BY <2>1, <2>2 DEF Promise!Init
<1> QED BY <1>1, Invariance, StepImplements, PTL DEF Spec, KeepsPromise, Promise!Spec
=============================================================================
