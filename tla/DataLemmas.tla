----------------------------- MODULE DataLemmas -----------------------------
(***************************************************************************)
(* Facts about numbers and sequences that several proofs need: the least   *)
(* and the greatest element of a set of natural numbers (what a CHOOSE of  *)
(* one finds, and the smallest counterexample that stands in for a proof   *)
(* by induction), and what a sequence is after an element is taken out of  *)
(* it or put into it, and what texts are made of.                          *)
(***************************************************************************)
EXTENDS Integers, Sequences, Texts, SequenceTheorems, WellFoundedInduction, TLAPS

LEMMA LeastExists ==
  ASSUME NEW S, S \subseteq Nat, S # {}
  PROVE  \E m \in S : \A n \in S : m <= n
<1> DEFINE R == OpToRel(<, Nat)
<1>1. PICK m \in S : \A n \in S : <<n, m>> \notin R
  <2>1. IsWellFoundedOn(R, Nat)
    BY NatLessThanWellFounded
  <2> HIDE DEF R
  <2> QED BY <2>1, WFMin
<1>2. ASSUME NEW n \in S PROVE m <= n
  <2>1. ~ (n < m)
    BY <1>1, <1>2 DEF OpToRel
  <2> QED BY <2>1
<1> QED BY <1>2

LEMMA GreatestExists ==
  ASSUME NEW S, S \subseteq Nat, S # {}, NEW b \in Nat, \A n \in S : n <= b
  PROVE  \E m \in S : \A n \in S : n <= m
<1> DEFINE T == {b - n : n \in S}
<1>1. T \subseteq Nat
  <2> SUFFICES ASSUME NEW n \in S PROVE b - n \in Nat
    OBVIOUS
  <2>1. n \in Nat /\ n <= b
    OBVIOUS
  <2> QED BY <2>1
<1>2. PICK t \in T : \A u \in T : t <= u
  <2>1. T # {}
    OBVIOUS
  <2> HIDE DEF T
  <2> QED BY <1>1, <2>1, LeastExists
<1>3. PICK m \in S : t = b - m
  OBVIOUS
<1>4. ASSUME NEW n \in S PROVE n <= m
  <2>1. b - m <= b - n
    BY <1>2, <1>3
  <2> QED BY <2>1
<1> QED BY <1>4

-----------------------------------------------------------------------------
(* A sequence without its element at k, and with e put in at k. *)
Without(s, k) == SubSeq(s, 1, k - 1) \o SubSeq(s, k + 1, Len(s))
With(s, k, e) == SubSeq(s, 1, k - 1) \o <<e>> \o SubSeq(s, k, Len(s))

LEMMA OneLess ==
  ASSUME NEW S, NEW s \in Seq(S), NEW k \in DOMAIN s
  PROVE  LET new == Without(s, k)
         IN  /\ new \in Seq(S) /\ Len(new) = Len(s) - 1 /\ DOMAIN new = 1 .. Len(s) - 1
             /\ \A i \in 1 .. Len(s) - 1 : new[i] = IF i < k THEN s[i] ELSE s[i + 1]
<1> DEFINE left == SubSeq(s, 1, k - 1)
           right == SubSeq(s, k + 1, Len(s))
           new == left \o right
<1>1. /\ Len(s) \in Nat /\ DOMAIN s = 1 .. Len(s) /\ k \in 1 .. Len(s)
      /\ \A i \in DOMAIN s : s[i] \in S
  BY LenProperties, ElementOfSeq
<1>2. /\ left \in Seq(S) /\ Len(left) = k - 1
      /\ \A i \in 1 .. k - 1 : left[i] = s[i]
  BY <1>1, SubSeqProperties
<1>3. /\ right \in Seq(S) /\ Len(right) = Len(s) - k
      /\ \A i \in 1 .. Len(s) - k : right[i] = s[i + k]
  BY <1>1, SubSeqProperties
<1> HIDE DEF left, right
<1>4. /\ new \in Seq(S) /\ Len(new) = Len(left) + Len(right)
      /\ \A i \in 1 .. Len(left) + Len(right) :
           new[i] = IF i <= Len(left) THEN left[i] ELSE right[i - Len(left)]
  BY <1>2, <1>3, ConcatProperties
<1> HIDE DEF new
<1>5. Len(new) = Len(s) - 1 /\ DOMAIN new = 1 .. Len(s) - 1
  BY <1>1, <1>2, <1>3, <1>4, LenProperties
<1>6. ASSUME NEW i \in 1 .. Len(s) - 1
      PROVE  new[i] = IF i < k THEN s[i] ELSE s[i + 1]
  <2>1. CASE i < k
    BY <1>1, <1>2, <1>3, <1>4, <2>1
  <2>2. CASE ~ (i < k)
    <3>1. i - (k - 1) \in 1 .. Len(s) - k /\ (i - (k - 1)) + k = i + 1
      BY <1>1, <2>2
    <3>2. right[i - (k - 1)] = s[i + 1]
      BY <1>3, <3>1
    <3>3. i \in 1 .. Len(left) + Len(right) /\ ~ (i <= Len(left)) /\ i - Len(left) = i - (k - 1)
      BY <1>1, <1>2, <1>3, <2>2
    <3> QED BY <1>4, <2>2, <3>2, <3>3
  <2> QED BY <2>1, <2>2
<1> QED BY <1>4, <1>5, <1>6 DEF Without, new, left, right

LEMMA OneMore ==
  ASSUME NEW S, NEW s \in Seq(S), NEW k \in 1 .. Len(s) + 1, NEW e \in S
  PROVE  LET new == With(s, k, e)
         IN  /\ new \in Seq(S) /\ Len(new) = Len(s) + 1 /\ DOMAIN new = 1 .. Len(s) + 1
             /\ new[k] = e
             /\ \A i \in 1 .. Len(s) : i < k => new[i] = s[i]
             /\ \A i \in 1 .. Len(s) : i >= k => new[i + 1] = s[i]
<1> DEFINE left == SubSeq(s, 1, k - 1)
           right == SubSeq(s, k, Len(s))
           mid == left \o <<e>>
           new == mid \o right
<1>1. /\ Len(s) \in Nat /\ DOMAIN s = 1 .. Len(s) /\ k \in Nat
      /\ \A i \in DOMAIN s : s[i] \in S
  BY LenProperties, ElementOfSeq
<1>2. /\ left \in Seq(S) /\ Len(left) = k - 1
      /\ \A i \in 1 .. k - 1 : left[i] = s[i]
  BY <1>1, SubSeqProperties
<1>3. /\ right \in Seq(S) /\ Len(right) = Len(s) - k + 1
      /\ \A i \in 1 .. Len(s) - k + 1 : right[i] = s[i + k - 1]
  BY <1>1, SubSeqProperties
<1> HIDE DEF left, right
<1>4. /\ mid \in Seq(S) /\ Len(mid) = k /\ mid[k] = e
      /\ \A i \in 1 .. k - 1 : mid[i] = s[i]
  <2>1. <<e>> \in Seq(S) /\ Len(<<e>>) = 1 /\ <<e>>[1] = e
    OBVIOUS
  <2>2. /\ mid \in Seq(S) /\ Len(mid) = (k - 1) + 1
        /\ \A i \in 1 .. (k - 1) + 1 : mid[i] = IF i <= k - 1 THEN left[i] ELSE <<e>>[i - (k - 1)]
    BY <1>2, <2>1, ConcatProperties
  <2> HIDE DEF mid
  <2> QED BY <1>1, <1>2, <2>1, <2>2
<1> HIDE DEF mid
<1>5. /\ new \in Seq(S) /\ Len(new) = Len(mid) + Len(right)
      /\ \A i \in 1 .. Len(mid) + Len(right) :
           new[i] = IF i <= Len(mid) THEN mid[i] ELSE right[i - Len(mid)]
  BY <1>3, <1>4, ConcatProperties
<1> HIDE DEF new
<1>6. Len(new) = Len(s) + 1 /\ DOMAIN new = 1 .. Len(s) + 1
  BY <1>1, <1>3, <1>4, <1>5, LenProperties
<1>7. new[k] = e /\ \A i \in 1 .. Len(s) : i < k => new[i] = s[i]
  BY <1>1, <1>3, <1>4, <1>5
<1>8. ASSUME NEW i \in 1 .. Len(s), i >= k PROVE new[i + 1] = s[i]
  <2>1. (i + 1) - k \in 1 .. Len(s) - k + 1 /\ ((i + 1) - k) + k - 1 = i
    BY <1>1, <1>8
  <2>2. right[(i + 1) - k] = s[i]
    BY <1>3, <2>1
  <2>3. i + 1 \in 1 .. Len(mid) + Len(right) /\ ~ (i + 1 <= Len(mid)) /\ (i + 1) - Len(mid) = (i + 1) - k
    BY <1>1, <1>3, <1>4, <1>8
  <2> QED BY <1>5, <2>2, <2>3
<1> QED BY <1>5, <1>6, <1>7, <1>8 DEF With, new, mid, left, right

(* A prefix of a sequence that is appended to, and one that grows by one. *)
LEMMA PrefixesGrow ==
  ASSUME NEW S, NEW s \in Seq(S), NEW e \in S
  PROVE  /\ \A k \in 0 .. Len(s) : SubSeq(Append(s, e), 1, k) = SubSeq(s, 1, k)
         /\ \A k \in 1 .. Len(s) : SubSeq(s, 1, k) = Append(SubSeq(s, 1, k - 1), s[k])
<1> DEFINE t == Append(s, e)
<1>1. /\ Len(s) \in Nat /\ t \in Seq(S) /\ Len(t) = Len(s) + 1
      /\ \A i \in 1 .. Len(s) : t[i] = s[i] /\ s[i] \in S /\ t[i] \in S
  BY LenProperties, ElementOfSeq, AppendProperties
<1> HIDE DEF t
<1>2. ASSUME NEW k \in 0 .. Len(s) PROVE SubSeq(t, 1, k) = SubSeq(s, 1, k)
  <2>1. /\ k \in Nat /\ \A i \in 1 .. k : i \in 1 .. Len(s)
    BY <1>1
  <2>2. /\ SubSeq(t, 1, k) \in Seq(S) /\ Len(SubSeq(t, 1, k)) = k
        /\ \A i \in 1 .. k : SubSeq(t, 1, k)[i] = t[i]
    BY <1>1, <2>1, SubSeqProperties
  <2>3. /\ SubSeq(s, 1, k) \in Seq(S) /\ Len(SubSeq(s, 1, k)) = k
        /\ \A i \in 1 .. k : SubSeq(s, 1, k)[i] = s[i]
    BY <1>1, <2>1, SubSeqProperties
  <2>4. /\ Len(SubSeq(t, 1, k)) = Len(SubSeq(s, 1, k))
        /\ \A i \in 1 .. Len(SubSeq(t, 1, k)) : SubSeq(t, 1, k)[i] = SubSeq(s, 1, k)[i]
    BY <1>1, <2>1, <2>2, <2>3
  <2> QED BY <2>2, <2>3, <2>4, SeqEqual
<1>3. ASSUME NEW k \in 1 .. Len(s) PROVE SubSeq(s, 1, k) = Append(SubSeq(s, 1, k - 1), s[k])
  <2> DEFINE u == SubSeq(s, 1, k - 1)
  <2>1. /\ 1 \in 1 .. Len(s) /\ k \in 1 .. Len(s) /\ s[k] \in S
        /\ \A i \in 1 .. k - 1 : s[i] \in S
    BY <1>1
  <2>2. SubSeq(s, 1, k) = u \o <<s[k]>>
    BY <2>1, SubSeqRecursiveSecond
  <2>3. u \in Seq(S)
    BY <2>1, SubSeqProperties
  <2> HIDE DEF u
  <2>4. Append(u, s[k]) = u \o <<s[k]>>
    BY <2>1, <2>3, AppendIsConcat
  <2> QED BY <2>2, <2>4 DEF u
<1> QED BY <1>2, <1>3 DEF t

-----------------------------------------------------------------------------
(* Texts. *)

LEMMA TextOf ==
  ASSUME NEW S, NEW s \in Seq(S)
  PROVE  IsText(s)
<1>1. Len(s) \in Nat /\ DOMAIN s = 1 .. Len(s) /\ s \in [1 .. Len(s) -> S]
  BY LenProperties
<1>2. s \in [1 .. Len(s) -> Range(s)]
  BY <1>1 DEF Range
<1> QED BY <1>1, <1>2, SeqDef DEF IsText

LEMMA TextIs ==
  ASSUME NEW s, IsText(s)
  PROVE  /\ Len(s) \in Nat /\ DOMAIN s = 1 .. Len(s) /\ s \in Seq(Range(s))
         /\ \A i \in 1 .. Len(s) : s[i] \in Range(s)
  BY LenProperties, ElementOfSeq DEF IsText

LEMMA EmptyText == IsText(<<>>) /\ Len(<<>>) = 0 /\ DOMAIN <<>> = {}
<1>1. <<>> \in Seq({}) /\ Len(<<>>) = 0 /\ DOMAIN <<>> = {}
  OBVIOUS
<1> QED BY <1>1, TextOf

LEMMA TextAppended ==
  ASSUME NEW s, IsText(s), NEW e
  PROVE  LET t == Append(s, e)
         IN  /\ IsText(t) /\ Len(t) = Len(s) + 1 /\ DOMAIN t = 1 .. Len(s) + 1
             /\ t[Len(s) + 1] = e /\ \A i \in 1 .. Len(s) : t[i] = s[i]
<1> DEFINE S == Range(s) \cup {e}
           t == Append(s, e)
<1>1. s \in Seq(S) /\ e \in S
  BY TextIs, SeqMonotonic
<1>2. /\ t \in Seq(S) /\ Len(t) = Len(s) + 1
      /\ t[Len(s) + 1] = e /\ \A i \in 1 .. Len(s) : t[i] = s[i]
  BY <1>1, AppendProperties
<1> HIDE DEF t, S
<1>3. IsText(t) /\ DOMAIN t = 1 .. Len(s) + 1
  BY <1>2, TextOf, LenProperties
<1> QED BY <1>2, <1>3 DEF t

(* A text that is made of two. *)
Joined(t, s, u) ==
  /\ IsText(t) /\ Len(t) = Len(s) + Len(u) /\ DOMAIN t = 1 .. Len(s) + Len(u)
  /\ \A i \in DOMAIN t : (\E j \in DOMAIN s : t[i] = s[j]) \/ (\E j \in DOMAIN u : t[i] = u[j])

LEMMA TextJoins ==
  ASSUME NEW s, IsText(s), NEW u, IsText(u)
  PROVE  Joined(s \o u, s, u)
<1> DEFINE S == Range(s) \cup Range(u)
           t == s \o u
<1>1. s \in Seq(S) /\ u \in Seq(S)
  BY TextIs, SeqMonotonic
<1>2. /\ t \in Seq(S) /\ Len(t) = Len(s) + Len(u)
      /\ \A i \in 1 .. Len(s) + Len(u) : t[i] = IF i <= Len(s) THEN s[i] ELSE u[i - Len(s)]
  BY <1>1, ConcatProperties
<1> HIDE DEF t, S
<1>3. IsText(t) /\ DOMAIN t = 1 .. Len(s) + Len(u)
  BY <1>2, TextOf, LenProperties
<1>4. ASSUME NEW i \in DOMAIN t
      PROVE  (\E j \in DOMAIN s : t[i] = s[j]) \/ (\E j \in DOMAIN u : t[i] = u[j])
  <2>1. /\ Len(s) \in Nat /\ Len(u) \in Nat /\ DOMAIN s = 1 .. Len(s) /\ DOMAIN u = 1 .. Len(u)
        /\ i \in 1 .. Len(s) + Len(u)
    BY <1>3, TextIs
  <2>2. CASE i <= Len(s)
    BY <1>2, <2>1, <2>2
  <2>3. CASE ~ (i <= Len(s))
    <3>1. i - Len(s) \in DOMAIN u
      BY <2>1, <2>3
    <3> QED BY <1>2, <2>1, <2>3, <3>1
  <2> QED BY <2>2, <2>3
<1>5. Joined(t, s, u)
  BY <1>2, <1>3, <1>4 DEF Joined
<1> QED BY <1>5 DEF t

LEMMA TextJoined ==
  ASSUME NEW s, IsText(s), NEW u, IsText(u)
  PROVE  LET t == s \o u
         IN  /\ IsText(t) /\ Len(t) = Len(s) + Len(u) /\ DOMAIN t = 1 .. Len(s) + Len(u)
             /\ \A i \in DOMAIN t : (\E j \in DOMAIN s : t[i] = s[j]) \/ (\E j \in DOMAIN u : t[i] = u[j])
<1> DEFINE t == s \o u
<1>1. Joined(t, s, u)
  BY TextJoins
<1> HIDE DEF t
<1>2. /\ IsText(t) /\ Len(t) = Len(s) + Len(u) /\ DOMAIN t = 1 .. Len(s) + Len(u)
      /\ \A i \in DOMAIN t : (\E j \in DOMAIN s : t[i] = s[j]) \/ (\E j \in DOMAIN u : t[i] = u[j])
  BY <1>1 DEF Joined
<1> QED BY <1>2 DEF t

LEMMA TextWithin ==
  ASSUME NEW s, IsText(s), NEW m \in 1 .. Len(s) + 1, NEW n \in m - 1 .. Len(s)
  PROVE  LET t == SubSeq(s, m, n)
         IN  /\ IsText(t) /\ Len(t) = n - m + 1
             /\ \A i \in DOMAIN t : \E j \in DOMAIN s : t[i] = s[j]
<1> DEFINE t == SubSeq(s, m, n)
<1>1. /\ Len(s) \in Nat /\ DOMAIN s = 1 .. Len(s) /\ m \in Nat /\ n \in Nat /\ m - 1 <= n
      /\ \A i \in m .. n : i \in 1 .. Len(s)
  BY TextIs
<1>2. \A i \in m .. n : s[i] \in Range(s)
  BY <1>1, TextIs
<1>3. /\ t \in Seq(Range(s)) /\ Len(t) = n - m + 1
      /\ \A i \in 1 .. n - m + 1 : t[i] = s[m + i - 1]
  BY <1>1, <1>2, SubSeqProperties
<1> HIDE DEF t
<1>4. ASSUME NEW i \in DOMAIN t PROVE \E j \in DOMAIN s : t[i] = s[j]
  <2>1. i \in 1 .. n - m + 1
    BY <1>3, LenProperties
  <2>2. m + i - 1 \in DOMAIN s
    BY <1>1, <2>1
  <2> QED BY <1>3, <2>1, <2>2
<1> QED BY <1>3, <1>4, TextOf DEF t

LEMMA TextTail ==
  ASSUME NEW s, IsText(s), s # <<>>
  PROVE  LET t == Tail(s)
         IN  /\ IsText(t) /\ Len(t) = Len(s) - 1 /\ Len(s) > 0
             /\ \A i \in DOMAIN t : \E j \in DOMAIN s : t[i] = s[j]
             /\ 1 \in DOMAIN s /\ Head(s) = s[1]
<1> DEFINE t == Tail(s)
<1>1. s \in Seq(Range(s)) /\ Len(s) \in Nat /\ DOMAIN s = 1 .. Len(s)
  BY TextIs
<1>2. Len(s) > 0
  BY <1>1, EmptySeq
<1>3. /\ t \in Seq(Range(s)) /\ Len(t) = Len(s) - 1
      /\ \A i \in 1 .. Len(t) : t[i] = s[i + 1]
  BY <1>1, HeadTailProperties
<1> HIDE DEF t
<1>4. \A i \in DOMAIN t : \E j \in DOMAIN s : t[i] = s[j]
  BY <1>1, <1>2, <1>3, LenProperties
<1>5. Head(s) = s[1]
  BY <1>1
<1>6. IsText(t) /\ 1 \in DOMAIN s
  BY <1>1, <1>2, <1>3, TextOf
<1> QED BY <1>2, <1>3, <1>4, <1>5, <1>6 DEF t

LEMMA TextReplaced ==
  ASSUME NEW s, IsText(s), NEW i \in DOMAIN s, NEW e
  PROVE  LET t == [s EXCEPT ![i] = e]
         IN  /\ IsText(t) /\ Len(t) = Len(s) /\ DOMAIN t = DOMAIN s
             /\ t[i] = e /\ \A j \in DOMAIN s : j # i => t[j] = s[j]
<1> DEFINE S == Range(s) \cup {e}
           t == [s EXCEPT ![i] = e]
<1>1. s \in Seq(S) /\ e \in S /\ DOMAIN s = 1 .. Len(s)
  BY TextIs, SeqMonotonic
<1>2. /\ t \in Seq(S) /\ Len(t) = Len(s)
      /\ \A j \in 1 .. Len(s) : t[j] = IF j = i THEN e ELSE s[j]
  BY <1>1, ExceptSeq
<1> HIDE DEF t, S
<1>3. IsText(t) /\ DOMAIN t = 1 .. Len(s)
  BY <1>2, TextOf, LenProperties
<1> QED BY <1>1, <1>2, <1>3 DEF t

-----------------------------------------------------------------------------
(* Parts of a text. *)

(* What a part of a text is, parts of it that follow each other, and a     *)
(* part of a part.                                                         *)
LEMMA PartOf ==
  ASSUME NEW s, IsText(s), NEW a \in 1 .. Len(s) + 1, NEW k \in a - 1 .. Len(s)
  PROVE  LET t == SubSeq(s, a, k)
         IN  /\ t \in Seq(Range(s)) /\ IsText(t) /\ Len(t) = k - a + 1
             /\ \A i \in 1 .. k - a + 1 : t[i] = s[a + i - 1]
<1>1. /\ Len(s) \in Nat /\ a \in Nat /\ k \in Nat /\ a - 1 <= k
      /\ \A i \in a .. k : s[i] \in Range(s)
  <2>1. Len(s) \in Nat /\ \A i \in 1 .. Len(s) : s[i] \in Range(s)
    BY TextIs
  <2> QED BY <2>1
<1>2. LET t == SubSeq(s, a, k)
      IN  /\ t \in Seq(Range(s)) /\ Len(t) = k - a + 1
          /\ \A i \in 1 .. k - a + 1 : t[i] = s[a + i - 1]
  BY <1>1, SubSeqProperties
<1> QED BY <1>2, TextOf

LEMMA PartsJoined ==
  ASSUME NEW s, IsText(s), NEW a \in 1 .. Len(s) + 1, NEW k \in a - 1 .. Len(s),
         NEW j \in k .. Len(s)
  PROVE  SubSeq(s, a, k) \o SubSeq(s, k + 1, j) = SubSeq(s, a, j)
<1> DEFINE u == SubSeq(s, a, k)
           v == SubSeq(s, k + 1, j)
           w == SubSeq(s, a, j)
           t == u \o v
<1>1. Len(s) \in Nat /\ a \in Nat \ {0} /\ k \in Nat /\ j \in Nat /\ a - 1 <= k /\ k <= j /\ j <= Len(s)
  BY TextIs
<1>2. /\ u \in Seq(Range(s)) /\ Len(u) = k - a + 1
      /\ \A i \in 1 .. k - a + 1 : u[i] = s[a + i - 1]
  BY PartOf
<1>3. /\ v \in Seq(Range(s)) /\ Len(v) = j - k
      /\ \A i \in 1 .. j - k : v[i] = s[k + i]
  <2>1. k + 1 \in 1 .. Len(s) + 1 /\ j \in (k + 1) - 1 .. Len(s)
    BY <1>1
  <2>2. /\ v \in Seq(Range(s)) /\ Len(v) = j - (k + 1) + 1
        /\ \A i \in 1 .. j - (k + 1) + 1 : v[i] = s[(k + 1) + i - 1]
    BY <2>1, PartOf
  <2> HIDE DEF v
  <2>3. j - (k + 1) + 1 = j - k
    BY <1>1
  <2>4. \A i \in 1 .. j - k : (k + 1) + i - 1 = k + i
    BY <1>1
  <2> QED BY <2>2, <2>3, <2>4
<1>4. /\ w \in Seq(Range(s)) /\ Len(w) = j - a + 1
      /\ \A i \in 1 .. j - a + 1 : w[i] = s[a + i - 1]
  <2>1. j \in a - 1 .. Len(s)
    BY <1>1
  <2> QED BY <2>1, PartOf
<1> HIDE DEF u, v, w
<1>5. /\ t \in Seq(Range(s)) /\ Len(t) = Len(u) + Len(v)
      /\ \A i \in 1 .. Len(u) + Len(v) : t[i] = IF i <= Len(u) THEN u[i] ELSE v[i - Len(u)]
  BY <1>2, <1>3, ConcatProperties
<1> HIDE DEF t
<1>6. Len(t) = Len(w)
  BY <1>1, <1>2, <1>3, <1>4, <1>5
<1>7. ASSUME NEW i \in 1 .. Len(t) PROVE t[i] = w[i]
  <2>1. i \in 1 .. j - a + 1 /\ i \in 1 .. Len(u) + Len(v)
    BY <1>4, <1>5, <1>6, <1>7
  <2>2. CASE i <= k - a + 1
    <3>1. i \in 1 .. k - a + 1
      BY <1>1, <2>1, <2>2
    <3> QED BY <1>2, <1>4, <1>5, <2>1, <2>2, <3>1
  <2>3. CASE ~ (i <= k - a + 1)
    <3>1. i - (k - a + 1) \in 1 .. j - k /\ k + (i - (k - a + 1)) = a + i - 1
      BY <1>1, <2>1, <2>3
    <3>2. v[i - (k - a + 1)] = s[a + i - 1]
      BY <1>3, <3>1
    <3> QED BY <1>2, <1>4, <1>5, <2>1, <2>3, <3>2
  <2> QED BY <2>2, <2>3
<1> QED BY <1>4, <1>5, <1>6, <1>7, SeqEqual DEF t, u, v, w

LEMMA PartOfPart ==
  ASSUME NEW s, IsText(s), NEW j \in 0 .. Len(s), NEW a \in 1 .. j + 1, NEW b \in a - 1 .. j
  PROVE  SubSeq(SubSeq(s, 1, j), a, b) = SubSeq(s, a, b)
<1> DEFINE t == SubSeq(s, 1, j)
           u == SubSeq(t, a, b)
           w == SubSeq(s, a, b)
<1>1. Len(s) \in Nat /\ j \in Nat /\ j <= Len(s) /\ a \in Nat \ {0} /\ a <= j + 1 /\ b \in Nat
      /\ a - 1 <= b /\ b <= j
  BY TextIs
<1>2. /\ t \in Seq(Range(s)) /\ IsText(t) /\ Len(t) = j /\ \A i \in 1 .. j : t[i] = s[i] /\ t[i] \in Range(s)
  <2>1. 1 \in 1 .. Len(s) + 1 /\ j \in 1 - 1 .. Len(s) /\ j - 1 + 1 = j
    BY <1>1
  <2>2. /\ t \in Seq(Range(s)) /\ IsText(t) /\ Len(t) = j - 1 + 1
        /\ \A i \in 1 .. j - 1 + 1 : t[i] = s[1 + i - 1]
    BY <2>1, PartOf
  <2> HIDE DEF t
  <2>3. \A i \in 1 .. j : 1 + i - 1 = i /\ s[i] \in Range(s)
    BY <1>1, TextIs
  <2> QED BY <2>1, <2>2, <2>3
<1> HIDE DEF t
<1>3. /\ IsText(u) /\ Len(u) = b - a + 1 /\ \A i \in 1 .. b - a + 1 : u[i] = t[a + i - 1]
  <2>1. a \in 1 .. Len(t) + 1 /\ b \in a - 1 .. Len(t)
    BY <1>1, <1>2
  <2> QED BY <1>2, <2>1, PartOf
<1>4. /\ w \in Seq(Range(s)) /\ Len(w) = b - a + 1 /\ \A i \in 1 .. b - a + 1 : w[i] = s[a + i - 1]
  <2>1. a \in 1 .. Len(s) + 1 /\ b \in a - 1 .. Len(s)
    BY <1>1
  <2> QED BY <2>1, PartOf
<1> HIDE DEF u, w
<1>5. ASSUME NEW i \in 1 .. Len(u) PROVE u[i] = w[i]
  <2>1. i \in 1 .. b - a + 1 /\ a + i - 1 \in 1 .. j
    BY <1>1, <1>3
  <2> QED BY <1>2, <1>3, <1>4, <2>1
<1>6. u \in Seq(Range(u))
  BY <1>3 DEF IsText
<1> QED BY <1>3, <1>4, <1>5, <1>6, SeqEqual DEF t, u, w

LEMMA WholeText ==
  ASSUME NEW s, IsText(s)
  PROVE  SubSeq(s, 1, Len(s)) = s
<1> DEFINE t == SubSeq(s, 1, Len(s))
<1>1. Len(s) \in Nat /\ s \in Seq(Range(s))
  BY TextIs
<1>2. 1 \in 1 .. Len(s) + 1 /\ Len(s) \in 1 - 1 .. Len(s) /\ Len(s) - 1 + 1 = Len(s)
      /\ \A i \in 1 .. Len(s) : 1 + i - 1 = i
  BY <1>1
<1>3. t \in Seq(Range(s)) /\ Len(t) = Len(s) - 1 + 1 /\ \A i \in 1 .. Len(s) - 1 + 1 : t[i] = s[1 + i - 1]
  BY <1>2, PartOf
<1> HIDE DEF t
<1> QED BY <1>1, <1>2, <1>3, SeqEqual DEF t

LEMMA PartsOfTail ==
  ASSUME NEW s, IsText(s), NEW k \in 0 .. Len(s), NEW f \in 0 .. Len(s) - k
  PROVE  LET t == SubSeq(s, k + 1, Len(s))
         IN  /\ IsText(t) /\ Len(t) = Len(s) - k
             /\ SubSeq(t, 1, f) = SubSeq(s, k + 1, k + f)
             /\ SubSeq(t, f + 1, Len(t)) = SubSeq(s, k + f + 1, Len(s))
<1> DEFINE n == Len(s)
           t == SubSeq(s, k + 1, n)
<1>1. n \in Nat /\ k \in Nat /\ f \in Nat /\ k + f <= n /\ k + 1 \in 1 .. n + 1 /\ n \in (k + 1) - 1 .. n
      /\ n - (k + 1) + 1 = n - k /\ n - k \in Nat
  BY TextIs
<1>2. /\ t \in Seq(Range(s)) /\ IsText(t) /\ Len(t) = n - k
      /\ \A i \in 1 .. n - k : t[i] = s[k + i]
  <2>1. /\ t \in Seq(Range(s)) /\ IsText(t) /\ Len(t) = n - (k + 1) + 1
        /\ \A i \in 1 .. n - (k + 1) + 1 : t[i] = s[(k + 1) + i - 1]
    BY <1>1, PartOf
  <2>2. \A i \in 1 .. n - k : (k + 1) + i - 1 = k + i
    BY <1>1
  <2> HIDE DEF t, n
  <2> QED BY <1>1, <2>1, <2>2
<1> HIDE DEF t
<1>3. ASSUME NEW a \in 1 .. n - k + 1, NEW b \in a - 1 .. n - k
      PROVE  SubSeq(t, a, b) = SubSeq(s, k + a, k + b)
  <2> DEFINE u == SubSeq(t, a, b)
             w == SubSeq(s, k + a, k + b)
  <2>1. /\ IsText(u) /\ Len(u) = b - a + 1 /\ \A i \in 1 .. b - a + 1 : u[i] = t[a + i - 1]
    <3>1. a \in 1 .. Len(t) + 1 /\ b \in a - 1 .. Len(t)
      BY <1>2
    <3> QED BY <1>2, <3>1, PartOf
  <2>2. /\ w \in Seq(Range(s)) /\ Len(w) = b - a + 1
        /\ \A i \in 1 .. b - a + 1 : w[i] = s[k + (a + i - 1)]
    <3>1. k + a \in 1 .. Len(s) + 1 /\ k + b \in (k + a) - 1 .. Len(s)
          /\ (k + b) - (k + a) + 1 = b - a + 1
      <4> HIDE DEF t
      <4> QED BY <1>1
    <3>2. /\ w \in Seq(Range(s)) /\ Len(w) = (k + b) - (k + a) + 1
          /\ \A i \in 1 .. (k + b) - (k + a) + 1 : w[i] = s[(k + a) + i - 1]
      BY <3>1, PartOf
    <3>3. \A i \in 1 .. b - a + 1 : (k + a) + i - 1 = k + (a + i - 1)
      BY <1>1
    <3> HIDE DEF w
    <3> QED BY <3>1, <3>2, <3>3
  <2> HIDE DEF u, w
  <2>3. ASSUME NEW i \in 1 .. Len(u) PROVE u[i] = w[i]
    <3>1. i \in 1 .. b - a + 1 /\ a + i - 1 \in 1 .. n - k
      <4> HIDE DEF n
      <4> QED BY <1>1, <2>1
    <3> QED BY <1>2, <2>1, <2>2, <3>1
  <2>4. u \in Seq(Range(u) \cup Range(s)) /\ w \in Seq(Range(u) \cup Range(s))
    BY <2>1, <2>2, SeqMonotonic DEF IsText
  <2> QED BY <2>1, <2>2, <2>3, <2>4, SeqEqual DEF u, w
<1>4. SubSeq(t, 1, f) = SubSeq(s, k + 1, k + f)
  <2>1. 1 \in 1 .. n - k + 1 /\ f \in 1 - 1 .. n - k
    <3> HIDE DEF n
    <3> QED BY <1>1
  <2> QED BY <1>3, <2>1
<1>5. SubSeq(t, f + 1, n - k) = SubSeq(s, k + f + 1, n)
  <2> DEFINE a == f + 1
             b == n - k
  <2>1. a \in 1 .. n - k + 1 /\ b \in a - 1 .. n - k /\ k + a = k + f + 1 /\ k + b = n
    <3> HIDE DEF n
    <3> QED BY <1>1
  <2> HIDE DEF a, b, n
  <2>2. SubSeq(t, a, b) = SubSeq(s, k + a, k + b)
    BY <1>3, <2>1
  <2> QED BY <2>1, <2>2 DEF a, b
<1> QED BY <1>2, <1>4, <1>5 DEF t
=============================================================================
