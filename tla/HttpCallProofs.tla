--------------------------- MODULE HttpCallProofs ---------------------------
(***************************************************************************)
(* For every server, every sequence of calls and every way to cut their    *)
(* bytes: what is stored of a packet stays below the server's limit, and a *)
(* method only runs that may. For a client that keeps no connection: what  *)
(* a call returns is the response to its request, what it throws has its   *)
(* cause in the call, and methods run as its calls asked, each once.       *)
(***************************************************************************)
EXTENDS HttpCall, DataLemmas, FiniteSetTheorems

-----------------------------------------------------------------------------
(* Base64: what is encoded in one line is decoded again.                   *)

LEMMA LeastIs ==
  ASSUME NEW S \in SUBSET Nat, S # {}
  PROVE  Min(S) \in S /\ \A i \in S : Min(S) <= i
BY LeastExists DEF Min

(* The first i of the n sequences are put together to G[i].                *)
Together(seqs, G, n) == G = [i \in 1 .. n |-> IF i = 1 THEN seqs[i] ELSE G[i - 1] \o seqs[i]]

(* FlattenSeq goes through the sequences one by one.                       *)
LEMMA Flattened ==
  ASSUME NEW seqs, NEW n \in Nat \ {0}, Len(seqs) = n, NEW G,
         Together(seqs, G, n)
  PROVE  FlattenSeq(seqs) = G[n]
<1> DEFINE Is(F) == F = [i \in 1 .. n |-> IF i = 1 THEN seqs[i] ELSE F[i - 1] \o seqs[i]]
           H == CHOOSE F : Is(F)
           bad == {i \in 1 .. n : H[i] # G[i]}
<1>1. FlattenSeq(seqs) = H[n]
  BY DEF FlattenSeq
<1>2. Is(G)
  BY DEF Together
<1>3. Is(H)
  <2> HIDE DEF Is
  <2> QED BY <1>2
<1>4. ASSUME NEW F, Is(F), NEW i \in 1 .. n
      PROVE  F[i] = IF i = 1 THEN seqs[i] ELSE F[i - 1] \o seqs[i]
  <2> HIDE DEF H
  <2>1. F = [j \in 1 .. n |-> IF j = 1 THEN seqs[j] ELSE F[j - 1] \o seqs[j]]
    BY <1>4
  <2> DEFINE val(j) == IF j = 1 THEN seqs[j] ELSE F[j - 1] \o seqs[j]
  <2>2. F = [j \in 1 .. n |-> val(j)]
    BY <2>1
  <2> HIDE DEF val
  <2>3. F[i] = val(i)
    BY <2>2
  <2> QED BY <2>3 DEF val
<1>5. bad = {}
  <2> SUFFICES ASSUME bad # {} PROVE FALSE
    OBVIOUS
  <2> HIDE DEF H
  <2>1. bad \subseteq Nat
    OBVIOUS
  <2>2. PICK i \in bad : \A j \in bad : i <= j
    <3> HIDE DEF bad
    <3> QED BY <2>1, LeastExists
  <2> HIDE DEF Is
  <2>3. i \in 1 .. n /\ H[i] # G[i]
    OBVIOUS
  <2>a. H[i] = IF i = 1 THEN seqs[i] ELSE H[i - 1] \o seqs[i]
    BY <1>3, <1>4, <2>3
  <2>b. G[i] = IF i = 1 THEN seqs[i] ELSE G[i - 1] \o seqs[i]
    BY <1>2, <1>4, <2>3
  <2>c. i # 1
    BY <2>3, <2>a, <2>b
  <2>4. i - 1 \in 1 .. n /\ ~ (i <= i - 1)
    BY <2>3, <2>c
  <2>5. H[i - 1] = G[i - 1]
    BY <2>2, <2>4
  <2> QED BY <2>3, <2>a, <2>b, <2>c, <2>5
<1> QED
  <2> HIDE DEF H
  <2>1. n \in 1 .. n
    OBVIOUS
  <2> QED BY <1>1, <1>5, <2>1

LEMMA MostIs ==
  ASSUME NEW k \in Nat, NEW t \in SUBSET (1 .. k), t # {}
  PROVE  /\ Max(t) \in t /\ \A i \in t : i <= Max(t)
         /\ \A m \in t : (\A i \in t : i <= m) => Max(t) = m
<1>1. t \subseteq Nat /\ \A i \in t : i <= k
  OBVIOUS
<1>2. \E m \in t : \A i \in t : i <= m
  BY <1>1, GreatestExists
<1>3. Max(t) = CHOOSE m \in t : \A i \in t : m >= i
  BY DEF Max
<1>4. \E m \in t : \A i \in t : m >= i
  BY <1>1, <1>2
<1>5. Max(t) \in t /\ \A i \in t : Max(t) >= i
  BY <1>3, <1>4
<1>6. ASSUME NEW m \in t, \A i \in t : i <= m PROVE Max(t) = m
  <2>1. Max(t) <= m /\ Max(t) >= m /\ m \in Nat /\ Max(t) \in Nat
    BY <1>1, <1>5, <1>6
  <2> QED BY <2>1
<1> QED BY <1>1, <1>5, <1>6

(* The characters of s are added one by one.                               *)
Below(k) == SUBSET (1 .. k)
Grown(s, F, t) == IF t = {} THEN <<>> ELSE add_base64_char(F[t \ {Max(t)}], s[Max(t)])
Adding(s, F, S) == F = [t \in S |-> Grown(s, F, t)]

LEMMA AddingIs ==
  ASSUME NEW s, NEW S, NEW F, Adding(s, F, S), NEW t \in S
  PROVE  F[t] = Grown(s, F, t)
  BY DEF Adding

LEMMA OneAdded ==
  ASSUME NEW s, NEW k \in Nat, NEW F, Adding(s, F, Below(k))
  PROVE  \E G : Adding(s, G, Below(k + 1))
<1> DEFINE n == k + 1
           G == [t \in SUBSET (1 .. n) |->
                   IF n \in t THEN add_base64_char(F[t \ {n}], s[n]) ELSE F[t]]
<1>1. n \in Nat /\ 1 .. n = (1 .. k) \cup {n} /\ n \notin 1 .. k
  OBVIOUS
<1> HIDE DEF n
<1>2. ASSUME NEW t \in SUBSET (1 .. k) PROVE t \in SUBSET (1 .. n) /\ G[t] = F[t]
  <2>1. t \in SUBSET (1 .. n) /\ n \notin t
    BY <1>1, <1>2
  <2> QED BY <2>1
<1>3. ASSUME NEW t \in SUBSET (1 .. n) PROVE G[t] = Grown(s, G, t)
  <2>1. CASE n \in t
    <3>1. \A i \in t : i <= n
      BY <1>1, <1>3
    <3>2. t # {} /\ Max(t) = n
      BY <1>1, <2>1, <3>1, MostIs
    <3>3. t \ {n} \in SUBSET (1 .. k)
      BY <1>1, <1>3
    <3>4. G[t] = add_base64_char(F[t \ {n}], s[n])
      BY <1>3, <2>1
    <3>5. G[t \ {n}] = F[t \ {n}]
      BY <1>2, <3>3
    <3> HIDE DEF G
    <3> QED BY <3>2, <3>4, <3>5 DEF Grown
  <2>2. CASE n \notin t
    <3>1. t \in SUBSET (1 .. k) /\ t \in Below(k)
      BY <1>1, <1>3, <2>2 DEF Below
    <3>2. G[t] = F[t]
      BY <1>2, <3>1
    <3>3. F[t] = Grown(s, F, t)
      BY <3>1, AddingIs
    <3>4. t \ {Max(t)} \in SUBSET (1 .. k)
      BY <3>1
    <3>5. G[t \ {Max(t)}] = F[t \ {Max(t)}]
      BY <1>2, <3>4
    <3> HIDE DEF G
    <3> QED BY <3>2, <3>3, <3>5 DEF Grown
  <2> QED BY <2>1, <2>2
<1>4. G = [t \in SUBSET (1 .. n) |-> Grown(s, G, t)]
  <2> DEFINE val(t) == Grown(s, G, t)
  <2> HIDE DEF val
  <2>1. \A t \in SUBSET (1 .. n) : G[t] = val(t)
    BY <1>3 DEF val
  <2>2. G = [t \in SUBSET (1 .. n) |-> val(t)]
    BY <2>1
  <2> QED BY <2>2 DEF val
<1>5. Adding(s, G, Below(n))
  <2> HIDE DEF G
  <2> QED BY <1>4 DEF Adding, Below
<1> HIDE DEF G
<1> QED BY <1>5 DEF n

LEMMA AllAdded ==
  ASSUME NEW s, NEW n \in Nat
  PROVE  \E F : Adding(s, F, Below(n))
<1> DEFINE bad == {k \in 0 .. n : ~ \E F : Adding(s, F, Below(k))}
<1> SUFFICES bad = {}
  OBVIOUS
<1>1. \E F : Adding(s, F, Below(0))
  <2> DEFINE F == [t \in SUBSET (1 .. 0) |-> <<>>]
  <2>1. 1 .. 0 = {}
    OBVIOUS
  <2>2. ASSUME NEW t \in SUBSET (1 .. 0) PROVE t = {}
    BY <2>1
  <2>3. Adding(s, F, Below(0))
    BY <2>2 DEF Adding, Below, Grown
  <2> QED BY <2>3
<1>2. SUFFICES ASSUME bad # {} PROVE FALSE
  OBVIOUS
<1>3. PICK k \in bad : \A j \in bad : k <= j
  <2>1. bad \subseteq Nat
    OBVIOUS
  <2> HIDE DEF bad
  <2> QED BY <1>2, <2>1, LeastExists
<1>4. k \in 0 .. n /\ k # 0 /\ ~ \E F : Adding(s, F, Below(k))
  BY <1>1
<1>5. k - 1 \in Nat /\ k - 1 \in 0 .. n /\ (k - 1) + 1 = k /\ ~ (k <= k - 1)
  BY <1>4
<1>6. PICK F : Adding(s, F, Below(k - 1))
  BY <1>3, <1>5
<1> DEFINE j == k - 1
<1>7. \E G : Adding(s, G, Below(j + 1))
  <2> HIDE DEF j
  <2>1. j \in Nat /\ Adding(s, F, Below(j))
    BY <1>5, <1>6 DEF j
  <2> QED BY <2>1, OneAdded
<1> QED BY <1>4, <1>5, <1>7

(* What the first k characters of s come to.                               *)
IsLined(s, k, v) ==
  IsText(v) /\ (v = SubSeq(s, 1, k) \/ (NewLine \in Range(v) /\ k > chars_in_line))

(* A line end is added when there is more than a line.                     *)
LEMMA LinesAdded ==
  ASSUME NEW s, IsText(s)
  PROVE  LET text == FoldLeft(add_base64_char, <<>>, s)
         IN  /\ IsText(text)
             /\ text = s \/ (NewLine \in Range(text) /\ Len(s) > chars_in_line)
<1> DEFINE n == Len(s)
           H == CHOOSE F : Adding(s, F, Below(n))
           text == FoldLeft(add_base64_char, <<>>, s)
           bad == {k \in 0 .. n : ~ IsLined(s, k, H[1 .. k])}
<1>1. n \in Nat /\ DOMAIN s = 1 .. n
  BY TextIs
<1>2. text = H[1 .. n]
  <2>1. text = H[DOMAIN s]
    BY <1>1 DEF FoldLeft, MapThenFoldSet, Adding, Below, Grown
  <2> QED BY <1>1, <2>1
<1> HIDE DEF n
<1>3. Adding(s, H, Below(n))
  <2>1. \E F : Adding(s, F, Below(n))
    BY <1>1, AllAdded
  <2> QED BY <2>1
<1> HIDE DEF H
<1>4. H[1 .. 0] = <<>> /\ \A k \in 1 .. n : H[1 .. k] = add_base64_char(H[1 .. k - 1], s[k])
  <2>1. 1 .. 0 \in Below(n) /\ 1 .. 0 = {}
    BY DEF Below
  <2>2. H[1 .. 0] = <<>>
    BY <1>3, <2>1, AddingIs DEF Grown
  <2>3. ASSUME NEW k \in 1 .. n PROVE H[1 .. k] = add_base64_char(H[1 .. k - 1], s[k])
    <3> DEFINE t == 1 .. k
    <3>1. /\ t \in Below(n) /\ t # {} /\ k \in t /\ k \in Nat /\ t \in SUBSET (1 .. k)
          /\ (\A i \in t : i <= k) /\ t \ {k} = 1 .. k - 1
      BY <1>1, <2>3 DEF Below
    <3> HIDE DEF t
    <3>2. Max(t) = k
      BY <3>1, MostIs
    <3>3. H[t] = Grown(s, H, t)
      BY <1>3, <3>1, AddingIs
    <3>4. H[t] = add_base64_char(H[t \ {k}], s[k])
      BY <3>1, <3>2, <3>3 DEF Grown
    <3> QED BY <3>1, <3>4 DEF t
  <2> QED BY <2>2, <2>3
<1>5. IsLined(s, 0, H[1 .. 0])
  <2>1. SubSeq(s, 1, 0) = <<>>
    BY <1>1, TextIs, SubSeqProperties
  <2> DEFINE none == H[1 .. 0]
  <2>2. none = <<>>
    BY <1>4
  <2> HIDE DEF none
  <2>3. IsLined(s, 0, none)
    BY <2>1, <2>2, EmptyText DEF IsLined
  <2> QED BY <2>3 DEF none
<1>6. ASSUME NEW k \in 1 .. n, IsLined(s, k - 1, H[1 .. k - 1]) PROVE IsLined(s, k, H[1 .. k])
  <2> DEFINE old == H[1 .. k - 1]
             new == H[1 .. k]
             full == old # <<>> /\ Len(old) % chars_in_line = 0
             lined == IF full THEN Append(old, NewLine) ELSE old
             before == SubSeq(s, 1, k - 1)
  <2>1. /\ IsText(old) /\ new = lined \o <<s[k]>>
        /\ old = before \/ (NewLine \in Range(old) /\ k - 1 > chars_in_line)
    <3>1. new = add_base64_char(old, s[k])
      BY <1>4
    <3> HIDE DEF old, new
    <3>2. new = lined \o <<s[k]>>
      BY <3>1 DEF add_base64_char
    <3>3. IsLined(s, k - 1, old)
      BY <1>6 DEF old
    <3> QED BY <3>2, <3>3 DEF IsLined
  <2>2. k \in Nat /\ k - 1 \in Nat /\ k >= 1 /\ k <= n
    BY <1>1
  <2>3. SubSeq(s, 1, k) = Append(before, s[k]) /\ Len(before) = k - 1 /\ IsText(before)
    <3>1. s \in Seq(Range(s)) /\ \A i \in 1 .. n : s[i] \in Range(s)
      BY <1>1, TextIs DEF n
    <3>2. SubSeq(s, 1, k) = Append(SubSeq(s, 1, k - 1), s[k])
      BY <1>1, <2>2, <3>1, PrefixesGrow DEF n
    <3>3. 1 \in 1 .. Len(s) + 1 /\ k - 1 \in 1 - 1 .. Len(s)
      BY <2>2 DEF n
    <3>4. IsText(SubSeq(s, 1, k - 1)) /\ Len(SubSeq(s, 1, k - 1)) = (k - 1) - 1 + 1
      BY <3>3, TextWithin
    <3> QED BY <2>2, <3>2, <3>4
  <2> HIDE DEF old, new, before
  <2>4. /\ IsText(lined) /\ (full => NewLine \in Range(lined))
    <3> DEFINE t == Append(old, NewLine)
    <3>1. IsText(t) /\ DOMAIN t = 1 .. Len(old) + 1 /\ t[Len(old) + 1] = NewLine /\ Len(old) \in Nat
      BY <2>1, TextAppended, TextIs
    <3> HIDE DEF t
    <3>2. Len(old) + 1 \in DOMAIN t
      BY <3>1
    <3>3. NewLine \in Range(t)
      BY <3>1, <3>2 DEF Range
    <3> QED BY <2>1, <3>1, <3>3 DEF t
  <2>5. ~full => lined = old
    OBVIOUS
  <2>6. full /\ old = before => k > chars_in_line
    <3> DEFINE m == Len(old)
    <3>1. SUFFICES ASSUME full, old = before PROVE k > chars_in_line
      OBVIOUS
    <3>2. m = k - 1 /\ m # 0 /\ m % chars_in_line = 0
      BY <2>2, <2>3, <3>1, EmptySeq DEF IsText
    <3> HIDE DEF m
    <3>3. m \in Nat \ {0} /\ chars_in_line \in Nat \ {0}
      BY <2>2, <3>2, LineAssumption
    <3>4. ~ (m < chars_in_line)
      BY <3>2, <3>3
    <3> QED BY <2>2, <3>2, <3>3, <3>4
  <2> HIDE DEF lined
  <2>7. new = Append(lined, s[k])
    BY <2>1, <2>4 DEF IsText
  <2>8. IsText(new) /\ (NewLine \in Range(lined) => NewLine \in Range(new))
    <3> DEFINE t == Append(lined, s[k])
    <3>1. /\ IsText(t) /\ DOMAIN t = 1 .. Len(lined) + 1 /\ Len(lined) \in Nat
          /\ DOMAIN lined = 1 .. Len(lined)
          /\ \A i \in 1 .. Len(lined) : t[i] = lined[i]
      BY <2>4, TextAppended, TextIs
    <3> HIDE DEF t
    <3>2. NewLine \in Range(lined) => NewLine \in Range(t)
      BY <3>1 DEF Range
    <3> QED BY <2>7, <3>1, <3>2 DEF t
  <2>9. new = SubSeq(s, 1, k) \/ (NewLine \in Range(new) /\ k > chars_in_line) => IsLined(s, k, H[1 .. k])
    BY <2>8 DEF new, IsLined
  <2> HIDE DEF full
  <2>10. CASE full
    <3>1. NewLine \in Range(new)
      BY <2>4, <2>8, <2>10
    <3>2. k > chars_in_line
      BY <2>1, <2>2, <2>6, <2>10, LineAssumption
    <3> QED BY <2>8, <2>9, <3>1, <3>2
  <2>11. CASE ~full
    <3>1. CASE old = before
      <4>1. lined = before
        BY <2>5, <2>11, <3>1
      <4>2. new = SubSeq(s, 1, k)
        BY <2>3, <2>7, <4>1
      <4> QED BY <2>9, <4>2
    <3>2. CASE old # before
      <4>1. NewLine \in Range(new)
        BY <2>1, <2>5, <2>8, <2>11, <3>2
      <4>2. k > chars_in_line
        BY <2>1, <2>2, <3>2, LineAssumption
      <4> QED BY <2>8, <2>9, <4>1, <4>2
    <3> QED BY <3>1, <3>2
  <2> QED BY <2>10, <2>11
<1>7. bad = {}
  <2> SUFFICES ASSUME bad # {} PROVE FALSE
    OBVIOUS
  <2>1. bad \subseteq Nat
    OBVIOUS
  <2>2. PICK k \in bad : \A j \in bad : k <= j
    <3> HIDE DEF bad
    <3> QED BY <2>1, LeastExists
  <2>3. k \in 0 .. n /\ ~ IsLined(s, k, H[1 .. k]) /\ k # 0
    BY <1>5
  <2>4. k - 1 \in 0 .. n /\ ~ (k <= k - 1) /\ k \in 1 .. n
    BY <1>1, <2>3
  <2>5. IsLined(s, k - 1, H[1 .. k - 1])
    BY <2>2, <2>4
  <2> QED BY <1>6, <2>3, <2>4, <2>5
<1>8. IsLined(s, n, H[1 .. n])
  <2>1. n \in 0 .. n
    BY <1>1
  <2> QED BY <1>7, <2>1
<1>9. SubSeq(s, 1, n) = s
  BY <1>1, TextIs, SubSeqFull DEF n
<1> HIDE DEF text
<1>10. IsLined(s, n, text)
  BY <1>2, <1>8
<1> QED BY <1>9, <1>10 DEF n, IsLined, text

Sextet == 0 .. 63

LEMMA Quarters ==
  ASSUME NEW a \in Byte, NEW b \in Byte, NEW c \in Byte,
         NEW p, p = a \div 4, NEW q, q = (a % 4) * 16 + b \div 16,
         NEW r, r = (b % 16) * 4 + c \div 64, NEW t, t = c % 64
  PROVE  /\ p \in Sextet /\ q \in Sextet /\ r \in Sextet /\ t \in Sextet
         /\ p * 4 + q \div 16 = a /\ (q % 16) * 16 + r \div 4 = b /\ (r % 4) * 64 + t = c
<1> DEFINE a2 == a % 4  b1 == b \div 16  b2 == b % 16  c1 == c \div 64
<1>1. /\ p \in 0 .. 63 /\ a2 \in 0 .. 3 /\ a = 4 * p + a2
      /\ b1 \in 0 .. 15 /\ b2 \in 0 .. 15 /\ b = 16 * b1 + b2
      /\ c1 \in 0 .. 3 /\ t \in 0 .. 63 /\ c = 64 * c1 + t
  BY DEF Byte
<1>2. q = a2 * 16 + b1 /\ r = b2 * 4 + c1
  OBVIOUS
<1> HIDE DEF a2, b1, b2, c1
<1>3. q \div 16 = a2 /\ q % 16 = b1
  BY <1>1, <1>2
<1>4. r \div 4 = b2 /\ r % 4 = c1
  BY <1>1, <1>2
<1>5. q \in Sextet /\ r \in Sextet /\ p \in Sextet /\ t \in Sextet
  BY <1>1, <1>2 DEF Sextet
<1>6. p * 4 + a2 = a /\ b1 * 16 + b2 = b /\ c1 * 64 + t = c
  BY <1>1
<1> QED BY <1>3, <1>4, <1>5, <1>6

(* The four characters for three bytes give these back.                    *)
LEMMA FourIs ==
  ASSUME NEW a \in Byte, NEW b \in Byte, NEW c \in Byte
  PROVE  LET four == sextets(a, b, c)
         IN  /\ Len(four) = 4 /\ DOMAIN four = 1 .. 4 /\ \A r \in 1 .. 4 : four[r] \in Sextet
             /\ four[1] * 4 + four[2] \div 16 = a
             /\ (four[2] % 16) * 16 + four[3] \div 4 = b
             /\ (four[3] % 4) * 64 + four[4] = c
<1> DEFINE p == a \div 4
           q == (a % 4) * 16 + b \div 16
           r == (b % 16) * 4 + c \div 64
           t == c % 64
           four == sextets(a, b, c)
<1>1. /\ p \in Sextet /\ q \in Sextet /\ r \in Sextet /\ t \in Sextet
      /\ p * 4 + q \div 16 = a /\ (q % 16) * 16 + r \div 4 = b /\ (r % 4) * 64 + t = c
  <2>1. p = a \div 4 /\ q = (a % 4) * 16 + b \div 16 /\ r = (b % 16) * 4 + c \div 64 /\ t = c % 64
    OBVIOUS
  <2> HIDE DEF p, q, r, t
  <2> QED BY <2>1, Quarters
<1>2. four = <<p, q, r, t>>
  BY DEF sextets
<1> HIDE DEF p, q, r, t, four
<1>3. four[1] = p /\ four[2] = q /\ four[3] = r /\ four[4] = t /\ Len(four) = 4 /\ DOMAIN four = 1 .. 4
  BY <1>2
<1>4. \A i \in 1 .. 4 : four[i] \in Sextet
  <2> SUFFICES ASSUME NEW i \in 1 .. 4 PROVE four[i] \in Sextet
    OBVIOUS
  <2>1. i = 1 \/ i = 2 \/ i = 3 \/ i = 4
    OBVIOUS
  <2> QED BY <1>1, <1>3, <2>1
<1> QED BY <1>1, <1>3, <1>4 DEF four

(* Where the j-th character of groups of four is.                          *)
LEMMA Fours ==
  ASSUME NEW j \in Nat \ {0}, NEW i \in Nat \ {0}
  PROVE  /\ (j - 1) \div 4 + 1 \in Nat /\ ((j - 1) % 4) + 1 \in 1 .. 4
         /\ j <= 4 * i => (j - 1) \div 4 + 1 \in 1 .. i
         /\ j > 4 * (i - 1) /\ j <= 4 * i =>
              (j - 1) \div 4 + 1 = i /\ ((j - 1) % 4) + 1 = j - 4 * (i - 1)
  OBVIOUS

LEMMA GroupsOfFour ==
  ASSUME NEW seqs, NEW n \in Nat \ {0}, Len(seqs) = n, NEW S,
         \A i \in 1 .. n : seqs[i] \in Seq(S) /\ Len(seqs[i]) = 4
  PROVE  FlattenSeq(seqs) = [j \in 1 .. 4 * n |-> seqs[(j - 1) \div 4 + 1][((j - 1) % 4) + 1]]
<1> DEFINE cell(j) == seqs[(j - 1) \div 4 + 1][((j - 1) % 4) + 1]
           G == [i \in 1 .. n |-> [j \in 1 .. 4 * i |-> cell(j)]]
<1>1. ASSUME NEW j \in Nat \ {0}, j <= 4 * n PROVE cell(j) \in S
  <2> DEFINE g == (j - 1) \div 4 + 1
             r == ((j - 1) % 4) + 1
  <2>1. g \in 1 .. n /\ r \in 1 .. 4
    BY <1>1, Fours
  <2> HIDE DEF g, r
  <2>2. seqs[g][r] \in S
    BY <2>1, ElementOfSeq
  <2> QED BY <2>2 DEF g, r
<1>2. ASSUME NEW i \in 1 .. n
      PROVE  /\ G[i] \in Seq(S) /\ Len(G[i]) = 4 * i /\ G[i] = [j \in 1 .. 4 * i |-> cell(j)]
  <2> HIDE DEF cell
  <2>1. G[i] = [j \in 1 .. 4 * i |-> cell(j)]
    OBVIOUS
  <2>2. \A j \in 1 .. 4 * i : cell(j) \in S
    <3> SUFFICES ASSUME NEW j \in 1 .. 4 * i PROVE cell(j) \in S
      OBVIOUS
    <3>1. j \in Nat \ {0} /\ j <= 4 * n
      OBVIOUS
    <3> QED BY <1>1, <3>1
  <2> QED BY <2>1, <2>2
<1>3. ASSUME NEW i \in 1 .. n
      PROVE  G[i] = IF i = 1 THEN seqs[i] ELSE G[i - 1] \o seqs[i]
  <2> DEFINE new == G[i]
  <2>1. new \in Seq(S) /\ Len(new) = 4 * i /\ seqs[i] \in Seq(S) /\ Len(seqs[i]) = 4
    BY <1>2
  <2>2. ASSUME NEW j \in 1 .. 4 * i
        PROVE new[j] = IF j > 4 * (i - 1) THEN seqs[i][j - 4 * (i - 1)] ELSE cell(j)
    <3>1. new[j] = cell(j)
      <4> HIDE DEF cell
      <4> QED BY <1>2
    <3>2. j \in Nat \ {0} /\ i \in Nat \ {0} /\ j <= 4 * i
      OBVIOUS
    <3>3. j > 4 * (i - 1) => (j - 1) \div 4 + 1 = i /\ ((j - 1) % 4) + 1 = j - 4 * (i - 1)
      BY <3>2, Fours
    <3> HIDE DEF new
    <3> QED BY <3>1, <3>3
  <2> HIDE DEF cell
  <2>3. CASE i = 1
    <3>1. \A j \in 1 .. 4 : new[j] = seqs[i][j]
      <4> HIDE DEF new
      <4> QED BY <2>2, <2>3
    <3> HIDE DEF new
    <3>2. new = seqs[i]
      BY <2>1, <2>3, <3>1, SeqEqual
    <3> QED BY <2>3, <3>2 DEF new
  <2>4. CASE i # 1
    <3> DEFINE old == G[i - 1]
               last == seqs[i]
               joined == old \o last
    <3>1. i - 1 \in 1 .. n
      BY <2>4
    <3>2. old \in Seq(S) /\ Len(old) = 4 * (i - 1) /\ old = [j \in 1 .. 4 * (i - 1) |-> cell(j)]
      BY <1>2, <3>1
    <3> HIDE DEF new, old
    <3>a. last \in Seq(S) /\ Len(last) = 4
      BY <2>1
    <3> HIDE DEF last
    <3>3. /\ joined \in Seq(S) /\ Len(joined) = Len(old) + Len(last)
          /\ \A j \in 1 .. Len(old) + Len(last) :
               joined[j] = IF j <= Len(old) THEN old[j] ELSE last[j - Len(old)]
      <4>1. old \in Seq(S) /\ last \in Seq(S)
        BY <3>a, <3>2
      <4> QED BY <4>1, ConcatProperties
    <3> HIDE DEF joined
    <3>4. Len(joined) = Len(new)
      BY <2>1, <3>a, <3>2, <3>3
    <3>5. ASSUME NEW j \in 1 .. Len(new) PROVE new[j] = joined[j]
      <4>1. j \in 1 .. 4 * i /\ j \in 1 .. Len(old) + Len(last) /\ j \in Nat
        BY <2>1, <3>a, <3>2, <3>5
      <4>2. CASE j > 4 * (i - 1)
        BY <2>2, <3>2, <3>3, <4>1, <4>2 DEF last
      <4>3. CASE ~ (j > 4 * (i - 1))
        <5>1. j \in 1 .. 4 * (i - 1)
          BY <4>1, <4>3
        <5>2. old[j] = cell(j)
          BY <3>2, <5>1
        <5> QED BY <2>2, <3>2, <3>3, <4>1, <4>3, <5>1, <5>2
      <4> QED BY <4>2, <4>3
    <3>6. new = joined
      BY <2>1, <3>3, <3>4, <3>5, SeqEqual
    <3> QED BY <2>4, <3>6 DEF new, old, joined, last
  <2> QED BY <2>3, <2>4
<1> HIDE DEF cell, G
<1>4. G = [i \in 1 .. n |-> IF i = 1 THEN seqs[i] ELSE G[i - 1] \o seqs[i]]
  <2>1. DOMAIN G = 1 .. n /\ G = [i \in 1 .. n |-> G[i]]
    BY DEF G
  <2> QED BY <1>3, <2>1
<1>5. FlattenSeq(seqs) = G[n]
  <2>1. Together(seqs, G, n)
    BY <1>4 DEF Together
  <2> QED BY <2>1, Flattened
<1>6. G[n] = [j \in 1 .. 4 * n |-> cell(j)]
  <2>1. n \in 1 .. n
    OBVIOUS
  <2> QED BY <1>2, <2>1
<1> QED BY <1>5, <1>6 DEF cell

(* Groups of three bytes, and what the last one lacks.                     *)
LEMMA Thirds ==
  ASSUME NEW n \in Nat \ {0}, NEW N, N = (n + 2) \div 3, NEW m, m = (3 - (n % 3)) % 3
  PROVE  N \in Nat \ {0} /\ m \in 0 .. 2 /\ 3 * N = n + m
<1> DEFINE d == n \div 3  r == n % 3
<1>1. d \in Nat /\ r \in 0 .. 2 /\ n = 3 * d + r
  OBVIOUS
<1> HIDE DEF d
<1>2. m = (3 - r) % 3
  OBVIOUS
<1> HIDE DEF r
<1>3. CASE r = 0
  <2>1. m = 0 /\ N = d
    BY <1>1, <1>2, <1>3
  <2> QED BY <1>1, <1>3, <2>1
<1>4. CASE r = 1
  <2>1. m = 2 /\ N = d + 1
    BY <1>1, <1>2, <1>4
  <2> QED BY <1>1, <1>4, <2>1
<1>5. CASE r = 2
  <2>1. m = 1 /\ N = d + 1
    BY <1>1, <1>2, <1>5
  <2> QED BY <1>1, <1>5, <2>1
<1> QED BY <1>1, <1>3, <1>4, <1>5

(* The i-th byte, and the four characters of the g-th three.               *)
ByteOf(data, i) == IF i <= Len(data) THEN data[i] ELSE 0
Quad(data, g) == sextets(ByteOf(data, 3 * g - 2), ByteOf(data, 3 * g - 1), ByteOf(data, 3 * g))
Groups(data) == (Len(data) + 2) \div 3
Lacking(data) == (3 - (Len(data) % 3)) % 3

(* Base64 of one line: the characters of each three, with what is lacking  *)
(* padded.                                                                 *)
Whole(base64, data) ==
  /\ base64 \in Seq(0 .. Pad) /\ Len(base64) = 4 * Groups(data)
  /\ \A g \in 1 .. Groups(data) :
       /\ base64[4 * g - 3] = Quad(data, g)[1] /\ base64[4 * g - 2] = Quad(data, g)[2]
       /\ base64[4 * g - 1] = IF g = Groups(data) /\ Lacking(data) = 2 THEN Pad ELSE Quad(data, g)[3]
       /\ base64[4 * g] = IF g = Groups(data) /\ Lacking(data) >= 1 THEN Pad ELSE Quad(data, g)[4]

LEMMA GroupsAre ==
  ASSUME NEW data \in Seq(Byte), data # <<>>
  PROVE  /\ Len(data) \in Nat \ {0} /\ Groups(data) \in Nat \ {0} /\ Lacking(data) \in 0 .. 2
         /\ 3 * Groups(data) = Len(data) + Lacking(data)
<1>1. Len(data) \in Nat \ {0}
  OBVIOUS
<1> QED BY <1>1, Thirds DEF Groups, Lacking

LEMMA BytesAre ==
  ASSUME NEW data \in Seq(Byte), NEW i \in Nat \ {0}
  PROVE  ByteOf(data, i) \in Byte
<1>1. 0 \in Byte
  BY DEF Byte
<1>2. i <= Len(data) => data[i] \in Byte
  <2> HIDE DEF Byte
  <2> QED BY ElementOfSeq
<1> HIDE DEF Byte
<1> QED BY <1>1, <1>2 DEF ByteOf

LEMMA QuadIs ==
  ASSUME NEW data \in Seq(Byte), NEW g \in Nat \ {0}
  PROVE  LET four == Quad(data, g)
         IN  /\ four \in Seq(Sextet) /\ Len(four) = 4 /\ \A r \in 1 .. 4 : four[r] \in Sextet
             /\ four[1] * 4 + four[2] \div 16 = ByteOf(data, 3 * g - 2)
             /\ (four[2] % 16) * 16 + four[3] \div 4 = ByteOf(data, 3 * g - 1)
             /\ (four[3] % 4) * 64 + four[4] = ByteOf(data, 3 * g)
<1> DEFINE a == ByteOf(data, 3 * g - 2)  b == ByteOf(data, 3 * g - 1)  c == ByteOf(data, 3 * g)
           four == sextets(a, b, c)
<1>1. 3 * g - 2 \in Nat \ {0} /\ 3 * g - 1 \in Nat \ {0} /\ 3 * g \in Nat \ {0}
  OBVIOUS
<1>2. a \in Byte /\ b \in Byte /\ c \in Byte
  BY <1>1, BytesAre
<1> HIDE DEF a, b, c
<1>3. /\ Len(four) = 4 /\ DOMAIN four = 1 .. 4 /\ \A r \in 1 .. 4 : four[r] \in Sextet
      /\ four[1] * 4 + four[2] \div 16 = a
      /\ (four[2] % 16) * 16 + four[3] \div 4 = b
      /\ (four[3] % 4) * 64 + four[4] = c
  BY <1>2, FourIs
<1>4. four = [r \in 1 .. 4 |-> four[r]]
  BY DEF sextets
<1> HIDE DEF four
<1>5. four \in Seq(Sextet)
  BY <1>3, <1>4
<1>6. Quad(data, g) = four
  BY DEF Quad, four, a, b, c
<1> QED BY <1>3, <1>5, <1>6 DEF a, b, c

(* The characters of all the groups.                                       *)
CharsOf(data) == FlattenSeq([g \in 1 .. Groups(data) |-> Quad(data, g)])

LEMMA CharsAre ==
  ASSUME NEW data \in Seq(Byte), data # <<>>
  PROVE  /\ CharsOf(data) \in Seq(Sextet) /\ Len(CharsOf(data)) = 4 * Groups(data)
         /\ \A g \in 1 .. Groups(data) : \A r \in 1 .. 4 :
              CharsOf(data)[4 * g - 4 + r] = Quad(data, g)[r]
<1> DEFINE n == Groups(data)
           seqs == [g \in 1 .. n |-> Quad(data, g)]
           chars == FlattenSeq(seqs)
           cell(j) == seqs[(j - 1) \div 4 + 1][((j - 1) % 4) + 1]
<1>1. n \in Nat \ {0}
  BY GroupsAre
<1> HIDE DEF n
<1>2. /\ Len(seqs) = n
      /\ \A i \in 1 .. n : seqs[i] \in Seq(Sextet) /\ Len(seqs[i]) = 4 /\ seqs[i] = Quad(data, i)
  <2>1. Len(seqs) = n
    BY <1>1
  <2>2. ASSUME NEW i \in 1 .. n PROVE seqs[i] \in Seq(Sextet) /\ Len(seqs[i]) = 4 /\ seqs[i] = Quad(data, i)
    <3>1. seqs[i] = Quad(data, i) /\ i \in Nat \ {0}
      OBVIOUS
    <3>2. Quad(data, i) \in Seq(Sextet) /\ Len(Quad(data, i)) = 4
      BY <3>1, QuadIs
    <3> QED BY <3>1, <3>2
  <2> QED BY <2>1, <2>2
<1> HIDE DEF seqs
<1>3. chars = [j \in 1 .. 4 * n |-> cell(j)]
  <2>1. \A i \in 1 .. n : seqs[i] \in Seq(Sextet) /\ Len(seqs[i]) = 4
    BY <1>2
  <2>2. Len(seqs) = n
    BY <1>2
  <2> QED BY <1>1, <2>1, <2>2, GroupsOfFour, SMTT(30)
<1>4. ASSUME NEW j \in 1 .. 4 * n PROVE cell(j) \in Sextet
  <2> DEFINE g == (j - 1) \div 4 + 1
             r == ((j - 1) % 4) + 1
  <2>1. g \in 1 .. n /\ r \in 1 .. 4
    BY <1>1, Fours
  <2> HIDE DEF g, r
  <2>2. seqs[g][r] \in Sextet
    BY <1>2, <2>1, ElementOfSeq
  <2> QED BY <2>2 DEF g, r
<1>5. ASSUME NEW g \in 1 .. n, NEW r \in 1 .. 4
      PROVE  /\ cell(4 * g - 4 + r) = Quad(data, g)[r] /\ 4 * g - 4 + r \in 1 .. 4 * n
  <2> DEFINE j == 4 * g - 4 + r
  <2>1. /\ j \in Nat \ {0} /\ g \in Nat \ {0} /\ j > 4 * (g - 1) /\ j <= 4 * g
        /\ j - 4 * (g - 1) = r /\ j \in 1 .. 4 * n
    BY <1>1
  <2> HIDE DEF j
  <2>2. (j - 1) \div 4 + 1 = g /\ ((j - 1) % 4) + 1 = r
    BY <2>1, Fours
  <2>3. cell(j) = seqs[g][r]
    BY <2>2
  <2> QED BY <1>2, <2>1, <2>3 DEF j
<1> HIDE DEF cell, chars
<1>6. chars \in Seq(Sextet) /\ Len(chars) = 4 * n
  BY <1>1, <1>3, <1>4
<1>7. \A g \in 1 .. n : \A r \in 1 .. 4 : chars[4 * g - 4 + r] = Quad(data, g)[r]
  BY <1>3, <1>5
<1>8. CharsOf(data) = chars
  BY DEF CharsOf, chars, seqs, n
<1> QED BY <1>6, <1>7, <1>8 DEF n

LEMMA SeqOfMore ==
  ASSUME NEW S, NEW T, S \subseteq T, NEW s \in Seq(S)
  PROVE  s \in Seq(T)
OBVIOUS

LEMMA JoinedAt ==
  ASSUME NEW S, NEW s \in Seq(S), NEW t \in Seq(S)
  PROVE  /\ s \o t \in Seq(S) /\ Len(s \o t) = Len(s) + Len(t)
         /\ \A j \in 1 .. Len(s) : (s \o t)[j] = s[j]
         /\ \A j \in 1 .. Len(t) : (s \o t)[Len(s) + j] = t[j]
OBVIOUS

Pads(m) == [i \in 1 .. m |-> Pad]

(* Data are encoded in one line, unless they do not fit it.                *)
LEMMA EncodedIs ==
  ASSUME NEW data \in Seq(Byte), data # <<>>
  PROVE  \/ NewLine \in Range(encode(data)) /\ 4 * Groups(data) > chars_in_line
         \/ Whole(encode(data), data)
<1> DEFINE N == Groups(data)
           m == Lacking(data)
           chars == CharsOf(data)
           k == 4 * N - m
           s == SubSeq(chars, 1, k)
           text == FoldLeft(add_base64_char, <<>>, s)
           pads == Pads(m)
           base64 == text \o pads
<1>1. N \in Nat \ {0} /\ m \in 0 .. 2
  BY GroupsAre
<1>2. /\ chars \in Seq(Sextet) /\ Len(chars) = 4 * N
      /\ \A g \in 1 .. N : \A r \in 1 .. 4 : chars[4 * g - 4 + r] = Quad(data, g)[r]
  BY CharsAre
<1>3. encode(data) = base64
  <2>1. Len(chars) - Lacking(data) = k
    BY <1>2
  <2> HIDE DEF k
  <2>2. encode(data) = FoldLeft(add_base64_char, <<>>, SubSeq(chars, 1, Len(chars) - Lacking(data))) \o pads
    BY DEF encode, CharsOf, Quad, ByteOf, Groups, Lacking, Pads
  <2> QED BY <2>1, <2>2
<1>a. k \in 0 .. Len(chars) /\ k \in Nat /\ k <= 4 * N /\ k + m = 4 * N /\ k >= 4 * N - 2
  BY <1>1, <1>2
<1> HIDE DEF N, m, chars, k
<1>4. IsText(s) /\ Len(s) = k /\ \A j \in 1 .. k : s[j] = chars[j]
  <2>1. IsText(chars)
    BY <1>2, TextOf
  <2>2. /\ 1 \in 1 .. Len(chars) + 1 /\ k \in 1 - 1 .. Len(chars) /\ k - 1 + 1 = k
        /\ \A j \in 1 .. k : 1 + j - 1 = j
    BY <1>a, <1>1, <1>2
  <2>3. IsText(s) /\ Len(s) = k - 1 + 1 /\ \A j \in 1 .. k - 1 + 1 : s[j] = chars[1 + j - 1]
    BY <2>1, <2>2, PartOf
  <2> QED BY <2>2, <2>3
<1> HIDE DEF s
<1>5. IsText(text) /\ (text = s \/ (NewLine \in Range(text) /\ Len(s) > chars_in_line))
  BY <1>4, LinesAdded
<1>6. pads \in Seq(0 .. Pad) /\ Len(pads) = m /\ \A i \in 1 .. m : pads[i] = Pad
  BY <1>1 DEF Pads, Pad
<1> HIDE DEF text, pads
<1>7. CASE NewLine \in Range(text) /\ Len(s) > chars_in_line
  <2>1. NewLine \in Range(base64)
    <3>1. PICK i \in DOMAIN text : text[i] = NewLine
      BY <1>7 DEF Range
    <3>2. IsText(pads)
      BY <1>6, TextOf
    <3>3. DOMAIN text = 1 .. Len(text) /\ Len(text) \in Nat /\ Len(pads) \in Nat
      BY <1>5, <3>2, TextIs
    <3>4. text \in Seq(Range(text)) /\ pads \in Seq(Range(pads))
      BY <1>5, <3>2 DEF IsText
    <3>5. /\ Len(base64) = Len(text) + Len(pads) /\ base64[i] = text[i]
          /\ DOMAIN base64 = 1 .. Len(text) + Len(pads)
      <4>1. /\ base64 \in Seq(Range(text) \cup Range(pads)) /\ Len(base64) = Len(text) + Len(pads)
        BY <3>4
      <4>2. base64[i] = text[i]
        BY <3>1, <3>3, <3>4
      <4> QED BY <3>3, <4>1, <4>2
    <3>6. i \in DOMAIN base64
      BY <3>1, <3>3, <3>5
    <3> QED BY <3>1, <3>5, <3>6 DEF Range
  <2>2. 4 * N > chars_in_line
    BY <1>1, <1>a, <1>4, <1>7, LineAssumption
  <2> QED BY <1>3, <2>1, <2>2 DEF N
<1>8. CASE text = s
  <2>1. s \in Seq(Sextet)
    <3>1. s = [j \in 1 .. k |-> s[j]]
      BY <1>4, TextIs
    <3>2. ASSUME NEW j \in 1 .. k PROVE s[j] \in Sextet
      <4> HIDE DEF Sextet
      <4>1. j \in 1 .. Len(chars) /\ s[j] = chars[j] /\ chars \in Seq(Sextet)
        BY <1>a, <1>2, <1>4
      <4> QED BY <4>1, ElementOfSeq
    <3> QED BY <1>a, <3>1, <3>2
  <2>2. /\ base64 \in Seq(0 .. Pad) /\ Len(base64) = 4 * N
        /\ \A j \in 1 .. k : base64[j] = chars[j]
        /\ \A j \in 1 .. m : base64[k + j] = Pad
    <3>1. s \in Seq(0 .. Pad)
      <4>1. Sextet \subseteq 0 .. Pad
        BY DEF Sextet, Pad
      <4> HIDE DEF Sextet, Pad
      <4> QED BY <2>1, <4>1, SeqOfMore
    <3>2. base64 = s \o pads
      BY <1>8
    <3> HIDE DEF base64
    <3>3. /\ base64 \in Seq(0 .. Pad) /\ Len(base64) = Len(s) + Len(pads)
          /\ \A j \in 1 .. Len(s) : base64[j] = s[j]
          /\ \A j \in 1 .. Len(pads) : base64[Len(s) + j] = pads[j]
      <4>1. pads \in Seq(0 .. Pad)
        BY <1>6
      <4> HIDE DEF Pad
      <4> QED BY <3>1, <3>2, <4>1, JoinedAt
    <3> HIDE DEF Pad
    <3> QED BY <1>a, <1>4, <1>6, <3>3
  <2> HIDE DEF base64
  <2>3. ASSUME NEW g \in 1 .. N
        PROVE  /\ base64[4 * g - 3] = Quad(data, g)[1] /\ base64[4 * g - 2] = Quad(data, g)[2]
               /\ base64[4 * g - 1] = IF g = N /\ m = 2 THEN Pad ELSE Quad(data, g)[3]
               /\ base64[4 * g] = IF g = N /\ m >= 1 THEN Pad ELSE Quad(data, g)[4]
    <3>1. /\ chars[4 * g - 3] = Quad(data, g)[1] /\ chars[4 * g - 2] = Quad(data, g)[2]
          /\ chars[4 * g - 1] = Quad(data, g)[3] /\ chars[4 * g] = Quad(data, g)[4]
      <4>1. /\ 4 * g - 4 + 1 = 4 * g - 3 /\ 4 * g - 4 + 2 = 4 * g - 2 /\ 4 * g - 4 + 3 = 4 * g - 1
            /\ 4 * g - 4 + 4 = 4 * g
        BY <1>1
      <4>2. \A r \in 1 .. 4 : chars[4 * g - 4 + r] = Quad(data, g)[r]
        BY <1>2
      <4>3. 1 \in 1 .. 4 /\ 2 \in 1 .. 4 /\ 3 \in 1 .. 4 /\ 4 \in 1 .. 4
        OBVIOUS
      <4> QED BY <4>1, <4>2, <4>3
    <3>2. 4 * g - 3 \in 1 .. k /\ 4 * g - 2 \in 1 .. k
      BY <1>1, <1>a
    <3>3. ~(g = N /\ m = 2) => 4 * g - 1 \in 1 .. k
      BY <1>1, <1>a
    <3>4. ~(g = N /\ m >= 1) => 4 * g \in 1 .. k
      BY <1>1, <1>a
    <3>5. g = N /\ m = 2 => 4 * g - 1 = k + 1 /\ 1 \in 1 .. m
      BY <1>1, <1>a
    <3>6. g = N /\ m >= 1 => 4 * g = k + m /\ m \in 1 .. m
      BY <1>1, <1>a
    <3> QED BY <2>2, <3>1, <3>2, <3>3, <3>4, <3>5, <3>6
  <2> QED BY <1>3, <2>2, <2>3 DEF Whole, N, m
<1> QED BY <1>5, <1>7, <1>8

(* A text put together of its symbols.                                     *)
Singly(s) == [i \in DOMAIN s |-> IF s[i] = NewLine THEN <<>> ELSE <<s[i]>>]

LEMMA NoLineEnds ==
  ASSUME NEW s, IsText(s), s # <<>>, \A i \in DOMAIN s : s[i] # NewLine
  PROVE  FlattenSeq(Singly(s)) = s
<1> DEFINE n == Len(s)
           seqs == Singly(s)
           G == [i \in 1 .. n |-> SubSeq(s, 1, i)]
<1>1. n \in Nat \ {0} /\ DOMAIN s = 1 .. n /\ s \in Seq(Range(s))
  <2>1. n \in Nat /\ DOMAIN s = 1 .. n /\ s \in Seq(Range(s))
    BY TextIs
  <2>2. n # 0
    BY <2>1, EmptySeq
  <2> QED BY <2>1, <2>2
<1> HIDE DEF n
<1>2. ASSUME NEW i \in 1 .. n PROVE seqs[i] = <<s[i]>>
  BY <1>1 DEF Singly
<1>3. DOMAIN seqs = 1 .. n /\ Len(seqs) = n
  BY <1>1 DEF Singly
<1> HIDE DEF seqs
<1>4. ASSUME NEW i \in 1 .. n
      PROVE  G[i] = IF i = 1 THEN seqs[i] ELSE G[i - 1] \o seqs[i]
  <2>1. G[i] = Append(SubSeq(s, 1, i - 1), s[i])
    <3>1. i \in 1 .. Len(s)
      BY DEF n
    <3> QED BY <1>1, <3>1, PrefixesGrow
  <2>2. IsText(s) /\ i - 1 \in 0 .. Len(s) /\ 1 \in 1 .. Len(s) + 1 /\ i - 1 \in 1 - 1 .. Len(s)
    BY <1>1 DEF n
  <2>3. SubSeq(s, 1, i - 1) \in Seq(Range(s)) /\ Len(SubSeq(s, 1, i - 1)) = i - 1
    <3> DEFINE e == i - 1
    <3>1. e \in 1 - 1 .. Len(s) /\ e - 1 + 1 = e
      BY <2>2
    <3> HIDE DEF e
    <3>2. SubSeq(s, 1, e) \in Seq(Range(s)) /\ Len(SubSeq(s, 1, e)) = e - 1 + 1
      BY <2>2, <3>1, PartOf
    <3> QED BY <3>1, <3>2 DEF e
  <2> DEFINE old == SubSeq(s, 1, i - 1)
             e == s[i]
  <2>4. e \in Range(s)
    BY <1>1 DEF Range
  <2> HIDE DEF old, e
  <2>5. old \in Seq(Range(s)) /\ Len(old) = i - 1
    BY <2>3 DEF old
  <2>6. Append(old, e) = old \o <<e>>
    BY <2>4, <2>5
  <2>7. CASE i = 1
    <3>1. old = <<>>
      BY <2>5, <2>7, EmptySeq
    <3>2. Append(old, e) = <<e>>
      BY <3>1
    <3> QED BY <1>2, <2>1, <2>7, <3>2 DEF old, e
  <2>8. CASE i # 1
    <3>1. G[i - 1] = old
      <4>1. i - 1 \in 1 .. n
        BY <2>8, <1>1
      <4> QED BY <4>1 DEF old
    <3> QED BY <1>2, <2>1, <2>6, <2>8, <3>1 DEF old, e
  <2> QED BY <2>7, <2>8
<1> HIDE DEF G
<1>5. G = [i \in 1 .. n |-> IF i = 1 THEN seqs[i] ELSE G[i - 1] \o seqs[i]]
  <2>1. DOMAIN G = 1 .. n /\ G = [i \in 1 .. n |-> G[i]]
    BY DEF G
  <2> QED BY <1>4, <2>1
<1>6. FlattenSeq(seqs) = G[n]
  <2>1. Together(seqs, G, n)
    BY <1>5 DEF Together
  <2> QED BY <1>1, <1>3, <2>1, Flattened
<1>7. G[n] = s
  <2>1. n \in 1 .. n
    BY <1>1
  <2> QED BY <2>1, WholeText DEF G, n
<1> QED BY <1>6, <1>7 DEF seqs

(* Groups of three: the last may have less.                                *)
Ending(data, g) == IF g = Groups(data) THEN Len(data) ELSE 3 * g

LEMMA ThreesJoined ==
  ASSUME NEW data \in Seq(Byte), data # <<>>, NEW parts, Len(parts) = Groups(data),
         \A g \in 1 .. Groups(data) : parts[g] = SubSeq(data, 3 * g - 2, Ending(data, g))
  PROVE  FlattenSeq(parts) = data
<1> DEFINE n == Groups(data)
           G == [g \in 1 .. n |-> SubSeq(data, 1, Ending(data, g))]
<1>1. /\ n \in Nat \ {0} /\ Len(data) \in Nat \ {0} /\ Lacking(data) \in 0 .. 2
      /\ 3 * n = Len(data) + Lacking(data)
  BY GroupsAre
<1>2. IsText(data)
  BY TextOf
<1> HIDE DEF n
<1>3. ASSUME NEW g \in 1 .. n PROVE Ending(data, g) \in 3 * g - 2 .. Len(data)
  BY <1>1 DEF Ending, n
<1>4. ASSUME NEW g \in 1 .. n
      PROVE  G[g] = IF g = 1 THEN parts[g] ELSE G[g - 1] \o parts[g]
  <2> DEFINE j == Ending(data, g)
             k == 3 * g - 3
             a == 3 * g - 2
  <2>1. j \in a .. Len(data) /\ k + 1 = a /\ 1 \in 1 .. Len(data) + 1 /\ k \in Nat /\ k \in 1 - 1 .. Len(data)
        /\ j \in k .. Len(data)
    <3>1. 3 * g - 2 \in Nat /\ 3 * g - 3 \in Nat
      OBVIOUS
    <3>2. j \in 3 * g - 2 .. Len(data)
      BY <1>3
    <3> HIDE DEF j
    <3> QED BY <1>1, <3>1, <3>2
  <2>2. G[g] = SubSeq(data, 1, j) /\ parts[g] = SubSeq(data, a, j)
    BY DEF n
  <2>3. CASE g = 1
    <3>1. a = 1
      BY <2>3
    <3> QED BY <2>2, <2>3, <3>1
  <2>4. CASE g # 1
    <3>1. g - 1 \in 1 .. n /\ Ending(data, g - 1) = k
      BY <1>1, <2>4 DEF Ending, n
    <3>2. G[g - 1] = SubSeq(data, 1, k)
      BY <3>1
    <3> HIDE DEF j, k, a, G
    <3>3. SubSeq(data, 1, k) \o SubSeq(data, k + 1, j) = SubSeq(data, 1, j)
      BY <1>2, <2>1, PartsJoined
    <3> QED BY <2>1, <2>2, <2>4, <3>2, <3>3
  <2> QED BY <2>3, <2>4
<1> HIDE DEF G
<1>5. G = [g \in 1 .. n |-> IF g = 1 THEN parts[g] ELSE G[g - 1] \o parts[g]]
  <2>1. DOMAIN G = 1 .. n /\ G = [g \in 1 .. n |-> G[g]]
    BY DEF G
  <2> QED BY <1>4, <2>1
<1>6. FlattenSeq(parts) = G[n]
  <2>1. Together(parts, G, n) /\ Len(parts) = n
    BY <1>5 DEF Together, n
  <2> QED BY <1>1, <2>1, Flattened
<1>7. G[n] = data
  <2>1. n \in 1 .. n /\ Ending(data, n) = Len(data)
    BY <1>1 DEF Ending, n
  <2> QED BY <1>2, <2>1, WholeText DEF G
<1> QED BY <1>6, <1>7

LEMMA OfLength ==
  ASSUME NEW s, IsText(s), NEW n, Len(s) = n
  PROVE  /\ n = 1 => s = <<s[1]>>
         /\ n = 2 => s = <<s[1], s[2]>>
         /\ n = 3 => s = <<s[1], s[2], s[3]>>
<1>1. s \in Seq(Range(s))
  BY DEF IsText
<1>2. CASE n = 1
  BY <1>1, <1>2
<1>3. CASE n = 2
  BY <1>1, <1>3
<1>4. CASE n = 3
  BY <1>1, <1>4
<1> QED BY <1>2, <1>3, <1>4

LEMMA FirstOfThree ==
  ASSUME NEW a, NEW b, NEW c
  PROVE  SubSeq(<<a, b, c>>, 1, 1) = <<a>> /\ SubSeq(<<a, b, c>>, 1, 2) = <<a, b>>
<1> DEFINE s == <<a, b, c>>  one == SubSeq(s, 1, 1)  two == SubSeq(s, 1, 2)
<1>1. IsText(s) /\ Len(s) = 3 /\ s[1] = a /\ s[2] = b
  <2>1. s \in Seq({a, b, c})
    OBVIOUS
  <2>2. IsText(s)
    <3> HIDE DEF s
    <3> QED BY <2>1, TextOf
  <2> QED BY <2>2
<1> HIDE DEF s
<1>2. 1 \in 1 .. Len(s) + 1 /\ 1 \in 1 - 1 .. Len(s) /\ 2 \in 1 - 1 .. Len(s)
  BY <1>1
<1>3. IsText(one) /\ Len(one) = 1 /\ one[1] = s[1]
  <2>1. IsText(one) /\ Len(one) = 1 - 1 + 1 /\ \A i \in 1 .. 1 - 1 + 1 : one[i] = s[1 + i - 1]
    BY <1>1, <1>2, PartOf
  <2> HIDE DEF one
  <2> QED BY <2>1
<1>4. IsText(two) /\ Len(two) = 2 /\ two[1] = s[1] /\ two[2] = s[2]
  <2>1. IsText(two) /\ Len(two) = 2 - 1 + 1 /\ \A i \in 1 .. 2 - 1 + 1 : two[i] = s[1 + i - 1]
    BY <1>1, <1>2, PartOf
  <2> HIDE DEF two
  <2> QED BY <2>1
<1> HIDE DEF one, two
<1>5. one = <<one[1]>> /\ two = <<two[1], two[2]>>
  BY <1>3, <1>4, OfLength
<1> QED BY <1>1, <1>3, <1>4, <1>5 DEF s, one, two

(* A record of three bytes, of which the first ones are asked for.         *)
LEMMA FourDecoded ==
  ASSUME NEW base64, NEW data \in Seq(Byte), data # <<>>, Whole(base64, data),
         NEW g \in 1 .. Groups(data)
  PROVE  LET part == decode_four(SubSeq(base64, 4 * g - 3, 4 * g))
         IN  part = SubSeq(data, 3 * g - 2, Ending(data, g)) /\ part # Malformed
<1> DEFINE N == Groups(data)
           m == Lacking(data)
           four == SubSeq(base64, 4 * g - 3, 4 * g)
           quad == Quad(data, g)
           a == ByteOf(data, 3 * g - 2)
           b == ByteOf(data, 3 * g - 1)
           c == ByteOf(data, 3 * g)
           x == four[1] * 4 + four[2] \div 16
           y == (four[2] % 16) * 16 + four[3] \div 4
           z == (four[3] % 4) * 64 + four[4]
           bytes == <<x, y, z>>
           part == decode_four(four)
           own == SubSeq(data, 3 * g - 2, Ending(data, g))
           len == Ending(data, g) - (3 * g - 2) + 1
<1>1. /\ N \in Nat \ {0} /\ Len(data) \in Nat \ {0} /\ m \in 0 .. 2 /\ 3 * N = Len(data) + m
      /\ g \in Nat \ {0} /\ g <= N
  BY GroupsAre
<1>2. /\ quad \in Seq(Sextet) /\ Len(quad) = 4 /\ \A r \in 1 .. 4 : quad[r] \in 0 .. 63
      /\ quad[1] * 4 + quad[2] \div 16 = a
      /\ (quad[2] % 16) * 16 + quad[3] \div 4 = b
      /\ (quad[3] % 4) * 64 + quad[4] = c
  <2>1. g \in Nat \ {0}
    OBVIOUS
  <2> QED BY <2>1, QuadIs DEF Sextet
<1>3. /\ base64 \in Seq(0 .. Pad) /\ Len(base64) = 4 * N
      /\ base64[4 * g - 3] = quad[1] /\ base64[4 * g - 2] = quad[2]
      /\ base64[4 * g - 1] = IF g = N /\ m = 2 THEN Pad ELSE quad[3]
      /\ base64[4 * g] = IF g = N /\ m >= 1 THEN Pad ELSE quad[4]
  BY DEF Whole
<1> HIDE DEF quad, m, N, a, b, c
<1>4. /\ four[1] = quad[1] /\ four[2] = quad[2]
      /\ four[3] = IF g = N /\ m = 2 THEN Pad ELSE quad[3]
      /\ four[4] = IF g = N /\ m >= 1 THEN Pad ELSE quad[4]
  <2>1. IsText(base64)
    BY <1>3, TextOf
  <2> DEFINE f == 4 * g - 3  h == 4 * g
  <2>2. f \in 1 .. Len(base64) + 1 /\ h \in f - 1 .. Len(base64) /\ h - f + 1 = 4 /\ f + 1 - 1 = 4 * g - 3
        /\ f + 2 - 1 = 4 * g - 2 /\ f + 3 - 1 = 4 * g - 1 /\ f + 4 - 1 = 4 * g
    BY <1>1, <1>3
  <2> HIDE DEF f, h
  <2>3. \A i \in 1 .. h - f + 1 : SubSeq(base64, f, h)[i] = base64[f + i - 1]
    BY <2>1, <2>2, PartOf
  <2>4. 1 \in 1 .. 4 /\ 2 \in 1 .. 4 /\ 3 \in 1 .. 4 /\ 4 \in 1 .. 4
    OBVIOUS
  <2>5. /\ four[1] = base64[4 * g - 3] /\ four[2] = base64[4 * g - 2] /\ four[3] = base64[4 * g - 1]
        /\ four[4] = base64[4 * g]
    BY <2>2, <2>3, <2>4 DEF f, h
  <2> QED BY <1>3, <2>5
<1>5. quad[1] \in 0 .. 63 /\ quad[2] \in 0 .. 63 /\ quad[3] \in 0 .. 63 /\ quad[4] \in 0 .. 63
  BY <1>2
<1> HIDE DEF four
<1>p. quad[1] # Pad /\ quad[2] # Pad /\ quad[3] # Pad /\ quad[4] # Pad
  <2>1. \A i \in 0 .. 63 : i # Pad
    BY DEF Pad
  <2> QED BY <1>5, <2>1
<1>6. four[1] # Pad /\ four[2] # Pad
  BY <1>4, <1>p
<1>7. x = a
  BY <1>2, <1>4
<1>8. ~(g = N /\ m = 2) => y = b
  BY <1>2, <1>4
<1>9. ~(g = N /\ m >= 1) => z = c
  <2>1. ~(g = N /\ m >= 1) => ~(g = N /\ m = 2)
    BY <1>1
  <2> QED BY <1>2, <1>4, <2>1
<1>10. part = IF g = N /\ m = 2 THEN SubSeq(bytes, 1, 1)
              ELSE IF g = N /\ m >= 1 THEN SubSeq(bytes, 1, 2) ELSE bytes
  <2>1. four[3] = Pad <=> (g = N /\ m = 2)
    BY <1>4, <1>p
  <2>2. ~(g = N /\ m = 2) => (four[4] = Pad <=> (g = N /\ m >= 1))
    BY <1>4, <1>p
  <2>3. part = IF four[3] = Pad THEN SubSeq(bytes, 1, 1)
               ELSE IF four[4] = Pad THEN SubSeq(bytes, 1, 2) ELSE bytes
    BY <1>6 DEF decode_four
  <2> HIDE DEF part, bytes
  <2> QED BY <2>1, <2>2, <2>3
<1>11. /\ a \in Byte /\ b \in Byte /\ c \in Byte
  <2>1. 3 * g - 2 \in Nat \ {0} /\ 3 * g - 1 \in Nat \ {0} /\ 3 * g \in Nat \ {0}
    BY <1>1
  <2> QED BY <2>1, BytesAre DEF a, b, c
<1>12. /\ own \in Seq(Range(data)) /\ IsText(own) /\ Len(own) = len
       /\ \A i \in 1 .. len : own[i] = ByteOf(data, 3 * g - 2 + i - 1)
       /\ len = IF g = N THEN 3 - m ELSE 3
  <2> DEFINE f == 3 * g - 2  h == Ending(data, g)
  <2>1. IsText(data)
    BY TextOf
  <2>2. f \in 1 .. Len(data) + 1 /\ h \in f - 1 .. Len(data) /\ f \in Nat /\ h \in Nat
    BY <1>1 DEF Ending, N
  <2>3. h - f + 1 = IF g = N THEN 3 - m ELSE 3
    BY <1>1 DEF Ending, N
  <2> HIDE DEF f, h
  <2>4. /\ SubSeq(data, f, h) \in Seq(Range(data)) /\ IsText(SubSeq(data, f, h))
        /\ Len(SubSeq(data, f, h)) = h - f + 1
        /\ \A i \in 1 .. h - f + 1 : SubSeq(data, f, h)[i] = data[f + i - 1]
    BY <2>1, <2>2, PartOf
  <2>5. ASSUME NEW i \in 1 .. h - f + 1 PROVE SubSeq(data, f, h)[i] = ByteOf(data, f + i - 1)
    <3>1. f + i - 1 <= Len(data)
      BY <1>1, <2>2
    <3> QED BY <2>4, <3>1 DEF ByteOf
  <2> QED BY <2>3, <2>4, <2>5 DEF f, h
<1>13. /\ a = ByteOf(data, 3 * g - 2 + 1 - 1) /\ b = ByteOf(data, 3 * g - 2 + 2 - 1)
       /\ c = ByteOf(data, 3 * g - 2 + 3 - 1)
  <2>1. 3 * g - 2 + 1 - 1 = 3 * g - 2 /\ 3 * g - 2 + 2 - 1 = 3 * g - 1 /\ 3 * g - 2 + 3 - 1 = 3 * g
    BY <1>1
  <2> QED BY <2>1 DEF a, b, c
<1> HIDE DEF own, bytes, len, part
<1>14. part = own /\ part # Malformed
  <2>0. /\ g = N /\ m = 2 => part = <<x>>
        /\ g = N /\ m = 1 => part = <<x, y>>
        /\ ~(g = N /\ m >= 1) => part = <<x, y, z>>
    <3> HIDE DEF x, y, z
    <3>1. SubSeq(bytes, 1, 1) = <<x>> /\ SubSeq(bytes, 1, 2) = <<x, y>> /\ bytes = <<x, y, z>>
      BY FirstOfThree DEF bytes
    <3> QED BY <1>1, <1>10, <3>1
  <2> HIDE DEF x, y, z
  <2>m. Malformed = <<256>>
    BY DEF Malformed
  <2>o. own[1] = a /\ len >= 1
    BY <1>1, <1>12, <1>13
  <2>x. a # 256
    BY <1>11 DEF Byte
  <2>1. CASE g = N /\ m = 2
    <3>1. len = 1 /\ own = <<own[1]>>
      BY <1>12, <2>1, OfLength
    <3>2. part = <<x>>
      BY <2>1, <2>0
    <3> QED BY <1>7, <2>o, <2>x, <2>m, <3>1, <3>2
  <2>2. CASE g = N /\ m = 1
    <3>1. len = 2 /\ own = <<own[1], own[2]>>
      BY <1>12, <2>2, OfLength
    <3>2. part = <<x, y>>
      BY <2>2, <2>0
    <3>3. own[2] = b
      BY <1>12, <1>13, <3>1
    <3>4. own # <<256>>
      BY <3>1
    <3> QED BY <1>7, <1>8, <2>2, <2>o, <2>m, <3>1, <3>2, <3>3, <3>4
  <2>3. CASE ~(g = N /\ m >= 1)
    <3>1. len = 3 /\ own = <<own[1], own[2], own[3]>>
      <4>1. len = 3
        BY <1>1, <1>12, <2>3
      <4> QED BY <1>12, <4>1, OfLength
    <3>2. part = <<x, y, z>>
      BY <2>3, <2>0
    <3>3. own[2] = b /\ own[3] = c
      BY <1>12, <1>13, <3>1
    <3>4. own # <<256>>
      BY <3>1
    <3> QED BY <1>1, <1>7, <1>8, <1>9, <2>3, <2>o, <2>m, <3>1, <3>2, <3>3, <3>4
  <2> QED BY <1>1, <2>1, <2>2, <2>3
<1> QED BY <1>14 DEF part, own, four

(* What has been encoded in one line is decoded again.                     *)
LEMMA DecodedIs ==
  ASSUME NEW base64, NEW data \in Seq(Byte), data # <<>>, Whole(base64, data)
  PROVE  decode(base64) = data
<1> DEFINE N == Groups(data)
           chars == FlattenSeq(Singly(base64))
           parts == [g \in 1 .. Len(chars) \div 4 |-> decode_four(SubSeq(chars, 4 * g - 3, 4 * g))]
<1>1. N \in Nat \ {0}
  BY GroupsAre
<1>2. base64 \in Seq(0 .. Pad) /\ Len(base64) = 4 * N
  BY DEF Whole
<1>3. chars = base64
  <2>1. IsText(base64) /\ base64 # <<>>
    BY <1>1, <1>2, TextOf
  <2>2. ASSUME NEW i \in DOMAIN base64 PROVE base64[i] # NewLine
    <3>a. i \in 1 .. Len(base64)
      BY <1>2
    <3>1. base64[i] \in 0 .. Pad
      <4> HIDE DEF Pad
      <4> QED BY <1>2, <3>a, ElementOfSeq
    <3>2. \A p \in 0 .. Pad : p # NewLine
      BY DEF Pad, NewLine
    <3> QED BY <3>1, <3>2
  <2> QED BY <2>1, <2>2, NoLineEnds
<1>4. decode(base64) = IF Len(chars) % 4 # 0 \/ (\E g \in DOMAIN parts : parts[g] = Malformed)
                       THEN Malformed ELSE FlattenSeq(parts)
  BY DEF decode, Singly
<1> HIDE DEF chars, N
<1>5. Len(chars) % 4 = 0 /\ Len(chars) \div 4 = N
  BY <1>1, <1>2, <1>3
<1>6. parts = [g \in 1 .. N |-> decode_four(SubSeq(base64, 4 * g - 3, 4 * g))]
  BY <1>3, <1>5
<1> HIDE DEF parts
<1>7. DOMAIN parts = 1 .. N /\ Len(parts) = N
  BY <1>1, <1>6
<1>8. ASSUME NEW g \in 1 .. N
      PROVE  parts[g] = SubSeq(data, 3 * g - 2, Ending(data, g)) /\ parts[g] # Malformed
  <2>1. parts[g] = decode_four(SubSeq(base64, 4 * g - 3, 4 * g))
    BY <1>6
  <2>2. g \in 1 .. Groups(data)
    BY DEF N
  <2> QED BY <2>1, <2>2, FourDecoded
<1>9. FlattenSeq(parts) = data
  BY <1>7, <1>8, ThreesJoined DEF N
<1> QED BY <1>4, <1>5, <1>7, <1>8, <1>9

LEMMA TextEqual ==
  ASSUME NEW s, IsText(s), NEW t, IsText(t), Len(s) = Len(t), \A i \in 1 .. Len(s) : s[i] = t[i]
  PROVE  s = t
<1>1. DOMAIN s = 1 .. Len(s) /\ DOMAIN t = 1 .. Len(s)
  BY TextIs
<1>2. s = [i \in DOMAIN s |-> s[i]] /\ t = [i \in DOMAIN t |-> t[i]]
  BY DEF IsText
<1> QED BY <1>1, <1>2

(* What is decoded is split at its first colon.                            *)
LEMMA SplitAtColon ==
  ASSUME NEW options, NEW u \in Seq(Byte), NEW p \in Seq(Byte),
         decode(options.authorization.base64) = u \o <<Colon>> \o p
  PROVE  LET r == get_authinfo(options)
         IN  /\ r.user \o <<Colon>> \o r.passwd = u \o <<Colon>> \o p
             /\ Colon \notin Range(u) => r = [user |-> u, passwd |-> p]
<1> DEFINE data == decode(options.authorization.base64)
           colons == {i \in 1 .. Len(data) : data[i] = Colon}
           c == Min(colons)
           r == get_authinfo(options)
           n == Len(u)
           lead == u \o <<Colon>>
<1>c. Colon \in Byte
  BY DEF Byte, Colon
<1>1. data = lead \o p
  OBVIOUS
<1>2. /\ lead \in Seq(Byte) /\ Len(lead) = n + 1 /\ lead[n + 1] = Colon
      /\ \A j \in 1 .. n : lead[j] = u[j]
      /\ n \in Nat
  <2> HIDE DEF Colon, Byte
  <2>1. <<Colon>> \in Seq(Byte) /\ Len(<<Colon>>) = 1 /\ 1 \in 1 .. 1 /\ <<Colon>>[1] = Colon
    BY <1>c
  <2>2. n \in Nat
    OBVIOUS
  <2> HIDE DEF n
  <2> DEFINE one == <<Colon>>
  <2> HIDE DEF one
  <2>3. /\ u \o one \in Seq(Byte) /\ Len(u \o one) = Len(u) + Len(one)
        /\ \A j \in 1 .. Len(u) : (u \o one)[j] = u[j]
        /\ \A j \in 1 .. Len(one) : (u \o one)[Len(u) + j] = one[j]
    BY <2>1, JoinedAt DEF one
  <2> QED BY <2>1, <2>2, <2>3 DEF n, one
<1> HIDE DEF Byte
<1>3. /\ data \in Seq(Byte) /\ Len(data) = n + 1 + Len(p) /\ Len(p) \in Nat
      /\ \A j \in 1 .. n + 1 : data[j] = lead[j]
      /\ \A j \in 1 .. Len(p) : data[n + 1 + j] = p[j]
  <2>1. Len(p) \in Nat
    OBVIOUS
  <2> HIDE DEF lead, data, n
  <2>a. lead \in Seq(Byte)
    BY <1>2
  <2>2. /\ lead \o p \in Seq(Byte) /\ Len(lead \o p) = Len(lead) + Len(p)
        /\ \A j \in 1 .. Len(lead) : (lead \o p)[j] = lead[j]
        /\ \A j \in 1 .. Len(p) : (lead \o p)[Len(lead) + j] = p[j]
    BY <2>a, JoinedAt
  <2> QED BY <1>1, <1>2, <2>1, <2>2
<1>t. IsText(data)
  BY <1>3, TextOf
<1> HIDE DEF data, n, lead
<1>4. n + 1 \in colons
  BY <1>2, <1>3
<1>5. c \in colons /\ c \in 1 .. n + 1 /\ data[c] = Colon
  <2>1. colons \in SUBSET Nat /\ colons # {}
    BY <1>4
  <2> HIDE DEF colons
  <2>2. c \in colons /\ c <= n + 1
    BY <1>4, <2>1, LeastIs
  <2> QED BY <2>2, <1>2 DEF colons
<1>6. r = [user |-> SubSeq(data, 1, c - 1), passwd |-> SubSeq(data, c + 1, Len(data))]
  <2>1. SelectInSeq(data, LAMBDA i : i = Colon) = c /\ c # 0
    BY <1>4, <1>5 DEF SelectInSeq
  <2> HIDE DEF c
  <2> QED BY <2>1 DEF get_authinfo, data
<1> HIDE DEF c, colons, r
<1>7. r.user \o <<Colon>> \o r.passwd = data
  <2> DEFINE s1 == SubSeq(data, 1, c - 1)
             s2 == SubSeq(data, c, c)
             s3 == SubSeq(data, c + 1, Len(data))
             b == c - 1
  <2>0. c \in 1 .. Len(data) /\ b \in Nat /\ c = b + 1 /\ Len(data) \in Nat
    BY <1>2, <1>3, <1>5
  <2>1. s2 = <<Colon>>
    <3>1. /\ c \in 1 .. Len(data) + 1 /\ c \in c - 1 .. Len(data) /\ c - c + 1 = 1 /\ c + 1 - 1 = c
          /\ 1 \in 1 .. c - c + 1
      BY <2>0
    <3>2. IsText(s2) /\ Len(s2) = c - c + 1 /\ \A i \in 1 .. c - c + 1 : s2[i] = data[c + i - 1]
      BY <1>t, <3>1, PartOf
    <3> HIDE DEF s2
    <3>3. Len(s2) = 1 /\ s2[1] = data[c]
      BY <3>1, <3>2
    <3> QED BY <1>5, <3>2, <3>3, OfLength
  <2>2. s1 \o s2 = SubSeq(data, 1, c)
    <3>1. 1 \in 1 .. Len(data) + 1 /\ b \in 1 - 1 .. Len(data) /\ c \in b .. Len(data)
      BY <2>0
    <3>2. SubSeq(data, 1, b) \o SubSeq(data, b + 1, c) = SubSeq(data, 1, c)
      <4> HIDE DEF b
      <4> QED BY <1>t, <3>1, PartsJoined
    <3> QED BY <2>0, <3>2
  <2>3. SubSeq(data, 1, c) \o s3 = SubSeq(data, 1, Len(data))
    <3>1. 1 \in 1 .. Len(data) + 1 /\ c \in 1 - 1 .. Len(data) /\ Len(data) \in c .. Len(data)
      BY <2>0
    <3> QED BY <1>t, <3>1, PartsJoined
  <2>4. SubSeq(data, 1, Len(data)) = data
    BY <1>t, WholeText
  <2> QED BY <1>6, <2>1, <2>2, <2>3, <2>4
<1>8. ASSUME Colon \notin Range(u) PROVE r = [user |-> u, passwd |-> p]
  <2>1. c = n + 1
    <3> SUFFICES ASSUME c # n + 1 PROVE FALSE
      OBVIOUS
    <3>1. c \in 1 .. n
      BY <1>2, <1>5
    <3>2. u[c] = Colon
      BY <1>2, <1>3, <1>5, <3>1
    <3>3. c \in DOMAIN u
      BY <3>1 DEF n
    <3> QED BY <1>8, <3>2, <3>3 DEF Range
  <2>2. SubSeq(data, 1, c - 1) = u
    <3> DEFINE s == SubSeq(data, 1, n)
    <3>1. /\ 1 \in 1 .. Len(data) + 1 /\ n \in 1 - 1 .. Len(data) /\ n - 1 + 1 = n
          /\ \A i \in 1 .. n : 1 + i - 1 = i
      BY <1>2, <1>3
    <3>2. s \in Seq(Range(data)) /\ Len(s) = n - 1 + 1 /\ \A i \in 1 .. n - 1 + 1 : s[i] = data[1 + i - 1]
      BY <1>t, <3>1, PartOf
    <3>3. Len(s) = Len(u) /\ \A i \in 1 .. Len(s) : s[i] = u[i]
      <4> HIDE DEF s
      <4> QED BY <1>2, <1>3, <3>1, <3>2 DEF n
    <3>4. s = u
      <4> HIDE DEF s
      <4>1. IsText(s) /\ IsText(u)
        BY <3>2, TextOf
      <4> QED BY <3>3, <4>1, TextEqual
    <3>5. c - 1 = n
      BY <1>2, <2>1
    <3> QED BY <3>4, <3>5
  <2>3. SubSeq(data, c + 1, Len(data)) = p
    <3> DEFINE a == n + 2  l == Len(data)  s == SubSeq(data, a, l)
    <3>1. /\ a \in 1 .. Len(data) + 1 /\ l \in a - 1 .. Len(data) /\ l - a + 1 = Len(p)
          /\ \A i \in 1 .. Len(p) : a + i - 1 = n + 1 + i
      BY <1>2, <1>3
    <3>2. s \in Seq(Range(data)) /\ Len(s) = l - a + 1 /\ \A i \in 1 .. l - a + 1 : s[i] = data[a + i - 1]
      <4> HIDE DEF a, l
      <4> QED BY <1>t, <3>1, PartOf, SMTT(30)
    <3>3. Len(s) = Len(p) /\ \A i \in 1 .. Len(s) : s[i] = p[i]
      <4> HIDE DEF s, a, l
      <4> QED BY <1>2, <1>3, <3>1, <3>2, ZenonT(60)
    <3>4. s = p
      <4> HIDE DEF s
      <4>1. IsText(s) /\ IsText(p)
        BY <3>2, TextOf
      <4> QED BY <3>3, <4>1, TextEqual
    <3>5. c + 1 = a
      BY <1>2, <2>1
    <3> QED BY <3>4, <3>5
  <2> QED BY <1>6, <2>2, <2>3
<1> QED BY <1>1, <1>7, <1>8 DEF r, lead

-----------------------------------------------------------------------------
(* What a server holds. *)

(* What comes to the server: where the lines of a header are, they have a  *)
(* length.                                                                 *)
HasLength(head) == content_length(head.options) \in Nat
Sound(text) == IsText(text) /\ \A i \in DOMAIN text : text[i].is = "head" => HasLength(text[i])

(* A reader of the server. What it holds was counted, and found to fit.    *)
IsReader(r) ==
  /\ r \in [header_cache : {r.header_cache}, content_cache : {r.content_cache},
            header : {r.header}, constructed : BOOLEAN, total_sz : Nat]
  /\ Sound(r.header_cache) /\ IsText(r.content_cache)
  /\ r.header = NoHeader \/ HasLength(r.header)

Stored(r) == Len(r.header_cache) + Len(r.content_cache)
Within(r) == max_request_sz # 0 => Stored(r) <= r.total_sz /\ Stored(r) < max_request_sz

(* The names a plugin lets in, if there is one.                            *)
LetIn(on, name) ==
  IF on.auth_plugin = {} THEN name = Anonymous
  ELSE \E ap \in on.auth_plugin :
         \/ ap.anonymous /\ name = Anonymous
         \/ \E info \in ap.users : info.user = name

(* A method that will be executed is one of its request, and for somebody  *)
(* who may.                                                                *)
Known(on, task) ==
  /\ task.req \in Understood
  /\ task.method \in create_method(on.dispatchers, task.req.name)
  /\ LetIn(on, task.authname)

(* The run of a method: the first of its name, past every interceptor.     *)
Permitted(on, run) ==
  /\ LetIn(on, run.authname)
  /\ \E d \in DOMAIN on.dispatchers :
       /\ run.request.name \in DOMAIN on.dispatchers[d]
       /\ run.method = on.dispatchers[d][run.request.name]
       /\ \A e \in 1 .. d - 1 : run.request.name \notin DOMAIN on.dispatchers[e]
  /\ \A i \in DOMAIN on.interceptors : run.request.name \notin on.interceptors[i].stops
  /\ run.through = [i \in DOMAIN on.interceptors |-> on.interceptors[i].name]

ArePermitted(on, runs) == IsText(runs) /\ \A i \in DOMAIN runs : Permitted(on, runs[i])

IsServer(on, s) ==
  /\ s \in [open : BOOLEAN, mask : SUBSET {"INPUT", "OUTPUT"}, preader : {s.preader},
            keep_alive : {s.keep_alive}, response : {s.response}, executing : {s.executing}]
  /\ IsReader(s.preader) /\ Within(s.preader)
  /\ IsText(s.response)
  /\ s.executing = {} \/ \E task : s.executing = {task} /\ Known(on, task)

Pipes(ts, tc) == Sound(ts) /\ Len(ts) <= Room /\ IsText(tc) /\ Len(tc) <= Room

(* A client that keeps no connection has none while it is idle, and waits  *)
(* for input with nothing left to write.                                   *)
ClientIs(p, c, m, out, kept) ==
  /\ p \in {"idle", "events", "receiving"} /\ m \subseteq {"INPUT", "OUTPUT"}
  /\ c = 0 => p = "idle" /\ m = {}
  /\ p = "idle" /\ c # 0 => kept
  /\ p = "receiving" \/ "INPUT" \in m => out = <<>> \/ kept
  /\ Sound(out)

IInv ==
  /\ \E s \in Sessions : opts = s.client /\ setup = s.server
  /\ ClientIs(phase, conn, mask, out_str, opts.keep_alive)
  /\ IsText(results) /\ conn \in 0 .. Len(server) /\ left \subseteq Conns
  /\ IsText(server) /\ IsText(to_server) /\ IsText(to_client)
  /\ Len(to_server) = Len(server) /\ Len(to_client) = Len(server)
  /\ \A c \in Conns : IsServer(setup, server[c]) /\ Pipes(to_server[c], to_client[c])

-----------------------------------------------------------------------------
(* What streams are made of. *)

LEMMA SoundText ==
  ASSUME NEW t, Sound(t)
  PROVE  IsText(t) /\ Len(t) \in Nat /\ DOMAIN t = 1 .. Len(t)
  BY TextIs DEF Sound

LEMMA SoundJoined ==
  ASSUME NEW s, Sound(s), NEW u, Sound(u)
  PROVE  Sound(s \o u) /\ Len(s \o u) = Len(s) + Len(u)
<1> DEFINE S == Range(s) \cup Range(u)
           t == s \o u
<1>1. IsText(s) /\ IsText(u)
  BY DEF Sound
<1>2. /\ Len(s) \in Nat /\ DOMAIN s = 1 .. Len(s) /\ Len(u) \in Nat /\ DOMAIN u = 1 .. Len(u)
      /\ s \in Seq(S) /\ u \in Seq(S)
  BY <1>1, TextIs, SeqMonotonic
<1>3. /\ t \in Seq(S) /\ Len(t) = Len(s) + Len(u)
      /\ \A i \in 1 .. Len(s) + Len(u) : t[i] = IF i <= Len(s) THEN s[i] ELSE u[i - Len(s)]
  BY <1>2, ConcatProperties
<1> HIDE DEF t, S
<1>4. IsText(t) /\ DOMAIN t = 1 .. Len(s) + Len(u)
  BY <1>3, TextOf, LenProperties
<1>5. ASSUME NEW i \in DOMAIN t, t[i].is = "head" PROVE HasLength(t[i])
  <2>1. i \in 1 .. Len(s) + Len(u)
    BY <1>4
  <2>2. CASE i <= Len(s)
    <3>1. i \in DOMAIN s /\ t[i] = s[i]
      BY <1>2, <1>3, <2>1, <2>2
    <3> QED BY <1>5, <3>1 DEF Sound
  <2>3. CASE ~ (i <= Len(s))
    <3>1. i - Len(s) \in DOMAIN u /\ t[i] = u[i - Len(s)]
      BY <1>2, <1>3, <2>1, <2>3
    <3> QED BY <1>5, <3>1 DEF Sound
  <2> QED BY <2>2, <2>3
<1>6. Sound(t)
  BY <1>4, <1>5 DEF Sound
<1> QED BY <1>3, <1>6 DEF t

LEMMA SoundWithin ==
  ASSUME NEW s, Sound(s), NEW m \in 1 .. Len(s) + 1, NEW n \in m - 1 .. Len(s)
  PROVE  Sound(SubSeq(s, m, n)) /\ Len(SubSeq(s, m, n)) = n - m + 1
<1> DEFINE t == SubSeq(s, m, n)
<1>1. IsText(s)
  BY DEF Sound
<1>2. /\ IsText(t) /\ Len(t) = n - m + 1
      /\ \A i \in DOMAIN t : \E j \in DOMAIN s : t[i] = s[j]
  BY <1>1, TextWithin
<1> HIDE DEF t
<1>3. Sound(t)
  BY <1>2 DEF Sound
<1> QED BY <1>2, <1>3 DEF t

LEMMA SoundEmpty == Sound(<<>>) /\ IsText(<<>>) /\ Len(<<>>) = 0
  BY EmptyText DEF Sound

(* send() and recv() take the first k symbols, and leave the rest.         *)
LEMMA FirstOf ==
  ASSUME NEW s, Sound(s), NEW k \in 1 .. Len(s)
  PROVE  /\ Sound(SubSeq(s, 1, k)) /\ Len(SubSeq(s, 1, k)) = k
         /\ Sound(Rest(s, k)) /\ Len(Rest(s, k)) = Len(s) - k
<1>1. /\ Len(s) \in Nat /\ k \in Nat /\ k <= Len(s) /\ k >= 1
  BY SoundText
<1>2. /\ 1 \in 1 .. Len(s) + 1 /\ k \in 1 - 1 .. Len(s)
      /\ k + 1 \in 1 .. Len(s) + 1 /\ Len(s) \in (k + 1) - 1 .. Len(s)
      /\ k - 1 + 1 = k /\ Len(s) - (k + 1) + 1 = Len(s) - k
  BY <1>1
<1> QED BY <1>2, SoundWithin DEF Rest

LEMMA FirstOfText ==
  ASSUME NEW s, IsText(s), NEW k \in 1 .. Len(s)
  PROVE  /\ IsText(SubSeq(s, 1, k)) /\ Len(SubSeq(s, 1, k)) = k
         /\ IsText(Rest(s, k)) /\ Len(Rest(s, k)) = Len(s) - k
<1>1. /\ Len(s) \in Nat /\ k \in Nat /\ k <= Len(s) /\ k >= 1
  BY TextIs
<1>2. /\ 1 \in 1 .. Len(s) + 1 /\ k \in 1 - 1 .. Len(s)
      /\ k + 1 \in 1 .. Len(s) + 1 /\ Len(s) \in (k + 1) - 1 .. Len(s)
      /\ k - 1 + 1 = k /\ Len(s) - (k + 1) + 1 = Len(s) - k
  BY <1>1
<1> QED BY <1>2, TextWithin DEF Rest

(* A packet is a text, and a sound one when its content has no header.     *)
LEMMA PacketIsText ==
  ASSUME NEW code, NEW options, NEW content, IsText(content)
  PROVE  IsText(dump(code, options, content))
<1> DEFINE head == Head_(code, set_content_length(options, Len(content)))
           S == {head, CR_LF}
<1>1. <<head, CR_LF, CR_LF>> \in Seq(S)
  OBVIOUS
<1>2. IsText(<<head, CR_LF, CR_LF>>)
  BY <1>1, TextOf
<1> QED BY <1>2, TextJoined DEF dump

IsOptions(o) ==
  o \in [authorization : {o.authorization}, connection : {o.connection},
         content_length : {o.content_length}, content_type : {o.content_type}]

LEMMA PacketIsSound ==
  ASSUME NEW options, IsOptions(options), NEW content, IsText(content),
         \A i \in DOMAIN content : content[i].is # "head"
  PROVE  Sound(dump(0, options, content))
<1> DEFINE head == Head_(0, set_content_length(options, Len(content)))
           start == <<head, CR_LF, CR_LF>>
<1>1. HasLength(head)
  <2>1. Len(content) \in Nat
    BY TextIs
  <2>2. head.options = set_content_length(options, Len(content))
    BY DEF Head_
  <2>3. set_content_length(options, Len(content)).content_length = Digits(Len(content))
    BY DEF IsOptions, set_content_length
  <2>4. Digits(Len(content)).number = Len(content)
    BY DEF Digits
  <2> HIDE DEF head
  <2> QED BY <2>1, <2>2, <2>3, <2>4 DEF HasLength, content_length
<1>2. CR_LF.is # "head"
  BY DEF CR_LF
<1> HIDE DEF head
<1>3. start \in Seq({head, CR_LF}) /\ DOMAIN start = 1 .. 3
      /\ start[1] = head /\ start[2] = CR_LF /\ start[3] = CR_LF
  OBVIOUS
<1>4. Sound(start)
  <2>1. IsText(start)
    BY <1>3, TextOf
  <2>2. ASSUME NEW i \in DOMAIN start, start[i].is = "head" PROVE HasLength(start[i])
    <3>1. i = 1 \/ i = 2 \/ i = 3
      BY <1>3
    <3> HIDE DEF start
    <3> QED BY <1>1, <1>2, <1>3, <2>2, <3>1
  <2> HIDE DEF start
  <2> QED BY <2>1, <2>2 DEF Sound
<1>5. Sound(content)
  BY DEF Sound
<1> HIDE DEF start
<1>6. Sound(start \o content)
  BY <1>4, <1>5, SoundJoined
<1> QED BY <1>6 DEF dump, start, head

-----------------------------------------------------------------------------
(* The reader. *)

LEMMA HeaderEnds ==
  ASSUME NEW s, IsText(s)
  PROVE  header_end(s) = 0 \/ header_end(s) \in 1 .. Len(s) - 1
<1>1. Len(s) \in Nat
  BY TextIs
<1>2. ASSUME NEW eol, Ends(s, eol) # {} PROVE First(Ends(s, eol)) \in 1 .. Len(s) - 1
  <2>1. Ends(s, eol) \subseteq 1 .. Len(s) - 1 /\ Ends(s, eol) \subseteq Nat
    BY <1>1 DEF Ends
  <2>2. \E m \in Ends(s, eol) : \A n \in Ends(s, eol) : m <= n
    BY <1>2, <2>1, LeastExists
  <2>3. First(Ends(s, eol)) \in Ends(s, eol)
    BY <1>2, <2>2 DEF First
  <2> QED BY <2>1, <2>3
<1>3. First({}) = 0
  BY DEF First
<1>4. CASE Ends(s, CR_LF) # {}
  BY <1>2, <1>4 DEF header_end
<1>5. CASE Ends(s, CR_LF) = {} /\ Ends(s, LF) # {}
  BY <1>2, <1>5 DEF header_end
<1>6. CASE Ends(s, CR_LF) = {} /\ Ends(s, LF) = {}
  BY <1>3, <1>6 DEF header_end
<1> QED BY <1>4, <1>5, <1>6

LEMMA NewReaderIs == IsReader(NewReader) /\ Within(NewReader)
<1>1. /\ NewReader.header_cache = <<>> /\ NewReader.content_cache = <<>>
      /\ NewReader.header = NoHeader /\ NewReader.constructed = FALSE /\ NewReader.total_sz = 0
      /\ NewReader \in [header_cache : {<<>>}, content_cache : {<<>>}, header : {NoHeader},
                        constructed : BOOLEAN, total_sz : Nat]
  BY DEF NewReader
<1>2. max_request_sz \in Nat
  BY HttpCallAssumption
<1>3. IsReader(NewReader)
  BY <1>1, SoundEmpty DEF IsReader
<1>4. Stored(NewReader) = 0
  BY <1>1, SoundEmpty DEF Stored
<1> QED BY <1>1, <1>2, <1>3, <1>4 DEF Within

(* How much a reader holds is a number. *)
LEMMA StoredIs ==
  ASSUME NEW r, IsReader(r)
  PROVE  /\ Len(r.header_cache) \in Nat /\ Len(r.content_cache) \in Nat /\ Stored(r) \in Nat
         /\ r.total_sz \in Nat /\ IsText(r.header_cache) /\ IsText(r.content_cache)
<1>1. IsText(r.header_cache) /\ IsText(r.content_cache)
  BY DEF IsReader, Sound
<1>2. Len(r.header_cache) \in Nat /\ Len(r.content_cache) \in Nat
  BY <1>1, TextIs
<1>3. r.total_sz \in Nat
  BY DEF IsReader
<1>4. Stored(r) \in Nat
  <2> DEFINE h == Len(r.header_cache)
             c == Len(r.content_cache)
  <2>1. h \in Nat /\ c \in Nat /\ Stored(r) = h + c
    BY <1>2 DEF Stored
  <2> HIDE DEF h, c
  <2> QED BY <2>1
<1> QED BY <1>1, <1>2, <1>3, <1>4

(* A reader one member of which has been replaced. *)
LEMMA ReaderMembers ==
  ASSUME NEW r, IsReader(r)
  PROVE  /\ \A n \in Nat :
              LET new == [r EXCEPT !.total_sz = n]
              IN  /\ IsReader(new) /\ new.total_sz = n /\ new.header = r.header
                  /\ new.header_cache = r.header_cache /\ new.content_cache = r.content_cache
         /\ \A t : Sound(t) =>
              LET new == [r EXCEPT !.header_cache = t]
              IN  /\ IsReader(new) /\ new.header_cache = t /\ new.content_cache = r.content_cache
                  /\ new.total_sz = r.total_sz
         /\ \A t : IsText(t) =>
              LET new == [r EXCEPT !.content_cache = t]
              IN  /\ IsReader(new) /\ new.content_cache = t /\ new.header_cache = r.header_cache
                  /\ new.total_sz = r.total_sz
         /\ \A h : HasLength(h) =>
              LET new == [r EXCEPT !.header = h]
              IN  /\ IsReader(new) /\ new.header_cache = r.header_cache
                  /\ new.content_cache = r.content_cache /\ new.total_sz = r.total_sz
         /\ LET new == [r EXCEPT !.constructed = TRUE]
            IN  /\ IsReader(new) /\ new.header_cache = r.header_cache
                /\ new.content_cache = r.content_cache /\ new.total_sz = r.total_sz
<1>1. r \in [header_cache : {r.header_cache}, content_cache : {r.content_cache},
             header : {r.header}, constructed : BOOLEAN, total_sz : Nat]
  BY DEF IsReader
<1>2. ASSUME NEW n \in Nat
      PROVE LET new == [r EXCEPT !.total_sz = n]
            IN  /\ IsReader(new) /\ new.total_sz = n /\ new.header = r.header
                /\ new.header_cache = r.header_cache /\ new.content_cache = r.content_cache
  BY <1>1 DEF IsReader
<1>3. ASSUME NEW t, Sound(t)
      PROVE LET new == [r EXCEPT !.header_cache = t]
            IN  /\ IsReader(new) /\ new.header_cache = t /\ new.content_cache = r.content_cache
                /\ new.total_sz = r.total_sz
  BY <1>1, <1>3 DEF IsReader
<1>4. ASSUME NEW t, IsText(t)
      PROVE LET new == [r EXCEPT !.content_cache = t]
            IN  /\ IsReader(new) /\ new.content_cache = t /\ new.header_cache = r.header_cache
                /\ new.total_sz = r.total_sz
  BY <1>1, <1>4 DEF IsReader
<1>5. ASSUME NEW h, HasLength(h)
      PROVE LET new == [r EXCEPT !.header = h]
            IN  /\ IsReader(new) /\ new.header_cache = r.header_cache
                /\ new.content_cache = r.content_cache /\ new.total_sz = r.total_sz
  BY <1>1, <1>5 DEF IsReader
<1>6. LET new == [r EXCEPT !.constructed = TRUE]
      IN  /\ IsReader(new) /\ new.header_cache = r.header_cache
          /\ new.content_cache = r.content_cache /\ new.total_sz = r.total_sz
  BY <1>1 DEF IsReader
<1> QED BY <1>2, <1>3, <1>4, <1>5, <1>6

(* What is read is counted before it is stored. *)
LEMMA SizeChecked ==
  ASSUME NEW r, IsReader(r), Within(r), NEW sz \in Nat
  PROVE  LET sized == check_sz(r, sz, max_request_sz)
         IN  /\ IsReader(sized.reader) /\ Within(sized.reader) /\ sized.reader.header = r.header
             /\ sized.fits /\ max_request_sz # 0 =>
                  /\ Stored(sized.reader) + sz <= sized.reader.total_sz
                  /\ Stored(sized.reader) + sz < max_request_sz
<1> DEFINE announced == IF r.header = NoHeader THEN 0
                        ELSE content_length(r.header.options) + Len(r.header_cache)
           total == r.total_sz + sz
           counted == [r EXCEPT !.total_sz = total]
<1>1. max_request_sz \in Nat /\ r.total_sz \in Nat /\ Stored(r) \in Nat /\ total \in Nat
  BY StoredIs, HttpCallAssumption
<1>2. /\ IsReader(counted) /\ counted.total_sz = total /\ counted.header = r.header
      /\ Stored(counted) = Stored(r)
  <2> HIDE DEF total
  <2>1. /\ IsReader(counted) /\ counted.total_sz = total /\ counted.header = r.header
        /\ counted.header_cache = r.header_cache /\ counted.content_cache = r.content_cache
    BY <1>1, ReaderMembers
  <2> HIDE DEF counted
  <2> QED BY <2>1 DEF Stored
<1>3. max_request_sz # 0 => Stored(r) + sz <= total /\ Stored(r) <= total /\ Stored(r) < max_request_sz
  BY <1>1 DEF Within
<1>4. Within(counted)
  BY <1>2, <1>3 DEF Within
<1>5. CASE max_request_sz = 0
  BY <1>5 DEF check_sz
<1>6. CASE max_request_sz # 0 /\ announced >= max_request_sz
  BY <1>6 DEF check_sz
<1>7. CASE max_request_sz # 0 /\ ~ (announced >= max_request_sz)
  <2>1. check_sz(r, sz, max_request_sz) = [reader |-> counted, fits |-> total < max_request_sz]
    BY <1>7 DEF check_sz
  <2>2. total < max_request_sz => Stored(counted) + sz <= total /\ Stored(counted) + sz < max_request_sz
    <3> HIDE DEF counted
    <3>1. Stored(r) + sz <= total
      BY <1>3, <1>7
    <3> QED BY <1>1, <1>2, <3>1
  <2> HIDE DEF counted, total
  <2>3. /\ check_sz(r, sz, max_request_sz).reader = counted
        /\ check_sz(r, sz, max_request_sz).fits = (total < max_request_sz)
    BY <2>1
  <2>4. counted.total_sz = total
    BY <1>2
  <2> QED BY <1>2, <1>4, <2>2, <2>3, <2>4
<1> QED BY <1>5, <1>6, <1>7

Fitting(r, n) == max_request_sz # 0 => Stored(r) + n <= r.total_sz /\ Stored(r) + n < max_request_sz

LEMMA ReadHeader ==
  ASSUME NEW r, IsReader(r), NEW s, Sound(s), Fitting(r, Len(s)), NEW ver_level
  PROVE  /\ IsReader(read_header(r, s, ver_level).reader)
         /\ Within(read_header(r, s, ver_level).reader)
<1> DEFINE cache == r.header_cache \o s
           end == header_end(cache)
           lines == SubSeq(cache, 1, end - 1)
           rest == SubSeq(cache, end + 2, Len(cache))
           content == r.content_cache \o rest
           headed == [r EXCEPT !.header_cache = lines]
           split == [r EXCEPT !.header_cache = lines, !.content_cache = @ \o rest]
           refusal == Refusal(split.header_cache, ver_level)
           got == read_header(r, s, ver_level)
<1>1. /\ Len(r.header_cache) \in Nat /\ Len(r.content_cache) \in Nat /\ Stored(r) \in Nat
      /\ r.total_sz \in Nat /\ IsText(r.content_cache)
      /\ Sound(r.header_cache) /\ Len(s) \in Nat /\ max_request_sz \in Nat
  BY StoredIs, SoundText, HttpCallAssumption DEF IsReader
<1>2. Sound(cache) /\ IsText(cache) /\ Len(cache) \in Nat /\ Len(cache) = Len(r.header_cache) + Len(s)
  BY <1>1, SoundJoined, SoundText
<1>3. end = 0 \/ end \in 1 .. Len(cache) - 1
  BY <1>2, HeaderEnds
<1>4. got = IF end = 0
            THEN [reader |-> [r EXCEPT !.header_cache = cache], outcome |-> NoPacket]
            ELSE IF refusal # 0
            THEN [reader |-> split, outcome |-> Error(refusal)]
            ELSE [reader |-> [split EXCEPT !.header = split.header_cache[1]], outcome |-> NoPacket]
  BY DEF read_header
<1>5. CASE end = 0
  <2> DEFINE new == [r EXCEPT !.header_cache = cache]
  <2>1. got.reader = new
    BY <1>4, <1>5
  <2> HIDE DEF cache
  <2>2. /\ IsReader(new) /\ new.header_cache = cache /\ new.content_cache = r.content_cache
        /\ new.total_sz = r.total_sz
    BY <1>2, ReaderMembers
  <2> HIDE DEF new, got
  <2>3. Stored(new) = Stored(r) + Len(s)
    <3>1. Stored(new) = Len(cache) + Len(r.content_cache)
      BY <2>2 DEF Stored
    <3>2. Stored(r) = Len(r.header_cache) + Len(r.content_cache)
      BY DEF Stored
    <3> DEFINE h == Len(r.header_cache)
               c == Len(r.content_cache)
               l == Len(s)
    <3>3. /\ h \in Nat /\ c \in Nat /\ l \in Nat
          /\ Stored(new) = (h + l) + c /\ Stored(r) = h + c
      BY <1>1, <1>2, <3>1, <3>2
    <3> HIDE DEF h, c, l
    <3>4. Stored(new) = Stored(r) + l
      BY <3>3
    <3> QED BY <3>4 DEF l
  <2>4. Within(new)
    BY <2>2, <2>3 DEF Within, Fitting
  <2> QED BY <2>1, <2>2, <2>4 DEF got
<1>6. CASE end # 0
  <2> HIDE DEF end, cache
  <2>1. /\ Sound(lines) /\ Len(lines) = end - 1 /\ IsText(rest) /\ Len(rest) = Len(cache) - end - 1
    <3>1. /\ end \in 1 .. Len(cache) - 1 /\ end \in Nat
          /\ 1 \in 1 .. Len(cache) + 1 /\ end - 1 \in 1 - 1 .. Len(cache)
          /\ end + 2 \in 1 .. Len(cache) + 1 /\ Len(cache) \in (end + 2) - 1 .. Len(cache)
          /\ (end - 1) - 1 + 1 = end - 1 /\ Len(cache) - (end + 2) + 1 = Len(cache) - end - 1
      <4> DEFINE n == Len(cache)
      <4>1. n \in Nat /\ end \in 1 .. n - 1
        BY <1>2, <1>3, <1>6
      <4> HIDE DEF n
      <4>2. /\ end \in Nat /\ 1 \in 1 .. n + 1 /\ end - 1 \in 1 - 1 .. n
            /\ end + 2 \in 1 .. n + 1 /\ n \in (end + 2) - 1 .. n
            /\ (end - 1) - 1 + 1 = end - 1 /\ n - (end + 2) + 1 = n - end - 1
        BY <4>1
      <4> QED BY <4>1, <4>2 DEF n
    <3>2. Sound(lines) /\ Len(lines) = (end - 1) - 1 + 1
      BY <1>2, <3>1, SoundWithin
    <3>3. IsText(rest) /\ Len(rest) = Len(cache) - (end + 2) + 1
      BY <1>2, <3>1, TextWithin
    <3> HIDE DEF lines, rest
    <3> QED BY <3>1, <3>2, <3>3
  <2> HIDE DEF lines, rest
  <2>2. IsText(content) /\ Len(content) = Len(r.content_cache) + Len(rest)
    BY <1>1, <2>1, TextJoined
  <2> HIDE DEF content
  <2>3. /\ IsReader(headed) /\ headed.header_cache = lines /\ headed.content_cache = r.content_cache
        /\ headed.total_sz = r.total_sz
    BY <2>1, ReaderMembers
  <2>4. split = [headed EXCEPT !.content_cache = content]
    <3>1. r \in [header_cache : {r.header_cache}, content_cache : {r.content_cache},
                 header : {r.header}, constructed : BOOLEAN, total_sz : Nat]
      BY DEF IsReader
    <3> QED BY <3>1 DEF content
  <2> HIDE DEF headed
  <2>5. /\ IsReader(split) /\ split.header_cache = lines /\ split.content_cache = content
        /\ split.total_sz = r.total_sz
    <3> HIDE DEF split
    <3>1. LET new == [headed EXCEPT !.content_cache = content]
          IN  /\ IsReader(new) /\ new.content_cache = content /\ new.header_cache = headed.header_cache
              /\ new.total_sz = headed.total_sz
      BY <2>2, <2>3, ReaderMembers
    <3> QED BY <2>3, <2>4, <3>1
  <2> HIDE DEF split
  <2>6. Stored(split) \in Nat /\ Stored(split) <= Stored(r) + Len(s)
    <3>1. Stored(split) = (end - 1) + (Len(r.content_cache) + (Len(cache) - end - 1))
      BY <2>1, <2>2, <2>5 DEF Stored
    <3>2. end \in Nat
      BY <1>2, <1>3
    <3>3. Stored(r) = Len(r.header_cache) + Len(r.content_cache)
      BY DEF Stored
    <3>4. Stored(split) \in Nat
      BY <2>5, StoredIs
    <3> DEFINE h == Len(r.header_cache)
               c == Len(r.content_cache)
               l == Len(s)
    <3>5. /\ h \in Nat /\ c \in Nat /\ l \in Nat
          /\ Stored(split) = (end - 1) + (c + ((h + l) - end - 1)) /\ Stored(r) = h + c
      BY <1>1, <1>2, <3>1, <3>3
    <3> HIDE DEF h, c, l
    <3>6. Stored(split) <= Stored(r) + l
      BY <3>2, <3>5
    <3> QED BY <3>4, <3>6 DEF l
  <2>7. Within(split)
    <3>1. max_request_sz # 0 => Stored(r) + Len(s) <= r.total_sz /\ Stored(r) + Len(s) < max_request_sz
      BY DEF Fitting
    <3> QED BY <1>1, <2>5, <2>6, <3>1 DEF Within
  <2>8. CASE refusal # 0
    BY <1>4, <1>6, <2>5, <2>7, <2>8
  <2>9. CASE refusal = 0
    <3> DEFINE new == [split EXCEPT !.header = split.header_cache[1]]
    <3>1. got.reader = new
      BY <1>4, <1>6, <2>9
    <3>2. Len(lines) = 1 /\ lines[1].is = "head"
      BY <2>5, <2>9 DEF Refusal
    <3>3. HasLength(lines[1])
      <4>1. 1 \in DOMAIN lines
        <5>1. DOMAIN lines = 1 .. Len(lines)
          BY <2>1, SoundText
        <5> QED BY <3>2, <5>1
      <4> QED BY <2>1, <3>2, <4>1 DEF Sound
    <3>4. /\ IsReader(new) /\ new.header_cache = split.header_cache
          /\ new.content_cache = split.content_cache /\ new.total_sz = split.total_sz
      BY <2>5, <3>3, ReaderMembers
    <3> HIDE DEF new, got
    <3>5. Within(new)
      BY <2>7, <3>4 DEF Within, Stored
    <3> QED BY <3>1, <3>4, <3>5 DEF got
  <2> QED BY <2>8, <2>9
<1> QED BY <1>5, <1>6

(* What follows of a content is added to what has come. *)
LEMMA ContentAdded ==
  ASSUME NEW r, IsReader(r), NEW s, Sound(s), Fitting(r, Len(s))
  PROVE  LET new == [r EXCEPT !.content_cache = @ \o s]
         IN  IsReader(new) /\ Within(new) /\ new.header = r.header
<1> DEFINE content == r.content_cache \o s
           new == [r EXCEPT !.content_cache = content]
<1>1. /\ Len(r.header_cache) \in Nat /\ Len(r.content_cache) \in Nat /\ Stored(r) \in Nat
      /\ IsText(r.content_cache) /\ IsText(s) /\ Len(s) \in Nat
      /\ Stored(r) = Len(r.header_cache) + Len(r.content_cache)
  BY StoredIs, SoundText DEF Stored
<1>2. IsText(content) /\ Len(content) = Len(r.content_cache) + Len(s)
  BY <1>1, TextJoined
<1> HIDE DEF content
<1>3. /\ IsReader(new) /\ new.content_cache = content /\ new.header_cache = r.header_cache
      /\ new.total_sz = r.total_sz
  BY <1>2, ReaderMembers
<1>4. new.header = r.header
  <2>1. r \in [header_cache : {r.header_cache}, content_cache : {r.content_cache},
               header : {r.header}, constructed : BOOLEAN, total_sz : Nat]
    BY DEF IsReader
  <2> QED BY <2>1
<1>5. Stored(new) = Len(r.header_cache) + Len(content)
  BY <1>3 DEF Stored
<1>6. Stored(new) = Stored(r) + Len(s)
  <2> DEFINE h == Len(r.header_cache)
             c == Len(r.content_cache)
             l == Len(s)
  <2>1. h \in Nat /\ c \in Nat /\ l \in Nat /\ Stored(new) = h + (c + l) /\ Stored(r) = h + c
    BY <1>1, <1>2, <1>5
  <2> HIDE DEF h, c, l
  <2>2. Stored(new) = Stored(r) + l
    BY <2>1
  <2> QED BY <2>2 DEF l
<1>7. Within(new)
  BY <1>3, <1>6 DEF Within, Fitting
<1> QED BY <1>3, <1>4, <1>7 DEF new, content

(* What comes after the content is dropped: no more is stored. *)
LEMMA Completed ==
  ASSUME NEW r, IsReader(r), Within(r), r.header # NoHeader, ready(r)
  PROVE  IsReader(complete(r).reader) /\ Within(complete(r).reader)
<1> DEFINE len == content_length(r.header.options)
           content == SubSeq(r.content_cache, 1, len)
           shorter == [r EXCEPT !.content_cache = content]
           new == [shorter EXCEPT !.constructed = TRUE]
<1>1. /\ Len(r.header_cache) \in Nat /\ Len(r.content_cache) \in Nat
      /\ IsText(r.content_cache) /\ r.total_sz \in Nat /\ max_request_sz \in Nat
      /\ Stored(r) = Len(r.header_cache) + Len(r.content_cache)
  BY StoredIs, HttpCallAssumption DEF Stored
<1>2. len \in Nat /\ len <= Len(r.content_cache)
  BY <1>1 DEF ready, IsReader, HasLength
<1>3. IsText(content) /\ Len(content) = len
  <2> HIDE DEF len
  <2>1. 1 \in 1 .. Len(r.content_cache) + 1 /\ len \in 1 - 1 .. Len(r.content_cache) /\ len - 1 + 1 = len
    BY <1>1, <1>2
  <2> QED BY <1>1, <2>1, TextWithin
<1> HIDE DEF content, len
<1>4. /\ IsReader(shorter) /\ shorter.content_cache = content /\ shorter.header_cache = r.header_cache
      /\ shorter.total_sz = r.total_sz
  BY <1>3, ReaderMembers
<1>5. complete(r).reader = new
  <2>1. r \in [header_cache : {r.header_cache}, content_cache : {r.content_cache},
               header : {r.header}, constructed : BOOLEAN, total_sz : Nat]
    BY DEF IsReader
  <2> QED BY <2>1 DEF complete, content, len
<1> HIDE DEF shorter
<1>6. /\ IsReader(new) /\ new.content_cache = content /\ new.header_cache = r.header_cache
      /\ new.total_sz = r.total_sz
  BY <1>4, ReaderMembers
<1> HIDE DEF new
<1>7. Stored(new) = Len(r.header_cache) + len
  BY <1>3, <1>6 DEF Stored
<1>8. Stored(new) \in Nat /\ Stored(new) <= Stored(r)
  <2> DEFINE h == Len(r.header_cache)
             c == Len(r.content_cache)
  <2>1. /\ h \in Nat /\ c \in Nat /\ len \in Nat /\ len <= c
        /\ Stored(new) = h + len /\ Stored(r) = h + c
    BY <1>1, <1>2, <1>7
  <2> HIDE DEF h, c
  <2> QED BY <2>1
<1>9. Within(new)
  <2>1. Stored(r) \in Nat /\ new.total_sz = r.total_sz
    BY <1>6, StoredIs
  <2>2. max_request_sz # 0 => Stored(r) <= r.total_sz /\ Stored(r) < max_request_sz
    BY DEF Within
  <2> DEFINE before == Stored(r)
             after == Stored(new)
             total == r.total_sz
  <2>3. /\ before \in Nat /\ after \in Nat /\ total \in Nat /\ after <= before
        /\ max_request_sz # 0 => before <= total /\ before < max_request_sz
    BY <1>1, <1>8, <2>1, <2>2
  <2> HIDE DEF before, after, total
  <2>4. max_request_sz # 0 => after <= total /\ after < max_request_sz
    BY <1>1, <2>3
  <2> QED BY <2>1, <2>4 DEF Within, after, total
<1> QED BY <1>5, <1>6, <1>9

LEMMA ReadPacket ==
  ASSUME NEW old, IsReader(old), Within(old), NEW s, Sound(s), NEW ver_level
  PROVE  /\ IsReader(read_packet(old, s, max_request_sz, ver_level).reader)
         /\ Within(read_packet(old, s, max_request_sz, ver_level).reader)
<1> DEFINE fresh == IF old.constructed THEN clear(old) ELSE old
           sized == check_sz(fresh, Len(s), max_request_sz)
           r == sized.reader
           added == [r EXCEPT !.content_cache = @ \o s]
           next == IF r.header = NoHeader THEN read_header(r, s, ver_level)
                   ELSE [reader |-> added, outcome |-> NoPacket]
           got == read_packet(old, s, max_request_sz, ver_level)
<1>1. got = IF ~sized.fits THEN [reader |-> r, outcome |-> Request_too_large]
            ELSE IF r.header = NoHeader /\ s = <<>>
            THEN [reader |-> r, outcome |-> Malformed_packet]
            ELSE IF next.reader.header # NoHeader /\ ready(next.reader)
            THEN complete(next.reader)
            ELSE next
  BY DEF read_packet
<1>2. IsReader(fresh) /\ Within(fresh)
  BY NewReaderIs DEF clear
<1> HIDE DEF fresh
<1>3. /\ IsReader(r) /\ Within(r)
      /\ sized.fits /\ max_request_sz # 0 =>
           Stored(r) + Len(s) <= r.total_sz /\ Stored(r) + Len(s) < max_request_sz
  <2>1. Len(s) \in Nat
    BY SoundText
  <2> QED BY <1>2, <2>1, SizeChecked
<1> HIDE DEF sized
<1>4. CASE ~sized.fits \/ (r.header = NoHeader /\ s = <<>>)
  <2>1. got.reader = r
    BY <1>1, <1>4
  <2> QED BY <1>3, <2>1 DEF got
<1>5. CASE sized.fits /\ ~ (r.header = NoHeader /\ s = <<>>)
  <2>1. Fitting(r, Len(s))
    BY <1>3, <1>5 DEF Fitting
  <2> HIDE DEF r
  <2>2. IsReader(next.reader) /\ Within(next.reader)
    <3>1. CASE r.header = NoHeader
      <4>1. next = read_header(r, s, ver_level)
        BY <3>1
      <4> HIDE DEF next
      <4> QED BY <1>3, <2>1, <4>1, ReadHeader
    <3>2. CASE r.header # NoHeader
      <4>1. next.reader = added
        BY <3>2
      <4>2. IsReader(added) /\ Within(added)
        BY <1>3, <2>1, ContentAdded
      <4> HIDE DEF next, added
      <4> QED BY <4>1, <4>2
    <3> QED BY <3>1, <3>2
  <2> HIDE DEF next
  <2>3. CASE next.reader.header # NoHeader /\ ready(next.reader)
    <3>1. got = complete(next.reader)
      BY <1>1, <1>5, <2>3
    <3>2. IsReader(complete(next.reader).reader) /\ Within(complete(next.reader).reader)
      BY <2>2, <2>3, Completed
    <3> HIDE DEF got
    <3> QED BY <3>1, <3>2 DEF got
  <2>4. CASE ~ (next.reader.header # NoHeader /\ ready(next.reader))
    <3>1. got = next
      BY <1>1, <1>5, <2>4
    <3> HIDE DEF got
    <3> QED BY <2>2, <3>1 DEF got
  <2> QED BY <2>3, <2>4
<1> QED BY <1>4, <1>5

-----------------------------------------------------------------------------
(* The server's end of a connection. *)

SetupKnown == setup \in {s.server : s \in Sessions}

IsAnswer(answer) ==
  \/ answer.is = "refuses"
  \/ answer.is = "responds" /\ IsText(ResponseContent(answer.resp))

LEMMA AcceptedIs == IsServer(setup, Accepted)
  BY NewReaderIs, EmptyText DEF IsServer, Accepted

(* A connection some members of which have been replaced. *)
LEMMA ServerMembers ==
  ASSUME NEW s, IsServer(setup, s)
  PROVE  /\ \A r : IsReader(r) /\ Within(r) => IsServer(setup, [s EXCEPT !.preader = r])
         /\ \A k : IsServer(setup, [s EXCEPT !.keep_alive = k])
         /\ IsServer(setup, [s EXCEPT !.open = FALSE, !.mask = {}])
         /\ \A t : IsText(t) =>
              /\ IsServer(setup, [s EXCEPT !.response = t])
              /\ IsServer(setup, [s EXCEPT !.response = t, !.mask = {"INPUT"}])
              /\ IsServer(setup, [s EXCEPT !.mask = {"OUTPUT"}, !.executing = {}, !.response = t])
              /\ IsServer(setup, [s EXCEPT !.keep_alive = FALSE, !.response = t, !.mask = @ \cup {"OUTPUT"}])
         /\ \A task : Known(setup, task) => IsServer(setup, [s EXCEPT !.mask = {}, !.executing = {task}])
<1>1. /\ s \in [open : BOOLEAN, mask : SUBSET {"INPUT", "OUTPUT"}, preader : {s.preader},
                keep_alive : {s.keep_alive}, response : {s.response}, executing : {s.executing}]
      /\ IsReader(s.preader) /\ Within(s.preader) /\ IsText(s.response)
      /\ s.executing = {} \/ \E task : s.executing = {task} /\ Known(setup, task)
  BY DEF IsServer
<1>2. ASSUME NEW r, IsReader(r), Within(r) PROVE IsServer(setup, [s EXCEPT !.preader = r])
  BY <1>1, <1>2 DEF IsServer
<1>3. ASSUME NEW k PROVE IsServer(setup, [s EXCEPT !.keep_alive = k])
  BY <1>1 DEF IsServer
<1>4. ASSUME NEW t, IsText(t)
      PROVE  /\ IsServer(setup, [s EXCEPT !.response = t])
             /\ IsServer(setup, [s EXCEPT !.response = t, !.mask = {"INPUT"}])
             /\ IsServer(setup, [s EXCEPT !.mask = {"OUTPUT"}, !.executing = {}, !.response = t])
             /\ IsServer(setup, [s EXCEPT !.keep_alive = FALSE, !.response = t, !.mask = @ \cup {"OUTPUT"}])
  <2>1. IsServer(setup, [s EXCEPT !.response = t])
    BY <1>1, <1>4 DEF IsServer
  <2>2. IsServer(setup, [s EXCEPT !.response = t, !.mask = {"INPUT"}])
    BY <1>1, <1>4 DEF IsServer
  <2>3. IsServer(setup, [s EXCEPT !.mask = {"OUTPUT"}, !.executing = {}, !.response = t])
    BY <1>1, <1>4 DEF IsServer
  <2>4. IsServer(setup, [s EXCEPT !.keep_alive = FALSE, !.response = t, !.mask = @ \cup {"OUTPUT"}])
    BY <1>1, <1>4 DEF IsServer
  <2> QED BY <2>1, <2>2, <2>3, <2>4
<1>5. ASSUME NEW task, Known(setup, task) PROVE IsServer(setup, [s EXCEPT !.mask = {}, !.executing = {task}])
  <2> DEFINE new == [s EXCEPT !.mask = {}, !.executing = {task}]
  <2>1. /\ new \in [open : BOOLEAN, mask : SUBSET {"INPUT", "OUTPUT"}, preader : {new.preader},
                    keep_alive : {new.keep_alive}, response : {new.response}, executing : {new.executing}]
        /\ new.preader = s.preader /\ new.response = s.response /\ new.executing = {task}
    BY <1>1
  <2> HIDE DEF new
  <2>2. IsServer(setup, new)
    BY <1>1, <1>5, <2>1 DEF IsServer
  <2> QED BY <2>2 DEF new
<1>6. IsServer(setup, [s EXCEPT !.open = FALSE, !.mask = {}])
  BY <1>1 DEF IsServer
<1> QED BY <1>2, <1>3, <1>4, <1>5, <1>6

LEMMA Responding ==
  ASSUME NEW s, IsServer(setup, s), NEW answer, IsAnswer(answer)
  PROVE  IsServer(setup, schedule_response(s, answer))
<1>1. ASSUME NEW code, NEW content, IsText(content) PROVE IsServer(setup, RespondWith(s, code, content))
  <2> DEFINE text == dump(code, set_conn_keep_alive(Header, s.keep_alive), content)
  <2>1. IsText(text)
    BY <1>1, PacketIsText
  <2>2. RespondWith(s, code, content) =
          [s EXCEPT !.mask = {"OUTPUT"}, !.executing = {}, !.response = text]
    BY DEF RespondWith
  <2> HIDE DEF text
  <2>3. IsServer(setup, [s EXCEPT !.mask = {"OUTPUT"}, !.executing = {}, !.response = text])
    BY <2>1, ServerMembers
  <2> QED BY <2>2, <2>3
<1>2. CASE answer.is = "refuses"
  BY <1>1, <1>2, EmptyText DEF schedule_response
<1>3. CASE answer.is # "refuses"
  BY <1>1, <1>3 DEF schedule_response, IsAnswer
<1> QED BY <1>2, <1>3

(* What is read is one of the program's requests, or rejected. *)
LEMMA ParsedIs ==
  ASSUME NEW content
  PROVE  ParseRequest(content) \in Read
<1>1. CASE content \in Contents
  <2>1. ParseRequest(content) = Documents[content]
    BY <1>1 DEF ParseRequest
  <2>2. content \in DOMAIN Documents
    BY <1>1 DEF Documents
  <2> QED BY <2>1, <2>2 DEF Read, Range
<1>2. CASE content \notin Contents
  <2>1. ParseRequest(content) = Parse_error
    BY <1>2 DEF ParseRequest
  <2> QED BY <2>1 DEF Read
<1> QED BY <1>1, <1>2

(* Whoever authenticate() gives a name is let in under it. *)
LEMMA Authenticated ==
  ASSUME NEW on, NEW options, NEW name \in authenticate(on, options)
  PROVE  LetIn(on, name)
<1>1. CASE on.auth_plugin = {}
  BY <1>1 DEF authenticate, LetIn
<1>2. CASE on.auth_plugin # {}
  <2> DEFINE ap == CHOOSE p \in on.auth_plugin : TRUE
             info == get_authinfo(options)
  <2>1. authenticate(on, options) = IF ~has_authinfo(options) THEN IF ap.anonymous THEN {Anonymous} ELSE {}
                                    ELSE IF info \in ap.users THEN {info.user} ELSE {}
    BY <1>2 DEF authenticate
  <2>2. ap \in on.auth_plugin
    BY <1>2
  <2> HIDE DEF ap, info
  <2>3. (ap.anonymous /\ name = Anonymous) \/ (info \in ap.users /\ name = info.user)
    BY <2>1
  <2> QED BY <1>2, <2>2, <2>3 DEF LetIn
<1> QED BY <1>1, <1>2

(* create_method() finds the first method of a name, if there is one.      *)
LEMMA MethodFound ==
  ASSUME NEW disps, IsText(disps), NEW name
  PROVE  /\ create_method(disps, name) = {} <=> \A d \in DOMAIN disps : name \notin DOMAIN disps[d]
         /\ \A m \in create_method(disps, name) :
              \E d \in DOMAIN disps :
                /\ name \in DOMAIN disps[d] /\ m = disps[d][name]
                /\ \A e \in 1 .. d - 1 : name \notin DOMAIN disps[e]
<1> DEFINE I == {i \in 1 .. Len(disps) : name \in DOMAIN disps[i]}
           d == IF I # {} THEN Min(I) ELSE 0
<1>1. Len(disps) \in Nat /\ DOMAIN disps = 1 .. Len(disps)
  BY TextIs
<1>2. create_method(disps, name) = IF d = 0 THEN {} ELSE {disps[d][name]}
  BY DEF create_method, SelectInSeq
<1>3. I \in SUBSET Nat
  BY <1>1
<1>4. CASE I = {}
  BY <1>1, <1>2, <1>4
<1>5. CASE I # {}
  <2>1. d \in I /\ \A i \in I : d <= i
    BY <1>3, <1>5, LeastIs
  <2> HIDE DEF d
  <2>2. d \in 1 .. Len(disps) /\ name \in DOMAIN disps[d] /\ d # 0
    BY <1>1, <2>1
  <2>3. ASSUME NEW e \in 1 .. d - 1, name \in DOMAIN disps[e] PROVE FALSE
    <3>1. e \in 1 .. Len(disps) /\ ~ (d <= e)
      BY <1>1, <2>2
    <3> QED BY <2>1, <2>3, <3>1
  <2> QED BY <1>1, <1>2, <2>2, <2>3
<1> QED BY <1>4, <1>5

(* A method that ran was stopped by no interceptor.                        *)
LEMMA PastInterceptors ==
  ASSUME NEW on, IsText(on.interceptors), NEW method, NEW req,
         process_execution(on, method, req).ran
  PROVE  /\ \A i \in DOMAIN on.interceptors : req.name \notin on.interceptors[i].stops
         /\ process_execution(on, method, req).through =
              [i \in DOMAIN on.interceptors |-> on.interceptors[i].name]
<1> DEFINE I == {i \in 1 .. Len(on.interceptors) : req.name \in on.interceptors[i].stops}
           stop == IF I # {} THEN Min(I) ELSE 0
           names == [i \in DOMAIN on.interceptors |-> on.interceptors[i].name]
<1>1. Len(on.interceptors) \in Nat /\ DOMAIN on.interceptors = 1 .. Len(on.interceptors)
  BY TextIs
<1>2. process_execution(on, method, req) =
        IF stop = 0
        THEN [ran |-> TRUE, through |-> names, outcome |-> execute(on, method, req)]
        ELSE [ran |-> FALSE, through |-> SubSeq(names, 1, stop),
              outcome |-> on.interceptors[stop].throws]
  BY DEF process_execution, SelectInSeq
<1>3. I # {} => Min(I) \in I
  <2>1. I \in SUBSET Nat
    BY <1>1
  <2> HIDE DEF I
  <2> QED BY <2>1, LeastIs
<1> HIDE DEF names
<1>4. stop = 0
  <2> HIDE DEF stop
  <2> QED BY <1>2
<1>5. I = {}
  BY <1>1, <1>3, <1>4
<1> QED BY <1>1, <1>2, <1>4, <1>5 DEF names

LEMMA ScheduledIs ==
  ASSUME SetupKnown, NEW packet
  PROVE  IF schedule_execute(setup, packet).is = "executes"
         THEN Known(setup, schedule_execute(setup, packet))
         ELSE IsAnswer(schedule_execute(setup, packet))
<1> DEFINE authname == authenticate(setup, packet.header.options)
           req == ParseRequest(packet.content)
           method == create_method(setup.dispatchers, req.name)
           task == schedule_execute(setup, packet)
           m == CHOOSE x \in method : TRUE
           n == CHOOSE x \in authname : TRUE
<1>1. req \in Read
  BY ParsedIs
<1>2. ASSUME NEW code, code \in {r.code : r \in Rejected} \cup {-32601}
      PROVE  IsAnswer(Responds(FaultOf(code)))
  <2>1. Responds(FaultOf(code)) \in Answers(setup)
    BY <1>2 DEF Answers
  <2>2. Responds(FaultOf(code)).is = "responds"
    BY DEF Responds
  <2> QED BY <2>1, <2>2, ContentsAssumption DEF SetupKnown, IsAnswer
<1>3. CASE authname = {}
  <2>1. task = Refuses(401)
    BY <1>3 DEF schedule_execute
  <2>2. task.is = "refuses"
    BY <2>1 DEF Refuses
  <2> HIDE DEF task
  <2>3. task.is # "executes" /\ IsAnswer(task)
    BY <2>2 DEF IsAnswer
  <2> QED BY <2>3 DEF task
<1>4. CASE authname # {} /\ req.is = "exception"
  <2>1. task = Responds(FaultOf(req.code))
    BY <1>4 DEF schedule_execute
  <2>2. req.code \in {r.code : r \in Rejected}
    BY <1>1, <1>4 DEF Rejected
  <2>3. IsAnswer(task)
    BY <1>2, <2>1, <2>2
  <2>4. task.is = "responds"
    BY <2>1 DEF Responds
  <2> HIDE DEF task
  <2>5. task.is # "executes" /\ IsAnswer(task)
    BY <2>3, <2>4
  <2> QED BY <2>5 DEF task
<1>5. CASE authname # {} /\ req.is # "exception" /\ method = {}
  <2>1. task = Responds(FaultOf(-32601))
    BY <1>5 DEF schedule_execute
  <2>2. IsAnswer(task)
    BY <1>2, <2>1
  <2>3. task.is = "responds"
    BY <2>1 DEF Responds
  <2> HIDE DEF task
  <2>4. task.is # "executes" /\ IsAnswer(task)
    BY <2>2, <2>3
  <2> QED BY <2>4 DEF task
<1>6. CASE authname # {} /\ req.is # "exception" /\ method # {}
  <2>1. task = Executes(req, m, n)
    BY <1>6 DEF schedule_execute
  <2>2. task.is = "executes" /\ task.req = req /\ task.method = m /\ task.authname = n
    BY <2>1 DEF Executes
  <2>3. m \in method /\ n \in authname
    BY <1>6
  <2>4. req \in Understood
    BY <1>1, <1>6 DEF Understood
  <2> HIDE DEF task, req, m, n
  <2>5. LetIn(setup, n)
    BY <2>3, Authenticated
  <2>6. Known(setup, task)
    BY <2>2, <2>3, <2>4, <2>5 DEF Known
  <2> QED BY <2>2, <2>6 DEF task
<1> QED BY <1>3, <1>4, <1>5, <1>6

LEMMA ExecutedIs ==
  ASSUME SetupKnown, NEW s, IsServer(setup, s), NEW task, Known(setup, task)
  PROVE  IsServer(setup, Executed(s, task).conn)
<1> DEFINE outcome == process_execution(setup, task.method, task.req).outcome
           answer == response_of(setup, outcome)
<1>1. answer \in Answers(setup)
  <2> DEFINE Of(req) == {response_of(setup, process_execution(setup, method, req).outcome) :
                           method \in create_method(setup.dispatchers, req.name)}
  <2>1. task.req \in Understood /\ task.method \in create_method(setup.dispatchers, task.req.name)
    BY DEF Known
  <2>2. answer \in Of(task.req)
    BY <2>1
  <2>3. answer \in UNION {Of(req) : req \in Understood}
    BY <2>1, <2>2
  <2> QED BY <2>3 DEF Answers
<1>2. answer.is \in {"refuses", "responds"}
  <2>1. pool_response(outcome).is = "responds"
    BY DEF pool_response, Responds
  <2>2. serial_response(outcome).is \in {"refuses", "responds"}
    <3>1. CASE outcome.is # "raised"
      BY <3>1 DEF serial_response, Responds
    <3>2. CASE outcome.is = "raised"
      <4>1. CASE outcome.class \in {"Fault", "Exception"}
        BY <3>2, <4>1 DEF serial_response, Responds
      <4>2. CASE outcome.class = "Error_response"
        BY <3>2, <4>2 DEF serial_response, Refuses
      <4>3. CASE outcome.class \notin {"Fault", "Exception", "Error_response"}
        BY <3>2, <4>3 DEF serial_response, Responds
      <4> QED BY <4>1, <4>2, <4>3
    <3> QED BY <3>1, <3>2
  <2> QED BY <2>1, <2>2 DEF response_of
<1>3. IsAnswer(answer)
  BY <1>1, <1>2, ContentsAssumption DEF SetupKnown, IsAnswer
<1>4. Executed(s, task).conn = schedule_response(s, answer)
  BY DEF Executed, Becomes
<1> HIDE DEF answer
<1> QED BY <1>3, <1>4, Responding

(* The interceptor that was pushed last is the first.                      *)
Backwards(s, n) == [i \in 1 .. n |-> s[n + 1 - i]]

LEMMA OnePushed ==
  ASSUME NEW s, IsText(s), NEW n \in 1 .. Len(s)
  PROVE  push_interceptor(Backwards(s, n - 1), s[n]) = Backwards(s, n)
<1> DEFINE S == Range(s)
           old == Backwards(s, n - 1)
           one == <<s[n]>>
           new == Backwards(s, n)
<1>1. Len(s) \in Nat /\ n \in Nat /\ n - 1 \in Nat /\ \A i \in 1 .. Len(s) : s[i] \in S
  BY TextIs
<1>2. \A i \in 1 .. n - 1 : n - i \in 1 .. Len(s) /\ (n - 1) + 1 - i = n - i
  BY <1>1
<1>3. \A i \in 1 .. n : n + 1 - i \in 1 .. Len(s)
  BY <1>1
<1> HIDE DEF S
<1>4. old \in Seq(S) /\ Len(old) = n - 1 /\ \A i \in 1 .. n - 1 : old[i] = s[n - i]
  <2>1. old \in [1 .. n - 1 -> S]
    BY <1>1, <1>2 DEF Backwards
  <2>2. old \in Seq(S)
    BY <1>1, <2>1, SeqDef
  <2>3. Len(old) = n - 1
    BY <1>1, <2>1, <2>2, LenProperties DEF Backwards
  <2> QED BY <1>2, <2>2, <2>3 DEF Backwards
<1>5. new \in Seq(S) /\ Len(new) = n /\ \A i \in 1 .. n : new[i] = s[n + 1 - i]
  <2>1. new \in [1 .. n -> S]
    BY <1>1, <1>3 DEF Backwards
  <2>2. new \in Seq(S)
    BY <1>1, <2>1, SeqDef
  <2> QED BY <1>1, <2>1, <2>2, LenProperties DEF Backwards
<1>6. one \in Seq(S) /\ Len(one) = 1 /\ one[1] = s[n]
  BY <1>1
<1> HIDE DEF old, one, new
<1>7. /\ one \o old \in Seq(S) /\ Len(one \o old) = n
      /\ \A i \in 1 .. n : (one \o old)[i] = new[i]
  <2>1. /\ one \o old \in Seq(S) /\ Len(one \o old) = 1 + (n - 1)
        /\ \A i \in 1 .. 1 + (n - 1) : (one \o old)[i] = IF i <= 1 THEN one[i] ELSE old[i - 1]
    <3> DEFINE both == one \o old
    <3>1. /\ both \in Seq(S) /\ Len(both) = Len(one) + Len(old)
          /\ \A i \in 1 .. Len(one) + Len(old) :
               both[i] = IF i <= Len(one) THEN one[i] ELSE old[i - Len(one)]
      BY <1>4, <1>6, ConcatProperties
    <3> HIDE DEF both
    <3>2. /\ both \in Seq(S) /\ Len(both) = 1 + (n - 1)
          /\ \A i \in 1 .. 1 + (n - 1) : both[i] = IF i <= 1 THEN one[i] ELSE old[i - 1]
      BY <1>4, <1>6, <3>1
    <3> QED BY <3>2 DEF both
  <2>2. ASSUME NEW i \in 1 .. n PROVE (one \o old)[i] = new[i]
    <3>1. CASE i = 1
      BY <1>1, <1>5, <1>6, <2>1, <3>1
    <3>2. CASE i # 1
      <4>1. i - 1 \in 1 .. n - 1 /\ n - (i - 1) = n + 1 - i /\ ~ (i <= 1)
        BY <1>1, <3>2
      <4>2. old[i - 1] = s[n - (i - 1)]
        BY <1>4, <4>1
      <4>3. new[i] = s[n + 1 - i] /\ i \in 1 .. 1 + (n - 1)
        BY <1>1, <1>5
      <4>4. (one \o old)[i] = old[i - 1]
        BY <2>1, <4>1, <4>3
      <4> QED BY <4>1, <4>2, <4>3, <4>4
    <3> QED BY <3>1, <3>2
  <2> QED BY <1>1, <2>1, <2>2
<1>8. IsText(one \o old) /\ IsText(new)
  BY <1>5, <1>7, TextOf
<1>9. one \o old = new
  BY <1>5, <1>7, <1>8, TextEqual
<1> QED BY <1>9 DEF push_interceptor, one, old, new

LEMMA ChainIs ==
  ASSUME NEW s, IsText(s)
  PROVE  Chain(s) = Backwards(s, Len(s))
<1> DEFINE L == Len(s)
           Builds(f) == f = [n \in 0 .. L |->
                               IF n = 0 THEN <<>> ELSE push_interceptor(f[n - 1], s[n])]
           nested == CHOOSE f : Builds(f)
           G == [n \in 0 .. L |-> Backwards(s, n)]
<1>1. L \in Nat
  BY TextIs
<1>2. Chain(s) = nested[L]
  BY DEF Chain
<1>3. Backwards(s, 0) = <<>>
  BY DEF Backwards
<1>4. Builds(G)
  <2> DEFINE val(n) == IF n = 0 THEN <<>> ELSE push_interceptor(G[n - 1], s[n])
  <2>1. ASSUME NEW n \in 0 .. L PROVE G[n] = val(n)
    <3>1. CASE n = 0
      BY <1>1, <1>3, <3>1
    <3>2. CASE n # 0
      <4>1. n \in 1 .. Len(s) /\ n - 1 \in 0 .. L
        BY <1>1, <3>2
      <4>2. G[n] = Backwards(s, n) /\ G[n - 1] = Backwards(s, n - 1)
        BY <4>1
      <4> QED BY <3>2, <4>1, <4>2, OnePushed
    <3> QED BY <3>1, <3>2
  <2> HIDE DEF val
  <2>2. G = [n \in 0 .. L |-> val(n)]
    BY <2>1
  <2> QED BY <2>2 DEF val
<1> HIDE DEF G
<1>5. Builds(nested)
  <2> HIDE DEF Builds
  <2> QED BY <1>4
<1> HIDE DEF nested
<1>6. \A n \in 0 .. L : nested[n] = IF n = 0 THEN <<>> ELSE push_interceptor(nested[n - 1], s[n])
  BY <1>5
<1> HIDE DEF Builds
<1> DEFINE wrong == {n \in 0 .. L : nested[n] # Backwards(s, n)}
<1>7. wrong = {}
  <2> SUFFICES ASSUME wrong # {} PROVE FALSE
    OBVIOUS
  <2>1. PICK n \in wrong : \A j \in wrong : n <= j
    <3>1. wrong \subseteq Nat
      BY <1>1
    <3> HIDE DEF wrong
    <3> QED BY <3>1, LeastExists
  <2>2. n \in 0 .. L /\ nested[n] # Backwards(s, n)
    BY <2>1
  <2>3. n # 0
    BY <1>1, <1>3, <1>6, <2>2
  <2>4. n - 1 \in 0 .. L /\ n \in 1 .. Len(s) /\ ~ (n <= n - 1)
    BY <1>1, <2>2, <2>3
  <2>5. nested[n - 1] = Backwards(s, n - 1)
    BY <2>1, <2>4
  <2> QED BY <1>6, <2>2, <2>3, <2>4, <2>5, OnePushed
<1>8. L \in 0 .. L
  BY <1>1
<1> QED BY <1>2, <1>7, <1>8

(* What a server has of interceptors.                                      *)
LEMMA InterceptorsAre ==
  ASSUME SetupKnown
  PROVE  /\ IsText(setup.interceptors) /\ IsText(setup.pushed)
         /\ Len(setup.interceptors) = Len(setup.pushed)
         /\ \A i \in DOMAIN setup.interceptors :
              /\ Len(setup.pushed) + 1 - i \in DOMAIN setup.pushed
              /\ setup.interceptors[i] = setup.pushed[Len(setup.pushed) + 1 - i]
              /\ setup.interceptors[i].throws.is = "raised"
<1> DEFINE s == setup.pushed
           n == Len(s)
<1>1. /\ IsText(s) /\ setup.interceptors = Chain(s)
      /\ \A i \in DOMAIN s : s[i].throws.is = "raised"
  BY HttpCallAssumption DEF SetupKnown
<1> HIDE DEF s
<1>2. n \in Nat /\ DOMAIN s = 1 .. n /\ \A i \in 1 .. n : s[i] \in Range(s)
  BY <1>1, TextIs
<1>3. setup.interceptors = [i \in 1 .. n |-> s[n + 1 - i]]
  BY <1>1, ChainIs DEF Backwards
<1> HIDE DEF n
<1>4. \A i \in 1 .. n : n + 1 - i \in 1 .. n
  BY <1>2
<1>5. setup.interceptors \in [1 .. n -> Range(s)]
  BY <1>2, <1>3, <1>4
<1>6. setup.interceptors \in Seq(Range(s)) /\ Len(setup.interceptors) = n
  BY <1>2, <1>5, SeqDef, LenProperties
<1>7. IsText(setup.interceptors)
  BY <1>6, TextOf
<1> QED BY <1>1, <1>2, <1>3, <1>4, <1>6, <1>7 DEF s, n

(* What runs when a request is executed is permitted.                      *)
LEMMA RunsIs ==
  ASSUME SetupKnown, NEW s, NEW task, Known(setup, task)
  PROVE  ArePermitted(setup, Executed(s, task).runs)
<1> DEFINE run == process_execution(setup, task.method, task.req)
           made == [request |-> task.req, method |-> task.method, authname |-> task.authname,
                    through |-> run.through]
<1>1. Executed(s, task).runs = IF run.ran THEN <<made>> ELSE <<>>
  BY DEF Executed, Becomes
<1>2. IsText(setup.dispatchers) /\ IsText(setup.interceptors)
  BY HttpCallAssumption, InterceptorsAre DEF SetupKnown
<1>3. ASSUME run.ran PROVE Permitted(setup, made)
  <2>1. /\ \A i \in DOMAIN setup.interceptors : task.req.name \notin setup.interceptors[i].stops
        /\ run.through = [i \in DOMAIN setup.interceptors |-> setup.interceptors[i].name]
    BY <1>2, <1>3, PastInterceptors
  <2>2. \E d \in DOMAIN setup.dispatchers :
          /\ task.req.name \in DOMAIN setup.dispatchers[d]
          /\ task.method = setup.dispatchers[d][task.req.name]
          /\ \A e \in 1 .. d - 1 : task.req.name \notin DOMAIN setup.dispatchers[e]
    BY <1>2, MethodFound DEF Known
  <2>3. LetIn(setup, task.authname)
    BY DEF Known
  <2> HIDE DEF run
  <2>4. /\ made.request = task.req /\ made.method = task.method
        /\ made.authname = task.authname /\ made.through = run.through
    OBVIOUS
  <2> HIDE DEF made
  <2> QED BY <2>1, <2>2, <2>3, <2>4 DEF Permitted
<1> HIDE DEF made
<1>4. CASE run.ran
  <2>1. <<made>> \in Seq({made}) /\ DOMAIN <<made>> = {1} /\ <<made>>[1] = made
    OBVIOUS
  <2>2. IsText(<<made>>)
    BY <2>1, TextOf
  <2> QED BY <1>1, <1>3, <1>4, <2>1, <2>2 DEF ArePermitted
<1>5. CASE ~run.ran
  BY <1>1, <1>5, EmptyText DEF ArePermitted
<1> QED BY <1>4, <1>5

(* So is what runs, or will run, for what has been read.                   *)
LEMMA RunsHandled ==
  ASSUME SetupKnown, NEW s, NEW outcome, outcome.is \in {"incomplete", "error", "packet"}
  PROVE  ArePermitted(setup, Handled(s, outcome, Asked(outcome)).runs)
<1> DEFINE task == Asked(outcome)
<1>1. ArePermitted(setup, <<>>)
  BY EmptyText DEF ArePermitted
<1>2. ASSUME NEW t, t.is = "executes" => Known(setup, t), NEW kept
      PROVE  ArePermitted(setup, handle_request(kept, t).runs)
  BY <1>1, <1>2, RunsIs DEF handle_request, Becomes
<1>3. CASE outcome.is \in {"incomplete", "error"}
  BY <1>1, <1>3 DEF Handled, Becomes
<1>4. CASE outcome.is = "packet"
  <2>1. task.is = "executes" => Known(setup, task)
    BY <1>4, ScheduledIs DEF Asked
  <2> HIDE DEF task
  <2>2. Handled(s, outcome, task).runs =
          handle_request([s EXCEPT !.keep_alive = conn_keep_alive(outcome.header.options)], task).runs
    BY <1>4 DEF Handled
  <2> QED BY <1>2, <2>1, <2>2 DEF task
<1> QED BY <1>3, <1>4

LEMMA RequestHandled ==
  ASSUME SetupKnown, NEW s, IsServer(setup, s), NEW task,
         IF task.is = "executes" THEN Known(setup, task) ELSE IsAnswer(task)
  PROVE  IsServer(setup, handle_request(s, task).conn)
<1>1. CASE task.is # "executes"
  BY <1>1, Responding DEF handle_request, Becomes
<1>2. CASE task.is = "executes" /\ setup.executor = "pool"
  BY <1>2, ServerMembers DEF handle_request, Becomes
<1>3. CASE task.is = "executes" /\ setup.executor # "pool"
  BY <1>3, ExecutedIs DEF handle_request
<1> QED BY <1>1, <1>2, <1>3

-----------------------------------------------------------------------------
(* What a step of the server changes: one end, and the pipes to and from it. *)

LEMMA SameReplaced ==
  ASSUME NEW s, IsText(s), NEW i \in DOMAIN s
  PROVE  [s EXCEPT ![i] = s[i]] = s
<1>1. s \in [1 .. Len(s) -> Range(s)] /\ DOMAIN s = 1 .. Len(s)
  BY TextIs, LenProperties
<1> QED BY <1>1

LEMMA ConnsAre ==
  ASSUME IInv
  PROVE  /\ Len(server) \in Nat /\ Conns = 1 .. Len(server)
         /\ DOMAIN to_server = Conns /\ DOMAIN to_client = Conns
         /\ SetupKnown
  BY TextIs DEF IInv, Conns, SetupKnown

LEMMA ServerChanged ==
  ASSUME IInv, NEW c \in Conns, NEW s, IsServer(setup, s), NEW ts, NEW tc, Pipes(ts, tc),
         UNCHANGED serverOthers,
         server' = [server EXCEPT ![c] = s],
         to_server' = [to_server EXCEPT ![c] = ts],
         to_client' = [to_client EXCEPT ![c] = tc]
  PROVE  IInv'
<1>1. /\ opts' = opts /\ setup' = setup /\ phase' = phase /\ conn' = conn /\ mask' = mask
      /\ out_str' = out_str /\ results' = results /\ left' = left
  BY DEF serverOthers
<1>2. /\ IsText(server) /\ IsText(to_server) /\ IsText(to_client)
      /\ Len(to_server) = Len(server) /\ Len(to_client) = Len(server)
      /\ DOMAIN server = Conns /\ DOMAIN to_server = Conns /\ DOMAIN to_client = Conns
  BY ConnsAre DEF IInv, Conns
<1>3. /\ IsText(server') /\ Len(server') = Len(server) /\ DOMAIN server' = Conns
      /\ server'[c] = s /\ \A d \in Conns : d # c => server'[d] = server[d]
  BY <1>2, TextReplaced
<1>4. /\ IsText(to_server') /\ Len(to_server') = Len(server)
      /\ to_server'[c] = ts /\ \A d \in Conns : d # c => to_server'[d] = to_server[d]
  BY <1>2, TextReplaced
<1>5. /\ IsText(to_client') /\ Len(to_client') = Len(server)
      /\ to_client'[c] = tc /\ \A d \in Conns : d # c => to_client'[d] = to_client[d]
  BY <1>2, TextReplaced
<1>6. Conns' = Conns
  BY <1>3 DEF Conns
<1>7. ASSUME NEW d \in Conns
      PROVE  IsServer(setup, server'[d]) /\ Pipes(to_server'[d], to_client'[d])
  <2>1. CASE d = c
    BY <1>3, <1>4, <1>5, <2>1
  <2>2. CASE d # c
    BY <1>3, <1>4, <1>5, <2>2 DEF IInv
  <2> QED BY <2>1, <2>2
<1>8. (\E x \in Sessions : opts = x.client /\ setup = x.server)'
  BY <1>1 DEF IInv
<1>9. ClientIs(phase, conn, mask, out_str, opts.keep_alive)'
  BY <1>1 DEF IInv
<1>10. IsText(results') /\ conn' \in 0 .. Len(server') /\ left' \subseteq Conns'
  BY <1>1, <1>3, <1>6 DEF IInv
<1>11. \A d \in Conns' : IsServer(setup', server'[d]) /\ Pipes(to_server'[d], to_client'[d])
  BY <1>1, <1>6, <1>7
<1> QED BY <1>3, <1>4, <1>5, <1>8, <1>9, <1>10, <1>11 DEF IInv

LEMMA Closing ==
  ASSUME IInv, NEW c \in Conns
  PROVE  /\ IsServer(setup, [Accepted EXCEPT !.open = FALSE, !.mask = {}])
         /\ Pipes(<<>>, <<>>) /\ Pipes(<<>>, to_client[c])
<1>1. Room \in Nat /\ 0 <= Room
  BY HttpCallAssumption
<1>2. Pipes(to_server[c], to_client[c])
  BY DEF IInv
<1> QED BY <1>1, <1>2, AcceptedIs, ServerMembers, SoundEmpty DEF Pipes

LEMMA OutcomeHandled ==
  ASSUME SetupKnown, NEW s, IsServer(setup, s), NEW outcome,
         outcome.is \in {"incomplete", "error", "packet"}
  PROVE  IsServer(setup, Handled(s, outcome, Asked(outcome)).conn)
<1> DEFINE task == Asked(outcome)
<1>1. CASE outcome.is = "incomplete"
  BY <1>1 DEF Handled, Becomes
<1>2. CASE outcome.is = "error"
  <2> DEFINE text == dump(outcome.code, Header, <<>>)
  <2>1. IsText(text)
    BY PacketIsText, EmptyText
  <2> HIDE DEF task
  <2>2. Handled(s, outcome, task).conn =
          [s EXCEPT !.keep_alive = FALSE, !.response = text, !.mask = @ \cup {"OUTPUT"}]
    BY <1>2 DEF Handled, Becomes, handle_error
  <2> HIDE DEF text
  <2>3. IsServer(setup, [s EXCEPT !.keep_alive = FALSE, !.response = text,
                                  !.mask = @ \cup {"OUTPUT"}])
    BY <2>1, ServerMembers
  <2> QED BY <2>2, <2>3 DEF task
<1>3. CASE outcome.is = "packet"
  <2> DEFINE kept == [s EXCEPT !.keep_alive = conn_keep_alive(outcome.header.options)]
  <2>1. IF task.is = "executes" THEN Known(setup, task) ELSE IsAnswer(task)
    BY <1>3, ScheduledIs DEF Asked
  <2>2. IsServer(setup, kept)
    BY ServerMembers
  <2> HIDE DEF task
  <2>3. Handled(s, outcome, task) = handle_request(kept, task)
    BY <1>3 DEF Handled
  <2> HIDE DEF kept
  <2>4. IsServer(setup, handle_request(kept, task).conn)
    BY <2>1, <2>2, RequestHandled
  <2> QED BY <2>3, <2>4 DEF task
<1> QED BY <1>1, <1>2, <1>3

LEMMA OutcomeIs ==
  ASSUME NEW old, NEW s, NEW max, NEW ver_level
  PROVE  read_packet(old, s, max, ver_level).outcome.is \in {"incomplete", "error", "packet"}
<1>1. ASSUME NEW r PROVE read_header(r, s, ver_level).outcome.is \in {"incomplete", "error"}
  BY DEF read_header, NoPacket, Error
<1>2. ASSUME NEW r PROVE complete(r).outcome.is = "packet"
  BY DEF complete, Packet
<1> QED BY <1>1, <1>2 DEF read_packet, NoPacket, Error, Request_too_large, Malformed_packet

LEMMA HandlesInput ==
  ASSUME IInv, NEW c \in Conns, handle_input(c)
  PROVE  IInv'
<1>1. /\ IsServer(setup, server[c]) /\ Pipes(to_server[c], to_client[c]) /\ SetupKnown
      /\ IsText(to_client) /\ c \in DOMAIN to_client
  BY ConnsAre DEF IInv
<1>2. PICK k \in 1 .. Len(to_server[c]) :
        \E read \in {read_packet(server[c].preader, SubSeq(to_server[c], 1, k), max_request_sz,
                                  setup.ver_level)} :
        \E task \in {Asked(read.outcome)}, conn_ \in {[server[c] EXCEPT !.preader = read.reader]} :
        \E becomes \in {Handled(conn_, read.outcome, task)} :
          /\ to_server' = [to_server EXCEPT ![c] = Rest(@, k)]
          /\ server' = [server EXCEPT ![c] = becomes.conn]
  BY ZenonT(60) DEF handle_input
<1> DEFINE read == read_packet(server[c].preader, SubSeq(to_server[c], 1, k), max_request_sz,
                               setup.ver_level)
           conn_ == [server[c] EXCEPT !.preader = read.reader]
           s == Handled(conn_, read.outcome, Asked(read.outcome)).conn
           rest == Rest(to_server[c], k)
<1>3. to_server' = [to_server EXCEPT ![c] = rest] /\ server' = [server EXCEPT ![c] = s]
  BY <1>2
<1>4. to_client' = [to_client EXCEPT ![c] = to_client[c]] /\ UNCHANGED serverOthers
  BY <1>1, SameReplaced DEF handle_input
<1>5. /\ Sound(SubSeq(to_server[c], 1, k)) /\ Sound(rest) /\ Len(rest) = Len(to_server[c]) - k
      /\ Len(to_server[c]) \in Nat
  BY <1>1, FirstOf, SoundText DEF Pipes
<1>6. Pipes(rest, to_client[c])
  <2>1. Room \in Nat /\ k \in Nat /\ Len(to_server[c]) <= Room
    BY <1>1, HttpCallAssumption DEF Pipes
  <2>2. Len(rest) <= Room
    BY <1>5, <2>1
  <2> QED BY <1>1, <1>5, <2>2 DEF Pipes
<1>7. IsReader(read.reader) /\ Within(read.reader)
  BY <1>1, <1>5, ReadPacket DEF IsServer
<1>8. read.outcome.is \in {"incomplete", "error", "packet"}
  BY OutcomeIs
<1> HIDE DEF read, rest
<1>9. IsServer(setup, conn_)
  BY <1>1, <1>7, ServerMembers
<1> HIDE DEF conn_
<1>10. IsServer(setup, s)
  BY <1>1, <1>8, <1>9, OutcomeHandled
<1> HIDE DEF s
<1> QED BY <1>3, <1>4, <1>6, <1>10, ServerChanged

LEMMA HandlesInputClosed ==
  ASSUME IInv, NEW c \in Conns, handle_input_closed(c)
  PROVE  IInv'
<1>1. to_client' = [to_client EXCEPT ![c] = to_client[c]] /\ UNCHANGED serverOthers
  BY ConnsAre, SameReplaced DEF handle_input_closed, IInv
<1> QED BY <1>1, Closing, ServerChanged DEF handle_input_closed, Close

LEMMA HandlesOutputFails ==
  ASSUME IInv, NEW c \in Conns, handle_output_fails(c)
  PROVE  IInv'
<1>1. to_client' = [to_client EXCEPT ![c] = to_client[c]] /\ UNCHANGED serverOthers
  BY ConnsAre, SameReplaced DEF handle_output_fails, IInv
<1> QED BY <1>1, Closing, ServerChanged DEF handle_output_fails, Close

LEMMA ExecutesActually ==
  ASSUME IInv, NEW c \in Conns, process_actual_execution(c)
  PROVE  IInv'
<1>1. /\ IsServer(setup, server[c]) /\ Pipes(to_server[c], to_client[c]) /\ SetupKnown
      /\ IsText(to_client) /\ IsText(to_server) /\ c \in DOMAIN to_client /\ c \in DOMAIN to_server
  BY ConnsAre DEF IInv
<1>2. PICK task \in server[c].executing : server' = [server EXCEPT ![c] = Executed(server[c], task).conn]
  BY DEF process_actual_execution
<1>3. Known(setup, task)
  BY <1>1, <1>2 DEF IsServer
<1>4. IsServer(setup, Executed(server[c], task).conn)
  BY <1>1, <1>3, ExecutedIs
<1>5. /\ to_client' = [to_client EXCEPT ![c] = to_client[c]]
      /\ to_server' = [to_server EXCEPT ![c] = to_server[c]]
      /\ UNCHANGED serverOthers
  BY <1>1, SameReplaced DEF process_actual_execution
<1> QED BY <1>1, <1>2, <1>4, <1>5, ServerChanged

LEMMA HandlesOutput ==
  ASSUME IInv, NEW c \in Conns, handle_output(c)
  PROVE  IInv'
<1> DEFINE response == server[c].response
<1>1. /\ IsServer(setup, server[c]) /\ Pipes(to_server[c], to_client[c])
      /\ IsText(to_client) /\ IsText(to_server) /\ c \in DOMAIN to_client /\ c \in DOMAIN to_server
  BY ConnsAre DEF IInv
<1>2. IsText(response) /\ IsText(to_client[c]) /\ UNCHANGED serverOthers
  BY <1>1 DEF IsServer, Pipes, handle_output
<1>3. PICK k \in 1 .. Len(response) :
        LET sent == IF c \in left THEN to_client
                    ELSE [to_client EXCEPT ![c] = Sent(to_client[c], response, k)]
        IN  /\ Len(sent[c]) <= Room
            /\ \/ /\ server' = [server EXCEPT ![c] = [server[c] EXCEPT !.response = Rest(response, k)]]
                  /\ to_client' = sent /\ UNCHANGED to_server
               \/ /\ server' = [server EXCEPT ![c] = [server[c] EXCEPT !.response = <<>>, !.mask = {"INPUT"}]]
                  /\ to_client' = sent /\ UNCHANGED to_server
               \/ Close(c) /\ to_client' \in Lost(c, sent)
  BY DEF handle_output
<1> DEFINE tc == IF c \in left THEN to_client[c] ELSE Sent(to_client[c], response, k)
           sent == [to_client EXCEPT ![c] = tc]
<1>4. (IF c \in left THEN to_client
       ELSE [to_client EXCEPT ![c] = Sent(to_client[c], response, k)]) = sent
  BY <1>1, SameReplaced
<1>5. sent[c] = tc
  BY <1>1
<1>6. IsText(tc)
  BY <1>2, FirstOfText, TextJoined DEF Sent
<1>7. IsText(Rest(response, k))
  BY <1>2, FirstOfText
<1> HIDE DEF tc, sent
<1>8. Len(tc) <= Room
  BY <1>3, <1>4, <1>5
<1>9. Pipes(to_server[c], tc) /\ Pipes(<<>>, tc)
  BY <1>1, <1>6, <1>8, Closing DEF Pipes
<1>10. UNCHANGED to_server => to_server' = [to_server EXCEPT ![c] = to_server[c]]
  BY <1>1, SameReplaced
<1>11. CASE /\ server' = [server EXCEPT ![c] = [server[c] EXCEPT !.response = Rest(response, k)]]
            /\ to_client' = sent /\ UNCHANGED to_server
  <2>1. IsServer(setup, [server[c] EXCEPT !.response = Rest(response, k)])
    BY <1>1, <1>7, ServerMembers
  <2> HIDE DEF response
  <2> QED BY <1>2, <1>9, <1>10, <1>11, <2>1, ServerChanged DEF sent
<1>12. CASE /\ server' = [server EXCEPT ![c] = [server[c] EXCEPT !.response = <<>>, !.mask = {"INPUT"}]]
            /\ to_client' = sent /\ UNCHANGED to_server
  <2>1. IsServer(setup, [server[c] EXCEPT !.response = <<>>, !.mask = {"INPUT"}])
    BY <1>1, EmptyText, ServerMembers
  <2> QED BY <1>2, <1>9, <1>10, <1>12, <2>1, ServerChanged DEF sent
<1>13. CASE Close(c) /\ to_client' \in Lost(c, sent)
  <2>1. to_client' = [to_client EXCEPT ![c] = tc] \/ to_client' = [to_client EXCEPT ![c] = <<>>]
    BY <1>1, <1>13 DEF Lost, sent
  <2> QED BY <1>2, <1>9, <1>13, <2>1, Closing, ServerChanged DEF Close
<1>14. \/ /\ server' = [server EXCEPT ![c] = [server[c] EXCEPT !.response = Rest(response, k)]]
          /\ to_client' = sent /\ UNCHANGED to_server
       \/ /\ server' = [server EXCEPT ![c] = [server[c] EXCEPT !.response = <<>>, !.mask = {"INPUT"}]]
          /\ to_client' = sent /\ UNCHANGED to_server
       \/ Close(c) /\ to_client' \in Lost(c, sent)
  BY <1>3, <1>4
<1> QED BY <1>11, <1>12, <1>13, <1>14

LEMMA Served ==
  ASSUME IInv, NEW c \in Conns, Serve(c)
  PROVE  IInv'
BY HandlesInput, HandlesInputClosed, HandlesOutputFails, ExecutesActually, HandlesOutput DEF Serve

-----------------------------------------------------------------------------
(* What a step of the client changes. *)

LEMMA OptionsAre ==
  ASSUME IInv
  PROVE  /\ opts.requests \in Seq(Requests) /\ IsText(opts.authinfo)
         /\ Len(opts.authinfo) = Len(opts.requests)
         /\ \A n \in 1 .. Len(opts.authinfo) :
              opts.authinfo[n] \in UNION {Range(s.client.authinfo) : s \in Sessions}
<1>1. PICK s \in Sessions : opts = s.client
  BY DEF IInv
<1>2. /\ opts.requests \in Seq(Requests) /\ IsText(opts.authinfo)
      /\ Len(opts.authinfo) = Len(opts.requests)
  BY <1>1, HttpCallAssumption
<1>3. \A n \in 1 .. Len(opts.authinfo) : opts.authinfo[n] \in Range(s.client.authinfo)
  BY <1>1, <1>2, TextIs
<1> QED BY <1>1, <1>2, <1>3

LEMMA RequestIsSound ==
  ASSUME IInv, Len(results) < Len(opts.requests)
  PROVE  Sound(request_packet)
<1> DEFINE n == Len(results) + 1
           info == opts.authinfo[n]
           options == set_conn_keep_alive(request_header[info], opts.keep_alive)
           content == RequestContent(opts.requests[n])
<1>1. n \in 1 .. Len(opts.requests) /\ n \in 1 .. Len(opts.authinfo)
  <2>1. Len(results) \in Nat /\ Len(opts.requests) \in Nat
    BY OptionsAre, TextIs, LenProperties DEF IInv
  <2> QED BY <2>1, OptionsAre
<1>2. opts.requests[n] \in Requests
  BY <1>1, OptionsAre, ElementOfSeq
<1>3. IsText(content) /\ \A i \in DOMAIN content : content[i].is # "head"
  BY <1>2, ContentsAssumption
<1>4. IsOptions(request_header[info])
  <2>1. IsOptions(Header)
    BY DEF IsOptions, Header
  <2>2. ASSUME NEW user, NEW passwd PROVE IsOptions(set_authinfo(Header, user, passwd))
    BY DEF IsOptions, Header, set_authinfo
  <2>3. request_header[info] = IF info.user = <<>> THEN Header
                               ELSE set_authinfo(Header, info.user, info.passwd)
    BY <1>1, OptionsAre DEF request_header
  <2> HIDE DEF info
  <2> QED BY <2>1, <2>2, <2>3
<1>5. IsOptions(options)
  <2> DEFINE header == request_header[info]
  <2> HIDE DEF header
  <2>1. IsOptions(header)
    BY <1>4 DEF header
  <2>2. IsOptions(set_conn_keep_alive(header, opts.keep_alive))
    BY <2>1 DEF IsOptions, set_conn_keep_alive
  <2> QED BY <2>2 DEF header
<1>6. request_packet = dump(0, options, content)
  BY DEF request_packet
<1> HIDE DEF options, content
<1> QED BY <1>3, <1>5, <1>6, PacketIsSound

LEMMA InitHolds == ASSUME Init PROVE IInv
<1>1. Len(<<>>) = 0 /\ DOMAIN <<>> = {} /\ IsText(<<>>) /\ Sound(<<>>)
  BY EmptyText, SoundEmpty
<1>2. ClientIs("idle", 0, {}, <<>>, opts.keep_alive)
  BY <1>1 DEF ClientIs
<1> QED BY <1>1, <1>2 DEF Init, IInv, Conns

LEMMA ClientChanged ==
  ASSUME IInv, NEW c \in Conns, NEW ts, NEW tc, Pipes(ts, tc),
         UNCHANGED <<opts, setup, server>>,
         to_server' = [to_server EXCEPT ![c] = ts],
         to_client' = [to_client EXCEPT ![c] = tc],
         ClientIs(phase', conn', mask', out_str', opts.keep_alive),
         IsText(results'), conn' \in 0 .. Len(server), left' \subseteq Conns
  PROVE  IInv'
<1>1. opts' = opts /\ setup' = setup /\ server' = server /\ Conns' = Conns
  BY DEF Conns
<1>2. /\ IsText(server) /\ IsText(to_server) /\ IsText(to_client)
      /\ Len(to_server) = Len(server) /\ Len(to_client) = Len(server)
      /\ DOMAIN to_server = Conns /\ DOMAIN to_client = Conns
  BY ConnsAre DEF IInv
<1>3. /\ IsText(to_server') /\ Len(to_server') = Len(server)
      /\ to_server'[c] = ts /\ \A d \in Conns : d # c => to_server'[d] = to_server[d]
  BY <1>2, TextReplaced
<1>4. /\ IsText(to_client') /\ Len(to_client') = Len(server)
      /\ to_client'[c] = tc /\ \A d \in Conns : d # c => to_client'[d] = to_client[d]
  BY <1>2, TextReplaced
<1>5. ASSUME NEW d \in Conns
      PROVE  IsServer(setup, server[d]) /\ Pipes(to_server'[d], to_client'[d])
  <2>1. CASE d = c
    BY <1>3, <1>4, <2>1 DEF IInv
  <2>2. CASE d # c
    BY <1>3, <1>4, <2>2 DEF IInv
  <2> QED BY <2>1, <2>2
<1>6. (\E x \in Sessions : opts = x.client /\ setup = x.server)'
  BY <1>1 DEF IInv
<1>7. ClientIs(phase, conn, mask, out_str, opts.keep_alive)'
  BY <1>1
<1>8. IsText(results') /\ conn' \in 0 .. Len(server') /\ left' \subseteq Conns'
  BY <1>1
<1>9. \A d \in Conns' : IsServer(setup', server'[d]) /\ Pipes(to_server'[d], to_client'[d])
  BY <1>1, <1>5
<1> QED BY <1>1, <1>2, <1>3, <1>4, <1>6, <1>7, <1>8, <1>9 DEF IInv

(* A client that waits for something has a connection. *)
LEMMA Connected ==
  ASSUME IInv, phase # "idle"
  PROVE  conn \in Conns
  BY ConnsAre DEF IInv, ClientIs

LEMMA CallEnds ==
  ASSUME IInv, phase # "idle", NEW result, NEW events, events \subseteq {"INPUT", "OUTPUT"},
         NEW tc, IsText(tc), Len(tc) <= Room,
         EndCall(result, events, [to_client EXCEPT ![conn] = tc]),
         UNCHANGED <<opts, setup, out_str, to_server, server>>
  PROVE  IInv'
<1>1. /\ conn \in Conns /\ conn \in 0 .. Len(server) /\ IsText(results) /\ left \subseteq Conns
      /\ ClientIs(phase, conn, mask, out_str, opts.keep_alive)
      /\ Pipes(to_server[conn], to_client[conn]) /\ IsText(to_server) /\ conn \in DOMAIN to_server
      /\ Len(server) \in Nat
  BY Connected, ConnsAre DEF IInv
<1>2. IsText(results')
  BY <1>1, TextAppended DEF EndCall
<1>3. to_server' = [to_server EXCEPT ![conn] = to_server[conn]]
  BY <1>1, SameReplaced
<1>4. CASE opts.keep_alive
  <2>1. /\ phase' = "idle" /\ mask' = events /\ conn' = conn /\ left' = left /\ out_str' = out_str
        /\ to_client' = [to_client EXCEPT ![conn] = tc]
    BY <1>4 DEF EndCall
  <2>2. ClientIs(phase', conn', mask', out_str', opts.keep_alive)
    BY <1>1, <1>4, <2>1 DEF ClientIs
  <2>3. Pipes(to_server[conn], tc)
    BY <1>1 DEF Pipes
  <2> QED BY <1>1, <1>2, <1>3, <2>1, <2>2, <2>3, ClientChanged
<1>5. CASE ~ opts.keep_alive
  <2>1. /\ phase' = "idle" /\ mask' = {} /\ conn' = 0 /\ left' = left \cup {conn}
        /\ out_str' = out_str
        /\ to_client' = [to_client EXCEPT ![conn] = tc]
    BY <1>1, <1>5 DEF EndCall
  <2>2. ClientIs(phase', conn', mask', out_str', opts.keep_alive)
    BY <1>1, <2>1 DEF ClientIs
  <2>3. Pipes(to_server[conn], tc)
    BY <1>1 DEF Pipes
  <2>4. conn' \in 0 .. Len(server) /\ left' \subseteq Conns
    BY <1>1, <2>1
  <2> QED BY <1>1, <1>2, <1>3, <2>1, <2>2, <2>3, <2>4, ClientChanged
<1> QED BY <1>4, <1>5

(* A call that ends with all that is under way left as it was. *)
LEMMA CallFails ==
  ASSUME IInv, phase # "idle", NEW result, EndCall(result, mask, to_client),
         UNCHANGED <<opts, setup, out_str, to_server, server>>
  PROVE  IInv'
<1>1. conn \in Conns /\ IsText(to_client) /\ conn \in DOMAIN to_client
  BY Connected, ConnsAre DEF IInv
<1>2. to_client = [to_client EXCEPT ![conn] = to_client[conn]]
  BY <1>1, SameReplaced
<1>3. IsText(to_client[conn]) /\ Len(to_client[conn]) <= Room /\ mask \subseteq {"INPUT", "OUTPUT"}
  BY <1>1 DEF IInv, Pipes, ClientIs
<1>4. EndCall(result, mask, [to_client EXCEPT ![conn] = to_client[conn]])
  BY <1>2
<1> QED BY <1>3, <1>4, CallEnds

LEMMA ExecutesOnNew ==
  ASSUME IInv, execute_on_new
  PROVE  IInv'
<1>1. /\ phase = "idle" /\ conn = 0 /\ mask = {} /\ Len(results) < Len(opts.requests)
      /\ ClientIs(phase, conn, mask, out_str, opts.keep_alive)
  BY DEF execute_on_new, IInv, ClientIs
<1>2. /\ conn' = Len(server) + 1 /\ phase' = "events" /\ mask' = {"OUTPUT"}
      /\ out_str' = request_packet
      /\ opts' = opts /\ setup' = setup /\ results' = results /\ left' = left
      /\ server' = Append(server, Accepted)
      /\ to_server' = Append(to_server, <<>>) /\ to_client' = Append(to_client, <<>>)
  BY <1>1 DEF execute_on_new, StartCall
<1>3. /\ Len(server) \in Nat /\ Conns = 1 .. Len(server)
      /\ IsText(server) /\ IsText(to_server) /\ IsText(to_client)
      /\ Len(to_server) = Len(server) /\ Len(to_client) = Len(server)
  BY ConnsAre DEF IInv
<1>4. /\ IsText(server') /\ Len(server') = Len(server) + 1 /\ DOMAIN server' = 1 .. Len(server) + 1
      /\ server'[Len(server) + 1] = Accepted /\ \A d \in Conns : server'[d] = server[d]
  BY <1>2, <1>3, TextAppended
<1>5. /\ IsText(to_server') /\ Len(to_server') = Len(server) + 1
      /\ to_server'[Len(server) + 1] = <<>> /\ \A d \in Conns : to_server'[d] = to_server[d]
  BY <1>2, <1>3, TextAppended
<1>6. /\ IsText(to_client') /\ Len(to_client') = Len(server) + 1
      /\ to_client'[Len(server) + 1] = <<>> /\ \A d \in Conns : to_client'[d] = to_client[d]
  BY <1>2, <1>3, TextAppended
<1>7. ASSUME NEW d \in 1 .. Len(server) + 1
      PROVE  IsServer(setup, server'[d]) /\ Pipes(to_server'[d], to_client'[d])
  <2>1. d \in Conns \/ d = Len(server) + 1
    BY <1>3
  <2>2. CASE d \in Conns
    BY <1>4, <1>5, <1>6, <2>2 DEF IInv
  <2>3. CASE d = Len(server) + 1
    <3>1. Pipes(<<>>, <<>>)
      <4>1. 0 <= Room
        BY HttpCallAssumption
      <4> QED BY <4>1, SoundEmpty DEF Pipes
    <3> QED BY <1>4, <1>5, <1>6, <2>3, <3>1, AcceptedIs
  <2> QED BY <2>1, <2>2, <2>3
<1>8. ClientIs(phase', conn', mask', out_str', opts.keep_alive)
  <2>1. Len(server) + 1 # 0 /\ Sound(request_packet)
    BY <1>1, <1>3, RequestIsSound
  <2> QED BY <1>2, <2>1 DEF ClientIs
<1>9. conn' \in 0 .. Len(server') /\ left' \subseteq Conns'
  BY <1>2, <1>3, <1>4 DEF IInv, Conns
<1>10. (\E x \in Sessions : opts = x.client /\ setup = x.server)' /\ IsText(results')
  BY <1>2 DEF IInv
<1>11. \A d \in Conns' : IsServer(setup', server'[d]) /\ Pipes(to_server'[d], to_client'[d])
  BY <1>2, <1>4, <1>7 DEF Conns
<1> QED BY <1>2, <1>4, <1>5, <1>6, <1>8, <1>9, <1>10, <1>11 DEF IInv

LEMMA ExecutesOnKept ==
  ASSUME IInv, execute_on_kept
  PROVE  IInv'
<1>1. /\ conn \in Conns /\ opts.keep_alive /\ Len(results) < Len(opts.requests)
      /\ mask \subseteq {"INPUT", "OUTPUT"}
  BY ConnsAre DEF execute_on_kept, IInv, ClientIs
<1>2. /\ IsText(to_server) /\ IsText(to_client) /\ conn \in DOMAIN to_server /\ conn \in DOMAIN to_client
      /\ Pipes(to_server[conn], to_client[conn])
  BY <1>1, ConnsAre DEF IInv
<1>3. /\ phase' = "events" /\ mask' = mask \cup {"OUTPUT"} /\ out_str' = request_packet
      /\ conn' = conn /\ results' = results /\ left' = left
      /\ UNCHANGED <<opts, setup, server>>
  BY DEF execute_on_kept, StartCall
<1>4. /\ to_server' = [to_server EXCEPT ![conn] = to_server[conn]]
      /\ to_client' = [to_client EXCEPT ![conn] = to_client[conn]]
  BY <1>2, SameReplaced DEF execute_on_kept
<1>5. ClientIs(phase', conn', mask', out_str', opts.keep_alive)
  <2>1. conn # 0 /\ Sound(request_packet)
    BY <1>1, RequestIsSound DEF execute_on_kept
  <2> QED BY <1>1, <1>3, <2>1 DEF ClientIs
<1>6. IsText(results') /\ conn' \in 0 .. Len(server) /\ left' \subseteq Conns
  BY <1>3 DEF IInv
<1> QED BY <1>1, <1>2, <1>3, <1>4, <1>5, <1>6, ClientChanged

LEMMA ConnectFails ==
  ASSUME IInv, connect_fails
  PROVE  IInv'
<1>1. IsText(results')
  BY TextAppended DEF connect_fails, IInv
<1>2. UNCHANGED <<opts, setup, phase, conn, mask, out_str, left, to_server, to_client, server>>
  BY DEF connect_fails
<1> QED BY <1>1, <1>2 DEF IInv, Conns

LEMMA ClientHandlesOutput ==
  ASSUME IInv, client_handle_output
  PROVE  IInv'
<1>1. /\ phase = "events" /\ conn \in Conns /\ conn # 0
      /\ ClientIs(phase, conn, mask, out_str, opts.keep_alive)
      /\ Sound(out_str) /\ Len(out_str) \in Nat
      /\ IsText(to_server) /\ IsText(to_client) /\ conn \in DOMAIN to_server /\ conn \in DOMAIN to_client
      /\ Pipes(to_server[conn], to_client[conn])
  BY Connected, ConnsAre, SoundText DEF client_handle_output, IInv, ClientIs
<1>2. PICK k \in 1 .. Len(out_str) :
        /\ out_str' = Rest(out_str, k) /\ mask' = AfterOutput(k)
        /\ IF Open(conn)
           THEN /\ Len(to_server[conn]) + k <= Room
                /\ to_server' = [to_server EXCEPT ![conn] = Sent(to_server[conn], out_str, k)]
                /\ UNCHANGED to_client
           ELSE /\ to_client' \in {to_client, [to_client EXCEPT ![conn] = <<>>]}
                /\ UNCHANGED to_server
  BY DEF client_handle_output
<1>3. /\ phase' = phase /\ conn' = conn /\ results' = results /\ left' = left
      /\ UNCHANGED <<opts, setup, server>>
  BY DEF client_handle_output
<1>4. /\ Sound(out_str') /\ Len(out_str') = Len(out_str) - k
      /\ Sound(SubSeq(out_str, 1, k)) /\ Len(SubSeq(out_str, 1, k)) = k
  BY <1>1, <1>2, FirstOf
<1>5. ClientIs(phase', conn', mask', out_str', opts.keep_alive)
  <2>1. CASE k = Len(out_str)
    <3>1. out_str' = <<>>
      <4>1. Len(out_str') = 0 /\ IsText(out_str')
        BY <1>1, <1>4, <2>1 DEF Sound
      <4> QED BY <4>1, TextIs, EmptySeq
    <3>2. mask' = {"INPUT"}
      BY <1>2, <2>1 DEF AfterOutput
    <3> QED BY <1>1, <1>3, <1>4, <3>1, <3>2 DEF ClientIs
  <2>2. CASE k # Len(out_str)
    <3>1. mask' = mask
      BY <1>2, <2>2 DEF AfterOutput
    <3>2. out_str # <<>>
      BY <1>1, <1>2, SoundEmpty
    <3> QED BY <1>1, <1>3, <1>4, <3>1, <3>2 DEF ClientIs
  <2> QED BY <2>1, <2>2
<1>6. IsText(results') /\ conn' \in 0 .. Len(server) /\ left' \subseteq Conns
  BY <1>3 DEF IInv
<1>7. UNCHANGED to_client => to_client' = [to_client EXCEPT ![conn] = to_client[conn]]
  BY <1>1, SameReplaced
<1>8. UNCHANGED to_server => to_server' = [to_server EXCEPT ![conn] = to_server[conn]]
  BY <1>1, SameReplaced
<1>9. CASE Open(conn)
  <2> DEFINE ts == Sent(to_server[conn], out_str, k)
  <2>1. Sound(ts) /\ Len(ts) = Len(to_server[conn]) + k
    BY <1>1, <1>4, SoundJoined DEF Sent, Pipes
  <2>2. Pipes(ts, to_client[conn])
    <3>1. Len(ts) <= Room
      BY <1>2, <1>9, <2>1
    <3> HIDE DEF ts
    <3> QED BY <1>1, <2>1, <3>1 DEF Pipes
  <2> HIDE DEF ts
  <2> QED BY <1>1, <1>2, <1>3, <1>5, <1>6, <1>7, <1>9, <2>2, ClientChanged DEF ts
<1>10. CASE ~ Open(conn)
  <2>1. Pipes(to_server[conn], <<>>)
    BY <1>1, Closing DEF Pipes
  <2>2. \/ to_client' = [to_client EXCEPT ![conn] = to_client[conn]]
        \/ to_client' = [to_client EXCEPT ![conn] = <<>>]
    BY <1>2, <1>7, <1>10
  <2> QED BY <1>1, <1>2, <1>3, <1>5, <1>6, <1>8, <1>10, <2>1, <2>2, ClientChanged
<1> QED BY <1>9, <1>10

LEMMA ClientHandlesInput ==
  ASSUME IInv, client_handle_input
  PROVE  IInv'
<1>1. /\ phase # "idle" /\ "INPUT" \in mask /\ conn \in Conns /\ conn # 0
      /\ mask \subseteq {"INPUT", "OUTPUT"}
      /\ ClientIs(phase, conn, mask, out_str, opts.keep_alive)
      /\ IsText(to_server) /\ IsText(to_client) /\ conn \in DOMAIN to_server /\ conn \in DOMAIN to_client
      /\ Pipes(to_server[conn], to_client[conn])
  BY Connected, ConnsAre DEF client_handle_input, IInv, ClientIs
<1>2. PICK k \in 1 .. Len(to_client[conn]), events \in {mask, {}} :
        \E result :
          LET rest == [to_client EXCEPT ![conn] = Rest(to_client[conn], k)]
          IN  \/ EndCall(result, events, rest)
              \/ /\ phase' \in {"receiving", "events"} /\ to_client' = rest
                 /\ UNCHANGED <<conn, mask, results, left>>
  BY DEF client_handle_input
<1>3. PICK result :
        LET rest == [to_client EXCEPT ![conn] = Rest(to_client[conn], k)]
        IN  \/ EndCall(result, events, rest)
            \/ /\ phase' \in {"receiving", "events"} /\ to_client' = rest
               /\ UNCHANGED <<conn, mask, results, left>>
  BY <1>2
<1>4. UNCHANGED <<opts, setup, out_str, to_server, server>>
  BY DEF client_handle_input
<1> DEFINE tc == Rest(to_client[conn], k)
<1>5. IsText(tc) /\ Len(tc) <= Room
  <2>1. IsText(tc) /\ Len(tc) = Len(to_client[conn]) - k
    BY <1>1, FirstOfText DEF Pipes
  <2>2. Len(to_client[conn]) \in Nat /\ Len(to_client[conn]) <= Room /\ Room \in Nat /\ k \in Nat
    BY <1>1, TextIs, HttpCallAssumption DEF Pipes
  <2> HIDE DEF tc
  <2> QED BY <2>1, <2>2
<1>6. CASE EndCall(result, events, [to_client EXCEPT ![conn] = tc])
  <2>1. events \subseteq {"INPUT", "OUTPUT"}
    BY <1>1, <1>2
  <2> HIDE DEF tc
  <2> QED BY <1>1, <1>4, <1>5, <1>6, <2>1, CallEnds
<1>7. CASE /\ phase' \in {"receiving", "events"} /\ to_client' = [to_client EXCEPT ![conn] = tc]
           /\ UNCHANGED <<conn, mask, results, left>>
  <2> HIDE DEF tc
  <2>1. to_server' = [to_server EXCEPT ![conn] = to_server[conn]]
    BY <1>1, <1>4, SameReplaced
  <2>2. Pipes(to_server[conn], tc)
    BY <1>1, <1>5 DEF Pipes
  <2>3. ClientIs(phase', conn', mask', out_str', opts.keep_alive)
    BY <1>1, <1>4, <1>7 DEF ClientIs
  <2>4. IsText(results') /\ conn' \in 0 .. Len(server) /\ left' \subseteq Conns
    BY <1>7 DEF IInv
  <2> QED BY <1>1, <1>4, <1>7, <2>1, <2>2, <2>3, <2>4, ClientChanged
<1> QED BY <1>3, <1>6, <1>7

LEMMA ClientWorks ==
  ASSUME IInv, Client
  PROVE  IInv'
<1>1. CASE output_fails
  BY <1>1, CallFails DEF output_fails
<1>2. CASE input_fails
  BY <1>2, CallFails DEF input_fails
<1>3. CASE Client_timeout
  BY <1>3, CallFails DEF Client_timeout
<1> QED BY <1>1, <1>2, <1>3, ExecutesOnNew, ExecutesOnKept, ClientHandlesOutput, ClientHandlesInput
        DEF Client

-----------------------------------------------------------------------------
LEMMA Invariance == Spec => []IInv
<1>1. ASSUME IInv, [Next]_vars PROVE IInv'
  <2>1. CASE Client
    BY <1>1, <2>1, ClientWorks
  <2>2. CASE connect_fails
    BY <1>1, <2>2, ConnectFails
  <2>3. CASE \E c \in Conns : Serve(c)
    BY <1>1, <2>3, Served
  <2>4. CASE UNCHANGED vars
    BY <1>1, <2>4 DEF IInv, Conns, vars, clientVars
  <2> QED BY <1>1, <2>1, <2>2, <2>3, <2>4 DEF Next
<1> QED BY <1>1, InitHolds, PTL DEF Spec

(* The runs of methods. *)
LEMMA RunsAdded ==
  ASSUME NEW on, NEW old, ArePermitted(on, old), NEW new, ArePermitted(on, new)
  PROVE  ArePermitted(on, old \o new)
BY TextJoined DEF ArePermitted

LEMMA RunsServed ==
  ASSUME IInv, NEW c \in Conns, Serve(c), ArePermitted(setup, executed)
  PROVE  ArePermitted(setup, executed')
<1>1. SetupKnown
  BY ConnsAre
<1>2. CASE handle_input(c)
  <2>1. PICK k \in 1 .. Len(to_server[c]) :
          \E read \in {read_packet(server[c].preader, SubSeq(to_server[c], 1, k), max_request_sz,
                                    setup.ver_level)} :
          \E task \in {Asked(read.outcome)}, conn_ \in {[server[c] EXCEPT !.preader = read.reader]} :
          \E becomes \in {Handled(conn_, read.outcome, task)} :
            executed' = executed \o becomes.runs
    BY <1>2, ZenonT(60) DEF handle_input
  <2> DEFINE read == read_packet(server[c].preader, SubSeq(to_server[c], 1, k), max_request_sz,
                                 setup.ver_level)
             conn_ == [server[c] EXCEPT !.preader = read.reader]
  <2>2. executed' = executed \o Handled(conn_, read.outcome, Asked(read.outcome)).runs
    BY <2>1
  <2>3. read.outcome.is \in {"incomplete", "error", "packet"}
    BY OutcomeIs
  <2> HIDE DEF read, conn_
  <2>4. ArePermitted(setup, Handled(conn_, read.outcome, Asked(read.outcome)).runs)
    BY <1>1, <2>3, RunsHandled
  <2> QED BY <2>2, <2>4, RunsAdded
<1>3. CASE process_actual_execution(c)
  <2>1. PICK task \in server[c].executing : executed' = executed \o Executed(server[c], task).runs
    BY <1>3 DEF process_actual_execution
  <2>2. Known(setup, task)
    BY <2>1 DEF IInv, IsServer
  <2> QED BY <1>1, <2>1, <2>2, RunsIs, RunsAdded
<1>4. CASE handle_input_closed(c) \/ handle_output(c) \/ handle_output_fails(c)
  <2>1. executed' = executed
    BY <1>4 DEF handle_input_closed, handle_output, handle_output_fails
  <2> QED BY <2>1
<1> QED BY <1>2, <1>3, <1>4 DEF Serve

LEMMA RunsInvariance == Spec => []ArePermitted(setup, executed)
<1> DEFINE Runs == ArePermitted(setup, executed)
<1>1. ASSUME Init PROVE Runs
  BY <1>1, EmptyText DEF Init, ArePermitted
<1>2. ASSUME IInv, Runs, [Next]_vars PROVE Runs'
  <2>1. CASE Client \/ connect_fails \/ UNCHANGED vars
    <3>1. UNCHANGED <<setup, executed>>
      BY <2>1 DEF Client, execute_on_new, execute_on_kept, StartCall, client_handle_output,
                  output_fails, client_handle_input, input_fails, Client_timeout, connect_fails,
                  vars, clientVars
    <3> QED BY <1>2, <3>1
  <2>2. CASE \E c \in Conns : Serve(c)
    <3>1. setup' = setup
      BY <2>2 DEF Serve, handle_input, handle_input_closed, process_actual_execution,
                  handle_output, handle_output_fails, serverOthers
    <3> QED BY <1>2, <2>2, <3>1, RunsServed
  <2> QED BY <1>2, <2>1, <2>2 DEF Next
<1> HIDE DEF Runs
<1>3. Spec => []Runs
  BY <1>1, <1>2, Invariance, PTL DEF Spec
<1> QED BY <1>3 DEF Runs

(* Whoever calls, and however the bytes are cut: every method that runs is *)
(* the first of the request's name in the order of the dispatchers, has    *)
(* been nested in all the interceptors and stopped by none, and runs under *)
(* a name that the plugin has let in (Server::schedule_execute,            *)
(* Method_dispatcher_manager, Method::process_execution).                  *)
RunsPermitted == \A i \in DOMAIN executed : Permitted(setup, executed[i])

THEOREM OnlyPermittedRun == Spec => []RunsPermitted
<1>1. ArePermitted(setup, executed) => RunsPermitted
  BY DEF ArePermitted, RunsPermitted
<1> QED BY <1>1, RunsInvariance, PTL

(* However the client's options, its calls and the server are, and         *)
(* however the bytes are cut: registration and phase of the client go with *)
(* the connection it has, a connection executes one request at most, and   *)
(* Packet_reader::check_sz keeps what is stored of a packet, a header and  *)
(* a content together, below the limit that was set.                       *)
THEOREM TypeCorrect == Spec => []TypeOK
<1>1. ASSUME IInv PROVE TypeOK
  <2>1. /\ \E s \in Sessions : opts = s.client /\ setup = s.server
        /\ conn \in 0 .. Len(server) /\ left \subseteq Conns
        /\ Len(to_server) = Len(server) /\ Len(to_client) = Len(server)
    BY <1>1 DEF IInv
  <2>2. /\ phase \in {"idle", "events", "receiving"} /\ mask \subseteq {"INPUT", "OUTPUT"}
        /\ conn = 0 => phase = "idle" /\ mask = {}
        /\ phase = "receiving" => out_str = <<>> \/ opts.keep_alive
    BY <1>1 DEF IInv, ClientIs
  <2>3. ASSUME NEW c \in Conns
        PROVE  /\ server[c].mask \subseteq {"INPUT", "OUTPUT"}
               /\ Len(to_server[c]) <= Room /\ Len(to_client[c]) <= Room
               /\ Cardinality(server[c].executing) <= 1
               /\ max_request_sz # 0 =>
                    Len(server[c].preader.header_cache)
                    + Len(server[c].preader.content_cache) < max_request_sz
    <3>1. IsServer(setup, server[c]) /\ Pipes(to_server[c], to_client[c])
      BY <1>1 DEF IInv
    <3>2. server[c].mask \subseteq {"INPUT", "OUTPUT"}
      BY <3>1 DEF IsServer
    <3>3. Cardinality(server[c].executing) <= 1
      <4>1. CASE server[c].executing = {}
        BY <4>1, FS_EmptySet
      <4>2. CASE \E task : server[c].executing = {task}
        <5>1. PICK task : server[c].executing = {task}
          BY <4>2
        <5>2. Cardinality({task}) = 1
          BY FS_Singleton
        <5> QED BY <5>1, <5>2
      <4> QED BY <3>1, <4>1, <4>2 DEF IsServer
    <3>4. max_request_sz # 0 => Stored(server[c].preader) < max_request_sz
      BY <3>1 DEF IsServer, Within
    <3> QED BY <3>1, <3>2, <3>3, <3>4 DEF Pipes, Stored
  <2> QED BY <2>1, <2>2, <2>3 DEF TypeOK
<1> QED BY <1>1, Invariance, PTL

-----------------------------------------------------------------------------
(* A call of a client that keeps no connection: a packet of a request, and *)
(* what is read of it piece by piece.                                      *)

IsPacket(p, content) ==
  /\ IsText(p) /\ Len(p) = Len(content) + 3 /\ Len(content) \in Nat
  /\ p[1].is = "head" /\ p[1] # CR_LF /\ p[1] # LF
  /\ p[2] = CR_LF /\ p[3] = CR_LF
  /\ SubSeq(p, 4, Len(p)) = content /\ IsText(content)
  /\ content_length(p[1].options) = Len(content)

(* A reader's members.                                                     *)
Members(r, header_cache, content_cache, header, total_sz) ==
  r \in [header_cache : {header_cache}, content_cache : {content_cache}, header : {header},
         constructed : {FALSE}, total_sz : {total_sz}]

(* A reader that has been given the first k symbols of a packet.           *)
Held(r, p, k, counted) ==
  IF k < 3 THEN Members(r, SubSeq(p, 1, k), <<>>, NoHeader, counted)
  ELSE Members(r, <<p[1]>>, SubSeq(p, 4, k), p[1], counted)

Given(r, p, k, max) == Held(r, p, k, IF max = 0 THEN 0 ELSE k)

(* A reader that has refused: for the size, or for the header.             *)
Overfull(r, max) ==
  /\ max # 0 /\ ~ r.constructed
  /\ \/ r.total_sz >= max
     \/ r.header # NoHeader /\ content_length(r.header.options) + Len(r.header_cache) >= max
Mistaken(r, head) ==
  /\ r.header = NoHeader /\ ~ r.constructed
  /\ r.header_cache # <<>> /\ r.header_cache[1] = head

(* What symbols k + 1 to j of a packet are read as.                        *)
ReadAs(read, p, content, k, j, max, ver_level) ==
  LET refusal == Refusal(<<p[1]>>, ver_level)
  IN  \/ /\ max # 0 /\ Len(p) >= max /\ read.outcome = Error(413)
         /\ Overfull(read.reader, max) /\ read.reader.total_sz <= j
      \/ /\ refusal # 0 /\ read.outcome = Error(refusal)
         /\ Mistaken(read.reader, p[1]) /\ (max # 0 => read.reader.total_sz <= j)
      \/ /\ read.outcome = NoPacket /\ j < Len(p) /\ Given(read.reader, p, j, max)
         /\ k < 3 /\ j >= 3 => refusal = 0
      \/ /\ read.outcome = Packet(p[1], content) /\ j = Len(p)
         /\ k < 3 => refusal = 0

LEMMA PacketIs ==
  ASSUME NEW code, NEW options, IsOptions(options), NEW content, IsText(content)
  PROVE  LET p == dump(code, options, content)
         IN  /\ IsPacket(p, content)
             /\ p[1] = Head_(code, set_content_length(options, Len(content)))
<1> DEFINE h == Head_(code, set_content_length(options, Len(content)))
           front == <<h, CR_LF, CR_LF>>
           p == front \o content
           S == Range(content) \cup {h, CR_LF}
<1>1. dump(code, options, content) = p
  BY DEF dump
<1>2. content \in Seq(Range(content)) /\ Len(content) \in Nat
  BY TextIs
<1>3. /\ h.is = "head" /\ h # CR_LF /\ h # LF
      /\ content_length(h.options) = Len(content)
  BY DEF Head_, set_content_length, IsOptions, content_length, Digits, CR_LF, LF
<1>h. h = Head_(code, set_content_length(options, Len(content)))
  OBVIOUS
<1> HIDE DEF h
<1>4. front \in Seq({h, CR_LF}) /\ Len(front) = 3 /\ front[1] = h /\ front[2] = CR_LF /\ front[3] = CR_LF
  OBVIOUS
<1> HIDE DEF front
<1>5. front \in Seq(S) /\ content \in Seq(S)
  BY <1>2, <1>4, SeqMonotonic
<1>6. /\ p \in Seq(S) /\ Len(p) = Len(front) + Len(content)
      /\ \A i \in 1 .. Len(front) + Len(content) :
           p[i] = IF i <= Len(front) THEN front[i] ELSE content[i - Len(front)]
  BY <1>5, ConcatProperties
<1> HIDE DEF p, S
<1>7. IsText(p) /\ Len(p) = Len(content) + 3
  BY <1>2, <1>4, <1>6, TextOf
<1>8. p[1] = h /\ p[2] = CR_LF /\ p[3] = CR_LF /\ \A i \in 1 .. Len(content) : p[i + 3] = content[i]
  BY <1>2, <1>4, <1>6
<1>9. SubSeq(p, 4, Len(p)) = content
  <2> DEFINE t == SubSeq(p, 4, Len(p))
             n == Len(content)
  <2>1. n \in Nat /\ Len(p) = n + 3
    BY <1>2, <1>7
  <2>2. 4 \in 1 .. Len(p) + 1 /\ Len(p) \in 4 - 1 .. Len(p) /\ Len(p) - 4 + 1 = n
    BY <2>1
  <2>3. IsText(t) /\ Len(t) = Len(p) - 4 + 1 /\ \A i \in 1 .. Len(p) - 4 + 1 : t[i] = p[4 + i - 1]
    BY <1>7, <2>2, PartOf
  <2> HIDE DEF t
  <2>4. \A i \in 1 .. n : t[i] = content[i]
    <3>1. \A i \in 1 .. n : 4 + i - 1 = i + 3
      BY <2>1
    <3> QED BY <1>8, <2>2, <2>3, <3>1
  <2>5. Len(t) = Len(content) /\ \A i \in 1 .. Len(t) : t[i] = content[i]
    BY <2>2, <2>3, <2>4
  <2>6. t = content
    BY <2>3, <2>5, TextEqual
  <2> QED BY <2>6 DEF t
<1> QED BY <1>1, <1>2, <1>3, <1>h, <1>7, <1>8, <1>9 DEF IsPacket

(* The lines of a header are refused for a line end in their base64 only.  *)
LEMMA ParseIs ==
  ASSUME NEW code, NEW options, IsOptions(options), options.connection = Word("close"),
         options.content_type = NoValue, NEW len, NEW ver_level
  PROVE  LET h == Head_(code, set_content_length(options, len))
         IN  /\ Refusal(<<h>>, ver_level) =
                  IF NewLine \in Range(options.authorization.base64) THEN 400 ELSE 0
             /\ h.code = code /\ h.options.authorization = options.authorization
             /\ ~ conn_keep_alive(h.options)
<1> DEFINE o == set_content_length(options, len)
           h == Head_(code, o)
           Against(v) == v.level <= ver_level /\ o[v.name].word \notin v.words \cup {"none"}
           I == {i \in 1 .. Len(validators_) : Against(validators_[i])}
           against == SelectInSeq(validators_, LAMBDA v :
                        v.level <= ver_level /\ o[v.name].word \notin v.words \cup {"none"})
<1>1. /\ o.connection.word = "close" /\ o.content_length.word = "digits"
      /\ o.content_type.word \in {"none", "text/xml"} /\ o.authorization = options.authorization
  BY DEF set_content_length, IsOptions, Digits, Word, NoValue
<1>2. h.is = "head" /\ h.options = o /\ h.code = code
  BY DEF Head_
<1> HIDE DEF o, h
<1>3. I = {}
  <2>1. Len(validators_) = 3
    BY DEF validators_
  <2>2. ~ Against(validators_[1])
    BY <1>1 DEF validators_
  <2>3. ~ Against(validators_[2])
    BY <1>1 DEF validators_
  <2>4. ~ Against(validators_[3])
    BY <1>1 DEF validators_
  <2> HIDE DEF Against
  <2> QED BY <2>1, <2>2, <2>3, <2>4
<1>4. against = 0
  BY <1>3 DEF SelectInSeq
<1>5. parse(o, ver_level) = IF NewLine \in Range(o.authorization.base64) THEN 400 ELSE 0
  BY <1>4 DEF parse
<1>6. Refusal(<<h>>, ver_level) = parse(o, ver_level)
  BY <1>2 DEF Refusal
<1>7. ~ conn_keep_alive(h.options)
  BY <1>1, <1>2 DEF conn_keep_alive
<1> QED BY <1>1, <1>2, <1>5, <1>6, <1>7 DEF h, o

(* The members of a reader that changes.                                   *)
LEMMA MembersAre ==
  ASSUME NEW r, NEW a, NEW b, NEW c, NEW t, Members(r, a, b, c, t)
  PROVE  /\ r.header_cache = a /\ r.content_cache = b /\ r.header = c /\ ~ r.constructed
         /\ r.total_sz = t
  BY DEF Members

LEMMA MemberChanged ==
  ASSUME NEW r, NEW a, NEW b, NEW c, NEW t, Members(r, a, b, c, t), NEW v
  PROVE  /\ Members([r EXCEPT !.total_sz = v], a, b, c, v)
         /\ Members([r EXCEPT !.header_cache = v], v, b, c, t)
         /\ Members([r EXCEPT !.content_cache = v], a, v, c, t)
         /\ Members([r EXCEPT !.header = v], a, b, v, t)
  BY DEF Members

LEMMA CachesChanged ==
  ASSUME NEW r, NEW a, NEW b, NEW c, NEW t, Members(r, a, b, c, t), NEW v, NEW w
  PROVE  Members([r EXCEPT !.header_cache = v, !.content_cache = w], v, w, c, t)
  BY DEF Members

(* A header ends behind the third symbol of a packet.                      *)
LEMMA HeaderEndsAt ==
  ASSUME NEW p, NEW content, IsPacket(p, content), NEW j \in 0 .. Len(p)
  PROVE  header_end(SubSeq(p, 1, j)) = IF j < 3 THEN 0 ELSE 2
<1> DEFINE s == SubSeq(p, 1, j)
<1>1. /\ IsText(p) /\ Len(p) \in Nat /\ Len(p) >= 3 /\ p[1] # CR_LF /\ p[1] # LF
      /\ p[2] = CR_LF /\ p[3] = CR_LF /\ CR_LF # LF
  BY DEF IsPacket, CR_LF, LF
<1>2. j \in Nat /\ j <= Len(p)
  BY <1>1
<1>3. Len(s) = j /\ \A i \in 1 .. j : s[i] = p[i]
  <2>1. 1 \in 1 .. Len(p) + 1 /\ j \in 1 - 1 .. Len(p) /\ j - 1 + 1 = j
        /\ \A i \in 1 .. j : 1 + i - 1 = i
    BY <1>1, <1>2
  <2>2. Len(s) = j - 1 + 1 /\ \A i \in 1 .. j - 1 + 1 : s[i] = p[1 + i - 1]
    BY <1>1, <2>1, PartOf
  <2> QED BY <2>1, <2>2
<1> HIDE DEF s
<1>4. CASE j < 3
  <2>1. Ends(s, CR_LF) = {} /\ Ends(s, LF) = {}
    <3>1. ASSUME NEW i \in 1 .. Len(s) - 1 PROVE i = 1 /\ s[i] = p[1]
      BY <1>2, <1>3, <1>4
    <3> QED BY <1>1, <3>1 DEF Ends
  <2> QED BY <1>4, <2>1 DEF header_end, First, s
<1>5. CASE ~ (j < 3)
  <2> DEFINE E == Ends(s, CR_LF)
  <2>1. 2 \in E
    <3>1. 2 \in 1 .. Len(s) - 1 /\ s[2] = p[2] /\ s[2 + 1] = p[3]
      BY <1>2, <1>3, <1>5
    <3> QED BY <1>1, <3>1 DEF Ends
  <2>2. \A i \in E : 2 <= i
    <3> SUFFICES ASSUME NEW i \in E PROVE 2 <= i
      OBVIOUS
    <3>1. i \in 1 .. Len(s) - 1 /\ s[i] = CR_LF
      BY DEF Ends
    <3>2. i # 1
      BY <1>1, <1>2, <1>3, <1>5, <3>1
    <3> QED BY <3>1, <3>2
  <2>3. E \subseteq Int
    BY <1>2, <1>3 DEF Ends
  <2> HIDE DEF E
  <2>4. First(E) = 2
    <3>1. \A i \in E : (\A n \in E : i <= n) => i = 2
      BY <2>1, <2>2, <2>3
    <3> QED BY <2>1, <2>2, <3>1 DEF First
  <2> QED BY <1>5, <2>1, <2>4 DEF header_end, E, s
<1> QED BY <1>4, <1>5

StoredAs(next, p, k, j, counted, refusal) ==
  \/ /\ k < 3 /\ j >= 3 /\ refusal # 0 /\ next.outcome = Error(refusal)
     /\ Mistaken(next.reader, p[1]) /\ next.reader.total_sz = counted
  \/ /\ next.outcome = NoPacket /\ Held(next.reader, p, j, counted)
     /\ k < 3 /\ j >= 3 => refusal = 0

(* What is stored, when a piece that follows what was given comes.         *)
LEMMA StoredNext ==
  ASSUME NEW p, NEW content, IsPacket(p, content), NEW k \in Nat, NEW j \in Nat,
         k < j, j <= Len(p), NEW ver_level, NEW r, NEW t, Held(r, p, k, t)
  PROVE  LET s == SubSeq(p, k + 1, j)
             next == IF r.header = NoHeader THEN read_header(r, s, ver_level)
                     ELSE [reader |-> [r EXCEPT !.content_cache = @ \o s], outcome |-> NoPacket]
         IN  StoredAs(next, p, k, j, t, Refusal(<<p[1]>>, ver_level))
<1> DEFINE s == SubSeq(p, k + 1, j)
           next == IF r.header = NoHeader THEN read_header(r, s, ver_level)
                   ELSE [reader |-> [r EXCEPT !.content_cache = @ \o s], outcome |-> NoPacket]
           cache == SubSeq(p, 1, j)
           end == header_end(cache)
<1>1. /\ IsText(p) /\ Len(p) \in Nat /\ Len(p) >= 3 /\ p[1].is = "head"
  BY DEF IsPacket
<1>2. end = IF j < 3 THEN 0 ELSE 2
  <2>1. j \in 0 .. Len(p)
    BY <1>1
  <2> QED BY <2>1, HeaderEndsAt
<1> HIDE DEF end
<1>3. Held(r, p, k, t) /\ j <= Len(p)
  OBVIOUS
<1>4. CASE k >= 3
  <2>1. Members(r, <<p[1]>>, SubSeq(p, 4, k), p[1], t)
    BY <1>3, <1>4 DEF Held
  <2>2. r.header # NoHeader /\ r.content_cache = SubSeq(p, 4, k)
    <3>1. r.header = p[1] /\ r.content_cache = SubSeq(p, 4, k)
      BY <2>1, MembersAre
    <3>2. p[1] # NoHeader
      BY <1>1 DEF NoHeader
    <3> QED BY <3>1, <3>2
  <2> DEFINE more == r.content_cache \o s
             q == [r EXCEPT !.content_cache = more]
  <2>3. more = SubSeq(p, 4, j)
    <3>1. 4 \in 1 .. Len(p) + 1 /\ k \in 4 - 1 .. Len(p) /\ j \in k .. Len(p)
      BY <1>1, <1>3, <1>4
    <3>2. SubSeq(p, 4, k) \o s = SubSeq(p, 4, j)
      BY <1>1, <3>1, PartsJoined
    <3> QED BY <2>2, <3>2
  <2>4. next.reader = q /\ next.outcome = NoPacket
    BY <2>2
  <2> HIDE DEF next, more
  <2>5. Members(q, <<p[1]>>, more, p[1], t)
    BY <2>1, MemberChanged
  <2> HIDE DEF q
  <2>6. Held(q, p, j, t)
    BY <1>4, <2>3, <2>5 DEF Held
  <2>7. StoredAs(next, p, k, j, t, Refusal(<<p[1]>>, ver_level))
    BY <1>4, <2>4, <2>6 DEF StoredAs
  <2> QED BY <2>7 DEF next, s
<1>5. CASE k < 3
  <2>1. Members(r, SubSeq(p, 1, k), <<>>, NoHeader, t)
    BY <1>3, <1>5 DEF Held
  <2>1a. /\ r.header = NoHeader /\ r.header_cache = SubSeq(p, 1, k) /\ r.content_cache = <<>>
    BY <2>1, MembersAre
  <2>2. r.header_cache \o s = cache
    <3>1. 1 \in 1 .. Len(p) + 1 /\ k \in 1 - 1 .. Len(p) /\ j \in k .. Len(p)
      BY <1>1, <1>3, <1>5
    <3> QED BY <1>1, <2>1a, <3>1, PartsJoined
  <2>3. next = read_header(r, s, ver_level)
    BY <2>1a
  <2> HIDE DEF s, cache, next
  <2>4. CASE j < 3
    <3> DEFINE q == [r EXCEPT !.header_cache = cache]
    <3>1. next = [reader |-> q, outcome |-> NoPacket]
      BY <1>2, <2>2, <2>3, <2>4 DEF read_header, end
    <3>2. Members(q, cache, <<>>, NoHeader, t)
      BY <2>1, MemberChanged
    <3>3. next.reader = q /\ next.outcome = NoPacket
      BY <3>1
    <3> HIDE DEF q
    <3>4. Held(q, p, j, t)
      BY <2>4, <3>2 DEF Held, cache
    <3>5. ~ (j >= 3)
      BY <2>4
    <3>6. StoredAs(next, p, k, j, t, Refusal(<<p[1]>>, ver_level))
      BY <3>3, <3>4, <3>5 DEF StoredAs
    <3> QED BY <3>6 DEF next, s
  <2>5. CASE ~ (j < 3)
    <3> DEFINE front == SubSeq(cache, 1, end - 1)
               rest == SubSeq(cache, end + 2, Len(cache))
               split == [r EXCEPT !.header_cache = front, !.content_cache = r.content_cache \o rest]
               refusal == Refusal(split.header_cache, ver_level)
               full == [split EXCEPT !.header = split.header_cache[1]]
    <3>1. next = IF refusal # 0 THEN [reader |-> split, outcome |-> Error(refusal)]
                 ELSE [reader |-> full, outcome |-> NoPacket]
      BY <1>2, <2>2, <2>3, <2>5 DEF read_header, end
    <3>2. IsText(cache) /\ Len(cache) = j /\ cache[1] = p[1]
      <4>1. 1 \in 1 .. Len(p) + 1 /\ j \in 1 - 1 .. Len(p) /\ j - 1 + 1 = j /\ 1 \in 1 .. j
            /\ 1 + 1 - 1 = 1
        BY <1>1, <1>3, <2>5
      <4>2. IsText(cache) /\ Len(cache) = j - 1 + 1 /\ \A i \in 1 .. j - 1 + 1 : cache[i] = p[1 + i - 1]
        BY <1>1, <4>1, PartOf DEF cache
      <4> HIDE DEF cache
      <4>3. 1 \in 1 .. j - 1 + 1
        BY <4>1
      <4>4. cache[1] = p[1 + 1 - 1]
        BY <4>2, <4>3
      <4> QED BY <4>1, <4>2, <4>4
    <3>3. front = <<p[1]>>
      <4>1. end - 1 = 1 /\ 1 \in 1 .. Len(cache) + 1 /\ 1 \in 1 - 1 .. Len(cache)
        BY <1>2, <2>5, <3>2
      <4>2. front \in Seq(Range(cache)) /\ Len(front) = 1 - 1 + 1
            /\ \A i \in 1 .. 1 - 1 + 1 : front[i] = cache[1 + i - 1]
        <5> DEFINE one == SubSeq(cache, 1, 1)
        <5>1. one \in Seq(Range(cache)) /\ Len(one) = 1 - 1 + 1
              /\ \A i \in 1 .. 1 - 1 + 1 : one[i] = cache[1 + i - 1]
          BY <3>2, <4>1, PartOf
        <5>2. front = one
          BY <4>1
        <5> HIDE DEF one, front
        <5> QED BY <5>1, <5>2
      <4> HIDE DEF front
      <4>3. Len(front) = 1 /\ front[1] = p[1]
        BY <3>2, <4>2
      <4> QED BY <4>2, <4>3
    <3>4. r.content_cache \o rest = SubSeq(p, 4, j)
      <4>1. end + 2 = 4 /\ 4 \in 1 .. j + 1 /\ j \in 4 - 1 .. j /\ j \in 0 .. Len(p)
        BY <1>1, <1>2, <1>3, <2>5
      <4>2. rest = SubSeq(p, 4, j)
        BY <1>1, <3>2, <4>1, PartOfPart DEF cache
      <4>3. IsText(rest)
        <5>1. 4 \in 1 .. Len(p) + 1 /\ j \in 4 - 1 .. Len(p)
          BY <1>1, <1>3, <2>5
        <5> QED BY <1>1, <4>2, <5>1, PartOf
      <4> HIDE DEF rest
      <4>4. <<>> \o rest = rest
        BY <4>3, ConcatEmptySeq DEF IsText
      <4> QED BY <2>1a, <4>2, <4>4
    <3> DEFINE more == r.content_cache \o rest
    <3> HIDE DEF front, more
    <3>5. Members(split, front, more, NoHeader, t)
      <4>1. split = [r EXCEPT !.header_cache = front, !.content_cache = more]
        BY DEF more
      <4> HIDE DEF split
      <4>2. Members([r EXCEPT !.header_cache = front, !.content_cache = more], front, more, NoHeader, t)
        BY <2>1, CachesChanged
      <4> QED BY <4>1, <4>2
    <3>5a. split.header_cache = <<p[1]>> /\ split.header = NoHeader
      <4> HIDE DEF split
      <4> QED BY <3>3, <3>5, MembersAre
    <3>6. Members(full, front, more, p[1], t)
      <4>1. <<p[1]>>[1] = p[1]
        OBVIOUS
      <4>2. full = [split EXCEPT !.header = p[1]]
        BY <3>5a, <4>1
      <4> HIDE DEF split, full
      <4>3. Members([split EXCEPT !.header = p[1]], front, more, p[1], t)
        BY <3>5, MemberChanged
      <4> QED BY <4>2, <4>3
    <3>7. refusal = Refusal(<<p[1]>>, ver_level)
      BY <3>5a
    <3>a. /\ Mistaken(split, p[1]) /\ split.total_sz = t
      <4> HIDE DEF split
      <4>1. /\ split.header_cache = <<p[1]>> /\ split.header = NoHeader /\ ~ split.constructed
            /\ split.total_sz = t
        BY <3>3, <3>5, MembersAre
      <4>2. <<p[1]>> # <<>> /\ <<p[1]>>[1] = p[1]
        OBVIOUS
      <4> QED BY <4>1, <4>2 DEF Mistaken
    <3> HIDE DEF refusal, split, full
    <3>8. CASE refusal # 0
      <4>1. next.outcome = Error(refusal) /\ next.reader = split
        BY <3>1, <3>8
      <4>2. k < 3 /\ j >= 3
        BY <1>5, <2>5
      <4>3. StoredAs(next, p, k, j, t, refusal)
        BY <3>8, <3>a, <4>1, <4>2 DEF StoredAs
      <4> QED BY <3>7, <4>3 DEF next, s
    <3>9. CASE refusal = 0
      <4>1. next.outcome = NoPacket /\ next.reader = full
        BY <3>1, <3>9
      <4>2. Held(full, p, j, t)
        BY <2>5, <3>3, <3>4, <3>6 DEF Held, more
      <4>3. StoredAs(next, p, k, j, t, refusal)
        BY <3>9, <4>1, <4>2 DEF StoredAs
      <4> QED BY <3>7, <4>3 DEF next, s
    <3> QED BY <3>8, <3>9
  <2> QED BY <2>4, <2>5
<1> QED BY <1>4, <1>5

(* A piece that follows what a reader was given is read as that: more of   *)
(* the packet, or all of it, if it is not refused.                         *)

(* The pieces that are read count against the limit.                       *)
LEMMA Counting ==
  ASSUME NEW p, NEW content, IsPacket(p, content), NEW k \in Nat, NEW j \in Nat,
         k < j, j <= Len(p), NEW max \in Nat, NEW r, Given(r, p, k, max)
  PROVE  LET sized == check_sz(r, j - k, max)
         IN  IF sized.fits THEN Held(sized.reader, p, k, IF max = 0 THEN 0 ELSE j)
             ELSE /\ max # 0 /\ Len(p) >= max
                  /\ Overfull(sized.reader, max) /\ sized.reader.total_sz <= j
<1> DEFINE sized == check_sz(r, j - k, max)
           t == IF max = 0 THEN 0 ELSE k
           announced == IF r.header = NoHeader THEN 0
                        ELSE content_length(r.header.options) + Len(r.header_cache)
           q == [r EXCEPT !.total_sz = r.total_sz + (j - k)]
<1>1. /\ Len(p) = Len(content) + 3 /\ Len(content) \in Nat /\ p[1].is = "head"
      /\ content_length(p[1].options) = Len(content)
  BY DEF IsPacket
<1>2. Held(r, p, k, t)
  BY DEF Given
<1>3. r.total_sz = t /\ ~ r.constructed
  BY <1>2, MembersAre DEF Held
<1>4. sized = IF max = 0 THEN [reader |-> r, fits |-> TRUE]
              ELSE IF announced >= max THEN [reader |-> r, fits |-> FALSE]
              ELSE [reader |-> q, fits |-> r.total_sz + (j - k) < max]
  BY DEF check_sz
<1> HIDE DEF sized, announced, q
<1>5. CASE max = 0
  BY <1>2, <1>4, <1>5 DEF sized
<1>6. CASE max # 0 /\ announced >= max
  <2>1. r.header # NoHeader
    BY <1>6 DEF announced
  <2>2. ~ (k < 3)
    <3>1. k < 3 => r.header = NoHeader
      BY <1>2, MembersAre DEF Held
    <3> QED BY <2>1, <3>1
  <2>3. r.header = p[1] /\ r.header_cache = <<p[1]>>
    <3>1. Members(r, <<p[1]>>, SubSeq(p, 4, k), p[1], t)
      BY <1>2, <2>2 DEF Held
    <3> QED BY <3>1, MembersAre
  <2>4. Len(r.header_cache) = 1
    BY <2>3
  <2>5. announced = Len(content) + 1 /\ announced = content_length(r.header.options) + Len(r.header_cache)
    BY <1>1, <2>1, <2>3, <2>4 DEF announced
  <2>6. Overfull(r, max)
    BY <1>3, <1>6, <2>1, <2>5 DEF Overfull
  <2>7. Len(p) >= max /\ r.total_sz <= j
    BY <1>1, <1>3, <1>6, <2>5
  <2>8. sized.reader = r /\ ~ sized.fits
    BY <1>4, <1>6
  <2> QED BY <1>6, <2>6, <2>7, <2>8 DEF sized
<1>7. CASE max # 0 /\ ~ (announced >= max)
  <2>1. sized.reader = q /\ (sized.fits <=> r.total_sz + (j - k) < max)
    BY <1>4, <1>7
  <2>2. r.total_sz + (j - k) = j
    BY <1>3, <1>7
  <2>3. q = [r EXCEPT !.total_sz = j]
    BY <2>2 DEF q
  <2>4. ASSUME NEW a, NEW b, NEW c, Members(r, a, b, c, t) PROVE Members(q, a, b, c, j)
    <3>1. Members([r EXCEPT !.total_sz = j], a, b, c, j)
      BY <2>4, MemberChanged
    <3> QED BY <2>3, <3>1
  <2>5. Held(q, p, k, j)
    <3> HIDE DEF t
    <3> QED BY <1>2, <2>4 DEF Held
  <2>6. CASE sized.fits
    BY <1>7, <2>1, <2>5, <2>6 DEF sized
  <2>7. CASE ~ sized.fits
    <3>1. j >= max
      BY <2>1, <2>2, <2>7
    <3>2. q.total_sz = j /\ ~ q.constructed
      BY <2>5, MembersAre DEF Held
    <3>3. Overfull(q, max) /\ q.total_sz <= j
      BY <1>7, <3>1, <3>2 DEF Overfull
    <3>4. Len(p) >= max
      BY <1>1, <3>1
    <3> QED BY <1>7, <2>1, <2>7, <3>3, <3>4 DEF sized
  <2> QED BY <2>6, <2>7
<1> QED BY <1>5, <1>6, <1>7

(* A piece that follows what a reader was given is read as that: more of   *)
(* the packet, or all of it, if it is not refused.                         *)
LEMMA PieceRead ==
  ASSUME NEW p, NEW content, IsPacket(p, content), NEW k \in Nat, NEW j \in Nat,
         k < j, j <= Len(p), NEW max \in Nat, NEW ver_level, NEW r, Given(r, p, k, max)
  PROVE  ReadAs(read_packet(r, SubSeq(p, k + 1, j), max, ver_level), p, content, k, j, max, ver_level)
<1> DEFINE s == SubSeq(p, k + 1, j)
           read == read_packet(r, s, max, ver_level)
           sized == check_sz(r, Len(s), max)
           q == sized.reader
           t == IF max = 0 THEN 0 ELSE j
           refusal == Refusal(<<p[1]>>, ver_level)
           next == IF q.header = NoHeader THEN read_header(q, s, ver_level)
                   ELSE [reader |-> [q EXCEPT !.content_cache = @ \o s], outcome |-> NoPacket]
<1>1. /\ IsText(p) /\ Len(p) = Len(content) + 3 /\ Len(content) \in Nat /\ p[1].is = "head"
      /\ SubSeq(p, 4, Len(p)) = content /\ content_length(p[1].options) = Len(content)
      /\ IsText(content)
  BY DEF IsPacket
<1>3. ~ r.constructed
  BY MembersAre DEF Given, Held
<1>5. Len(s) = j - k
  <2>1. k + 1 \in 1 .. Len(p) + 1 /\ j \in (k + 1) - 1 .. Len(p) /\ j - (k + 1) + 1 = j - k
    BY <1>1
  <2>2. Len(s) = j - (k + 1) + 1
    BY <1>1, <2>1, PartOf
  <2> QED BY <2>1, <2>2
<1>6. s # <<>>
  <2>1. Len(<<>>) = 0 /\ j - k # 0
    OBVIOUS
  <2> HIDE DEF s
  <2> QED BY <1>5, <2>1
<1>7. read = IF ~sized.fits THEN [reader |-> q, outcome |-> Request_too_large]
             ELSE IF q.header = NoHeader /\ s = <<>>
             THEN [reader |-> q, outcome |-> Malformed_packet]
             ELSE IF next.reader.header # NoHeader /\ ready(next.reader)
             THEN complete(next.reader)
             ELSE next
  BY <1>3 DEF read_packet
<1>8. IF sized.fits THEN Held(q, p, k, t)
      ELSE /\ max # 0 /\ Len(p) >= max /\ Overfull(q, max) /\ q.total_sz <= j
  <2>1. sized = check_sz(r, j - k, max)
    BY <1>5
  <2> HIDE DEF sized
  <2> QED BY <2>1, Counting
<1>9. Held(q, p, k, t) => StoredAs(next, p, k, j, t, refusal)
  <2> SUFFICES ASSUME Held(q, p, k, t) PROVE StoredAs(next, p, k, j, t, refusal)
    OBVIOUS
  <2> HIDE DEF q, t
  <2> QED BY StoredNext
<1> HIDE DEF s, read, q, next, refusal
<1>a. read.outcome = Error(413) /\ max # 0 /\ Len(p) >= max /\ Overfull(read.reader, max)
      /\ read.reader.total_sz <= j
      => ReadAs(read, p, content, k, j, max, ver_level)
  BY DEF ReadAs
<1>b. refusal # 0 /\ read.outcome = Error(refusal) /\ Mistaken(read.reader, p[1])
      /\ (max # 0 => read.reader.total_sz <= j)
      => ReadAs(read, p, content, k, j, max, ver_level)
  BY DEF ReadAs, refusal
<1>c. read.outcome = NoPacket /\ j < Len(p) /\ Held(read.reader, p, j, t) /\ (k < 3 /\ j >= 3 => refusal = 0)
      => ReadAs(read, p, content, k, j, max, ver_level)
  BY DEF ReadAs, refusal, Given
<1>d. read.outcome = Packet(p[1], content) /\ j = Len(p) /\ (k < 3 => refusal = 0)
      => ReadAs(read, p, content, k, j, max, ver_level)
  BY DEF ReadAs, refusal
<1>10. CASE ~sized.fits
  <2>1. read.outcome = Error(413) /\ read.reader = q
    BY <1>7, <1>10 DEF Request_too_large
  <2> QED BY <1>8, <1>10, <1>a, <2>1 DEF read, s
<1>11. CASE sized.fits /\ next.outcome # NoPacket
  <2>1. /\ k < 3 /\ refusal # 0 /\ next.outcome = Error(refusal)
        /\ Mistaken(next.reader, p[1]) /\ next.reader.total_sz = t
    BY <1>8, <1>9, <1>11 DEF StoredAs
  <2>2. next.reader.header = NoHeader
    BY <2>1 DEF Mistaken
  <2>3. read = next
    BY <1>6, <1>7, <1>11, <2>2
  <2>4. max # 0 => next.reader.total_sz <= j
    BY <2>1
  <2> QED BY <1>b, <2>1, <2>3, <2>4 DEF read, s
<1>12. CASE sized.fits /\ next.outcome = NoPacket
  <2> DEFINE n == next.reader
  <2>1. Held(n, p, j, t) /\ (k < 3 /\ j >= 3 => refusal = 0)
    <3>1. NoPacket # Error(refusal)
      BY DEF NoPacket, Error
    <3> QED BY <1>8, <1>9, <1>12, <3>1 DEF StoredAs
  <2> HIDE DEF n
  <2>2. CASE j < 3
    <3>1. n.header = NoHeader
      BY <2>1, <2>2, MembersAre DEF Held
    <3>2. read = next
      BY <1>6, <1>7, <1>12, <3>1 DEF n
    <3>3. j < Len(p)
      BY <1>1, <2>2
    <3> QED BY <1>12, <1>c, <2>1, <3>2, <3>3 DEF read, s, n
  <2>3. CASE ~ (j < 3)
    <3>3. n.header = p[1] /\ n.content_cache = SubSeq(p, 4, j) /\ n.header # NoHeader
      <4>1. Members(n, <<p[1]>>, SubSeq(p, 4, j), p[1], t)
        BY <2>1, <2>3 DEF Held
      <4>2. n.header = p[1] /\ n.content_cache = SubSeq(p, 4, j)
        BY <4>1, MembersAre, ZenonT(60)
      <4>3. p[1] # NoHeader
        BY <1>1 DEF NoHeader
      <4> QED BY <4>2, <4>3
    <3>4. Len(n.content_cache) = j - 3
      <4>1. 4 \in 1 .. Len(p) + 1 /\ j \in 4 - 1 .. Len(p) /\ j - 4 + 1 = j - 3
        BY <1>1, <2>3
      <4> QED BY <1>1, <3>3, <4>1, PartOf
    <3>5. ready(n) <=> j = Len(p)
      BY <1>1, <2>3, <3>3, <3>4 DEF ready
    <3>a. k < 3 => refusal = 0
      BY <2>1, <2>3
    <3>6. CASE ready(n)
      <4>1. read = complete(n)
        BY <1>6, <1>7, <1>12, <3>3, <3>6 DEF n
      <4>2. n.content_cache = content /\ content_length(n.header.options) = Len(content)
        BY <1>1, <3>3, <3>5, <3>6
      <4>3. read.outcome = Packet(p[1], SubSeq(content, 1, Len(content)))
        BY <3>3, <4>1, <4>2 DEF complete
      <4>4. read.outcome = Packet(p[1], content)
        BY <1>1, <4>3, WholeText
      <4> QED BY <1>d, <3>5, <3>6, <3>a, <4>4 DEF read, s
    <3>7. CASE ~ ready(n)
      <4>1. read = next
        BY <1>6, <1>7, <1>12, <3>7 DEF n
      <4>2. j < Len(p)
        BY <1>1, <3>5, <3>7
      <4> QED BY <1>12, <1>c, <2>1, <4>1, <4>2 DEF read, s, n
    <3> QED BY <3>6, <3>7
  <2> QED BY <2>2, <2>3
<1> QED BY <1>10, <1>11, <1>12

(* A text whose headers are those of errors with these codes.              *)
Refusing(text, codes) ==
  IsText(text) /\ \A i \in DOMAIN text : text[i].is = "head" => text[i].code \in codes

LEMMA EndIs ==
  ASSUME NEW s, IsText(s), s # <<>>, s[1] # CR_LF, s[1] # LF
  PROVE  header_end(s) = 0 \/ header_end(s) \in 2 .. Len(s) - 1
<1>1. Len(s) \in Nat
  BY TextIs
<1>2. ASSUME NEW eol \in {CR_LF, LF}, Ends(s, eol) # {}
      PROVE  First(Ends(s, eol)) \in 2 .. Len(s) - 1
  <2> DEFINE S == Ends(s, eol)
  <2>1. S \subseteq 2 .. Len(s) - 1
    <3>1. ASSUME NEW i \in S PROVE i \in 2 .. Len(s) - 1
      <4>1. i \in 1 .. Len(s) - 1 /\ s[i] = eol
        BY DEF Ends
      <4>2. i # 1
        BY <4>1
      <4> QED BY <1>1, <4>1, <4>2
    <3> QED BY <3>1
  <2> HIDE DEF S
  <2>2. PICK m \in S : \A n \in S : m <= n
    <3>1. S \subseteq Nat /\ S # {}
      BY <1>2, <2>1 DEF S
    <3> QED BY <3>1, LeastExists
  <2>3. First(S) \in S
    BY <1>2, <2>2 DEF First, S
  <2> QED BY <2>1, <2>3 DEF S
<1>3. CASE Ends(s, CR_LF) # {}
  BY <1>2, <1>3 DEF header_end
<1>4. CASE Ends(s, CR_LF) = {} /\ Ends(s, LF) # {}
  BY <1>2, <1>4 DEF header_end
<1>5. CASE Ends(s, CR_LF) = {} /\ Ends(s, LF) = {}
  BY <1>5 DEF header_end, First
<1> QED BY <1>3, <1>4, <1>5

(* What becomes of a reader that has refused, when more comes.             *)
RefusedAs(read, old, head, max, ver_level) ==
  \/ /\ read.outcome = Error(413) /\ Overfull(read.reader, max)
     /\ Overfull(old, max) \/ read.reader.total_sz >= max
  \/ /\ Mistaken(read.reader, head) /\ Mistaken(old, head) /\ ~ Overfull(old, max)
     /\ read.outcome \in {NoPacket, Error(400), Error(Refusal(<<head>>, ver_level))}

LEMMA MistakenStays ==
  ASSUME NEW r, NEW head, Mistaken(r, head), head.is = "head", IsText(r.header_cache),
         r.header_cache \in {r.header_cache}, IsReader(r),
         NEW s, IsText(s), NEW ver_level, Refusal(<<head>>, ver_level) # 0
  PROVE  LET next == read_header(r, s, ver_level)
         IN  /\ Mistaken(next.reader, head) /\ next.reader.total_sz = r.total_sz
             /\ next.outcome \in {NoPacket, Error(400), Error(Refusal(<<head>>, ver_level))}
<1> DEFINE cache == r.header_cache \o s
           end == header_end(cache)
           front == SubSeq(cache, 1, end - 1)
           rest == SubSeq(cache, end + 2, Len(cache))
           split == [r EXCEPT !.header_cache = front, !.content_cache = r.content_cache \o rest]
           refusal == Refusal(split.header_cache, ver_level)
           full == [split EXCEPT !.header = split.header_cache[1]]
           next == read_header(r, s, ver_level)
           waiting == [r EXCEPT !.header_cache = cache]
<1>1. next = IF end = 0 THEN [reader |-> waiting, outcome |-> NoPacket]
             ELSE IF refusal # 0 THEN [reader |-> split, outcome |-> Error(refusal)]
             ELSE [reader |-> full, outcome |-> NoPacket]
  BY DEF read_header
<1>2. r.header = NoHeader /\ ~ r.constructed /\ r.header_cache # <<>> /\ r.header_cache[1] = head
  BY DEF Mistaken
<1>3. IsText(cache) /\ cache # <<>> /\ cache[1] = head
  <2> DEFINE h == r.header_cache
  <2>1. IsText(h) /\ h # <<>> /\ Len(h) \in Nat /\ Len(s) \in Nat
    BY <1>2, TextIs
  <2> HIDE DEF h
  <2>2. Len(h) # 0
    BY <2>1, EmptySeq DEF IsText
  <2>3. /\ IsText(h \o s) /\ Len(h \o s) = Len(h) + Len(s)
    BY <2>1, TextJoined
  <2>4. (h \o s)[1] = h[1]
    <3>1. h \in Seq(Range(h) \cup Range(s)) /\ s \in Seq(Range(h) \cup Range(s)) /\ 1 \in 1 .. Len(h)
      BY <2>1, <2>2, SeqMonotonic DEF IsText
    <3> QED BY <3>1, JoinedAt
  <2>5. h \o s # <<>>
    BY <2>1, <2>2, <2>3
  <2> QED BY <1>2, <2>3, <2>4, <2>5 DEF h
<1>4. head # CR_LF /\ head # LF
  BY DEF CR_LF, LF
<1>5. end = 0 \/ end \in 2 .. Len(cache) - 1
  <2> HIDE DEF cache
  <2> QED BY <1>3, <1>4, EndIs
<1>r. r \in [header_cache : {r.header_cache}, content_cache : {r.content_cache},
             header : {r.header}, constructed : BOOLEAN, total_sz : Nat]
  BY DEF IsReader
<1> HIDE DEF next, cache, end
<1>6. CASE end = 0
  <2>1. Mistaken(waiting, head) /\ waiting.total_sz = r.total_sz
    BY <1>r, <1>2, <1>3 DEF Mistaken
  <2> HIDE DEF waiting
  <2>2. next.reader = waiting /\ next.outcome = NoPacket
    BY <1>1, <1>6
  <2> QED BY <2>1, <2>2 DEF next
<1>7. CASE end # 0
  <2>1. /\ IsText(front) /\ Len(front) = end - 1 /\ front[1] = head
    <3> DEFINE e == end - 1
    <3>1. e \in 1 - 1 .. Len(cache) /\ 1 \in 1 .. Len(cache) + 1 /\ e - 1 + 1 = e /\ 1 \in 1 .. e
      <4>1. Len(cache) \in Nat
        BY <1>3, TextIs
      <4> QED BY <1>5, <1>7, <4>1
    <3> HIDE DEF e
    <3>2. IsText(SubSeq(cache, 1, e)) /\ Len(SubSeq(cache, 1, e)) = e - 1 + 1
          /\ \A i \in 1 .. e - 1 + 1 : SubSeq(cache, 1, e)[i] = cache[1 + i - 1]
      BY <1>3, <3>1, PartOf
    <3>3. SubSeq(cache, 1, e)[1] = cache[1]
      BY <3>1, <3>2
    <3> QED BY <1>3, <3>1, <3>2, <3>3 DEF e
  <2> HIDE DEF front
  <2>2. split.header_cache = front /\ split.header = NoHeader /\ ~ split.constructed
        /\ split.total_sz = r.total_sz
    BY <1>r, <1>2
  <2>3. front # <<>>
    <3>1. Len(front) # 0
      BY <1>5, <1>7, <2>1
    <3> QED BY <3>1
  <2> HIDE DEF split, full
  <2>4. Mistaken(split, head)
    BY <2>1, <2>2, <2>3 DEF Mistaken
  <2>5. refusal # 0 /\ Error(refusal) \in {Error(400), Error(Refusal(<<head>>, ver_level))}
    <3>1. refusal = Refusal(front, ver_level)
      BY <2>2
    <3> HIDE DEF refusal
    <3>2. CASE Len(front) # 1
      <4>1. Refusal(front, ver_level) = 400
        BY <3>2 DEF Refusal
      <4> QED BY <3>1, <4>1
    <3>3. CASE Len(front) = 1
      <4>1. front = <<head>>
        BY <2>1, <3>3, OfLength
      <4> QED BY <3>1, <4>1
    <3> QED BY <3>2, <3>3
  <2>6. next = [reader |-> split, outcome |-> Error(refusal)]
    BY <1>1, <1>7, <2>5
  <2> QED BY <2>2, <2>4, <2>5, <2>6 DEF next
<1> QED BY <1>6, <1>7

LEMMA RefusedRead ==
  ASSUME NEW r, IsReader(r), NEW head, head.is = "head", NEW max \in Nat, NEW ver_level,
         Overfull(r, max) \/ (Mistaken(r, head) /\ Refusal(<<head>>, ver_level) # 0),
         NEW s, IsText(s), s # <<>>
  PROVE  LET read == read_packet(r, s, max, ver_level)
         IN  /\ RefusedAs(read, r, head, max, ver_level)
             /\ read.reader.total_sz \in {r.total_sz, r.total_sz + Len(s)}
<1> DEFINE read == read_packet(r, s, max, ver_level)
           announced == IF r.header = NoHeader THEN 0
                        ELSE content_length(r.header.options) + Len(r.header_cache)
           total == r.total_sz + Len(s)
           sized == check_sz(r, Len(s), max)
           q == sized.reader
           next == IF q.header = NoHeader THEN read_header(q, s, ver_level)
                   ELSE [reader |-> [q EXCEPT !.content_cache = @ \o s], outcome |-> NoPacket]
<1>1. ~ r.constructed
  BY DEF Overfull, Mistaken
<1>2. r.total_sz \in Nat /\ Len(s) \in Nat /\ total \in Nat /\ IsText(r.header_cache)
  BY TextIs DEF IsReader, Sound
<1>r. r \in [header_cache : {r.header_cache}, content_cache : {r.content_cache},
             header : {r.header}, constructed : BOOLEAN, total_sz : Nat]
  BY DEF IsReader
<1>3. read = IF ~sized.fits THEN [reader |-> q, outcome |-> Request_too_large]
             ELSE IF q.header = NoHeader /\ s = <<>>
             THEN [reader |-> q, outcome |-> Malformed_packet]
             ELSE IF next.reader.header # NoHeader /\ ready(next.reader)
             THEN complete(next.reader)
             ELSE next
  BY <1>1 DEF read_packet
<1>4. sized = IF max = 0 THEN [reader |-> r, fits |-> TRUE]
              ELSE IF announced >= max THEN [reader |-> r, fits |-> FALSE]
              ELSE [reader |-> [r EXCEPT !.total_sz = total], fits |-> total < max]
  BY DEF check_sz
<1>t. IsReader([r EXCEPT !.total_sz = total]) /\ [r EXCEPT !.total_sz = total].total_sz = total
      /\ ~ [r EXCEPT !.total_sz = total].constructed
      /\ [r EXCEPT !.total_sz = total].header_cache = r.header_cache
      /\ [r EXCEPT !.total_sz = total].header = r.header
  BY <1>1, <1>2, <1>r, ReaderMembers
<1> DEFINE bigger == [r EXCEPT !.total_sz = total]
<1> HIDE DEF total, bigger
<1>5. CASE max # 0 /\ announced >= max
  <2>1. read.outcome = Error(413) /\ read.reader = r
    BY <1>3, <1>4, <1>5 DEF Request_too_large
  <2>2. Overfull(r, max)
    <3>1. r.header # NoHeader
      BY <1>5
    <3> QED BY <1>1, <1>5, <3>1 DEF Overfull
  <2> HIDE DEF read
  <2>3. RefusedAs(read, r, head, max, ver_level)
    BY <2>1, <2>2 DEF RefusedAs
  <2> QED BY <2>1, <2>3 DEF read
<1>6. CASE max # 0 /\ ~ (announced >= max) /\ total >= max
  <2>1. read.outcome = Error(413) /\ read.reader = bigger
    <3>1. sized = [reader |-> bigger, fits |-> total < max] /\ ~ (total < max)
      BY <1>2, <1>4, <1>6 DEF bigger
    <3>2. sized.reader = bigger /\ ~ sized.fits
      <4> HIDE DEF sized
      <4> QED BY <3>1
    <3> HIDE DEF sized, read
    <3>3. read = [reader |-> q, outcome |-> Request_too_large]
      BY <1>3, <3>2
    <3> QED BY <3>2, <3>3 DEF Request_too_large
  <2>2. Overfull(bigger, max) /\ bigger.total_sz >= max
    BY <1>6, <1>t DEF Overfull, bigger
  <2> HIDE DEF read
  <2>3. RefusedAs(read, r, head, max, ver_level)
    BY <2>1, <2>2 DEF RefusedAs
  <2> QED BY <1>t, <2>1, <2>3 DEF read, bigger, total
<1>7. CASE max = 0 \/ (~ (announced >= max) /\ ~ (total >= max))
  <2>1. ~ Overfull(r, max)
    <3>1. max # 0 => announced \in Int \/ TRUE
      OBVIOUS
    <3>2. max # 0 => ~ (r.total_sz >= max)
      BY <1>2, <1>7 DEF total
    <3>3. max # 0 /\ r.header # NoHeader => ~ (content_length(r.header.options) + Len(r.header_cache) >= max)
      BY <1>7
    <3> QED BY <3>2, <3>3 DEF Overfull
  <2>2. Mistaken(r, head) /\ Refusal(<<head>>, ver_level) # 0
    BY <2>1
  <2>3. sized.fits /\ q \in {r, bigger}
    <3>1. CASE max = 0
      BY <1>4, <3>1
    <3>2. CASE max # 0
      <4>1. total < max
        BY <1>2, <1>7, <3>2
      <4>2. sized = [reader |-> bigger, fits |-> total < max]
        BY <1>4, <1>7, <3>2 DEF bigger
      <4> HIDE DEF sized
      <4> QED BY <4>1, <4>2
    <3> QED BY <3>1, <3>2
  <2>4. IsReader(q) /\ q.total_sz \in {r.total_sz, total} /\ Mistaken(q, head) /\ q.header = NoHeader
    <3> HIDE DEF q
    <3>1. Mistaken(bigger, head) /\ bigger.header = NoHeader /\ r.header = NoHeader
      BY <1>t, <2>2 DEF Mistaken, bigger
    <3> QED BY <1>t, <2>2, <2>3, <3>1 DEF bigger
  <2>5. next = read_header(q, s, ver_level)
    BY <2>4
  <2> HIDE DEF q, next, sized, read
  <2>6. /\ Mistaken(next.reader, head) /\ next.reader.total_sz = q.total_sz
        /\ next.outcome \in {NoPacket, Error(400), Error(Refusal(<<head>>, ver_level))}
    <3>1. IsText(q.header_cache)
      BY <2>4 DEF IsReader, Sound
    <3> QED BY <2>2, <2>4, <2>5, <3>1, MistakenStays
  <2>7. read = next
    BY <1>3, <2>3, <2>6 DEF Mistaken
  <2>8. RefusedAs(read, r, head, max, ver_level)
    BY <2>1, <2>2, <2>6, <2>7 DEF RefusedAs
  <2> QED BY <2>4, <2>6, <2>7, <2>8 DEF read, total
<1> QED BY <1>2, <1>5, <1>6, <1>7

LEMMA RefusingJoined ==
  ASSUME NEW codes, NEW s, Refusing(s, codes), NEW t, Refusing(t, codes)
  PROVE  Refusing(s \o t, codes)
<1>1. IsText(s) /\ IsText(t)
  BY DEF Refusing
<1>2. IsText(s \o t)
  BY <1>1, TextJoined
<1>3. ASSUME NEW i \in DOMAIN (s \o t), (s \o t)[i].is = "head" PROVE (s \o t)[i].code \in codes
  <2>1. (\E j \in DOMAIN s : (s \o t)[i] = s[j]) \/ (\E j \in DOMAIN t : (s \o t)[i] = t[j])
    BY <1>1, TextJoined, SMTT(30)
  <2> QED BY <1>3, <2>1 DEF Refusing
<1> QED BY <1>2, <1>3 DEF Refusing

LEMMA RefusingWithin ==
  ASSUME NEW codes, NEW s, Refusing(s, codes), NEW m \in 1 .. Len(s) + 1, NEW n \in m - 1 .. Len(s)
  PROVE  Refusing(SubSeq(s, m, n), codes)
<1> DEFINE t == SubSeq(s, m, n)
<1>1. IsText(t) /\ \A i \in DOMAIN t : \E j \in DOMAIN s : t[i] = s[j]
  BY TextWithin DEF Refusing
<1> HIDE DEF t
<1>2. ASSUME NEW i \in DOMAIN t, t[i].is = "head" PROVE t[i].code \in codes
  BY <1>1, <1>2 DEF Refusing
<1> QED BY <1>1, <1>2 DEF Refusing, t

LEMMA RefusingEmpty ==
  ASSUME NEW codes
  PROVE  Refusing(<<>>, codes)
BY EmptyText DEF Refusing

LEMMA RefusingFirst ==
  ASSUME NEW codes, NEW s, Refusing(s, codes), NEW k \in 1 .. Len(s)
  PROVE  Refusing(SubSeq(s, 1, k), codes) /\ Refusing(Rest(s, k), codes)
<1>1. IsText(s) /\ Len(s) \in Nat
  BY TextIs DEF Refusing
<1>2. 1 \in 1 .. Len(s) + 1 /\ k \in 1 - 1 .. Len(s)
  BY <1>1
<1>3. Refusing(SubSeq(s, 1, k), codes)
  BY <1>2, RefusingWithin
<1> DEFINE m == k + 1  l == Len(s)
<1>4. m \in 1 .. Len(s) + 1 /\ l \in m - 1 .. Len(s)
  BY <1>1
<1>5. Refusing(SubSeq(s, m, l), codes)
  <2> HIDE DEF m, l
  <2> QED BY <1>4, RefusingWithin
<1> QED BY <1>3, <1>5 DEF Rest

(* A reader that has been given nothing but the headers of errors.         *)
Disappointed(r, codes) ==
  /\ r \in [header_cache : {r.header_cache}, content_cache : {r.content_cache},
            header : {r.header}, constructed : {FALSE}, total_sz : {r.total_sz}]
  /\ Refusing(r.header_cache, codes)
  /\ r.header = NoHeader \/ r.header.code \in codes

LEMMA NewDisappointed ==
  ASSUME NEW codes
  PROVE  Disappointed(NewReader, codes)
BY RefusingEmpty DEF Disappointed, NewReader

LEMMA DisappointedRead ==
  ASSUME NEW codes, NEW r, Disappointed(r, codes), NEW s, Refusing(s, codes), NEW ver_level
  PROVE  LET read == read_packet(r, s, 0, ver_level)
         IN  /\ read.outcome.is = "packet" => read.outcome.header.code \in codes
             /\ read.outcome.is # "packet" => Disappointed(read.reader, codes)
<1> DEFINE read == read_packet(r, s, 0, ver_level)
           adding == [r EXCEPT !.content_cache = @ \o s]
           next == IF r.header = NoHeader THEN read_header(r, s, ver_level)
                   ELSE [reader |-> adding, outcome |-> NoPacket]
           cache == r.header_cache \o s
           end == header_end(cache)
           front == SubSeq(cache, 1, end - 1)
           rest == SubSeq(cache, end + 2, Len(cache))
           split == [r EXCEPT !.header_cache = front, !.content_cache = r.content_cache \o rest]
           refusal == Refusal(split.header_cache, ver_level)
           full == [split EXCEPT !.header = split.header_cache[1]]
           waiting == [r EXCEPT !.header_cache = cache]
<1>1. r.constructed = FALSE
  BY DEF Disappointed
<1> DEFINE sized == check_sz(r, Len(s), 0)
           q == sized.reader
           after == IF q.header = NoHeader THEN read_header(q, s, ver_level)
                    ELSE [reader |-> [q EXCEPT !.content_cache = @ \o s], outcome |-> NoPacket]
<1>2a. sized = [reader |-> r, fits |-> TRUE]
  BY DEF check_sz
<1>2. read = IF ~sized.fits THEN [reader |-> q, outcome |-> Request_too_large]
             ELSE IF q.header = NoHeader /\ s = <<>>
             THEN [reader |-> q, outcome |-> Malformed_packet]
             ELSE IF after.reader.header # NoHeader /\ ready(after.reader)
             THEN complete(after.reader)
             ELSE after
  BY <1>1 DEF read_packet
<1>2b. sized.fits /\ q = r
  <2> HIDE DEF sized
  <2> QED BY <1>2a
<1>2c. after = next
  <2> HIDE DEF sized
  <2> QED BY <1>2b
<1> HIDE DEF sized, after, read
<1>3. read = IF r.header = NoHeader /\ s = <<>>
             THEN [reader |-> r, outcome |-> Malformed_packet]
             ELSE IF next.reader.header # NoHeader /\ ready(next.reader)
             THEN complete(next.reader)
             ELSE next
  <2> HIDE DEF next, q
  <2> QED BY <1>2, <1>2b, <1>2c
<1>4. read_header(r, s, ver_level) =
        IF end = 0 THEN [reader |-> waiting, outcome |-> NoPacket]
        ELSE IF refusal # 0 THEN [reader |-> split, outcome |-> Error(refusal)]
        ELSE [reader |-> full, outcome |-> NoPacket]
  BY DEF read_header
<1>r. /\ r \in [header_cache : {r.header_cache}, content_cache : {r.content_cache},
                header : {r.header}, constructed : {FALSE}, total_sz : {r.total_sz}]
      /\ Refusing(r.header_cache, codes) /\ (r.header = NoHeader \/ r.header.code \in codes)
  BY DEF Disappointed
<1>5. Refusing(cache, codes) /\ IsText(cache)
  BY <1>r, RefusingJoined DEF Refusing
<1>6. end = 0 \/ end \in 1 .. Len(cache) - 1
  <2> HIDE DEF cache
  <2> QED BY <1>5, HeaderEnds
<1> HIDE DEF read, cache, end
<1>7. end # 0 => Refusing(front, codes) /\ Len(front) = end - 1
  <2> SUFFICES ASSUME end # 0 PROVE Refusing(front, codes) /\ Len(front) = end - 1
    OBVIOUS
  <2> DEFINE e == end - 1
  <2>1. e \in 1 - 1 .. Len(cache) /\ 1 \in 1 .. Len(cache) + 1 /\ e - 1 + 1 = e
    <3>1. Len(cache) \in Nat
      BY <1>5, TextIs
    <3> QED BY <1>6, <3>1
  <2> HIDE DEF e
  <2>2. Refusing(SubSeq(cache, 1, e), codes)
    BY <1>5, <2>1, RefusingWithin
  <2>3. Len(SubSeq(cache, 1, e)) = e - 1 + 1
    BY <1>5, <2>1, PartOf
  <2> QED BY <2>1, <2>2, <2>3 DEF e
<1> HIDE DEF front
<1>8. /\ split \in [header_cache : {split.header_cache}, content_cache : {split.content_cache},
                    header : {split.header}, constructed : {FALSE}, total_sz : {split.total_sz}]
      /\ split.header_cache = front /\ split.header = r.header
  BY <1>r
<1> HIDE DEF split
<1>9. /\ full \in [header_cache : {full.header_cache}, content_cache : {full.content_cache},
                    header : {full.header}, constructed : {FALSE}, total_sz : {full.total_sz}]
      /\ full.header_cache = front /\ full.header = front[1]
  BY <1>8
<1>10. /\ waiting \in [header_cache : {waiting.header_cache}, content_cache : {waiting.content_cache},
                    header : {waiting.header}, constructed : {FALSE}, total_sz : {waiting.total_sz}]
      /\ waiting.header_cache = cache /\ waiting.header = r.header
  BY <1>r
<1>11. /\ adding \in [header_cache : {adding.header_cache}, content_cache : {adding.content_cache},
                    header : {adding.header}, constructed : {FALSE}, total_sz : {adding.total_sz}]
      /\ adding.header_cache = r.header_cache /\ adding.header = r.header
  BY <1>r
<1> HIDE DEF full, waiting, adding
<1>12. Disappointed(waiting, codes) /\ Disappointed(adding, codes)
  BY <1>r, <1>5, <1>10, <1>11 DEF Disappointed
<1>13. end # 0 => Disappointed(split, codes)
  BY <1>r, <1>7, <1>8 DEF Disappointed
<1>14. end # 0 /\ refusal = 0 => Disappointed(full, codes)
  <2> SUFFICES ASSUME end # 0, refusal = 0 PROVE Disappointed(full, codes)
    OBVIOUS
  <2>1. Refusal(front, ver_level) = 0
    BY <1>8
  <2>2. Len(front) = 1 /\ front[1].is = "head"
    BY <2>1 DEF Refusal
  <2>3. 1 \in DOMAIN front
    BY <1>7, <2>2, TextIs DEF Refusing
  <2>4. front[1].code \in codes
    BY <1>7, <2>2, <2>3 DEF Refusing
  <2> QED BY <1>7, <1>9, <2>4 DEF Disappointed
<1>15. Disappointed(next.reader, codes) /\ next.outcome.is # "packet"
  <2>1. CASE r.header # NoHeader
    <3>1. next.reader = adding /\ next.outcome = NoPacket
      BY <2>1
    <3> HIDE DEF next
    <3> QED BY <1>12, <3>1 DEF NoPacket
  <2>2. CASE r.header = NoHeader
    <3>1. next = read_header(r, s, ver_level)
      BY <2>2
    <3> HIDE DEF next, refusal
    <3>2. CASE end = 0
      <4>1. next.reader = waiting /\ next.outcome = NoPacket
        BY <1>4, <3>1, <3>2
      <4> QED BY <1>12, <4>1 DEF NoPacket
    <3>3. CASE end # 0 /\ refusal # 0
      <4>1. next.reader = split /\ next.outcome = Error(refusal)
        BY <1>4, <3>1, <3>3
      <4> QED BY <1>13, <3>3, <4>1 DEF Error
    <3>4. CASE end # 0 /\ refusal = 0
      <4>1. next.reader = full /\ next.outcome = NoPacket
        BY <1>4, <3>1, <3>4
      <4> QED BY <1>14, <3>4, <4>1 DEF NoPacket
    <3> QED BY <3>2, <3>3, <3>4
  <2> QED BY <2>1, <2>2
<1> HIDE DEF next
<1>16. CASE r.header = NoHeader /\ s = <<>>
  <2>1. read.reader = r /\ read.outcome = Malformed_packet
    BY <1>3, <1>16
  <2> QED BY <2>1 DEF Malformed_packet, Error, read
<1>17. CASE ~(r.header = NoHeader /\ s = <<>>) /\ next.reader.header # NoHeader /\ ready(next.reader)
  <2>1. read = complete(next.reader)
    BY <1>3, <1>17
  <2>2. read.outcome.is = "packet" /\ read.outcome.header = next.reader.header
    BY <2>1 DEF complete, Packet
  <2> QED BY <1>15, <1>17, <2>2 DEF Disappointed, read
<1>18. CASE ~(r.header = NoHeader /\ s = <<>>) /\ ~(next.reader.header # NoHeader /\ ready(next.reader))
  <2>1. read = next
    BY <1>3, <1>18
  <2> QED BY <1>15, <2>1 DEF read
<1> QED BY <1>16, <1>17, <1>18

(* send() and recv() leave what flows together as it is.                   *)
LEMMA PartsMoved ==
  ASSUME NEW a, IsText(a), NEW b, IsText(b), NEW k \in 1 .. Len(b)
  PROVE  (a \o SubSeq(b, 1, k)) \o Rest(b, k) = a \o b
<1> DEFINE f == SubSeq(b, 1, k)  g == Rest(b, k)  S == Range(a) \cup Range(b)
<1>1. Len(b) \in Nat
  BY TextIs
<1>2. f \o g = b
  <2>1. 1 \in 1 .. Len(b) + 1 /\ k \in 1 - 1 .. Len(b) /\ Len(b) \in k .. Len(b)
    BY <1>1
  <2>2. SubSeq(b, 1, k) \o SubSeq(b, k + 1, Len(b)) = SubSeq(b, 1, Len(b))
    BY <2>1, PartsJoined
  <2>3. SubSeq(b, 1, Len(b)) = b
    BY WholeText
  <2> QED BY <2>2, <2>3 DEF Rest
<1>3. IsText(f) /\ IsText(g)
  BY FirstOfText
<1> HIDE DEF f, g
<1>4. (a \o f) \o g = a \o (f \o g)
  <2> DEFINE T == (Range(a) \cup Range(f)) \cup Range(g)
  <2>1. a \in Seq(T) /\ f \in Seq(T) /\ g \in Seq(T)
    BY <1>3, SeqMonotonic DEF IsText
  <2> HIDE DEF T
  <2> QED BY <2>1, ConcatAssociative
<1> QED BY <1>2, <1>4 DEF f, g

LEMMA PartOfJoined ==
  ASSUME NEW a, IsText(a), NEW b, IsText(b), NEW j \in 1 .. Len(a)
  PROVE  LET u == a \o b
         IN  /\ IsText(u) /\ Len(u) = Len(a) + Len(b) /\ Len(a) \in Nat /\ Len(b) \in Nat
             /\ SubSeq(u, 1, j) = SubSeq(a, 1, j)
             /\ SubSeq(u, j + 1, Len(u)) = Rest(a, j) \o b
<1> DEFINE u == a \o b  f == SubSeq(a, 1, j)  g == Rest(a, j) \o b
<1>1. /\ IsText(u) /\ Len(u) = Len(a) + Len(b)
      /\ Len(a) \in Nat /\ Len(b) \in Nat
  BY TextJoined, TextIs
<1>2. IsText(f) /\ Len(f) = j /\ IsText(Rest(a, j))
  BY FirstOfText
<1>3. IsText(g)
  BY <1>2, TextJoined
<1>4. f \o g = u
  <2>1. (<<>> \o f) \o Rest(a, j) = <<>> \o a
    BY PartsMoved, EmptyText
  <2>2. <<>> \o f = f /\ <<>> \o a = a
    BY <1>2, ConcatEmptySeq DEF IsText
  <2>3. f \o Rest(a, j) = a
    BY <2>1, <2>2
  <2>4. (f \o Rest(a, j)) \o b = f \o (Rest(a, j) \o b)
    <3> DEFINE r == Rest(a, j)  T == (Range(f) \cup Range(r)) \cup Range(b)
    <3> HIDE DEF f, r
    <3>1. f \in Seq(T) /\ r \in Seq(T) /\ b \in Seq(T)
      BY <1>2, SeqMonotonic DEF IsText, r
    <3> HIDE DEF T
    <3>2. (f \o r) \o b = f \o (r \o b)
      BY <3>1, ConcatAssociative, SMTT(30)
    <3> QED BY <3>2 DEF r
  <2> QED BY <2>3, <2>4
<1> HIDE DEF f, g
<1> DEFINE v == f \o g
<1>5. /\ v \in Seq(Range(f) \cup Range(g)) /\ Len(v) = Len(f) + Len(g) /\ IsText(v) /\ Len(g) \in Nat
      /\ \A i \in 1 .. Len(f) : v[i] = f[i]
      /\ \A i \in 1 .. Len(g) : v[Len(f) + i] = g[i]
  <2> DEFINE T == Range(f) \cup Range(g)
  <2>1. f \in Seq(T) /\ g \in Seq(T)
    BY <1>2, <1>3, SeqMonotonic DEF IsText
  <2> HIDE DEF T
  <2>2. /\ f \o g \in Seq(T) /\ Len(f \o g) = Len(f) + Len(g)
        /\ \A i \in 1 .. Len(f) : (f \o g)[i] = f[i]
        /\ \A i \in 1 .. Len(g) : (f \o g)[Len(f) + i] = g[i]
    BY <2>1, JoinedAt
  <2>3. Len(g) \in Nat
    BY <1>3, TextIs
  <2>4. IsText(v)
    BY <2>2, TextOf
  <2> QED BY <2>2, <2>3, <2>4 DEF T
<1> HIDE DEF v
<1>6. SubSeq(v, 1, j) = f
  <2> DEFINE t == SubSeq(v, 1, j)
  <2>0. j \in Nat /\ Len(v) \in Nat /\ j <= Len(v)
    BY <1>1, <1>2, <1>5
  <2>1. 1 \in 1 .. Len(v) + 1 /\ j \in 1 - 1 .. Len(v) /\ j - 1 + 1 = j /\ \A i \in 1 .. j : 1 + i - 1 = i
    BY <2>0
  <2>2. IsText(t) /\ Len(t) = j - 1 + 1 /\ \A i \in 1 .. j - 1 + 1 : t[i] = v[1 + i - 1]
    BY <1>5, <2>1, PartOf, ZenonT(60)
  <2> HIDE DEF t
  <2>3. Len(t) = Len(f) /\ \A i \in 1 .. Len(t) : t[i] = f[i]
    BY <1>2, <1>5, <2>1, <2>2
  <2> QED BY <1>2, <2>2, <2>3, TextEqual DEF t
<1>7. SubSeq(v, j + 1, Len(v)) = g
  <2> DEFINE m == j + 1  l == Len(v)  t == SubSeq(v, m, l)
  <2>0. j \in Nat /\ Len(g) \in Nat /\ Len(v) = j + Len(g)
    BY <1>1, <1>2, <1>5
  <2>1. /\ m \in 1 .. Len(v) + 1 /\ l \in m - 1 .. Len(v) /\ l - m + 1 = Len(g)
        /\ \A i \in 1 .. Len(g) : m + i - 1 = j + i
    <3>1. Len(v) \in Nat /\ j <= Len(v)
      BY <2>0
    <3> QED BY <2>0, <3>1
  <2>2. IsText(t) /\ Len(t) = l - m + 1 /\ \A i \in 1 .. l - m + 1 : t[i] = v[m + i - 1]
    <3> HIDE DEF m, l
    <3> QED BY <1>5, <2>1, PartOf
  <2> HIDE DEF t, m, l
  <2>3. Len(t) = Len(g) /\ \A i \in 1 .. Len(t) : t[i] = g[i]
    BY <1>2, <1>5, <2>1, <2>2, ZenonT(60)
  <2>4. t = g
    BY <1>3, <2>2, <2>3, TextEqual
  <2> QED BY <2>4 DEF t, m, l
<1> QED BY <1>1, <1>4, <1>6, <1>7 DEF f, g, v

-----------------------------------------------------------------------------
(* What a reader has been given of a packet, what is under way to it and   *)
(* what is still to be sent make the packet.                               *)
Flows(k, r, pipe, text, p, max) ==
  /\ k \in Nat /\ k < Len(p) /\ Given(r, p, k, max)
  /\ IsText(pipe) /\ IsText(text) /\ pipe \o text = SubSeq(p, k + 1, Len(p))

LEMMA FlowMoved ==
  ASSUME NEW k, NEW r, NEW pipe, NEW text, NEW p, NEW max, Flows(k, r, pipe, text, p, max),
         NEW j \in 1 .. Len(text)
  PROVE  Flows(k, r, Sent(pipe, text, j), Rest(text, j), p, max)
<1>1. IsText(pipe) /\ IsText(text)
  BY DEF Flows
<1>2. IsText(SubSeq(text, 1, j)) /\ IsText(Rest(text, j))
  BY <1>1, FirstOfText
<1>3. IsText(Sent(pipe, text, j))
  BY <1>1, <1>2, TextJoined DEF Sent
<1>4. Sent(pipe, text, j) \o Rest(text, j) = pipe \o text
  BY <1>1, PartsMoved DEF Sent
<1> QED BY <1>2, <1>3, <1>4 DEF Flows

(* How far a flow has come, when j symbols of what is under way are read.  *)
LEMMA FlowRead ==
  ASSUME NEW k, NEW r, NEW pipe, NEW text, NEW p, NEW content, NEW max,
         Flows(k, r, pipe, text, p, max), IsPacket(p, content), NEW j \in 1 .. Len(pipe)
  PROVE  /\ k \in Nat /\ j \in Nat /\ k + j \in Nat /\ k < k + j /\ k + j <= Len(p) /\ Len(p) \in Nat
         /\ SubSeq(pipe, 1, j) = SubSeq(p, k + 1, k + j)
         /\ IsText(Rest(pipe, j)) /\ IsText(text)
         /\ Len(Rest(pipe, j) \o text) = Len(p) - (k + j)
         /\ \A new : k + j < Len(p) /\ Given(new, p, k + j, max) =>
              Flows(k + j, new, Rest(pipe, j), text, p, max)
         /\ k + j = Len(p) => Rest(pipe, j) = <<>> /\ text = <<>>
<1> DEFINE u == pipe \o text
           a == Rest(pipe, j)
           l == Len(u)
<1>1. /\ k \in Nat /\ k < Len(p) /\ IsText(pipe) /\ IsText(text) /\ u = SubSeq(p, k + 1, Len(p))
      /\ IsText(p) /\ Len(p) \in Nat
  BY TextIs DEF Flows, IsPacket
<1>2. IsText(u) /\ l = Len(pipe) + Len(text) /\ Len(pipe) \in Nat /\ Len(text) \in Nat
      /\ SubSeq(u, 1, j) = SubSeq(pipe, 1, j) /\ SubSeq(u, j + 1, l) = a \o text
  BY <1>1, PartOfJoined
<1>3. k \in 0 .. Len(p) /\ 0 \in 0 .. Len(p) - k
  BY <1>1
<1>4. l = Len(p) - k
  <2>1. Len(SubSeq(p, k + 1, Len(p))) = Len(p) - k
    BY <1>1, <1>3, PartsOfTail
  <2> HIDE DEF u
  <2> QED BY <1>1, <2>1
<1>5. j \in Nat /\ k + j \in Nat /\ k < k + j /\ k + j <= Len(p) /\ j \in 0 .. Len(p) - k
  BY <1>1, <1>2, <1>4
<1>6. SubSeq(u, 1, j) = SubSeq(p, k + 1, k + j) /\ SubSeq(u, j + 1, l) = SubSeq(p, k + j + 1, Len(p))
  <2> DEFINE t == SubSeq(p, k + 1, Len(p))
  <2>1. SubSeq(t, 1, j) = SubSeq(p, k + 1, k + j) /\ SubSeq(t, j + 1, Len(t)) = SubSeq(p, k + j + 1, Len(p))
    BY <1>1, <1>3, <1>5, PartsOfTail
  <2>2. t = u
    BY <1>1
  <2> HIDE DEF t, u
  <2> QED BY <2>1, <2>2
<1>7. IsText(a) /\ Len(a) = Len(pipe) - j
  BY <1>1, FirstOfText
<1>8. Len(a \o text) = Len(a) + Len(text)
  BY <1>1, <1>7, TextJoined
<1>9. a \o text = SubSeq(p, k + j + 1, Len(p))
  BY <1>2, <1>6
<1> HIDE DEF u, a, l
<1>10. Len(a \o text) = Len(p) - (k + j) /\ Len(a) + Len(text) = Len(p) - (k + j)
  BY <1>1, <1>2, <1>4, <1>5, <1>7, <1>8
<1>11. ASSUME NEW new, k + j < Len(p), Given(new, p, k + j, max)
       PROVE  Flows(k + j, new, a, text, p, max)
  <2> DEFINE m == k + j
  <2>1. m \in Nat /\ m < Len(p) /\ Given(new, p, m, max) /\ a \o text = SubSeq(p, m + 1, Len(p))
    BY <1>5, <1>9, <1>11
  <2> HIDE DEF m
  <2>2. Flows(m, new, a, text, p, max)
    BY <1>1, <1>7, <2>1 DEF Flows
  <2> QED BY <2>2 DEF m
<1>12. k + j = Len(p) => a = <<>> /\ text = <<>>
  <2> SUFFICES ASSUME k + j = Len(p) PROVE a = <<>> /\ text = <<>>
    OBVIOUS
  <2>1. Len(a) \in Nat /\ Len(text) \in Nat
    BY <1>1, <1>7, TextIs
  <2>2. Len(a) = 0 /\ Len(text) = 0
    BY <1>1, <1>5, <1>10, <2>1
  <2>3. a = <<>>
    BY <1>7, <2>2, EmptyText, TextEqual
  <2>4. text = <<>>
    BY <1>1, <2>2, EmptyText, TextEqual
  <2> QED BY <2>3, <2>4
<1> QED BY <1>1, <1>2, <1>5, <1>6, <1>7, <1>10, <1>11, <1>12 DEF a

LEMMA FlowPiece ==
  ASSUME NEW k, NEW r, NEW pipe, NEW text, NEW p, NEW content, NEW max,
         Flows(k, r, pipe, text, p, max), IsPacket(p, content), NEW j \in 1 .. Len(pipe)
  PROVE  /\ k \in Nat /\ j \in Nat /\ k + j \in Nat /\ k < k + j /\ k + j <= Len(p) /\ Len(p) \in Nat
         /\ SubSeq(pipe, 1, j) = SubSeq(p, k + 1, k + j)
  BY FlowRead, SMTT(30)

LEMMA FlowGoesOn ==
  ASSUME NEW k, NEW r, NEW pipe, NEW text, NEW p, NEW content, NEW max,
         Flows(k, r, pipe, text, p, max), IsPacket(p, content), NEW j \in 1 .. Len(pipe),
         NEW new, k + j < Len(p), Given(new, p, k + j, max)
  PROVE  Flows(k + j, new, Rest(pipe, j), text, p, max)
  BY FlowRead

LEMMA FlowBegins ==
  ASSUME NEW p, NEW content, IsPacket(p, content), NEW max
  PROVE  Flows(0, NewReader, <<>>, p, p, max)
<1>1. IsText(p) /\ Len(p) \in Nat /\ 0 < Len(p)
  BY TextIs DEF IsPacket
<1>2. <<>> \o p = p
  BY <1>1, ConcatEmptySeq DEF IsText
<1>3. SubSeq(p, 0 + 1, Len(p)) = p
  BY <1>1, WholeText
<1>4. SubSeq(p, 1, 0) = <<>>
  BY <1>1
<1>5. Given(NewReader, p, 0, max)
  BY <1>4 DEF Given, Held, Members, NewReader
<1> QED BY <1>1, <1>2, <1>3, <1>5, EmptyText DEF Flows

-----------------------------------------------------------------------------
(* What there is to know of a call, with "on" for what the Server was set  *)
(* up with: its packet, what it is answered with, what it may be refused   *)
(* for.                                                                    *)

Causes(n) ==
  (IF Large(opts.requests[n]) THEN {413} ELSE {}) \cup (IF Broken_(opts.authinfo[n]) THEN {400} ELSE {})

Packet_of(n) ==
  dump(0, set_conn_keep_alive(request_header[opts.authinfo[n]], FALSE), RequestContent(opts.requests[n]))

The(n) == [request |-> opts.requests[n], packet |-> Packet_of(n), answer |-> Answer(n), causes |-> Causes(n)]

Closes == set_conn_keep_alive(Header, FALSE)

ReplyContent(answer) == IF answer.is = "refuses" THEN <<>> ELSE ResponseContent(answer.resp)
Reply(answer) == dump(IF answer.is = "refuses" THEN answer.code ELSE 200, Closes, ReplyContent(answer))

(* A task that comes to the answer of a call, for one who may ask it.      *)
Due(x, on, task) ==
  /\ task.req = x.request
  /\ task.authname \in authenticate(on, x.packet[1].options)
  /\ NewLine \notin Range(x.packet[1].options.authorization.base64)
  /\ response_of(on, process_execution(on, task.method, task.req).outcome) = x.answer

(* What an answer is written as, and read as.                              *)
SoundAnswer(answer) ==
  /\ answer.is \in {"refuses", "responds"}
  /\ IsText(ReplyContent(answer))
  /\ answer.is = "refuses" => answer = Refuses(answer.code) /\ answer.code # 200
  /\ answer.is = "responds" =>
       LET read == ParseResponse(ResponseContent(answer.resp))
       IN  /\ answer = Responds(answer.resp)
           /\ IF Expressible(answer.resp) THEN read = answer.resp /\ read.is # "exception"
              ELSE read.is = "exception"

Proper(x, on) ==
  /\ IsPacket(x.packet, RequestContent(x.request)) /\ ~ conn_keep_alive(x.packet[1].options)
  /\ Refusal(<<x.packet[1]>>, on.ver_level) \in {0, 400}
  /\ Refusal(<<x.packet[1]>>, on.ver_level) = 400 => 400 \in x.causes
  /\ max_request_sz # 0 /\ Len(x.packet) >= max_request_sz => 413 \in x.causes
  /\ x.causes \subseteq {400, 413}
  /\ Refusal(<<x.packet[1]>>, on.ver_level) = 0 =>
       LET task == schedule_execute(on, Packet(x.packet[1], RequestContent(x.request)))
       IN  IF task.is = "executes" THEN Due(x, on, task) ELSE task = x.answer
  /\ SoundAnswer(x.answer)

-----------------------------------------------------------------------------
(* The stages of a call: s is the server's end of its connection, ts and   *)
(* tc are under way, out is still to be sent, and rd is the client's       *)
(* reader.                                                                 *)

(* The server reads the request,                                           *)
Reads(x, on, s, ts, tc, out, rd) ==
  /\ s.open /\ s.mask = {"INPUT"} /\ s.executing = {}
  /\ \E k : /\ Flows(k, s.preader, ts, out, x.packet, max_request_sz)
            /\ k >= 3 => Refusal(<<x.packet[1]>>, on.ver_level) = 0
  /\ tc = <<>> /\ rd = NewReader

(* executes it,                                                            *)
Works(x, on, s, ts, tc, out, rd) ==
  /\ s.open /\ s.mask = {} /\ ~ s.keep_alive
  /\ \E task : s.executing = {task} /\ Due(x, on, task)
  /\ ts = <<>> /\ tc = <<>> /\ out = <<>> /\ rd = NewReader

(* answers it,                                                             *)
Replies(x, on, s, ts, tc, out, rd) ==
  /\ IF s.open THEN s.mask = {"OUTPUT"} /\ ~ s.keep_alive ELSE s.response = <<>>
  /\ s.executing = {}
  /\ \E k : Flows(k, rd, tc, s.response, Reply(x.answer), 0)
  /\ ts = <<>> /\ out = <<>>

(* or has refused it, and refuses the rest.                                *)
Refuses_(x, on, r) ==
  \/ Overfull(r, max_request_sz) /\ 413 \in x.causes
  \/ /\ Mistaken(r, x.packet[1]) /\ 400 \in x.causes
     /\ Refusal(<<x.packet[1]>>, on.ver_level) # 0

TurnsAway(x, on, s, ts, tc, out, rd) ==
  /\ s.open => /\ s.mask = {"INPUT", "OUTPUT"} /\ ~ s.keep_alive
               /\ Refuses_(x, on, s.preader)
               /\ max_request_sz # 0 => s.preader.total_sz + Len(ts \o out) <= Len(x.packet)
               /\ Refusing(s.response, x.causes)
  /\ s.executing = {}
  /\ Refusing(tc, x.causes) /\ Disappointed(rd, x.causes)
  /\ IsText(ts) /\ IsText(out)
  /\ x.causes # {}

Exchange(x, on, s, ts, tc, out, rd) ==
  \/ Reads(x, on, s, ts, tc, out, rd)
  \/ Works(x, on, s, ts, tc, out, rd)
  \/ Replies(x, on, s, ts, tc, out, rd)
  \/ TurnsAway(x, on, s, ts, tc, out, rd)

LEMMA ErrorPacket ==
  ASSUME NEW code, NEW options, IsOptions(options), NEW codes, code \in codes
  PROVE  Refusing(dump(code, options, <<>>), codes)
<1> DEFINE p == dump(code, options, <<>>)
<1>1. IsPacket(p, <<>>) /\ p[1] = Head_(code, set_content_length(options, Len(<<>>)))
  BY PacketIs, EmptyText
<1> HIDE DEF p
<1>2. IsText(p) /\ Len(p) = 3 /\ p[2] = CR_LF /\ p[3] = CR_LF /\ DOMAIN p = 1 .. Len(p)
  BY <1>1, EmptyText, TextIs DEF IsPacket
<1>3. p[1].code = code
  BY <1>1 DEF Head_
<1>4. ASSUME NEW i \in DOMAIN p, p[i].is = "head" PROVE p[i].code \in codes
  <2>1. i \in {1, 2, 3}
    BY <1>2
  <2>2. i # 2 /\ i # 3
    BY <1>2, <1>4 DEF CR_LF
  <2> QED BY <1>3, <2>1, <2>2
<1> QED BY <1>2, <1>4 DEF Refusing, p

LEMMA HeaderIs ==
  /\ IsOptions(Header) /\ IsOptions(Closes)
  /\ Closes.connection = Word("close") /\ Closes.content_type = NoValue
  /\ Closes.authorization = NoValue
BY DEF IsOptions, Header, Closes, set_conn_keep_alive, NoValue, Word

LEMMA ReplyIs ==
  ASSUME NEW x, Proper(x, setup)
  PROVE  LET p == Reply(x.answer)
         IN  /\ IsPacket(p, ReplyContent(x.answer))
             /\ p[1].code = IF x.answer.is = "refuses" THEN x.answer.code ELSE 200
             /\ \A v : Refusal(<<p[1]>>, v) = 0
<1> DEFINE code == IF x.answer.is = "refuses" THEN x.answer.code ELSE 200
           content == ReplyContent(x.answer)
           len == Len(content)
           p == Reply(x.answer)
<1>1. IsText(content)
  BY DEF Proper, SoundAnswer
<1>2. p = dump(code, Closes, content)
  BY DEF Reply
<1> HIDE DEF code, content, p
<1>3. IsPacket(p, content) /\ p[1] = Head_(code, set_content_length(Closes, len))
  BY <1>1, <1>2, HeaderIs, PacketIs
<1> HIDE DEF len
<1>4. NewLine \notin Range(Closes.authorization.base64)
  <2>1. Closes.authorization.base64 = <<>>
    BY HeaderIs DEF NoValue, Word
  <2> QED BY <2>1 DEF Range
<1>5. ASSUME NEW v PROVE Refusal(<<p[1]>>, v) = 0 /\ p[1].code = code
  BY <1>3, <1>4, HeaderIs, ParseIs
<1> QED BY <1>3, <1>5 DEF p, code, content

(* A response that has been scheduled is on its way.                       *)
LEMMA BeginsReply ==
  ASSUME NEW x, Proper(x, setup), NEW s, IsServer(setup, s), s.open, ~ s.keep_alive
  PROVE  Exchange(x, setup, schedule_response(s, x.answer), <<>>, <<>>, <<>>, NewReader)
<1> DEFINE q == schedule_response(s, x.answer)
<1>1. x.answer.is \in {"refuses", "responds"}
  BY DEF Proper, SoundAnswer
<1>2. q = [s EXCEPT !.mask = {"OUTPUT"}, !.executing = {}, !.response = Reply(x.answer)]
  BY <1>1 DEF schedule_response, RespondWith, Reply, ReplyContent, Closes, set_conn_keep_alive
<1>3. s \in [open : BOOLEAN, mask : SUBSET {"INPUT", "OUTPUT"}, preader : {s.preader},
            keep_alive : {s.keep_alive}, response : {s.response}, executing : {s.executing}]
  BY DEF IsServer
<1> HIDE DEF q
<1>4. /\ q.open = s.open /\ q.mask = {"OUTPUT"} /\ q.executing = {}
      /\ q.keep_alive = s.keep_alive /\ q.response = Reply(x.answer)
  BY <1>2, <1>3
<1>5. Flows(0, NewReader, <<>>, q.response, Reply(x.answer), 0)
  <2> DEFINE p == Reply(x.answer)
  <2>1. IsPacket(p, ReplyContent(x.answer))
    BY ReplyIs
  <2> HIDE DEF p
  <2>2. Flows(0, NewReader, <<>>, p, p, 0)
    BY <2>1, FlowBegins
  <2> QED BY <1>4, <2>2 DEF p
<1>6. Replies(x, setup, q, <<>>, <<>>, <<>>, NewReader)
  BY <1>4, <1>5 DEF Replies
<1> QED BY <1>6 DEF Exchange, q

(* A request that is refused: the error is on its way.                     *)
LEMMA BeginsRefusal ==
  ASSUME NEW x, Proper(x, setup), NEW s, IsServer(setup, s), NEW r, s.open,
         s.executing = {}, "INPUT" \in s.mask, NEW code \in x.causes, Refuses_(x, setup, r),
         NEW ts, NEW tc, NEW out, NEW rd, IsText(ts), IsText(out),
         max_request_sz # 0 => r.total_sz + Len(ts \o out) <= Len(x.packet),
         Refusing(tc, x.causes), Disappointed(rd, x.causes)
  PROVE  Exchange(x, setup, handle_error([s EXCEPT !.preader = r], code), ts, tc, out, rd)
<1> DEFINE q == handle_error([s EXCEPT !.preader = r], code)
           response == dump(code, Header, <<>>)
<1>1. q = [s EXCEPT !.preader = r, !.keep_alive = FALSE, !.response = response,
                    !.mask = @ \cup {"OUTPUT"}]
  <2>1. s \in [open : BOOLEAN, mask : SUBSET {"INPUT", "OUTPUT"}, preader : {s.preader},
              keep_alive : {s.keep_alive}, response : {s.response}, executing : {s.executing}]
    BY DEF IsServer
  <2> QED BY <2>1 DEF handle_error
<1>2. s \in [open : BOOLEAN, mask : SUBSET {"INPUT", "OUTPUT"}, preader : {s.preader},
            keep_alive : {s.keep_alive}, response : {s.response}, executing : {s.executing}]
  BY DEF IsServer
<1>3. Refusing(response, x.causes)
  BY HeaderIs, ErrorPacket
<1> HIDE DEF q, response
<1>4. /\ q.open = s.open /\ q.mask = {"INPUT", "OUTPUT"} /\ q.executing = {}
      /\ q.keep_alive = FALSE /\ q.response = response /\ q.preader = r
  BY <1>1, <1>2
<1>5. TurnsAway(x, setup, q, ts, tc, out, rd)
  BY <1>3, <1>4 DEF TurnsAway
<1> QED BY <1>5 DEF Exchange, q

(* The server reads on.                                                    *)
LEMMA ReadsOn ==
  ASSUME SetupKnown, NEW x, Proper(x, setup), NEW s, IsServer(setup, s), NEW ts, Sound(ts),
         NEW tc, NEW out, NEW rd, Reads(x, setup, s, ts, tc, out, rd), NEW j \in 1 .. Len(ts)
  PROVE  LET read == read_packet(s.preader, SubSeq(ts, 1, j), max_request_sz, setup.ver_level)
             conn_ == [s EXCEPT !.preader = read.reader]
         IN  /\ Exchange(x, setup, Handled(conn_, read.outcome, Asked(read.outcome)).conn,
                         Rest(ts, j), tc, out, rd)
             /\ read.outcome.is = "packet" =>
                  /\ read.outcome = Packet(x.packet[1], RequestContent(x.request))
                  /\ Refusal(<<x.packet[1]>>, setup.ver_level) = 0
<1> DEFINE p == x.packet
           content == RequestContent(x.request)
           level == setup.ver_level
           refusal == Refusal(<<p[1]>>, level)
           piece == SubSeq(ts, 1, j)
           read == read_packet(s.preader, piece, max_request_sz, level)
           new == read.reader
           conn_ == [s EXCEPT !.preader = new]
           becomes == Handled(conn_, read.outcome, Asked(read.outcome))
           rest == Rest(ts, j)
<1> SUFFICES /\ Exchange(x, setup, becomes.conn, rest, tc, out, rd)
             /\ read.outcome.is = "packet" => read.outcome = Packet(p[1], content) /\ refusal = 0
  OBVIOUS
<1>1. /\ IsPacket(p, content) /\ refusal \in {0, 400} /\ (refusal = 400 => 400 \in x.causes)
      /\ max_request_sz # 0 /\ Len(p) >= max_request_sz => 413 \in x.causes
      /\ ~ conn_keep_alive(p[1].options)
  BY DEF Proper
<1>2. s.open /\ s.mask = {"INPUT"} /\ s.executing = {} /\ tc = <<>> /\ rd = NewReader
  BY DEF Reads
<1>3. PICK k : /\ Flows(k, s.preader, ts, out, p, max_request_sz)
               /\ k >= 3 => refusal = 0
  BY DEF Reads
<1> DEFINE m == k + j
<1>4. /\ k \in Nat /\ j \in Nat /\ m \in Nat /\ k < m /\ m <= Len(p) /\ Len(p) \in Nat
      /\ piece = SubSeq(p, k + 1, m)
      /\ IsText(rest) /\ IsText(out)
      /\ Len(rest \o out) = Len(p) - m
      /\ \A r : m < Len(p) /\ Given(r, p, m, max_request_sz) => Flows(m, r, rest, out, p, max_request_sz)
      /\ m = Len(p) => rest = <<>> /\ out = <<>>
  <2> HIDE DEF p, content
  <2>1. Flows(k, s.preader, ts, out, p, max_request_sz) /\ IsPacket(p, content)
    BY <1>1, <1>3
  <2>2. /\ k \in Nat /\ j \in Nat /\ m \in Nat /\ k < m /\ m <= Len(p) /\ Len(p) \in Nat
        /\ piece = SubSeq(p, k + 1, m)
        /\ IsText(rest) /\ IsText(out)
        /\ Len(rest \o out) = Len(p) - m
        /\ m = Len(p) => rest = <<>> /\ out = <<>>
    BY <2>1, FlowRead, SMTT(30)
  <2>3. ASSUME NEW r, m < Len(p), Given(r, p, m, max_request_sz)
        PROVE  Flows(m, r, rest, out, p, max_request_sz)
    BY <2>1, <2>3, FlowRead
  <2> QED BY <2>2, <2>3
<1>5. Given(s.preader, p, k, max_request_sz)
  BY <1>3 DEF Flows
<1>6. /\ IsReader(s.preader) /\ Within(s.preader)
      /\ s \in [open : BOOLEAN, mask : SUBSET {"INPUT", "OUTPUT"}, preader : {s.preader},
                keep_alive : {s.keep_alive}, response : {s.response}, executing : {s.executing}]
  BY DEF IsServer
<1>7. max_request_sz \in Nat
  BY HttpCallAssumption
<1>8. Sound(piece)
  BY FirstOf
<1>9. IsReader(new) /\ Within(new)
  BY <1>6, <1>8, ReadPacket
<1> HIDE DEF m
<1>10. ReadAs(read, p, content, k, m, max_request_sz, level)
  <2> DEFINE part == SubSeq(p, k + 1, m)
  <2>1. ReadAs(read_packet(s.preader, part, max_request_sz, level), p, content, k, m, max_request_sz, level)
    BY <1>1, <1>4, <1>5, <1>7, PieceRead
  <2>2. part = piece
    BY <1>4
  <2> HIDE DEF part, piece
  <2> QED BY <2>1, <2>2
<1> HIDE DEF p, content, level, refusal, piece, read, new, conn_, becomes, rest
<1>11. Refusing(tc, x.causes) /\ Disappointed(rd, x.causes)
  BY <1>2, RefusingEmpty, NewDisappointed
<1>12. new.total_sz <= m /\ new.total_sz \in Nat => new.total_sz + Len(rest \o out) <= Len(p)
  BY <1>4
<1>13. new.total_sz \in Nat
  BY <1>9, StoredIs
<1>14. ASSUME NEW code \in x.causes, Refuses_(x, setup, new), read.outcome = Error(code),
              max_request_sz # 0 => new.total_sz <= m
       PROVE  Exchange(x, setup, becomes.conn, rest, tc, out, rd)
  <2>1. becomes.conn = handle_error(conn_, code)
    BY <1>14 DEF becomes, Handled, Becomes, Error
  <2>2. "INPUT" \in s.mask
    BY <1>2
  <2>3. max_request_sz # 0 => new.total_sz + Len(rest \o out) <= Len(x.packet)
    BY <1>12, <1>13, <1>14 DEF p
  <2>4. Exchange(x, setup, handle_error(conn_, code), rest, tc, out, rd)
    BY <1>2, <1>4, <1>11, <1>14, <2>2, <2>3, BeginsRefusal DEF conn_
  <2> QED BY <2>1, <2>4
<1>15. ASSUME /\ max_request_sz # 0 /\ Len(p) >= max_request_sz /\ read.outcome = Error(413)
              /\ Overfull(new, max_request_sz) /\ new.total_sz <= m
       PROVE  Exchange(x, setup, becomes.conn, rest, tc, out, rd)
  <2>1. 413 \in x.causes /\ Refuses_(x, setup, new)
    BY <1>1, <1>15 DEF Refuses_
  <2> QED BY <1>14, <1>15, <2>1
<1>16. ASSUME /\ refusal # 0 /\ read.outcome = Error(refusal)
              /\ Mistaken(new, p[1]) /\ (max_request_sz # 0 => new.total_sz <= m)
       PROVE  Exchange(x, setup, becomes.conn, rest, tc, out, rd)
  <2>1. refusal = 400 /\ 400 \in x.causes
    BY <1>1, <1>16
  <2>2. Refuses_(x, setup, new)
    BY <1>16, <2>1 DEF Refuses_, p, refusal, level
  <2> QED BY <1>14, <1>16, <2>1, <2>2
<1>17. ASSUME /\ read.outcome = NoPacket /\ m < Len(p) /\ Given(new, p, m, max_request_sz)
              /\ k < 3 /\ m >= 3 => refusal = 0
       PROVE  Exchange(x, setup, becomes.conn, rest, tc, out, rd)
  <2>1. becomes.conn = conn_
    BY <1>17 DEF becomes, Handled, Becomes, NoPacket
  <2>2. /\ conn_.open /\ conn_.mask = {"INPUT"} /\ conn_.executing = {} /\ conn_.preader = new
    BY <1>2, <1>6 DEF conn_
  <2>3. Flows(m, new, rest, out, p, max_request_sz)
    BY <1>4, <1>17
  <2>4. m >= 3 => refusal = 0
    BY <1>3, <1>4, <1>17
  <2>5. Reads(x, setup, conn_, rest, tc, out, rd)
    BY <1>2, <2>2, <2>3, <2>4 DEF Reads, p, refusal, level
  <2> QED BY <2>1, <2>5 DEF Exchange
<1>18. ASSUME /\ read.outcome = Packet(p[1], content) /\ m = Len(p)
              /\ k < 3 => refusal = 0
       PROVE  Exchange(x, setup, becomes.conn, rest, tc, out, rd)
  <2> DEFINE packet == Packet(p[1], content)
             task == schedule_execute(setup, packet)
             asked == [conn_ EXCEPT !.keep_alive = conn_keep_alive(p[1].options)]
  <2>1. refusal = 0 /\ rest = <<>> /\ out = <<>>
    BY <1>1, <1>3, <1>4, <1>18
  <2>2. packet.is = "packet" /\ packet.header = p[1]
    BY DEF Packet
  <2>3. Asked(read.outcome) = task
    BY <1>18, <2>2 DEF Asked
  <2> HIDE DEF task
  <2>4. becomes = handle_request(asked, task)
    BY <1>18, <2>2, <2>3 DEF becomes, Handled
  <2>5. IsServer(setup, conn_)
    BY <1>9, ServerMembers DEF conn_
  <2>6. IsServer(setup, asked)
    BY <2>5, ServerMembers
  <2>7. asked.open /\ ~ asked.keep_alive
    <3>1. conn_.open
      BY <1>2, <1>6 DEF conn_
    <3>2. conn_ \in [open : BOOLEAN, mask : SUBSET {"INPUT", "OUTPUT"}, preader : {conn_.preader},
                keep_alive : {conn_.keep_alive}, response : {conn_.response}, executing : {conn_.executing}]
      BY <2>5 DEF IsServer
    <3> QED BY <1>1, <3>1, <3>2
  <2>8. IF task.is = "executes" THEN Due(x, setup, task) ELSE task = x.answer
    BY <2>1 DEF Proper, task, p, content, refusal, level
  <2> HIDE DEF asked
  <2>9. Exchange(x, setup, schedule_response(asked, x.answer), rest, tc, out, rd)
    BY <1>2, <2>1, <2>6, <2>7, BeginsReply
  <2>10. CASE task.is # "executes"
    <3>1. becomes.conn = schedule_response(asked, x.answer)
      BY <2>4, <2>8, <2>10 DEF handle_request, Becomes
    <3> QED BY <2>9, <3>1
  <2>11. CASE task.is = "executes" /\ setup.executor # "pool"
    <3>1. becomes = Executed(asked, task)
      BY <2>4, <2>11 DEF handle_request
    <3>2. becomes.conn = schedule_response(asked, x.answer)
      BY <2>8, <2>11, <3>1 DEF Executed, Becomes, Due
    <3> QED BY <2>9, <3>2
  <2>12. CASE task.is = "executes" /\ setup.executor = "pool"
    <3> DEFINE q == [asked EXCEPT !.mask = {}, !.executing = {task}]
    <3>1. becomes.conn = q
      BY <2>4, <2>12 DEF handle_request, Becomes
    <3>2. asked \in [open : BOOLEAN, mask : SUBSET {"INPUT", "OUTPUT"}, preader : {asked.preader},
                keep_alive : {asked.keep_alive}, response : {asked.response}, executing : {asked.executing}]
      BY <2>6 DEF IsServer
    <3>3. q.open /\ q.mask = {} /\ ~ q.keep_alive /\ q.executing = {task}
      BY <2>7, <3>2
    <3> HIDE DEF q
    <3>4. Works(x, setup, q, rest, tc, out, rd)
      BY <1>2, <2>1, <2>8, <2>12, <3>3 DEF Works
    <3> QED BY <3>1, <3>4 DEF Exchange
  <2> QED BY <2>10, <2>11, <2>12
<1>19. Exchange(x, setup, becomes.conn, rest, tc, out, rd)
  BY <1>10, <1>15, <1>16, <1>17, <1>18 DEF ReadAs, refusal, new
<1>20. ASSUME read.outcome.is = "packet"
       PROVE  read.outcome = Packet(p[1], content) /\ refusal = 0
  <2>1. read.outcome # NoPacket /\ \A code : read.outcome # Error(code)
    BY <1>20 DEF NoPacket, Error
  <2>2. read.outcome = Packet(p[1], content) /\ (k < 3 => refusal = 0)
    BY <1>10, <2>1 DEF ReadAs, refusal
  <2> QED BY <1>3, <1>4, <2>2
<1> QED BY <1>19, <1>20

(* What is left of a connection that the server has closed.                *)
Gone == [Accepted EXCEPT !.open = FALSE, !.mask = {}]

LEMMA GoneIs ==
  ~ Gone.open /\ Gone.mask = {} /\ Gone.executing = {} /\ Gone.response = <<>>
BY DEF Gone, Accepted

(* The server reads what follows that it has refused.                      *)
LEMMA RefusesOn ==
  ASSUME NEW x, Proper(x, setup), NEW s, IsServer(setup, s), NEW ts, Sound(ts),
         NEW tc, NEW out, NEW rd, TurnsAway(x, setup, s, ts, tc, out, rd), s.open,
         NEW j \in 1 .. Len(ts)
  PROVE  LET read == read_packet(s.preader, SubSeq(ts, 1, j), max_request_sz, setup.ver_level)
             conn_ == [s EXCEPT !.preader = read.reader]
         IN  /\ Exchange(x, setup, Handled(conn_, read.outcome, Asked(read.outcome)).conn,
                         Rest(ts, j), tc, out, rd)
             /\ read.outcome.is # "packet"
<1> DEFINE p == x.packet
           head == p[1]
           level == setup.ver_level
           refusal == Refusal(<<head>>, level)
           old == s.preader
           piece == SubSeq(ts, 1, j)
           read == read_packet(old, piece, max_request_sz, level)
           new == read.reader
           conn_ == [s EXCEPT !.preader = new]
           becomes == Handled(conn_, read.outcome, Asked(read.outcome))
           rest == Rest(ts, j)
<1> SUFFICES Exchange(x, setup, becomes.conn, rest, tc, out, rd) /\ read.outcome.is # "packet"
  OBVIOUS
<1>1. /\ head.is = "head" /\ refusal \in {0, 400} /\ Len(p) \in Nat
      /\ max_request_sz # 0 /\ Len(p) >= max_request_sz => 413 \in x.causes
  BY TextIs DEF Proper, IsPacket
<1>2. /\ s.mask = {"INPUT", "OUTPUT"} /\ s.executing = {} /\ ~ s.keep_alive
      /\ Refuses_(x, setup, old) /\ Refusing(s.response, x.causes)
      /\ max_request_sz # 0 => old.total_sz + Len(ts \o out) <= Len(p)
      /\ Refusing(tc, x.causes) /\ Disappointed(rd, x.causes)
      /\ IsText(ts) /\ IsText(out) /\ x.causes # {}
  BY DEF TurnsAway
<1>3. /\ IsReader(old)
      /\ s \in [open : BOOLEAN, mask : SUBSET {"INPUT", "OUTPUT"}, preader : {s.preader},
                keep_alive : {s.keep_alive}, response : {s.response}, executing : {s.executing}]
  BY DEF IsServer
<1>4. /\ IsText(piece) /\ Len(piece) = j /\ IsText(rest) /\ Len(rest) = Len(ts) - j
  BY <1>2, FirstOfText
<1>5. max_request_sz \in Nat
  BY HttpCallAssumption
<1>6. j \in Nat /\ j > 0 /\ Len(ts) \in Nat /\ Len(out) \in Nat /\ old.total_sz \in Nat
      /\ Len(ts \o out) = Len(ts) + Len(out) /\ Len(rest \o out) = Len(rest) + Len(out)
  <2>1. Len(ts) \in Nat /\ Len(out) \in Nat /\ old.total_sz \in Nat
    BY <1>2, <1>3, TextIs, StoredIs
  <2>2. Len(ts \o out) = Len(ts) + Len(out)
    BY <1>2, TextJoined
  <2>3. Len(rest \o out) = Len(rest) + Len(out)
    BY <1>2, <1>4, TextJoined
  <2> QED BY <2>1, <2>2, <2>3
<1>7. piece # <<>>
  BY <1>4, <1>6, EmptyText
<1> HIDE DEF p, head, old, piece, rest, level, becomes, conn_
<1>8. Overfull(old, max_request_sz) \/ (Mistaken(old, head) /\ refusal # 0)
  BY <1>2 DEF Refuses_, head, p, level
<1>9. /\ RefusedAs(read, old, head, max_request_sz, level)
      /\ new.total_sz \in {old.total_sz, old.total_sz + Len(piece)}
  BY <1>1, <1>3, <1>4, <1>5, <1>7, <1>8, RefusedRead
<1> HIDE DEF read, new, refusal
<1>10. max_request_sz # 0 => new.total_sz + Len(rest \o out) <= Len(p)
                             /\ old.total_sz <= Len(p) /\ new.total_sz <= Len(p) /\ new.total_sz \in Nat
  BY <1>1, <1>2, <1>4, <1>6, <1>9, SMTT(30)
<1>11. ASSUME NEW code \in x.causes, read.outcome = Error(code), Refuses_(x, setup, new)
       PROVE  Exchange(x, setup, becomes.conn, rest, tc, out, rd)
  <2>1. becomes.conn = handle_error(conn_, code)
    BY <1>11 DEF becomes, Handled, Becomes, Error
  <2>2. "INPUT" \in s.mask /\ (max_request_sz # 0 => new.total_sz + Len(rest \o out) <= Len(x.packet))
    BY <1>2, <1>10 DEF p
  <2>3. Exchange(x, setup, handle_error(conn_, code), rest, tc, out, rd)
    BY <1>2, <1>4, <1>11, <2>2, BeginsRefusal DEF conn_
  <2> QED BY <2>1, <2>3
<1>12. ASSUME /\ read.outcome = Error(413) /\ Overfull(new, max_request_sz)
              /\ Overfull(old, max_request_sz) \/ new.total_sz >= max_request_sz
       PROVE  Exchange(x, setup, becomes.conn, rest, tc, out, rd)
  <2>1. max_request_sz # 0
    BY <1>12 DEF Overfull
  <2>2. CASE Overfull(old, max_request_sz) /\ 413 \in x.causes
    <3>1. Refuses_(x, setup, new)
      BY <1>12, <2>2 DEF Refuses_
    <3> QED BY <1>11, <1>12, <2>2, <3>1
  <2>3. CASE ~ (Overfull(old, max_request_sz) /\ 413 \in x.causes)
    <3>1. Mistaken(old, head)
      BY <1>2, <2>3 DEF Refuses_, head, p
    <3>2. old.total_sz >= max_request_sz \/ new.total_sz >= max_request_sz
      BY <1>12, <3>1 DEF Overfull, Mistaken
    <3>3. Len(p) >= max_request_sz
      BY <1>1, <1>5, <1>6, <1>10, <2>1, <3>2
    <3>4. 413 \in x.causes
      BY <1>1, <2>1, <3>3
    <3>5. Refuses_(x, setup, new)
      BY <1>12, <3>4 DEF Refuses_
    <3> QED BY <1>11, <1>12, <3>4, <3>5
  <2> QED BY <2>2, <2>3
<1>13. ASSUME /\ Mistaken(new, head) /\ Mistaken(old, head) /\ ~ Overfull(old, max_request_sz)
              /\ read.outcome \in {NoPacket, Error(400), Error(refusal)}
       PROVE  Exchange(x, setup, becomes.conn, rest, tc, out, rd)
  <2>1. refusal # 0 /\ 400 \in x.causes
    BY <1>2, <1>13 DEF Refuses_, refusal, head, p, level
  <2>2. refusal = 400
    BY <1>1, <2>1
  <2>3. Refuses_(x, setup, new)
    BY <1>13, <2>1 DEF Refuses_, refusal, head, p, level
  <2>4. CASE read.outcome = Error(400)
    BY <1>11, <2>1, <2>3, <2>4
  <2>5. CASE read.outcome = NoPacket
    <3>1. becomes.conn = conn_
      BY <2>5 DEF becomes, Handled, Becomes, NoPacket
    <3>2. /\ conn_.open = s.open /\ conn_.mask = s.mask /\ conn_.executing = s.executing
          /\ conn_.preader = new /\ conn_.keep_alive = s.keep_alive /\ conn_.response = s.response
      BY <1>3 DEF conn_
    <3>3. TurnsAway(x, setup, conn_, rest, tc, out, rd)
      BY <1>2, <1>4, <1>10, <2>3, <3>2 DEF TurnsAway, p
    <3> QED BY <3>1, <3>3 DEF Exchange
  <2> QED BY <1>13, <2>2, <2>4, <2>5
<1>14. Exchange(x, setup, becomes.conn, rest, tc, out, rd)
  BY <1>9, <1>12, <1>13 DEF RefusedAs, new, refusal
<1>15. read.outcome.is # "packet"
  <2>1. NoPacket.is # "packet" /\ \A code : Error(code).is # "packet"
    BY DEF NoPacket, Error
  <2> QED BY <1>9, <2>1 DEF RefusedAs
<1> QED BY <1>14, <1>15

(* A thread of the pool runs the method.                                   *)
LEMMA WorksOff ==
  ASSUME NEW x, Proper(x, setup), NEW s, IsServer(setup, s), NEW ts, NEW tc, NEW out, NEW rd,
         Exchange(x, setup, s, ts, tc, out, rd), NEW task \in s.executing
  PROVE  Exchange(x, setup, Executed(s, task).conn, ts, tc, out, rd)
<1>1. Works(x, setup, s, ts, tc, out, rd)
  BY DEF Exchange, Reads, Replies, TurnsAway
<1>2. Due(x, setup, task) /\ s.open /\ ~ s.keep_alive
      /\ ts = <<>> /\ tc = <<>> /\ out = <<>> /\ rd = NewReader
  BY <1>1 DEF Works
<1>3. Executed(s, task).conn = schedule_response(s, x.answer)
  BY <1>2 DEF Executed, Becomes, Due
<1> QED BY <1>2, <1>3, BeginsReply

(* The server sends some of its response.                                  *)
LEMMA SendsOn ==
  ASSUME NEW x, Proper(x, setup), NEW s, IsServer(setup, s), NEW ts, NEW tc, NEW out, NEW rd,
         Exchange(x, setup, s, ts, tc, out, rd), s.open, "OUTPUT" \in s.mask,
         NEW k \in 1 .. Len(s.response)
  PROVE  LET sent == Sent(tc, s.response, k)
         IN  /\ ~ s.keep_alive
             /\ Exchange(x, setup, [s EXCEPT !.response = Rest(@, k)], ts, sent, out, rd)
             /\ k = Len(s.response) => Exchange(x, setup, Gone, <<>>, sent, out, rd)
             /\ k = Len(s.response) /\ ts # <<>> => Exchange(x, setup, Gone, <<>>, <<>>, out, rd)
<1> DEFINE sent == Sent(tc, s.response, k)
           rest == Rest(s.response, k)
           q == [s EXCEPT !.response = rest]
<1>1. /\ s \in [open : BOOLEAN, mask : SUBSET {"INPUT", "OUTPUT"}, preader : {s.preader},
                keep_alive : {s.keep_alive}, response : {s.response}, executing : {s.executing}]
      /\ IsText(s.response)
  BY DEF IsServer
<1>2. /\ IsText(SubSeq(s.response, 1, k)) /\ IsText(rest) /\ Len(rest) = Len(s.response) - k
  BY <1>1, FirstOfText
<1>3. k = Len(s.response) => rest = <<>>
  <2> HIDE DEF rest
  <2> SUFFICES ASSUME k = Len(s.response) PROVE rest = <<>>
    OBVIOUS
  <2>1. Len(rest) = 0
    BY <1>2
  <2> QED BY <1>2, <2>1, EmptyText, TextEqual
<1>4. /\ q.open = s.open /\ q.mask = s.mask /\ q.executing = s.executing
      /\ q.preader = s.preader /\ q.keep_alive = s.keep_alive /\ q.response = rest
  BY <1>1
<1> HIDE DEF sent, rest, q
<1>5. CASE Replies(x, setup, s, ts, tc, out, rd)
  <2>1. /\ s.mask = {"OUTPUT"} /\ ~ s.keep_alive /\ s.executing = {} /\ ts = <<>> /\ out = <<>>
    BY <1>5 DEF Replies
  <2>2. PICK m : Flows(m, rd, tc, s.response, Reply(x.answer), 0)
    BY <1>5 DEF Replies
  <2>3. Flows(m, rd, sent, rest, Reply(x.answer), 0)
    BY <2>2, FlowMoved DEF sent, rest
  <2>4. Replies(x, setup, q, ts, sent, out, rd)
    BY <1>4, <2>1, <2>3 DEF Replies
  <2>5. k = Len(s.response) => Replies(x, setup, Gone, <<>>, sent, out, rd)
    BY <1>3, <2>1, <2>3, GoneIs DEF Replies
  <2> QED BY <2>1, <2>4, <2>5 DEF Exchange, sent, q, rest
<1>6. CASE TurnsAway(x, setup, s, ts, tc, out, rd)
  <2>1. /\ s.mask = {"INPUT", "OUTPUT"} /\ ~ s.keep_alive /\ s.executing = {}
        /\ Refuses_(x, setup, s.preader)
        /\ max_request_sz # 0 => s.preader.total_sz + Len(ts \o out) <= Len(x.packet)
        /\ Refusing(s.response, x.causes)
        /\ Refusing(tc, x.causes) /\ Disappointed(rd, x.causes)
        /\ IsText(ts) /\ IsText(out) /\ x.causes # {}
    BY <1>6 DEF TurnsAway
  <2>2. Refusing(rest, x.causes) /\ Refusing(SubSeq(s.response, 1, k), x.causes)
    BY <2>1, RefusingFirst DEF rest
  <2>3. Refusing(sent, x.causes)
    BY <2>1, <2>2, RefusingJoined DEF sent, Sent
  <2>4. TurnsAway(x, setup, q, ts, sent, out, rd)
    BY <1>4, <2>1, <2>2, <2>3 DEF TurnsAway
  <2>5. /\ TurnsAway(x, setup, Gone, <<>>, sent, out, rd)
        /\ TurnsAway(x, setup, Gone, <<>>, <<>>, out, rd)
    BY <2>1, <2>3, GoneIs, EmptyText, RefusingEmpty DEF TurnsAway
  <2> QED BY <2>1, <2>4, <2>5 DEF Exchange, sent, q, rest
<1> QED BY <1>5, <1>6 DEF Exchange, Reads, Works

(* What an exception of a call has to do with it.                          *)
Caused(e, x, timeout) ==
  /\ e.what = "http" => e.code \in x.causes \/ x.answer = Refuses(e.code)
  /\ e.what = "malformed" => x.causes # {}
  /\ e.what = "network" => x.causes # {} \/ timeout
  /\ e.what = "xml" => ~Expressible(x.answer.resp)
  /\ e.what = "timeout" => timeout

(* What a call may come to.                                                *)
Comes(result, x, timeout) ==
  IF result.is = "exception" THEN Caused(result, x, timeout) ELSE Responds(result) = x.answer

(* The client sends some of its request, or what a closed end is sent is   *)
(* lost.                                                                   *)
LEMMA WritesOn ==
  ASSUME NEW x, NEW on, NEW s, NEW ts, NEW tc, NEW out, NEW rd,
         Exchange(x, on, s, ts, tc, out, rd), NEW j \in 1 .. Len(out)
  PROVE  /\ s.open => Exchange(x, on, s, Sent(ts, out, j), tc, Rest(out, j), rd)
         /\ ~ s.open => /\ Exchange(x, on, s, ts, tc, Rest(out, j), rd)
                        /\ Exchange(x, on, s, ts, <<>>, Rest(out, j), rd)
<1> DEFINE sent == Sent(ts, out, j)
           rest == Rest(out, j)
<1>1. CASE Reads(x, on, s, ts, tc, out, rd)
  <2>1. /\ s.open /\ s.mask = {"INPUT"} /\ s.executing = {} /\ tc = <<>> /\ rd = NewReader
    BY <1>1 DEF Reads
  <2>2. PICK k : /\ Flows(k, s.preader, ts, out, x.packet, max_request_sz)
                 /\ k >= 3 => Refusal(<<x.packet[1]>>, on.ver_level) = 0
    BY <1>1 DEF Reads
  <2>3. Flows(k, s.preader, sent, rest, x.packet, max_request_sz)
    BY <2>2, FlowMoved
  <2> HIDE DEF sent, rest
  <2>4. Reads(x, on, s, sent, tc, rest, rd)
    BY <2>1, <2>2, <2>3 DEF Reads
  <2> QED BY <2>1, <2>4 DEF Exchange, sent, rest
<1>2. CASE TurnsAway(x, on, s, ts, tc, out, rd)
  <2>1. /\ s.executing = {} /\ Refusing(tc, x.causes) /\ Disappointed(rd, x.causes)
        /\ IsText(ts) /\ IsText(out) /\ x.causes # {}
        /\ s.open => /\ s.mask = {"INPUT", "OUTPUT"} /\ ~ s.keep_alive
                     /\ Refuses_(x, on, s.preader)
                     /\ max_request_sz # 0 => s.preader.total_sz + Len(ts \o out) <= Len(x.packet)
                     /\ Refusing(s.response, x.causes)
    BY <1>2 DEF TurnsAway
  <2>2. /\ IsText(SubSeq(out, 1, j)) /\ IsText(rest)
    BY <2>1, FirstOfText
  <2>3. IsText(sent) /\ sent \o rest = ts \o out
    BY <2>1, <2>2, TextJoined, PartsMoved DEF Sent
  <2> HIDE DEF sent, rest
  <2>4. s.open => TurnsAway(x, on, s, sent, tc, rest, rd)
    BY <2>1, <2>2, <2>3 DEF TurnsAway
  <2>5. ~ s.open => /\ TurnsAway(x, on, s, ts, tc, rest, rd)
                    /\ TurnsAway(x, on, s, ts, <<>>, rest, rd)
    BY <2>1, <2>2, RefusingEmpty DEF TurnsAway
  <2> QED BY <2>4, <2>5 DEF Exchange, sent, rest
<1>3. out # <<>>
  BY EmptyText
<1> QED BY <1>1, <1>2, <1>3 DEF Exchange, Works, Replies

(* The packet of the answer is returned, or thrown.                        *)
LEMMA AnswerReturned ==
  ASSUME NEW x, Proper(x, setup), NEW header, NEW timeout,
         header.code = IF x.answer.is = "refuses" THEN x.answer.code ELSE 200
  PROVE  Comes(Returned(Packet(header, ReplyContent(x.answer))), x, timeout)
<1> DEFINE packet == Packet(header, ReplyContent(x.answer))
           r == Returned(packet)
           read == ParseResponse(ReplyContent(x.answer))
<1>1. /\ x.answer.is \in {"refuses", "responds"}
      /\ x.answer.is = "refuses" => x.answer = Refuses(x.answer.code) /\ x.answer.code # 200
      /\ x.answer.is = "responds" =>
           /\ x.answer = Responds(x.answer.resp)
           /\ IF Expressible(x.answer.resp)
              THEN ParseResponse(ResponseContent(x.answer.resp)) = x.answer.resp
                   /\ ParseResponse(ResponseContent(x.answer.resp)).is # "exception"
              ELSE ParseResponse(ResponseContent(x.answer.resp)).is = "exception"
  BY DEF Proper, SoundAnswer
<1>2. packet.header = header /\ packet.content = ReplyContent(x.answer)
  BY DEF Packet
<1> HIDE DEF packet
<1>3. r = IF header.code # 200 THEN Threw_("http", header.code)
          ELSE IF read.is = "exception" THEN Threw_("xml", read.code) ELSE read
  BY <1>2 DEF Returned
<1> HIDE DEF r, read
<1>4. CASE x.answer.is = "refuses"
  <2>1. r = Threw_("http", x.answer.code)
    BY <1>1, <1>3, <1>4
  <2>2. Comes(r, x, timeout)
    BY <1>1, <1>4, <2>1 DEF Comes, Caused, Threw_
  <2> QED BY <2>2 DEF r, packet
<1>5. CASE x.answer.is = "responds"
  <2>1. read = ParseResponse(ResponseContent(x.answer.resp))
    BY <1>5 DEF read, ReplyContent
  <2>2. r = IF read.is = "exception" THEN Threw_("xml", read.code) ELSE read
    BY <1>3, <1>5
  <2>3. CASE read.is = "exception"
    <3>1. r = Threw_("xml", read.code) /\ ~ Expressible(x.answer.resp)
      BY <1>1, <1>5, <2>1, <2>2, <2>3
    <3>2. Comes(r, x, timeout)
      BY <3>1 DEF Comes, Caused, Threw_
    <3> QED BY <3>2 DEF r, packet
  <2>4. CASE read.is # "exception"
    <3>1. r = read /\ read = x.answer.resp
      BY <1>1, <1>5, <2>1, <2>2, <2>4
    <3>2. r.is # "exception" /\ Responds(r) = x.answer
      BY <1>1, <1>5, <2>4, <3>1
    <3>3. Comes(r, x, timeout)
      BY <3>2 DEF Comes
    <3> QED BY <3>3 DEF r, packet
  <2> QED BY <2>3, <2>4
<1> QED BY <1>1, <1>4, <1>5

(* The client reads.                                                       *)
LEMMA TakesIn ==
  ASSUME NEW x, Proper(x, setup), NEW s, NEW ts, NEW tc, NEW out, NEW rd,
         Exchange(x, setup, s, ts, tc, out, rd), NEW j \in 1 .. Len(tc), NEW level, NEW timeout
  PROVE  LET read == read_packet(rd, SubSeq(tc, 1, j), 0, level)
         IN  /\ read.outcome.is = "packet" => Comes(Returned(read.outcome), x, timeout)
             /\ read.outcome.is = "error" => x.causes # {}
             /\ read.outcome.is \notin {"packet", "error"} =>
                  Exchange(x, setup, s, ts, Rest(tc, j), out, read.reader)
<1> DEFINE piece == SubSeq(tc, 1, j)
           rest == Rest(tc, j)
           read == read_packet(rd, piece, 0, level)
<1>1. CASE Replies(x, setup, s, ts, tc, out, rd)
  <2> DEFINE p == Reply(x.answer)
             content == ReplyContent(x.answer)
  <2>1. /\ IF s.open THEN s.mask = {"OUTPUT"} /\ ~ s.keep_alive ELSE s.response = <<>>
        /\ s.executing = {} /\ ts = <<>> /\ out = <<>>
    BY <1>1 DEF Replies
  <2>2. PICK k : Flows(k, rd, tc, s.response, p, 0)
    BY <1>1 DEF Replies
  <2>3. /\ IsPacket(p, content)
        /\ p[1].code = IF x.answer.is = "refuses" THEN x.answer.code ELSE 200
        /\ \A v : Refusal(<<p[1]>>, v) = 0
    BY ReplyIs
  <2> DEFINE m == k + j
  <2> HIDE DEF p, content
  <2>4. /\ k \in Nat /\ j \in Nat /\ m \in Nat /\ k < m /\ m <= Len(p) /\ Len(p) \in Nat
        /\ piece = SubSeq(p, k + 1, m)
    <3>1. IsPacket(p, content)
      BY <2>3
    <3> QED BY <2>2, <3>1, FlowPiece, SMTT(30)
  <2>5. ASSUME NEW r, m < Len(p), Given(r, p, m, 0)
        PROVE  Flows(m, r, rest, s.response, p, 0)
    BY <2>2, <2>3, <2>5, FlowGoesOn
  <2>6. Given(rd, p, k, 0) /\ 0 \in Nat
    BY <2>2 DEF Flows
  <2> HIDE DEF m
  <2>7. ReadAs(read, p, content, k, m, 0, level)
    <3> DEFINE part == SubSeq(p, k + 1, m)
    <3>1. ReadAs(read_packet(rd, part, 0, level), p, content, k, m, 0, level)
      BY <2>3, <2>4, <2>6, PieceRead
    <3>2. part = piece
      BY <2>4
    <3> HIDE DEF part, piece
    <3> QED BY <3>1, <3>2
  <2> HIDE DEF read, rest
  <2>8. CASE read.outcome = NoPacket /\ m < Len(p) /\ Given(read.reader, p, m, 0)
    <3>1. Flows(m, read.reader, rest, s.response, p, 0)
      BY <2>5, <2>8
    <3>2. Replies(x, setup, s, ts, rest, out, read.reader)
      BY <2>1, <3>1 DEF Replies, p
    <3>3. read.outcome.is = "incomplete"
      BY <2>8 DEF NoPacket
    <3> QED BY <3>2, <3>3 DEF Exchange, read, rest
  <2>9. CASE read.outcome = Packet(p[1], content)
    <3> DEFINE header == p[1]
    <3>1. header.code = IF x.answer.is = "refuses" THEN x.answer.code ELSE 200
      BY <2>3
    <3> HIDE DEF header
    <3>2. Comes(Returned(Packet(header, content)), x, timeout)
      BY <3>1, AnswerReturned DEF content
    <3>3. read.outcome.is = "packet"
      BY <2>9 DEF Packet
    <3>4. Comes(Returned(read.outcome), x, timeout)
      BY <2>9, <3>2 DEF header
    <3> QED BY <3>3, <3>4 DEF read
  <2> QED BY <2>3, <2>7, <2>8, <2>9 DEF ReadAs
<1>2. CASE TurnsAway(x, setup, s, ts, tc, out, rd)
  <2>1. /\ Refusing(tc, x.causes) /\ Disappointed(rd, x.causes) /\ x.causes # {}
    BY <1>2 DEF TurnsAway
  <2>2. Refusing(piece, x.causes) /\ Refusing(rest, x.causes)
    BY <2>1, RefusingFirst
  <2> HIDE DEF piece, rest
  <2>3. /\ read.outcome.is = "packet" => read.outcome.header.code \in x.causes
        /\ read.outcome.is # "packet" => Disappointed(read.reader, x.causes)
    BY <2>1, <2>2, DisappointedRead
  <2> HIDE DEF read
  <2>4. read.outcome.is # "packet" => TurnsAway(x, setup, s, ts, rest, out, read.reader)
    BY <1>2, <2>2, <2>3 DEF TurnsAway
  <2>5. ASSUME read.outcome.is = "packet" PROVE Comes(Returned(read.outcome), x, timeout)
    <3>1. read.outcome.header.code \in x.causes /\ x.causes \subseteq {400, 413}
      BY <2>3, <2>5 DEF Proper
    <3>2. Returned(read.outcome) = Threw_("http", read.outcome.header.code)
      BY <3>1 DEF Returned
    <3> QED BY <3>1, <3>2 DEF Comes, Caused, Threw_
  <2> QED BY <2>1, <2>4, <2>5 DEF Exchange, read, piece, rest
<1>3. tc # <<>>
  BY EmptyText
<1> QED BY <1>1, <1>2, <1>3 DEF Exchange, Reads, Works

(* The client gives up.                                                    *)
LEMMA GivesUp ==
  ASSUME NEW x, Proper(x, setup), NEW s, NEW ts, NEW tc, NEW out, NEW rd,
         Exchange(x, setup, s, ts, tc, out, rd), ~ s.open, out # <<>> \/ tc = <<>>, NEW timeout
  PROVE  Comes(Threw_("network", 0), x, timeout)
<1>1. CASE TurnsAway(x, setup, s, ts, tc, out, rd)
  <2>1. x.causes # {}
    BY <1>1 DEF TurnsAway
  <2> QED BY <2>1 DEF Comes, Caused, Threw_
<1>2. CASE Replies(x, setup, s, ts, tc, out, rd)
  <2> DEFINE p == Reply(x.answer)
  <2>1. PICK k : Flows(k, rd, tc, s.response, p, 0)
    BY <1>2 DEF Replies
  <2>2. tc = <<>> /\ s.response = <<>>
    BY <1>2 DEF Replies
  <2>3. k \in Nat /\ k < Len(p) /\ <<>> = SubSeq(p, k + 1, Len(p))
    BY <2>1, <2>2 DEF Flows
  <2>4. IsText(p) /\ Len(p) \in Nat
    BY ReplyIs, TextIs DEF IsPacket
  <2> HIDE DEF p
  <2>5. k \in 0 .. Len(p) /\ 0 \in 0 .. Len(p) - k /\ Len(p) - k > 0
    BY <2>3, <2>4
  <2>6. Len(SubSeq(p, k + 1, Len(p))) = Len(p) - k
    BY <2>4, <2>5, PartsOfTail
  <2>7. Len(SubSeq(p, k + 1, Len(p))) = 0
    BY <2>3, EmptyText
  <2> QED BY <2>5, <2>6, <2>7
<1> QED BY <1>1, <1>2 DEF Exchange, Reads, Works

-----------------------------------------------------------------------------
(* What a call asks, and what it is answered with.                         *)

LEMMA CallAsks ==
  ASSUME IInv, NEW n \in Calls
  PROVE  /\ opts.requests[n] \in Requests /\ IsText(RequestContent(opts.requests[n]))
         /\ opts.authinfo[n] \in UNION {Range(s.client.authinfo) : s \in Sessions}
         /\ opts.authinfo[n].user \in Seq(Byte) /\ opts.authinfo[n].passwd \in Seq(Byte)
         /\ n \in Nat
<1>1. n \in 1 .. Len(opts.requests) /\ n \in 1 .. Len(opts.authinfo)
  BY OptionsAre DEF Calls
<1>2. opts.requests[n] \in Requests
  BY <1>1, OptionsAre, ElementOfSeq
<1>3. IsText(RequestContent(opts.requests[n]))
  BY <1>2, ContentsAssumption
<1>4. PICK s \in Sessions : opts = s.client
  BY DEF IInv
<1>5. n \in DOMAIN s.client.authinfo
  BY <1>1, <1>4, OptionsAre, TextIs
<1>6. opts.authinfo[n].user \in Seq(Byte) /\ opts.authinfo[n].passwd \in Seq(Byte)
  BY <1>4, <1>5, HttpCallAssumption
<1> QED BY <1>1, <1>2, <1>3, <1>6, OptionsAre

Asks(info) == set_conn_keep_alive(request_header[info], FALSE)

(* The options of a request, for each authinfo there is.                   *)
LEMMA AsksIs ==
  ASSUME NEW info \in UNION {Range(s.client.authinfo) : s \in Sessions}
  PROVE  /\ IsOptions(Asks(info)) /\ Asks(info).connection = Word("close")
         /\ Asks(info).content_type = NoValue
         /\ Asks(info).authorization =
              IF info.user = <<>> THEN NoValue ELSE Basic(encode(Credentials(info)))
<1>1. request_header[info] = IF info.user = <<>> THEN Header
                             ELSE set_authinfo(Header, info.user, info.passwd)
  BY DEF request_header
<1> DEFINE auth == Basic(encode(Credentials(info)))
           h == set_authinfo(Header, info.user, info.passwd)
<1>2. h = [Header EXCEPT !.authorization = auth]
  BY DEF set_authinfo, Credentials
<1> HIDE DEF auth, h
<1>3. CASE info.user = <<>>
  <2>1. Asks(info) = set_conn_keep_alive(Header, FALSE)
    BY <1>1, <1>3 DEF Asks
  <2>2. Asks(info) = Closes
    BY <2>1 DEF Closes
  <2> QED BY <1>3, <2>2, HeaderIs
<1>4. CASE info.user # <<>>
  <2>1. Asks(info) = [h EXCEPT !.connection = Word("close")]
    BY <1>1, <1>4 DEF Asks, set_conn_keep_alive, h
  <2>2. h \in [authorization : {auth}, connection : {Word("close")},
               content_length : {NoValue}, content_type : {NoValue}]
    BY <1>2 DEF Header
  <2>3. /\ IsOptions(Asks(info)) /\ Asks(info).connection = Word("close")
        /\ Asks(info).content_type = NoValue /\ Asks(info).authorization = auth
    BY <2>1, <2>2 DEF IsOptions
  <2> QED BY <1>4, <2>3 DEF auth
<1> QED BY <1>3, <1>4

(* Credentials have a line end in their base64 only if they do not fit a   *)
(* line; and are decoded to what they were, if they do.                    *)
LEMMA CredentialsCarried ==
  ASSUME NEW info, info.user \in Seq(Byte), info.passwd \in Seq(Byte), info.user # <<>>
  PROVE  /\ NewLine \in Range(encode(Credentials(info))) => Broken_(info)
         /\ NewLine \notin Range(encode(Credentials(info))) =>
              decode(encode(Credentials(info))) = Credentials(info)
<1> DEFINE data == Credentials(info)
           base64 == encode(data)
<1>1. data \in Seq(Byte) /\ data # <<>>
  <2> DEFINE u == info.user  p == info.passwd  c == <<Colon>>  d == u \o c
  <2>1. /\ u \in Seq(Byte) /\ p \in Seq(Byte) /\ c \in Seq(Byte)
        /\ Len(c) = 1 /\ Len(u) \in Nat /\ Len(p) \in Nat
    BY LenProperties DEF Colon, Byte
  <2> HIDE DEF u, p, c
  <2>2. d \in Seq(Byte) /\ Len(d) = Len(u) + Len(c)
    BY <2>1, JoinedAt
  <2> HIDE DEF d
  <2>3. d \o p \in Seq(Byte) /\ Len(d \o p) = Len(d) + Len(p)
    BY <2>1, <2>2, JoinedAt
  <2>4. data = d \o p
    BY DEF Credentials, u, p, c, d
  <2>5. Len(data) > 0
    BY <2>1, <2>2, <2>3, <2>4
  <2> QED BY <2>3, <2>4, <2>5, EmptyText
<1> HIDE DEF data
<1>2. \/ NewLine \in Range(base64) /\ 4 * Groups(data) > chars_in_line
      \/ Whole(base64, data)
  BY <1>1, EncodedIs
<1> HIDE DEF base64
<1>3. CASE NewLine \in Range(base64) /\ 4 * Groups(data) > chars_in_line
  <2>1. Broken_(info)
    BY <1>3 DEF Broken_, Groups, data
  <2> QED BY <1>3, <2>1 DEF base64, data
<1>4. CASE Whole(base64, data)
  <2>1. base64 \in Seq(0 .. Pad)
    BY <1>4 DEF Whole
  <2>2. NewLine \notin Range(base64)
    <3>1. \A i \in DOMAIN base64 : base64[i] \in 0 .. Pad
      BY <2>1, ElementOfSeq, LenProperties
    <3>2. \A i \in DOMAIN base64 : base64[i] # NewLine
      <4>1. NewLine \notin 0 .. Pad
        BY DEF Pad, NewLine
      <4> QED BY <3>1, <4>1
    <3> QED BY <3>2 DEF Range
  <2>3. decode(base64) = data
    BY <1>1, <1>4, DecodedIs
  <2> QED BY <2>2, <2>3 DEF base64, data
<1> QED BY <1>2, <1>3, <1>4

(* authenticate() lets in whoever the texts compared as a whole authorise, *)
(* under the name of the plugin that has this text.                        *)
NamedFor(name, n) ==
  /\ name # Anonymous =>
       \E ap \in setup.auth_plugin : \E info \in ap.users :
         info.user = name /\ Credentials(info) = Credentials(opts.authinfo[n])
  /\ name = Anonymous => setup.auth_plugin = {} \/ opts.authinfo[n].user = <<>>

LEMMA AuthorisedIs ==
  ASSUME IInv, NEW n \in Calls, NEW options,
         options.authorization = Asks(opts.authinfo[n]).authorization,
         NewLine \notin Range(options.authorization.base64)
  PROVE  /\ Authorised(n) <=> authenticate(setup, options) # {}
         /\ \A name \in authenticate(setup, options) : NamedFor(name, n)
<1> DEFINE info == opts.authinfo[n]
           data == Credentials(info)
           ap == CHOOSE p \in setup.auth_plugin : TRUE
           r == get_authinfo(options)
<1>1. PICK s \in Sessions : setup = s.server
  BY DEF IInv
<1>2. /\ \A p, other \in setup.auth_plugin : p = other
      /\ \A p \in setup.auth_plugin : \A i \in p.users :
           /\ i \in [user : Seq(Byte), passwd : Seq(Byte)]
           /\ i.user # Anonymous /\ Colon \notin Range(i.user)
  BY <1>1, HttpCallAssumption
<1>3. /\ info \in UNION {Range(q.client.authinfo) : q \in Sessions}
      /\ info.user \in Seq(Byte) /\ info.passwd \in Seq(Byte)
  BY CallAsks
<1>4. options.authorization = IF info.user = <<>> THEN NoValue ELSE Basic(encode(data))
  BY <1>3, AsksIs
<1>5. has_authinfo(options) <=> info.user # <<>>
  BY <1>4 DEF has_authinfo, NoValue, Word, Basic
<1>6. CASE setup.auth_plugin = {}
  <2>1. authenticate(setup, options) = {Anonymous}
    BY <1>6 DEF authenticate
  <2> QED BY <1>6, <2>1 DEF Authorised, NamedFor
<1>7. CASE setup.auth_plugin # {}
  <2>1. ap \in setup.auth_plugin /\ \A p \in setup.auth_plugin : p = ap
    BY <1>2, <1>7
  <2>2. authenticate(setup, options) =
          IF ~has_authinfo(options) THEN IF ap.anonymous THEN {Anonymous} ELSE {}
          ELSE IF r \in ap.users THEN {r.user} ELSE {}
    BY <1>7 DEF authenticate
  <2> HIDE DEF ap, r
  <2>3. Authorised(n) <=> IF info.user = <<>> THEN ap.anonymous
                          ELSE \E i \in ap.users : Credentials(i) = data
    BY <2>1 DEF Authorised
  <2>4. CASE info.user = <<>>
    BY <1>5, <2>2, <2>3, <2>4 DEF NamedFor
  <2>5. CASE info.user # <<>>
    <3>1. options.authorization.base64 = encode(data)
      BY <1>4, <2>5 DEF Basic
    <3>2. decode(options.authorization.base64) = data
      <4>1. NewLine \notin Range(encode(data))
        BY <3>1
      <4> QED BY <1>3, <2>5, <3>1, <4>1, CredentialsCarried
    <3>3. Credentials(r) = data
      <4> DEFINE u == info.user  p == info.passwd
      <4>1. u \in Seq(Byte) /\ p \in Seq(Byte) /\ data = u \o <<Colon>> \o p
        BY <1>3 DEF Credentials
      <4> HIDE DEF u, p
      <4>2. r.user \o <<Colon>> \o r.passwd = u \o <<Colon>> \o p
        BY <3>2, <4>1, SplitAtColon, ZenonT(60) DEF r
      <4> QED BY <4>1, <4>2 DEF Credentials
    <3>4. ASSUME NEW i \in ap.users, Credentials(i) = data PROVE r = i
      <4> DEFINE u == i.user  p == i.passwd
      <4>1. i \in [user : Seq(Byte), passwd : Seq(Byte)] /\ Colon \notin Range(i.user)
        BY <1>2, <2>1
      <4>2. u \in Seq(Byte) /\ p \in Seq(Byte) /\ data = u \o <<Colon>> \o p /\ Colon \notin Range(u)
        BY <3>4, <4>1 DEF Credentials
      <4>3. i = [user |-> u, passwd |-> p]
        BY <4>1
      <4> HIDE DEF u, p
      <4>4. decode(options.authorization.base64) = u \o <<Colon>> \o p
        BY <3>2, <4>2
      <4>5. get_authinfo(options) = [user |-> u, passwd |-> p]
        BY <4>2, <4>4, SplitAtColon
      <4> QED BY <4>3, <4>5 DEF r
    <3>5. r \in ap.users <=> \E i \in ap.users : Credentials(i) = data
      BY <3>3, <3>4
    <3>6. Authorised(n) <=> authenticate(setup, options) # {}
      BY <1>5, <2>2, <2>3, <2>5, <3>5
    <3>7. ASSUME NEW name \in authenticate(setup, options) PROVE NamedFor(name, n)
      <4>1. name = r.user /\ r \in ap.users
        BY <1>5, <2>2, <2>5
      <4>2. name # Anonymous
        BY <1>2, <2>1, <4>1
      <4> HIDE DEF data
      <4>3. \E p \in setup.auth_plugin : \E i \in p.users :
              i.user = name /\ Credentials(i) = data
        BY <2>1, <3>3, <4>1
      <4> QED BY <4>2, <4>3 DEF NamedFor, data
    <3> QED BY <3>6, <3>7
  <2> QED BY <2>4, <2>5
<1> QED BY <1>6, <1>7

LEMMA ResponseForm ==
  ASSUME NEW on, NEW outcome
  PROVE  LET answer == response_of(on, outcome)
         IN  \/ \E resp : answer = Responds(resp)
             \/ \E code : answer = Refuses(code)
<1>1. CASE on.executor = "pool"
  BY <1>1 DEF response_of, pool_response
<1>2. CASE on.executor # "pool"
  <2>1. response_of(on, outcome) = serial_response(outcome)
    BY <1>2 DEF response_of
  <2>2. CASE outcome.is # "raised"
    BY <2>1, <2>2 DEF serial_response
  <2>3. CASE outcome.is = "raised" /\ outcome.class \in {"Fault", "Exception"}
    BY <2>1, <2>3 DEF serial_response
  <2>4. CASE outcome.is = "raised" /\ outcome.class = "Error_response"
    BY <2>1, <2>4 DEF serial_response
  <2>5. CASE outcome.is = "raised" /\ outcome.class \notin {"Fault", "Exception", "Error_response"}
    BY <2>1, <2>5 DEF serial_response
  <2> QED BY <2>2, <2>3, <2>4, <2>5
<1> QED BY <1>1, <1>2

LEMMA AnswersSound ==
  ASSUME SetupKnown, NEW answer, answer = Refuses(401) \/ answer \in Answers(setup)
  PROVE  SoundAnswer(answer)
<1>1. (\E resp : answer = Responds(resp)) \/ (\E code : answer = Refuses(code))
  <2>1. CASE answer = Refuses(401)
    BY <2>1
  <2>2. CASE answer \in Answers(setup)
    <3>1. \/ \E code : answer = Responds(FaultOf(code))
          \/ \E outcome : answer = response_of(setup, outcome)
      BY <2>2 DEF Answers
    <3> QED BY <3>1, ResponseForm
  <2> QED BY <2>1, <2>2
<1>2. /\ answer.is \in {"refuses", "responds"}
      /\ answer.is = "responds" => answer = Responds(answer.resp)
      /\ answer.is = "refuses" => answer = Refuses(answer.code)
  BY <1>1 DEF Responds, Refuses
<1>3. answer.is = "refuses" => answer.code # 200
  <2>1. CASE answer = Refuses(401)
    BY <2>1 DEF Refuses
  <2>2. CASE answer \in Answers(setup)
    BY <2>2, ContentsAssumption DEF SetupKnown
  <2> QED BY <2>1, <2>2
<1>4. ASSUME answer.is = "responds"
      PROVE  LET read == ParseResponse(ResponseContent(answer.resp))
             IN  /\ IsText(ResponseContent(answer.resp))
                 /\ IF Expressible(answer.resp) THEN read = answer.resp /\ read.is # "exception"
                    ELSE read.is = "exception"
  <2>1. answer \in Answers(setup)
    BY <1>4 DEF Refuses
  <2> QED BY <1>4, <2>1, ContentsAssumption DEF SetupKnown
<1>5. IsText(ReplyContent(answer))
  <2>1. CASE answer.is = "refuses"
    <3>1. ReplyContent(answer) = <<>>
      BY <2>1 DEF ReplyContent
    <3> QED BY <3>1, EmptyText
  <2>2. CASE answer.is = "responds"
    <3>1. ReplyContent(answer) = ResponseContent(answer.resp)
      BY <2>2 DEF ReplyContent
    <3> QED BY <1>4, <2>2, <3>1
  <2> QED BY <1>2, <2>1, <2>2
<1>6. CASE answer.is = "responds"
  <2>1. LET read == ParseResponse(ResponseContent(answer.resp))
        IN  IF Expressible(answer.resp) THEN read = answer.resp /\ read.is # "exception"
            ELSE read.is = "exception"
    BY <1>4, <1>6
  <2> QED BY <1>2, <1>5, <1>6, <2>1 DEF SoundAnswer
<1>7. CASE answer.is = "refuses"
  BY <1>2, <1>3, <1>5, <1>7 DEF SoundAnswer
<1> QED BY <1>2, <1>6, <1>7

(* What the content of a request is read as.                               *)
LEMMA RequestRead ==
  ASSUME NEW req \in Requests
  PROVE  LET read == ParseRequest(RequestContent(req))
         IN  /\ Expressible(req) => read = req /\ read.is # "exception" /\ req \in Understood
             /\ ~ Expressible(req) =>
                  /\ read.is = "exception" /\ read.code = -32600
                  /\ -32600 \in {r.code : r \in Rejected}
<1> DEFINE read == ParseRequest(RequestContent(req))
<1>1. read \in Read
  BY ParsedIs
<1>2. IF Expressible(req) THEN read = req /\ read.is # "exception"
      ELSE read.is = "exception" /\ read.code = -32600
  BY ContentsAssumption
<1> HIDE DEF read
<1>3. CASE Expressible(req)
  BY <1>1, <1>2, <1>3 DEF Understood, read
<1>4. CASE ~ Expressible(req)
  <2>1. read \in Rejected /\ read.code = -32600
    BY <1>1, <1>2, <1>4 DEF Rejected
  <2> QED BY <1>2, <1>4, <2>1 DEF read
<1> QED BY <1>3, <1>4

LEMMA AnswerIs ==
  ASSUME IInv, NEW n \in Calls
  PROVE  SoundAnswer(Answer(n))
<1> DEFINE req == opts.requests[n]
           a == Answer(n)
           methods == create_method(setup.dispatchers, req.name)
<1>1. SetupKnown /\ req \in Requests
  BY ConnsAre, CallAsks
<1>s. PICK s \in Sessions : setup = s.server
  BY DEF IInv
<1>2. IsText(setup.dispatchers)
  BY <1>s, HttpCallAssumption
<1>3. methods = {} <=> \A d \in DOMAIN setup.dispatchers : req.name \notin DOMAIN setup.dispatchers[d]
  BY <1>2, MethodFound
<1> HIDE DEF req
<1>4. a = IF ~Authorised(n) THEN Refuses(401)
          ELSE IF ~Expressible(req) THEN Responds(FaultOf(-32600))
          ELSE IF methods = {} THEN Responds(FaultOf(-32601))
          ELSE response_of(setup, Outcome(req))
  <2> HIDE DEF methods
  <2> QED BY <1>3 DEF Answer, Granted, req
<1> HIDE DEF a
<1>5. CASE ~Authorised(n)
  <2>1. SoundAnswer(a)
    BY <1>1, <1>4, <1>5, AnswersSound
  <2> QED BY <2>1 DEF a
<1>6. CASE Authorised(n) /\ ~Expressible(req)
  <2>1. a = Responds(FaultOf(-32600)) /\ -32600 \in {r.code : r \in Rejected}
    BY <1>1, <1>4, <1>6, RequestRead
  <2>2. a \in Answers(setup)
    BY <2>1 DEF Answers
  <2>3. SoundAnswer(a)
    BY <1>1, <2>2, AnswersSound
  <2> QED BY <2>3 DEF a
<1>7. CASE Authorised(n) /\ Expressible(req) /\ methods = {}
  <2>1. a = Responds(FaultOf(-32601))
    BY <1>4, <1>7
  <2>2. a \in Answers(setup)
    BY <2>1 DEF Answers
  <2>3. SoundAnswer(a)
    BY <1>1, <2>2, AnswersSound
  <2> QED BY <2>3 DEF a
<1>8. CASE Authorised(n) /\ Expressible(req) /\ methods # {}
  <2> DEFINE m == CHOOSE e \in methods : TRUE
  <2>1. m \in methods /\ req \in Understood
    BY <1>1, <1>8, RequestRead
  <2>2. a = response_of(setup, process_execution(setup, m, req).outcome)
    BY <1>4, <1>8 DEF Outcome
  <2> HIDE DEF m
  <2>3. a \in Answers(setup)
    BY <2>1, <2>2 DEF Answers
  <2>4. SoundAnswer(a)
    BY <1>1, <2>3, AnswersSound
  <2> QED BY <2>4 DEF a
<1> QED BY <1>5, <1>6, <1>7, <1>8

(* What schedule_execute() makes of the packet of a call.                  *)
LEMMA CallScheduled ==
  ASSUME IInv, NEW n \in Calls, NEW head, head = The(n).packet[1],
         head.options.authorization = Asks(opts.authinfo[n]).authorization,
         NewLine \notin Range(head.options.authorization.base64)
  PROVE  LET task == schedule_execute(setup, Packet(head, RequestContent(opts.requests[n])))
         IN  IF task.is = "executes" THEN Due(The(n), setup, task) ELSE task = Answer(n)
<1> DEFINE req == opts.requests[n]
           content == RequestContent(req)
           packet == Packet(head, content)
           names == authenticate(setup, head.options)
           read == ParseRequest(content)
           methods == create_method(setup.dispatchers, read.name)
           m == CHOOSE e \in methods : TRUE
           name == CHOOSE e \in names : TRUE
           task == schedule_execute(setup, packet)
<1>1. req \in Requests
  BY CallAsks
<1>2. Authorised(n) <=> names # {}
  <2> DEFINE options == head.options
  <2>1. options.authorization = Asks(opts.authinfo[n]).authorization
        /\ NewLine \notin Range(options.authorization.base64)
    OBVIOUS
  <2> HIDE DEF options
  <2>2. Authorised(n) <=> authenticate(setup, options) # {}
    BY <2>1, AuthorisedIs
  <2> QED BY <2>2 DEF options
<1>3. packet.header = head /\ packet.content = content
  BY DEF Packet
<1> HIDE DEF packet
<1>4. task = IF names = {} THEN Refuses(401)
             ELSE IF read.is = "exception" THEN Responds(FaultOf(read.code))
             ELSE IF methods = {} THEN Responds(FaultOf(-32601))
             ELSE Executes(read, m, name)
  BY <1>3 DEF schedule_execute
<1>5. IF Expressible(req) THEN read = req /\ read.is # "exception"
      ELSE read.is = "exception" /\ read.code = -32600
  BY <1>1, RequestRead
<1>s. PICK s \in Sessions : setup = s.server
  BY DEF IInv
<1>6. IsText(setup.dispatchers)
  BY <1>s, HttpCallAssumption
<1>7. create_method(setup.dispatchers, req.name) = {} <=>
        \A d \in DOMAIN setup.dispatchers : req.name \notin DOMAIN setup.dispatchers[d]
  BY <1>6, MethodFound
<1> HIDE DEF req, content, names, read, task
<1>8. Answer(n) = IF ~Authorised(n) THEN Refuses(401)
          ELSE IF ~Expressible(req) THEN Responds(FaultOf(-32600))
          ELSE IF create_method(setup.dispatchers, req.name) = {} THEN Responds(FaultOf(-32601))
          ELSE response_of(setup, Outcome(req))
  BY <1>7 DEF Answer, Granted, req
<1>9. CASE names = {} \/ read.is = "exception" \/ methods = {}
  <2>1. task = Answer(n)
    BY <1>2, <1>4, <1>5, <1>8, <1>9
  <2>2. task.is # "executes"
    <3>1. task \in {Refuses(401), Responds(FaultOf(read.code)), Responds(FaultOf(-32601))}
      BY <1>4, <1>9
    <3> HIDE DEF methods
    <3> QED BY <3>1 DEF Refuses, Responds
  <2> QED BY <2>1, <2>2 DEF task, packet, content, req
<1>10. CASE names # {} /\ read.is # "exception" /\ methods # {}
  <2>1. task = Executes(read, m, name) /\ read = req /\ Expressible(req)
    BY <1>4, <1>5, <1>10
  <2>2. task.is = "executes" /\ task.req = req /\ task.method = m /\ task.authname = name
    BY <2>1 DEF Executes
  <2>3. Answer(n) = response_of(setup, Outcome(req))
    BY <1>2, <1>8, <1>10, <2>1
  <2>4. Outcome(req) = process_execution(setup, m, req).outcome
    BY <2>1 DEF Outcome
  <2>5. The(n).request = req /\ The(n).answer = Answer(n)
    BY DEF The, req
  <2>6. task.authname \in authenticate(setup, The(n).packet[1].options)
    BY <1>10, <2>2 DEF names
  <2>7. NewLine \notin Range(The(n).packet[1].options.authorization.base64)
    OBVIOUS
  <2>8. Due(The(n), setup, task)
    BY <2>2, <2>3, <2>4, <2>5, <2>6, <2>7 DEF Due
  <2> QED BY <2>2, <2>8 DEF task, packet, content, req
<1> QED BY <1>9, <1>10

LEMMA CallIs ==
  ASSUME IInv, NEW n \in Calls
  PROVE  Proper(The(n), setup)
<1> DEFINE x == The(n)
           info == opts.authinfo[n]
           req == opts.requests[n]
           content == RequestContent(req)
           options == Asks(info)
           p == x.packet
           h == p[1]
           level == setup.ver_level
           base64 == options.authorization.base64
<1>1. /\ x.request = req /\ x.packet = dump(0, options, content) /\ x.answer = Answer(n)
      /\ x.causes = Causes(n)
  BY DEF The, Packet_of, Asks
<1> HIDE DEF x
<1>2. /\ req \in Requests /\ IsText(content) /\ info.user \in Seq(Byte) /\ info.passwd \in Seq(Byte)
      /\ info \in UNION {Range(s.client.authinfo) : s \in Sessions}
  BY CallAsks
<1>3. /\ IsOptions(options) /\ options.connection = Word("close") /\ options.content_type = NoValue
      /\ options.authorization =
           IF info.user = <<>> THEN NoValue ELSE Basic(encode(Credentials(info)))
  BY <1>2, AsksIs
<1> HIDE DEF info, req, content, options
<1>4. IsPacket(p, content) /\ h = Head_(0, set_content_length(options, Len(content)))
  BY <1>1, <1>2, <1>3, PacketIs
<1>5. /\ Refusal(<<h>>, level) = IF NewLine \in Range(base64) THEN 400 ELSE 0
      /\ h.options.authorization = options.authorization /\ ~ conn_keep_alive(h.options)
  <2> DEFINE len == Len(content)
  <2> HIDE DEF len
  <2>1. h = Head_(0, set_content_length(options, len))
    BY <1>4 DEF len
  <2> QED BY <1>3, <2>1, ParseIs
<1>6. NewLine \in Range(base64) => Broken_(info)
  <2>1. CASE info.user = <<>>
    <3>1. base64 = <<>>
      BY <1>3, <2>1 DEF NoValue, Word
    <3> QED BY <3>1 DEF Range
  <2>2. CASE info.user # <<>>
    <3>1. base64 = encode(Credentials(info))
      BY <1>3, <2>2 DEF Basic
    <3> HIDE DEF base64
    <3> QED BY <1>2, <2>2, <3>1, CredentialsCarried
  <2> QED BY <2>1, <2>2
<1>7. /\ Broken_(info) => 400 \in x.causes
      /\ Large(req) => 413 \in x.causes
      /\ x.causes \subseteq {400, 413}
  BY <1>1 DEF Causes, info, req
<1>8. max_request_sz # 0 /\ Len(p) >= max_request_sz => Large(req)
  <2>1. Len(p) = 3 + Len(content)
    BY <1>4 DEF IsPacket
  <2> QED BY <2>1 DEF Large, PacketSize, content
<1>9. Refusal(<<h>>, level) = 0 =>
        LET task == schedule_execute(setup, Packet(h, content))
        IN  IF task.is = "executes" THEN Due(x, setup, task) ELSE task = x.answer
  <2> SUFFICES ASSUME Refusal(<<h>>, level) = 0
               PROVE  LET task == schedule_execute(setup, Packet(h, content))
                      IN  IF task.is = "executes" THEN Due(x, setup, task) ELSE task = x.answer
    OBVIOUS
  <2>1. NewLine \notin Range(h.options.authorization.base64)
    BY <1>5
  <2> HIDE DEF h
  <2>2. h.options.authorization = Asks(opts.authinfo[n]).authorization
    BY <1>5 DEF options, info
  <2>3. h = The(n).packet[1]
    BY DEF h, x
  <2>4. LET task == schedule_execute(setup, Packet(h, RequestContent(opts.requests[n])))
        IN  IF task.is = "executes" THEN Due(The(n), setup, task) ELSE task = Answer(n)
    BY <2>1, <2>2, <2>3, CallScheduled
  <2> QED BY <1>1, <2>4 DEF x, content, req
<1>10. SoundAnswer(x.answer)
  BY <1>1, AnswerIs
<1>11. Proper(x, setup)
  BY <1>1, <1>4, <1>5, <1>6, <1>7, <1>8, <1>9, <1>10 DEF Proper, content
<1> QED BY <1>11 DEF x

-----------------------------------------------------------------------------
(* The calls of a client that keeps no connection: what they have come to, *)
(* and the stage of the one that is being executed.                        *)

Current == The(Len(results) + 1)

Counted ==
  /\ Len(results) <= Len(opts.requests)
  /\ phase # "idle" =>
       /\ Len(results) < Len(opts.requests) /\ conn \notin left
       /\ \/ mask = {"OUTPUT"} /\ out_str # <<>>
          \/ mask = {"INPUT"} /\ out_str = <<>>

Answered == \A n \in DOMAIN results : Comes(results[n], The(n), opts.timeout)

Exchanging ==
  phase # "idle" =>
    Exchange(Current, setup, server[conn], to_server[conn], to_client[conn], out_str, preader)

OwnInv == ~ opts.keep_alive => Counted /\ Answered /\ Exchanging

(* What a call asks and is answered with does not change.                  *)
LEMMA TheSame ==
  ASSUME UNCHANGED <<opts, setup>>, NEW n
  PROVE  The(n)' = The(n)
<1>1. Authorised(n)' = Authorised(n)
  BY DEF Authorised
<1>2. Answer(n)' = Answer(n)
  BY <1>1 DEF Answer, Granted, Outcome
<1>3. Causes(n)' = Causes(n) /\ Packet_of(n)' = Packet_of(n)
  BY DEF Causes, Packet_of
<1> QED BY <1>2, <1>3 DEF The

LEMMA CurrentIs ==
  ASSUME IInv, Len(results) < Len(opts.requests)
  PROVE  Len(results) + 1 \in Calls /\ Proper(Current, setup) /\ Len(results) \in Nat
<1>1. Len(results) \in Nat /\ Len(opts.requests) \in Nat
  BY OptionsAre, TextIs, LenProperties DEF IInv
<1> DEFINE n == Len(results) + 1
<1>2. n \in Calls
  BY <1>1 DEF Calls
<1> HIDE DEF n
<1>3. Proper(The(n), setup)
  BY <1>2, CallIs
<1> QED BY <1>1, <1>2, <1>3 DEF n, Current

(* A call is over.                                                         *)
LEMMA CallOver ==
  ASSUME IInv, OwnInv, ~ opts.keep_alive, Len(results) < Len(opts.requests), NEW result,
         Comes(result, Current, opts.timeout),
         results' = Append(results, result), phase' = "idle", UNCHANGED <<opts, setup>>
  PROVE  OwnInv'
<1> DEFINE n == Len(results) + 1
<1>1. IsText(results) /\ Len(results) \in Nat /\ DOMAIN results = 1 .. Len(results)
      /\ Len(opts.requests) \in Nat
  BY OptionsAre, TextIs, LenProperties DEF IInv
<1>2. /\ Len(results') = n /\ DOMAIN results' = 1 .. n
      /\ results'[n] = result /\ \A i \in 1 .. Len(results) : results'[i] = results[i]
  BY <1>1, TextAppended
<1>3. ASSUME NEW i \in DOMAIN results' PROVE Comes(results'[i], The(i), opts.timeout)
  <2>1. CASE i = n
    BY <1>2, <2>1 DEF Current
  <2>2. CASE i # n
    <3>1. i \in DOMAIN results /\ results'[i] = results[i]
      BY <1>1, <1>2, <2>2
    <3> QED BY <3>1 DEF OwnInv, Answered
  <2> QED BY <2>1, <2>2
<1>4. Answered'
  <2>1. ASSUME NEW i \in DOMAIN results' PROVE Comes(results'[i], The(i)', opts'.timeout)
    BY <1>3, TheSame
  <2> QED BY <2>1 DEF Answered
<1>5. Counted' /\ Exchanging'
  BY <1>1, <1>2 DEF Counted, Exchanging
<1> QED BY <1>4, <1>5 DEF OwnInv

(* A call goes on.                                                         *)
LEMMA CallOn ==
  ASSUME IInv, OwnInv, ~ opts.keep_alive, UNCHANGED <<opts, setup, results, left>>, conn' \notin left,
         Len(results) < Len(opts.requests),
         (mask' = {"OUTPUT"} /\ out_str' # <<>>) \/ (mask' = {"INPUT"} /\ out_str' = <<>>),
         Exchange(Current, setup, server'[conn'], to_server'[conn'], to_client'[conn'], out_str', preader')
  PROVE  OwnInv'
<1>1. Counted' /\ Answered /\ Len(results) <= Len(opts.requests)
  BY DEF OwnInv, Counted
<1>2. Answered'
  <2>1. ASSUME NEW i \in DOMAIN results PROVE Comes(results[i], The(i)', opts.timeout)
    BY <1>1, TheSame DEF Answered
  <2> QED BY <2>1 DEF Answered
<1>3. Exchanging'
  <2> DEFINE n == Len(results) + 1
  <2>1. The(n)' = The(n)
    BY TheSame
  <2>2. Current' = Current
    BY <2>1 DEF Current
  <2> QED BY <2>2 DEF Exchanging
<1> QED BY <1>1, <1>2, <1>3 DEF OwnInv

LEMMA StaysIdle ==
  ASSUME OwnInv, UNCHANGED <<opts, setup, phase, results>>, phase = "idle"
  PROVE  OwnInv'
<1> SUFFICES ASSUME ~ opts.keep_alive PROVE Counted' /\ Answered' /\ Exchanging'
  BY DEF OwnInv
<1>1. Counted /\ Answered
  BY DEF OwnInv
<1>2. Answered'
  <2>1. ASSUME NEW i \in DOMAIN results PROVE Comes(results[i], The(i)', opts.timeout)
    BY <1>1, TheSame DEF Answered
  <2> QED BY <2>1 DEF Answered
<1> QED BY <1>1, <1>2 DEF Counted, Exchanging

(* The server's end has gone on.                                           *)
LEMMA ServerGoesOn ==
  ASSUME IInv, OwnInv, ~ opts.keep_alive, UNCHANGED serverOthers,
         phase # "idle" =>
           Exchange(Current, setup, server'[conn], to_server'[conn], to_client'[conn], out_str, preader)
  PROVE  OwnInv'
<1>1. CASE phase = "idle"
  BY <1>1, StaysIdle DEF serverOthers
<1>2. CASE phase # "idle"
  <2>1. /\ Len(results) < Len(opts.requests) /\ conn \notin left
        /\ (mask = {"OUTPUT"} /\ out_str # <<>>) \/ (mask = {"INPUT"} /\ out_str = <<>>)
    BY <1>2 DEF OwnInv, Counted
  <2>2. conn' = conn /\ mask' = mask /\ out_str' = out_str /\ preader' = preader
        /\ UNCHANGED <<opts, setup, results, left>>
    BY DEF serverOthers
  <2> QED BY <1>2, <2>1, <2>2, CallOn
<1> QED BY <1>1, <1>2

(* What is known of a call that is being executed.                         *)
LEMMA CallGoing ==
  ASSUME IInv, OwnInv, ~ opts.keep_alive, phase # "idle"
  PROVE  /\ conn \in Conns /\ conn \notin left /\ conn # 0
         /\ conn \in DOMAIN server /\ conn \in DOMAIN to_server /\ conn \in DOMAIN to_client
         /\ Proper(Current, setup) /\ Len(results) < Len(opts.requests) /\ SetupKnown
         /\ IsServer(setup, server[conn]) /\ Sound(to_server[conn])
         /\ IsText(to_client[conn])
         /\ Exchange(Current, setup, server[conn], to_server[conn], to_client[conn], out_str, preader)
<1>1. conn \in Conns
  BY Connected
<1>2. Counted /\ Exchanging
  BY DEF OwnInv
<1>3. Proper(Current, setup) /\ Len(results) < Len(opts.requests) /\ conn \notin left
  BY <1>2, CurrentIs DEF Counted
<1>4. IsServer(setup, server[conn]) /\ Sound(to_server[conn]) /\ IsText(to_client[conn])
  BY <1>1 DEF IInv, Pipes
<1>5. conn # 0 /\ conn \in DOMAIN server /\ conn \in DOMAIN to_server /\ conn \in DOMAIN to_client
      /\ SetupKnown
  BY <1>1, ConnsAre DEF Conns
<1> QED BY <1>1, <1>2, <1>3, <1>4, <1>5 DEF Exchanging

LEMMA InputServed ==
  ASSUME IInv, OwnInv, ~ opts.keep_alive, NEW c \in Conns, handle_input(c)
  PROVE  OwnInv'
<1>1. UNCHANGED serverOthers /\ UNCHANGED to_client /\ Open(c) /\ "INPUT" \in server[c].mask
  BY DEF handle_input
<1>2. PICK k \in 1 .. Len(to_server[c]) :
        \E read \in {read_packet(server[c].preader, SubSeq(to_server[c], 1, k), max_request_sz,
                                  setup.ver_level)} :
        \E task \in {Asked(read.outcome)}, conn_ \in {[server[c] EXCEPT !.preader = read.reader]} :
        \E becomes \in {Handled(conn_, read.outcome, task)} :
          /\ to_server' = [to_server EXCEPT ![c] = Rest(@, k)]
          /\ server' = [server EXCEPT ![c] = becomes.conn]
  BY ZenonT(60) DEF handle_input
<1> DEFINE read == read_packet(server[c].preader, SubSeq(to_server[c], 1, k), max_request_sz,
                               setup.ver_level)
           conn_ == [server[c] EXCEPT !.preader = read.reader]
           s == Handled(conn_, read.outcome, Asked(read.outcome)).conn
           rest == Rest(to_server[c], k)
<1>3. to_server' = [to_server EXCEPT ![c] = rest] /\ server' = [server EXCEPT ![c] = s]
  BY <1>2
<1>4. ASSUME phase # "idle"
      PROVE  Exchange(Current, setup, server'[conn], to_server'[conn], to_client[conn], out_str, preader)
  <2>1. /\ conn \in DOMAIN server /\ conn \in DOMAIN to_server
        /\ Proper(Current, setup) /\ SetupKnown
        /\ IsServer(setup, server[conn]) /\ Sound(to_server[conn])
        /\ Exchange(Current, setup, server[conn], to_server[conn], to_client[conn], out_str, preader)
    BY <1>4, CallGoing
  <2>2. CASE c # conn
    <3> HIDE DEF s, rest
    <3>1. server'[conn] = server[conn] /\ to_server'[conn] = to_server[conn]
      BY <1>3, <2>1, <2>2
    <3> QED BY <2>1, <3>1
  <2>3. CASE c = conn
    <3>1. server'[conn] = s /\ to_server'[conn] = rest
      <4> HIDE DEF s, rest
      <4> QED BY <1>3, <2>1, <2>3
    <3>2. "INPUT" \in server[conn].mask /\ server[conn].open /\ k \in 1 .. Len(to_server[conn])
      BY <1>1, <2>3 DEF Open
    <3> DEFINE x == Current  tc == to_client[conn]  ts == to_server[conn]  e == server[conn]
    <3>3. CASE Reads(x, setup, e, ts, tc, out_str, preader)
      <4>1. Exchange(x, setup, s, rest, tc, out_str, preader)
        <5> HIDE DEF x, tc
        <5> QED BY <2>1, <2>3, <3>2, <3>3, ReadsOn DEF x, tc
      <4> HIDE DEF s, rest
      <4> QED BY <3>1, <4>1
    <3>4. CASE TurnsAway(x, setup, e, ts, tc, out_str, preader)
      <4>1. Exchange(x, setup, s, rest, tc, out_str, preader)
        <5> HIDE DEF x, tc
        <5> QED BY <2>1, <2>3, <3>2, <3>4, RefusesOn DEF x, tc
      <4> HIDE DEF s, rest
      <4> QED BY <3>1, <4>1
    <3> HIDE DEF s, rest
    <3>5. Reads(x, setup, e, ts, tc, out_str, preader) \/ TurnsAway(x, setup, e, ts, tc, out_str, preader)
      BY <2>1, <3>2 DEF Exchange, Works, Replies
    <3> QED BY <3>3, <3>4, <3>5
  <2> QED BY <2>2, <2>3
<1>5. phase # "idle" =>
        Exchange(Current, setup, server'[conn], to_server'[conn], to_client'[conn], out_str, preader)
  BY <1>1, <1>4
<1> QED BY <1>1, <1>5, ServerGoesOn

LEMMA MethodServed ==
  ASSUME IInv, OwnInv, ~ opts.keep_alive, NEW c \in Conns, process_actual_execution(c)
  PROVE  OwnInv'
<1>1. UNCHANGED serverOthers /\ UNCHANGED <<to_server, to_client>>
  BY DEF process_actual_execution
<1>2. PICK task \in server[c].executing : server' = [server EXCEPT ![c] = Executed(server[c], task).conn]
  BY DEF process_actual_execution
<1>3. ASSUME phase # "idle"
      PROVE  Exchange(Current, setup, server'[conn], to_server[conn], to_client[conn], out_str, preader)
  <2>1. /\ conn \in DOMAIN server /\ Proper(Current, setup) /\ IsServer(setup, server[conn])
        /\ Exchange(Current, setup, server[conn], to_server[conn], to_client[conn], out_str, preader)
    BY <1>3, CallGoing
  <2>2. CASE c # conn
    <3>1. server'[conn] = server[conn]
      BY <1>2, <2>1, <2>2
    <3> QED BY <2>1, <3>1
  <2>3. CASE c = conn
    <3>1. server'[conn] = Executed(server[conn], task).conn /\ task \in server[conn].executing
      BY <1>2, <2>1, <2>3
    <3> DEFINE x == Current  tc == to_client[conn]  ts == to_server[conn]  e == server[conn]
    <3> HIDE DEF x, tc, ts, e
    <3>2. Exchange(x, setup, Executed(e, task).conn, ts, tc, out_str, preader)
      BY <2>1, <3>1, WorksOff DEF x, tc, ts, e
    <3> QED BY <3>1, <3>2 DEF x, tc, ts, e
  <2> QED BY <2>2, <2>3
<1> QED BY <1>1, <1>3, ServerGoesOn

(* A connection the client has left is not that of a call.                 *)
LEMMA LeftServed ==
  ASSUME IInv, OwnInv, ~ opts.keep_alive, NEW c \in Conns, handle_input_closed(c) \/ handle_output_fails(c)
  PROVE  OwnInv'
<1>1. /\ UNCHANGED serverOthers /\ UNCHANGED to_client /\ c \in left
      /\ server' = [server EXCEPT ![c] = [Accepted EXCEPT !.open = FALSE, !.mask = {}]]
      /\ to_server' = [to_server EXCEPT ![c] = <<>>]
  BY DEF handle_input_closed, handle_output_fails, Close
<1>2. ASSUME phase # "idle"
      PROVE  Exchange(Current, setup, server'[conn], to_server'[conn], to_client[conn], out_str, preader)
  <2>1. /\ conn \in DOMAIN server /\ conn \in DOMAIN to_server /\ conn # c
        /\ Exchange(Current, setup, server[conn], to_server[conn], to_client[conn], out_str, preader)
    BY <1>1, <1>2, CallGoing
  <2>2. server'[conn] = server[conn] /\ to_server'[conn] = to_server[conn]
    BY <1>1, <2>1
  <2> QED BY <2>1, <2>2
<1> QED BY <1>1, <1>2, ServerGoesOn

LEMMA OutputServed ==
  ASSUME IInv, OwnInv, ~ opts.keep_alive, NEW c \in Conns, handle_output(c)
  PROVE  OwnInv'
<1> DEFINE response == server[c].response
<1>1. UNCHANGED serverOthers /\ server[c].open /\ "OUTPUT" \in server[c].mask
  BY DEF handle_output, Open
<1>2. PICK k \in 1 .. Len(response) :
        LET sent == IF c \in left THEN to_client
                    ELSE [to_client EXCEPT ![c] = Sent(to_client[c], response, k)]
        IN  \/ /\ server' = [server EXCEPT ![c] = [server[c] EXCEPT !.response = Rest(@, k)]]
               /\ to_client' = sent /\ UNCHANGED to_server
            \/ /\ server[c].keep_alive
               /\ server' = [server EXCEPT ![c] = [server[c] EXCEPT !.response = <<>>, !.mask = {"INPUT"}]]
               /\ to_client' = sent /\ UNCHANGED to_server
            \/ k = Len(response) /\ Close(c) /\ to_client' \in Lost(c, sent)
  <2>1. PICK k \in 1 .. Len(response) :
        LET sent == IF c \in left THEN to_client
                    ELSE [to_client EXCEPT ![c] = Sent(to_client[c], response, k)]
        IN  IF k < Len(response)
            THEN /\ server' = [server EXCEPT ![c] = [server[c] EXCEPT !.response = Rest(@, k)]]
                 /\ to_client' = sent /\ UNCHANGED to_server
            ELSE IF server[c].keep_alive
            THEN /\ server' = [server EXCEPT ![c] = [server[c] EXCEPT !.response = <<>>, !.mask = {"INPUT"}]]
                 /\ to_client' = sent /\ UNCHANGED to_server
            ELSE Close(c) /\ to_client' \in Lost(c, sent)
    BY DEF handle_output
  <2>2. Len(response) \in Nat
    <3>1. IsServer(setup, server[c])
      BY DEF IInv
    <3> QED BY <3>1, TextIs DEF IsServer
  <2>3. ~ (k < Len(response)) => k = Len(response)
    <3> HIDE DEF response
    <3> QED BY <2>2
  <2> HIDE DEF response
  <2> QED BY <2>1, <2>3
<1> DEFINE sent == IF c \in left THEN to_client
                   ELSE [to_client EXCEPT ![c] = Sent(to_client[c], response, k)]
<1>3. ASSUME phase # "idle"
      PROVE  Exchange(Current, setup, server'[conn], to_server'[conn], to_client'[conn], out_str, preader)
  <2>1. /\ conn \in DOMAIN server /\ conn \in DOMAIN to_server /\ conn \in DOMAIN to_client
        /\ Proper(Current, setup) /\ conn \notin left
        /\ IsServer(setup, server[conn])
        /\ Exchange(Current, setup, server[conn], to_server[conn], to_client[conn], out_str, preader)
    BY <1>3, CallGoing
  <2>2. CASE c # conn
    <3>1. sent[conn] = to_client[conn] /\ conn \in DOMAIN sent
      BY <2>1, <2>2
    <3> HIDE DEF sent, response
    <3>2. server'[conn] = server[conn] /\ to_server'[conn] = to_server[conn]
      BY <1>2, <2>1, <2>2 DEF Close
    <3>3. to_client' \in {sent, [sent EXCEPT ![c] = <<>>]}
      BY <1>2 DEF Lost, sent
    <3>4. to_client'[conn] = to_client[conn]
      BY <2>2, <3>1, <3>3
    <3> QED BY <2>1, <3>2, <3>4
  <2>3. CASE c = conn
    <3> DEFINE x == Current  tc == to_client[conn]  ts == to_server[conn]  e == server[conn]
               piece == Sent(tc, e.response, k)
               q == [e EXCEPT !.response = Rest(@, k)]
    <3>1. k \in 1 .. Len(e.response) /\ e.open /\ "OUTPUT" \in e.mask
      BY <1>1, <2>3
    <3>2. /\ ~ e.keep_alive
          /\ Exchange(x, setup, q, ts, piece, out_str, preader)
          /\ k = Len(e.response) => Exchange(x, setup, Gone, <<>>, piece, out_str, preader)
          /\ k = Len(e.response) /\ ts # <<>> => Exchange(x, setup, Gone, <<>>, <<>>, out_str, preader)
      <4> HIDE DEF x, tc, ts, e
      <4> QED BY <2>1, <3>1, SendsOn DEF x, tc, ts, e
    <3>3. sent = [to_client EXCEPT ![conn] = piece] /\ response = e.response /\ server[c] = e
      BY <2>1, <2>3
    <3>4. sent[conn] = piece /\ conn \in DOMAIN sent
      <4> HIDE DEF piece, sent
      <4> QED BY <2>1, <3>3
    <3> HIDE DEF sent, response, piece, q, e
    <3>5. CASE /\ server' = [server EXCEPT ![conn] = q]
               /\ to_client' = sent /\ UNCHANGED to_server
      <4>1. server'[conn] = q /\ to_client'[conn] = piece /\ to_server'[conn] = ts
        BY <2>1, <3>4, <3>5
      <4> QED BY <3>2, <4>1
    <3>6. CASE k = Len(e.response) /\ Close(conn) /\ to_client' \in Lost(conn, sent)
      <4>1. server'[conn] = Gone /\ to_server'[conn] = <<>>
        BY <2>1, <3>6 DEF Close, Gone
      <4>2. to_client'[conn] = piece \/ (ts # <<>> /\ to_client'[conn] = <<>>)
        BY <3>4, <3>6 DEF Lost
      <4> QED BY <3>2, <3>6, <4>1, <4>2
    <3>7. \/ /\ server' = [server EXCEPT ![conn] = q]
             /\ to_client' = sent /\ UNCHANGED to_server
          \/ k = Len(e.response) /\ Close(conn) /\ to_client' \in Lost(conn, sent)
      BY <1>2, <2>3, <3>2, <3>3 DEF sent, q
    <3> QED BY <3>5, <3>6, <3>7
  <2> QED BY <2>2, <2>3
<1> QED BY <1>1, <1>3, ServerGoesOn

LEMMA CallServed ==
  ASSUME IInv, OwnInv, ~ opts.keep_alive, NEW c \in Conns, Serve(c)
  PROVE  OwnInv'
BY InputServed, LeftServed, MethodServed, OutputServed DEF Serve

(* A call begins on a connection of its own.                               *)
LEMMA CallBegins ==
  ASSUME IInv, OwnInv, ~ opts.keep_alive, execute_on_new
  PROVE  OwnInv'
<1>1. /\ phase = "idle" /\ conn = 0 /\ mask = {} /\ Len(results) < Len(opts.requests)
  BY DEF execute_on_new, IInv, ClientIs
<1>2. /\ conn' = Len(server) + 1 /\ mask' = {"OUTPUT"} /\ preader' = NewReader
      /\ out_str' = request_packet /\ UNCHANGED <<opts, setup, results, left>>
      /\ server' = Append(server, Accepted)
      /\ to_server' = Append(to_server, <<>>) /\ to_client' = Append(to_client, <<>>)
  BY <1>1 DEF execute_on_new, StartCall
<1>3. /\ Len(server) \in Nat /\ Conns = 1 .. Len(server) /\ left \subseteq Conns
      /\ IsText(server) /\ IsText(to_server) /\ IsText(to_client)
      /\ Len(to_server) = Len(server) /\ Len(to_client) = Len(server)
  BY ConnsAre DEF IInv
<1>4. server'[conn'] = Accepted /\ to_server'[conn'] = <<>> /\ to_client'[conn'] = <<>>
  BY <1>2, <1>3, TextAppended
<1>5. conn' \notin left
  BY <1>2, <1>3
<1>6. out_str' = Current.packet
  <2>1. opts.keep_alive = FALSE
    BY HttpCallAssumption DEF IInv
  <2>2. out_str' = Packet_of(Len(results) + 1)
    BY <1>2, <2>1 DEF request_packet, Packet_of
  <2> QED BY <2>2 DEF Current, The
<1>7. Proper(Current, setup)
  BY <1>1, CurrentIs
<1> DEFINE x == Current  p == x.packet
<1>8. IsPacket(p, RequestContent(x.request))
  BY <1>7 DEF Proper
<1> HIDE DEF x, p
<1>9. Flows(0, NewReader, <<>>, p, p, max_request_sz)
  BY <1>8, FlowBegins
<1>10. p # <<>>
  BY <1>8, EmptyText, TextIs DEF IsPacket
<1>11. /\ Accepted.open /\ Accepted.mask = {"INPUT"} /\ Accepted.executing = {}
       /\ Accepted.preader = NewReader
  BY DEF Accepted
<1>12. Reads(x, setup, Accepted, <<>>, <<>>, p, NewReader)
  <2>1. 0 \in Nat /\ ~ (0 >= 3)
    OBVIOUS
  <2> QED BY <1>9, <1>11, <2>1 DEF Reads, p
<1>13. Exchange(Current, setup, server'[conn'], to_server'[conn'], to_client'[conn'], out_str', preader')
  BY <1>2, <1>4, <1>6, <1>12 DEF Exchange, x, p
<1>14. mask' = {"OUTPUT"} /\ out_str' # <<>>
  BY <1>2, <1>6, <1>10 DEF x, p
<1> QED BY <1>1, <1>2, <1>5, <1>13, <1>14, CallOn

(* There is no connection to be kept.                                      *)
LEMMA NoneKept ==
  ASSUME IInv, ~ opts.keep_alive
  PROVE  ~ execute_on_kept
BY DEF execute_on_kept, IInv, ClientIs

LEMMA CallRefused ==
  ASSUME IInv, OwnInv, ~ opts.keep_alive, connect_fails
  PROVE  OwnInv'
<1>1. Comes(Threw_("connect", 0), Current, opts.timeout)
  BY DEF Comes, Caused, Threw_
<1>2. /\ Len(results) < Len(opts.requests) /\ phase' = "idle" /\ UNCHANGED <<opts, setup>>
      /\ results' = Append(results, Threw_("connect", 0))
  BY DEF connect_fails
<1> QED BY <1>1, <1>2, CallOver

(* The client gives up its call.                                           *)
LEMMA CallGivenUp ==
  ASSUME IInv, OwnInv, ~ opts.keep_alive, output_fails \/ input_fails \/ Client_timeout
  PROVE  OwnInv'
<1>1. phase # "idle" /\ UNCHANGED <<opts, setup>>
  BY DEF output_fails, input_fails, Client_timeout
<1>2. /\ conn \in DOMAIN to_client
      /\ Proper(Current, setup) /\ Len(results) < Len(opts.requests)
      /\ Exchange(Current, setup, server[conn], to_server[conn], to_client[conn], out_str, preader)
      /\ "OUTPUT" \in mask => out_str # <<>>
  BY <1>1, CallGoing DEF OwnInv, Counted
<1>3. CASE output_fails
  <2>1. ~ server[conn].open /\ out_str # <<>> /\ EndCall(Threw_("network", 0), mask, to_client)
    BY <1>2, <1>3 DEF output_fails, Open
  <2>2. Comes(Threw_("network", 0), Current, opts.timeout)
    BY <1>2, <2>1, GivesUp
  <2>3. results' = Append(results, Threw_("network", 0)) /\ phase' = "idle"
    BY <2>1 DEF EndCall
  <2> QED BY <1>1, <1>2, <2>2, <2>3, CallOver
<1>4. CASE input_fails
  <2>1. /\ ~ server[conn].open \/ opts.timeout
        /\ to_client[conn] = <<>> /\ EndCall(Threw_("network", 0), mask, to_client)
    BY <1>4 DEF input_fails, Open
  <2>2. Comes(Threw_("network", 0), Current, opts.timeout)
    <3>1. CASE ~ server[conn].open
      BY <1>2, <2>1, <3>1, GivesUp
    <3>2. CASE opts.timeout
      BY <3>2 DEF Comes, Caused, Threw_
    <3> QED BY <2>1, <3>1, <3>2
  <2>3. results' = Append(results, Threw_("network", 0)) /\ phase' = "idle"
    BY <2>1 DEF EndCall
  <2> QED BY <1>1, <1>2, <2>2, <2>3, CallOver
<1>5. CASE Client_timeout
  <2>1. opts.timeout /\ EndCall(Threw_("timeout", 0), mask, to_client)
    BY <1>5 DEF Client_timeout
  <2>2. Comes(Threw_("timeout", 0), Current, opts.timeout)
    BY <2>1 DEF Comes, Caused, Threw_
  <2>3. results' = Append(results, Threw_("timeout", 0)) /\ phase' = "idle"
    BY <2>1 DEF EndCall
  <2> QED BY <1>1, <1>2, <2>2, <2>3, CallOver
<1> QED BY <1>3, <1>4, <1>5

LEMMA CallWrites ==
  ASSUME IInv, OwnInv, ~ opts.keep_alive, client_handle_output
  PROVE  OwnInv'
<1>1. phase # "idle" /\ "OUTPUT" \in mask
  BY DEF client_handle_output
<1>2. /\ conn \in DOMAIN to_client /\ conn \in DOMAIN to_server /\ conn \notin left
      /\ Proper(Current, setup) /\ Len(results) < Len(opts.requests)
      /\ Exchange(Current, setup, server[conn], to_server[conn], to_client[conn], out_str, preader)
      /\ mask = {"OUTPUT"} /\ out_str # <<>>
  BY <1>1, CallGoing DEF OwnInv, Counted
<1>3. PICK k \in 1 .. Len(out_str) :
        /\ out_str' = Rest(out_str, k) /\ mask' = AfterOutput(k)
        /\ IF Open(conn)
           THEN /\ to_server' = [to_server EXCEPT ![conn] = Sent(to_server[conn], out_str, k)]
                /\ UNCHANGED to_client
           ELSE /\ to_client' \in {to_client, [to_client EXCEPT ![conn] = <<>>]}
                /\ UNCHANGED to_server
  BY DEF client_handle_output
<1>4. UNCHANGED <<opts, setup, results, left, conn, server, preader>>
  BY DEF client_handle_output
<1>5. IsText(out_str) /\ Len(out_str) \in Nat
  <2>1. Sound(out_str)
    BY DEF IInv, ClientIs
  <2> QED BY <2>1, TextIs DEF Sound
<1>6. (mask' = {"OUTPUT"} /\ out_str' # <<>>) \/ (mask' = {"INPUT"} /\ out_str' = <<>>)
  <2>1. IsText(out_str') /\ Len(out_str') = Len(out_str) - k
    BY <1>3, <1>5, FirstOfText
  <2>2. CASE k = Len(out_str)
    <3>1. Len(out_str') = 0
      BY <1>5, <2>1, <2>2
    <3>2. out_str' = <<>>
      BY <2>1, <3>1, EmptyText, TextEqual
    <3> QED BY <1>3, <2>2, <3>2 DEF AfterOutput
  <2>3. CASE k # Len(out_str)
    <3>1. Len(out_str') # 0
      BY <1>5, <2>1, <2>3
    <3>2. out_str' # <<>>
      BY <3>1, EmptyText
    <3> QED BY <1>2, <1>3, <2>3, <3>2 DEF AfterOutput
  <2> QED BY <2>2, <2>3
<1>7. Exchange(Current, setup, server'[conn], to_server'[conn], to_client'[conn], out_str', preader)
  <2>1. /\ Open(conn) => Exchange(Current, setup, server[conn], Sent(to_server[conn], out_str, k),
                                  to_client[conn], out_str', preader)
        /\ ~ Open(conn) =>
             /\ Exchange(Current, setup, server[conn], to_server[conn], to_client[conn], out_str', preader)
             /\ Exchange(Current, setup, server[conn], to_server[conn], <<>>, out_str', preader)
    BY <1>2, <1>3, WritesOn DEF Open
  <2>2. CASE Open(conn)
    <3>1. to_server'[conn] = Sent(to_server[conn], out_str, k) /\ to_client' = to_client
      BY <1>2, <1>3, <2>2
    <3> QED BY <1>4, <2>1, <2>2, <3>1
  <2>3. CASE ~ Open(conn)
    <3>1. to_server' = to_server /\ to_client'[conn] \in {to_client[conn], <<>>}
      BY <1>2, <1>3, <2>3
    <3> QED BY <1>4, <2>1, <2>3, <3>1
  <2> QED BY <2>2, <2>3
<1> QED BY <1>2, <1>4, <1>6, <1>7, CallOn

LEMMA CallReads ==
  ASSUME IInv, OwnInv, ~ opts.keep_alive, client_handle_input
  PROVE  OwnInv'
<1>1. phase # "idle" /\ "INPUT" \in mask /\ UNCHANGED <<opts, setup, out_str, to_server, server>>
  BY DEF client_handle_input
<1>2. /\ conn \in DOMAIN to_client /\ conn \notin left
      /\ Proper(Current, setup) /\ Len(results) < Len(opts.requests)
      /\ Exchange(Current, setup, server[conn], to_server[conn], to_client[conn], out_str, preader)
      /\ mask = {"INPUT"} /\ out_str = <<>>
  BY <1>1, CallGoing DEF OwnInv, Counted
<1>3. PICK k \in 1 .. Len(to_client[conn]), ver_level \in Levels :
      \E read \in {read_packet(preader, SubSeq(to_client[conn], 1, k), 0, ver_level)} :
        LET rest == [to_client EXCEPT ![conn] = Rest(@, k)]
        IN  /\ preader' = read.reader
            /\ CASE read.outcome.is = "packet" ->
                      EndCall(Returned(read.outcome), {}, rest)
                 [] read.outcome.is = "error" ->
                      EndCall(Threw_("malformed", 0), mask, rest)
                 [] OTHER ->
                      /\ to_client' = rest
                      /\ UNCHANGED <<conn, mask, results, left>>
  BY ZenonT(60) DEF client_handle_input
<1> DEFINE tc == to_client[conn]
           read == read_packet(preader, SubSeq(tc, 1, k), 0, ver_level)
           rest == [to_client EXCEPT ![conn] = Rest(@, k)]
<1>4. /\ preader' = read.reader
      /\ CASE read.outcome.is = "packet" ->
                EndCall(Returned(read.outcome), {}, rest)
           [] read.outcome.is = "error" ->
                EndCall(Threw_("malformed", 0), mask, rest)
           [] OTHER ->
                /\ to_client' = rest
                /\ UNCHANGED <<conn, mask, results, left>>
  BY <1>3
<1>5. /\ read.outcome.is = "packet" => Comes(Returned(read.outcome), Current, opts.timeout)
      /\ read.outcome.is = "error" => Current.causes # {}
      /\ read.outcome.is \notin {"packet", "error"} =>
           Exchange(Current, setup, server[conn], to_server[conn], Rest(tc, k), out_str, read.reader)
  <2> DEFINE x == Current  s == server[conn]  ts == to_server[conn]
  <2>1. Exchange(x, setup, s, ts, tc, out_str, preader) /\ Proper(x, setup) /\ k \in 1 .. Len(tc)
    BY <1>2, <1>3
  <2> HIDE DEF x, s, ts, tc
  <2>2. /\ read.outcome.is = "packet" => Comes(Returned(read.outcome), x, opts.timeout)
        /\ read.outcome.is = "error" => x.causes # {}
        /\ read.outcome.is \notin {"packet", "error"} =>
             Exchange(x, setup, s, ts, Rest(tc, k), out_str, read.reader)
    BY <2>1, TakesIn
  <2> QED BY <2>2 DEF x, s, ts
<1>6. rest[conn] = Rest(tc, k)
  BY <1>2
<1> HIDE DEF read, rest, tc
<1>7. CASE read.outcome.is = "packet"
  <2> DEFINE result == Returned(read.outcome)
  <2>1. EndCall(result, {}, rest) /\ Comes(result, Current, opts.timeout)
    BY <1>4, <1>5, <1>7
  <2> HIDE DEF result
  <2>2. results' = Append(results, result) /\ phase' = "idle"
    BY <2>1 DEF EndCall
  <2> QED BY <1>1, <1>2, <2>1, <2>2, CallOver
<1>8. CASE read.outcome.is = "error"
  <2>1. EndCall(Threw_("malformed", 0), mask, rest) /\ Current.causes # {}
    BY <1>4, <1>5, <1>8
  <2>2. Comes(Threw_("malformed", 0), Current, opts.timeout)
    BY <2>1 DEF Comes, Caused, Threw_
  <2>3. results' = Append(results, Threw_("malformed", 0)) /\ phase' = "idle"
    BY <2>1 DEF EndCall
  <2> QED BY <1>1, <1>2, <2>2, <2>3, CallOver
<1>9. CASE read.outcome.is \notin {"packet", "error"}
  <2>1. to_client' = rest /\ UNCHANGED <<conn, mask, results, left>> /\ preader' = read.reader
    BY <1>4, <1>9
  <2>2. Exchange(Current, setup, server'[conn'], to_server'[conn'], to_client'[conn'], out_str', preader')
    BY <1>1, <1>5, <1>6, <1>9, <2>1
  <2> QED BY <1>1, <1>2, <2>1, <2>2, CallOn
<1> QED BY <1>7, <1>8, <1>9

LEMMA OwnInvariance == Spec => [](IInv /\ OwnInv)
<1>1. ASSUME Init PROVE OwnInv
  <2>1. results = <<>> /\ phase = "idle"
    BY <1>1 DEF Init
  <2>2. Len(results) = 0 /\ DOMAIN results = {}
    BY <2>1, EmptyText
  <2>3. Len(opts.requests) \in Nat
    BY <1>1, InitHolds, OptionsAre, TextIs, LenProperties DEF IInv
  <2> QED BY <2>1, <2>2, <2>3 DEF OwnInv, Counted, Answered, Exchanging
<1>2. ASSUME IInv, OwnInv, [Next]_vars PROVE OwnInv'
  <2>1. CASE UNCHANGED vars
    <3>1. UNCHANGED <<opts, setup, phase, conn, mask, out_str, preader, results, left,
                      to_server, to_client, server>>
      BY <2>1 DEF vars, clientVars
    <3>2. Current' = Current /\ \A n : The(n)' = The(n)
      <4>1. ASSUME NEW n PROVE The(n)' = The(n)
        BY <3>1, TheSame
      <4>2. Current' = The(Len(results) + 1)'
        BY <3>1 DEF Current
      <4> QED BY <4>1, <3>1 DEF Current
    <3>3. (Counted' <=> Counted) /\ (Exchanging' <=> Exchanging)
      BY <3>1, <3>2 DEF Counted, Exchanging
    <3>4. Answered => Answered'
      <4> SUFFICES ASSUME Answered, NEW i \in DOMAIN results'
                   PROVE  Comes(results'[i], The(i)', opts'.timeout)
        BY DEF Answered
      <4>1. Comes(results[i], The(i), opts.timeout)
        BY <3>1 DEF Answered
      <4> QED BY <3>1, <3>2, <4>1
    <3> QED BY <1>2, <3>1, <3>3, <3>4 DEF OwnInv
  <2>2. CASE Next
    <3>1. opts' = opts
      BY <2>2 DEF Next, Client, execute_on_new, execute_on_kept, StartCall, client_handle_output,
                  output_fails, client_handle_input, input_fails, Client_timeout, connect_fails,
                  Serve, handle_input, handle_input_closed, process_actual_execution,
                  handle_output, handle_output_fails, serverOthers
    <3>2. CASE ~ opts.keep_alive
      <4>1. CASE Client
        BY <1>2, <3>2, <4>1, CallBegins, NoneKept, CallWrites, CallGivenUp, CallReads DEF Client
      <4>2. CASE connect_fails
        BY <1>2, <3>2, <4>2, CallRefused
      <4>3. CASE \E c \in Conns : Serve(c)
        BY <1>2, <3>2, <4>3, CallServed
      <4> QED BY <2>2, <4>1, <4>2, <4>3 DEF Next
    <3>3. CASE opts.keep_alive
      BY <3>1, <3>3 DEF OwnInv
    <3> QED BY <3>2, <3>3
  <2> QED BY <1>2, <2>1, <2>2
<1> QED BY <1>1, <1>2, Invariance, PTL DEF Spec

(* However the bytes are cut, whatever the calls are and whoever asks: a   *)
(* response that execute() of a client without keep-alive returns is the   *)
(* one to its own request (Client_base::execute,                           *)
(* Client_connection::process_session).                                    *)
THEOREM AnswersAreOwn == Spec => [](~ opts.keep_alive => AnswerIsOwn)
<1>1. ASSUME OwnInv, ~ opts.keep_alive PROVE AnswerIsOwn
  <2> DEFINE f == [n \in DOMAIN results |-> n]
  <2>1. f \in [DOMAIN results -> DOMAIN results] /\ \A n \in DOMAIN results : f[n] = n
    OBVIOUS
  <2>2. ASSUME NEW n \in DOMAIN results, results[n].is # "exception"
        PROVE  Responds(results[n]) = Answer(n)
    <3>1. Comes(results[n], The(n), opts.timeout)
      BY <1>1, <2>2 DEF OwnInv, Answered
    <3>2. The(n).answer = Answer(n)
      BY DEF The
    <3> QED BY <2>2, <3>1, <3>2 DEF Comes
  <2> HIDE DEF f
  <2> QED BY <2>1, <2>2 DEF AnswerIsOwn, MayHear
<1> QED BY <1>1, OwnInvariance, PTL

(* And if execute() throws, its own call is the cause: a request that is   *)
(* too large, credentials that are not let in or do not fit a line, a      *)
(* response that cannot be written down, or a timeout that is set          *)
(* (Client_connection::process_session, Http_client_connection).           *)
THEOREM FailuresHaveCause == Spec => [](~ opts.keep_alive => FailsForCause)
<1>1. ASSUME IInv, OwnInv, ~ opts.keep_alive PROVE FailsForCause
  <2> SUFFICES ASSUME NEW n \in DOMAIN results, results[n].is = "exception"
               PROVE  LET what == results[n].what
                          code == results[n].code
                          Earlier == {m \in 1 .. n : m = n \/ opts.keep_alive}
                          Heard == {m \in 1 .. n : m = n \/ Reused(n)}
                          tooLarge == \E m \in Earlier : Large(opts.requests[m])
                          broken == \E m \in Earlier : Broken_(opts.authinfo[m])
                      IN  /\ what = "http" =>
                               \/ code = 413 /\ (tooLarge \/ Reused(n))
                               \/ code = 400 /\ (broken \/ Reused(n))
                               \/ \E m \in Heard : Refuses(code) \in MayHear(n, m)
                          /\ what = "malformed" => tooLarge \/ broken \/ Reused(n)
                          /\ what = "network" => tooLarge \/ broken \/ opts.timeout
                          /\ what = "xml" =>
                               \E m \in Heard : \E a \in MayHear(n, m) : ~Expressible(a.resp)
                          /\ what = "timeout" => opts.timeout
    BY DEF FailsForCause
  <2>1. Caused(results[n], The(n), opts.timeout)
    BY <1>1 DEF OwnInv, Answered, Comes
  <2>2. The(n).answer = Answer(n) /\ The(n).causes = Causes(n)
    BY DEF The
  <2>3. n \in 1 .. n
    <3>1. DOMAIN results = 1 .. Len(results)
      BY <1>1, TextIs DEF IInv
    <3> QED BY <3>1
  <2> DEFINE Earlier == {m \in 1 .. n : m = n \/ opts.keep_alive}
             Heard == {m \in 1 .. n : m = n \/ Reused(n)}
             tooLarge == \E m \in Earlier : Large(opts.requests[m])
             broken == \E m \in Earlier : Broken_(opts.authinfo[m])
  <2>4. n \in Earlier /\ n \in Heard /\ Answer(n) \in MayHear(n, n)
    BY <2>3 DEF MayHear
  <2>5. /\ 413 \in Causes(n) => tooLarge
        /\ 400 \in Causes(n) => broken
        /\ \A code \in Causes(n) : code \in {400, 413}
    <3>1. (413 \in Causes(n) => Large(opts.requests[n])) /\ (400 \in Causes(n) => Broken_(opts.authinfo[n]))
      BY DEF Causes
    <3>2. \A code \in Causes(n) : code \in {400, 413}
      BY DEF Causes
    <3> QED BY <2>4, <3>1, <3>2
  <2> HIDE DEF Earlier, Heard, tooLarge, broken
  <2>6. /\ results[n].what = "http" => \/ results[n].code = 413 /\ tooLarge
                                       \/ results[n].code = 400 /\ broken
                                       \/ Answer(n) = Refuses(results[n].code)
        /\ results[n].what = "malformed" => tooLarge \/ broken
        /\ results[n].what = "network" => tooLarge \/ broken \/ opts.timeout
        /\ results[n].what = "xml" => ~Expressible(Answer(n).resp)
        /\ results[n].what = "timeout" => opts.timeout
    BY <2>1, <2>2, <2>5 DEF Caused
  <2> QED BY <2>4, <2>6 DEF Earlier, Heard, tooLarge, broken
<1> QED BY <1>1, OwnInvariance, PTL

-----------------------------------------------------------------------------
(* Whose the runs of methods are, when no connection is kept.              *)

(* A request was executed for one who may ask it;                          *)
RunFor(x, on, run) ==
  /\ run.request = x.request
  /\ run.authname \in authenticate(on, x.packet[1].options)
  /\ NewLine \notin Range(x.packet[1].options.authorization.base64)

(* no value is answered without a run that came to it;                     *)
Paid(x, on, runs) ==
  x.answer.is = "responds" /\ x.answer.resp.is = "value" =>
    \E i \in DOMAIN runs : execute(on, runs[i].method, runs[i].request) = x.answer.resp

(* and the server's end of a connection has answered once.                 *)
Yet(s) == s.open /\ "OUTPUT" \notin s.mask
Turned(s) == s.open => s.mask = {"INPUT", "OUTPUT"}

RunOnce(x, on, runs) == runs = <<>> \/ \E run : runs = <<run>> /\ RunFor(x, on, run)

Onward(x, on, s, new, runs) ==
  \/ /\ runs = <<>>
     /\ Yet(new) => Yet(s)
     /\ Yet(s) => Yet(new) \/ Turned(new)
     /\ Turned(s) => Turned(new)
  \/ Yet(s) /\ ~ Yet(new) /\ RunOnce(x, on, runs) /\ Paid(x, on, runs)

LEMMA OutcomeOf ==
  ASSUME SetupKnown, NEW method, NEW req
  PROVE  LET run == process_execution(setup, method, req)
         IN  IF run.ran THEN run.outcome = execute(setup, method, req)
             ELSE run.outcome.is = "raised"
<1> DEFINE ics == setup.interceptors
           I == {i \in 1 .. Len(ics) : req.name \in ics[i].stops}
           stop == IF I # {} THEN Min(I) ELSE 0
           names == [i \in DOMAIN ics |-> ics[i].name]
           run == process_execution(setup, method, req)
<1>1. /\ Len(ics) \in Nat /\ DOMAIN ics = 1 .. Len(ics)
      /\ \A i \in DOMAIN ics : ics[i].throws.is = "raised"
  BY InterceptorsAre, TextIs
<1>2. run = IF stop = 0
            THEN [ran |-> TRUE, through |-> names, outcome |-> execute(setup, method, req)]
            ELSE [ran |-> FALSE, through |-> SubSeq(names, 1, stop),
                  outcome |-> setup.interceptors[stop].throws]
  BY DEF process_execution, SelectInSeq
<1>3. I # {} => Min(I) \in I
  <2>1. I \in SUBSET Nat
    BY <1>1
  <2> HIDE DEF I
  <2> QED BY <2>1, LeastIs
<1> HIDE DEF names, run
<1>4. CASE stop = 0
  <2> HIDE DEF stop
  <2> QED BY <1>2, <1>4 DEF run
<1>5. CASE stop # 0
  <2>1. stop \in DOMAIN ics
    BY <1>1, <1>3, <1>5
  <2> HIDE DEF stop
  <2> QED BY <1>1, <1>2, <1>5, <2>1 DEF run
<1> QED BY <1>4, <1>5

(* A value is what a method came to.                                       *)
LEMMA ValueOf ==
  ASSUME NEW on, NEW outcome, response_of(on, outcome).is = "responds",
         response_of(on, outcome).resp.is = "value"
  PROVE  outcome.is # "raised" /\ response_of(on, outcome).resp = outcome
<1>1. \A code : Responds(FaultOf(code)).resp.is = "fault" /\ Refuses(code).is = "refuses"
  BY DEF Responds, FaultOf, Refuses
<1>2. Responds(outcome).resp = outcome
  BY DEF Responds
<1>3. CASE on.executor = "pool"
  <2>1. response_of(on, outcome) = pool_response(outcome)
    BY <1>3 DEF response_of
  <2>2. CASE outcome.is # "raised"
    BY <1>2, <2>1, <2>2 DEF pool_response
  <2>3. CASE outcome.is = "raised"
    BY <1>1, <2>1, <2>3 DEF pool_response
  <2> QED BY <2>2, <2>3
<1>4. CASE on.executor # "pool"
  <2>1. response_of(on, outcome) = serial_response(outcome)
    BY <1>4 DEF response_of
  <2>2. CASE outcome.is # "raised"
    BY <1>2, <2>1, <2>2 DEF serial_response
  <2>3. CASE outcome.is = "raised" /\ outcome.class \in {"Fault", "Exception"}
    BY <1>1, <2>1, <2>3 DEF serial_response
  <2>4. CASE outcome.is = "raised" /\ outcome.class = "Error_response"
    BY <1>1, <2>1, <2>4 DEF serial_response
  <2>5. CASE outcome.is = "raised" /\ outcome.class \notin {"Fault", "Exception", "Error_response"}
    BY <1>1, <2>1, <2>5 DEF serial_response
  <2> QED BY <2>2, <2>3, <2>4, <2>5
<1> QED BY <1>3, <1>4

LEMMA NoValueYet ==
  ASSUME NEW on, NEW packet, schedule_execute(on, packet).is # "executes",
         schedule_execute(on, packet).is = "responds"
  PROVE  schedule_execute(on, packet).resp.is # "value"
<1> DEFINE names == authenticate(on, packet.header.options)
           req == ParseRequest(packet.content)
           methods == create_method(on.dispatchers, req.name)
           task == schedule_execute(on, packet)
<1>1. task = IF names = {} THEN Refuses(401)
             ELSE IF req.is = "exception" THEN Responds(FaultOf(req.code))
             ELSE IF methods = {} THEN Responds(FaultOf(-32601))
             ELSE Executes(req, CHOOSE m \in methods : TRUE, CHOOSE n \in names : TRUE)
  BY DEF schedule_execute
<1> HIDE DEF names, req, methods, task
<1>2. /\ \A code : Responds(FaultOf(code)).resp.is = "fault" /\ Refuses(code).is = "refuses"
      /\ \A r, m, n : Executes(r, m, n).is = "executes"
  BY DEF Responds, FaultOf, Refuses, Executes
<1>3. task.is # "executes" /\ task.is = "responds"
  BY DEF task
<1>4. task.resp.is # "value"
  BY <1>1, <1>2, <1>3
<1> QED BY <1>4 DEF task

(* What is executed runs once at most, and is not answered with a value    *)
(* otherwise.                                                              *)
LEMMA RunsForCall ==
  ASSUME SetupKnown, NEW x, NEW task, Due(x, setup, task), NEW s
  PROVE  LET runs == Executed(s, task).runs
         IN  RunOnce(x, setup, runs) /\ Paid(x, setup, runs)
<1> DEFINE run == process_execution(setup, task.method, task.req)
           made == [request |-> task.req, method |-> task.method, authname |-> task.authname,
                    through |-> run.through]
           runs == Executed(s, task).runs
<1>1. runs = IF run.ran THEN <<made>> ELSE <<>>
  BY DEF Executed, Becomes
<1>2. IF run.ran THEN run.outcome = execute(setup, task.method, task.req)
      ELSE run.outcome.is = "raised"
  BY OutcomeOf
<1>3. /\ task.req = x.request /\ task.authname \in authenticate(setup, x.packet[1].options)
      /\ NewLine \notin Range(x.packet[1].options.authorization.base64)
      /\ response_of(setup, run.outcome) = x.answer
  BY DEF Due
<1> HIDE DEF run
<1>4. made.request = task.req /\ made.method = task.method /\ made.authname = task.authname
  OBVIOUS
<1> HIDE DEF made, runs
<1>5. RunOnce(x, setup, runs)
  BY <1>1, <1>3, <1>4 DEF RunOnce, RunFor
<1>6. ASSUME x.answer.is = "responds", x.answer.resp.is = "value"
      PROVE  \E i \in DOMAIN runs : execute(setup, runs[i].method, runs[i].request) = x.answer.resp
  <2>1. run.outcome.is # "raised" /\ x.answer.resp = run.outcome
    BY <1>3, <1>6, ValueOf
  <2>2. runs = <<made>> /\ run.outcome = execute(setup, task.method, task.req)
    BY <1>1, <1>2, <2>1
  <2>3. 1 \in DOMAIN runs /\ runs[1] = made
    BY <2>2
  <2> QED BY <1>4, <2>1, <2>2, <2>3
<1> QED BY <1>5, <1>6 DEF Paid, runs

LEMMA ResponseScheduled ==
  ASSUME NEW s, IsServer(setup, s), NEW answer
  PROVE  LET q == schedule_response(s, answer)
         IN  q.open = s.open /\ q.mask = {"OUTPUT"}
<1> DEFINE q == schedule_response(s, answer)
<1>1. s \in [open : BOOLEAN, mask : SUBSET {"INPUT", "OUTPUT"}, preader : {s.preader},
            keep_alive : {s.keep_alive}, response : {s.response}, executing : {s.executing}]
  BY DEF IsServer
<1>2. \E response : q = [s EXCEPT !.mask = {"OUTPUT"}, !.executing = {}, !.response = response]
  BY DEF schedule_response, RespondWith
<1> HIDE DEF q
<1>3. q.open = s.open /\ q.mask = {"OUTPUT"}
  BY <1>1, <1>2
<1> QED BY <1>3 DEF q

(* What becomes of a connection whose end has read something.              *)
LEMMA HandledOnward ==
  ASSUME SetupKnown, NEW x, Proper(x, setup), NEW s, IsServer(setup, s), s.open,
         NEW r, IsReader(r), Within(r),
         s.mask = {"INPUT"} \/ s.mask = {"INPUT", "OUTPUT"}, NEW outcome,
         outcome.is \in {"incomplete", "error", "packet"},
         outcome.is = "packet" =>
           /\ s.mask = {"INPUT"} /\ outcome = Packet(x.packet[1], RequestContent(x.request))
           /\ Refusal(<<x.packet[1]>>, setup.ver_level) = 0
  PROVE  LET becomes == Handled([s EXCEPT !.preader = r], outcome, Asked(outcome))
         IN  becomes.conn.open /\ Onward(x, setup, s, becomes.conn, becomes.runs)
<1> DEFINE conn_ == [s EXCEPT !.preader = r]
           becomes == Handled(conn_, outcome, Asked(outcome))
<1> SUFFICES becomes.conn.open /\ Onward(x, setup, s, becomes.conn, becomes.runs)
  OBVIOUS
<1>1. /\ s \in [open : BOOLEAN, mask : SUBSET {"INPUT", "OUTPUT"}, preader : {s.preader},
                keep_alive : {s.keep_alive}, response : {s.response}, executing : {s.executing}]
      /\ IsServer(setup, conn_)
  BY ServerMembers DEF IsServer
<1>2. conn_.open /\ conn_.mask = s.mask
  BY <1>1
<1>3. /\ conn_ \in [open : BOOLEAN, mask : SUBSET {"INPUT", "OUTPUT"}, preader : {conn_.preader},
                    keep_alive : {conn_.keep_alive}, response : {conn_.response},
                    executing : {conn_.executing}]
  BY <1>1 DEF IsServer
<1>4. "OUTPUT" \notin {"INPUT"} /\ "OUTPUT" \in {"INPUT", "OUTPUT"} /\ "OUTPUT" \in {"OUTPUT"}
      /\ {"INPUT"} # {"INPUT", "OUTPUT"} /\ {"OUTPUT"} # {"INPUT", "OUTPUT"}
  OBVIOUS
<1> HIDE DEF conn_, becomes
<1>5. CASE outcome.is = "incomplete"
  <2>1. becomes.conn = conn_ /\ becomes.runs = <<>>
    BY <1>5 DEF becomes, Handled, Becomes
  <2> QED BY <1>2, <2>1 DEF Onward, Yet, Turned
<1>6. CASE outcome.is = "error"
  <2>1. becomes.conn = handle_error(conn_, outcome.code) /\ becomes.runs = <<>>
    BY <1>6 DEF becomes, Handled, Becomes
  <2>2. becomes.conn.open /\ becomes.conn.mask = {"INPUT", "OUTPUT"}
    BY <1>2, <1>3, <2>1 DEF handle_error
  <2> QED BY <1>4, <2>1, <2>2 DEF Onward, Yet, Turned
<1>7. CASE outcome.is = "packet"
  <2> DEFINE packet == Packet(x.packet[1], RequestContent(x.request))
             task == schedule_execute(setup, packet)
             asked == [conn_ EXCEPT !.keep_alive = conn_keep_alive(outcome.header.options)]
  <2>1. /\ s.mask = {"INPUT"} /\ outcome = packet
        /\ IF task.is = "executes" THEN Due(x, setup, task) ELSE task = x.answer
    BY <1>7 DEF Proper
  <2>2. Asked(outcome) = task
    BY <1>7, <2>1 DEF Asked
  <2>3. task.is # "executes" /\ task.is = "responds" => task.resp.is # "value"
    BY NoValueYet
  <2> HIDE DEF packet, task
  <2>4. becomes = handle_request(asked, task)
    BY <1>7, <2>2 DEF becomes, Handled
  <2>5. IsServer(setup, asked) /\ asked.open /\ asked.mask = {"INPUT"}
    BY <1>1, <1>2, <1>3, <2>1, ServerMembers
  <2>6. asked \in [open : BOOLEAN, mask : SUBSET {"INPUT", "OUTPUT"}, preader : {asked.preader},
                   keep_alive : {asked.keep_alive}, response : {asked.response},
                   executing : {asked.executing}]
    BY <2>5 DEF IsServer
  <2>7. Yet(s) /\ ~ Turned(s)
    BY <1>4, <2>1 DEF Yet, Turned
  <2> HIDE DEF asked
  <2>8. CASE task.is # "executes"
    <3>1. becomes.conn = schedule_response(asked, task) /\ becomes.runs = <<>> /\ task = x.answer
      BY <2>1, <2>4, <2>8 DEF handle_request, Becomes
    <3>2. becomes.conn.open /\ becomes.conn.mask = {"OUTPUT"}
      BY <2>5, <3>1, ResponseScheduled
    <3>3. RunOnce(x, setup, becomes.runs) /\ Paid(x, setup, becomes.runs)
      BY <2>3, <2>8, <3>1 DEF RunOnce, Paid
    <3> QED BY <1>4, <2>7, <3>2, <3>3 DEF Onward, Yet
  <2>9. CASE task.is = "executes" /\ setup.executor # "pool"
    <3>1. becomes = Executed(asked, task) /\ Due(x, setup, task)
      BY <2>1, <2>4, <2>9 DEF handle_request
    <3>2. \E answer : becomes.conn = schedule_response(asked, answer)
      BY <3>1 DEF Executed, Becomes
    <3>3. becomes.conn.open /\ becomes.conn.mask = {"OUTPUT"}
      BY <2>5, <3>2, ResponseScheduled
    <3>4. RunOnce(x, setup, becomes.runs) /\ Paid(x, setup, becomes.runs)
      BY <3>1, RunsForCall
    <3> QED BY <1>4, <2>7, <3>3, <3>4 DEF Onward, Yet
  <2>10. CASE task.is = "executes" /\ setup.executor = "pool"
    <3>1. becomes.conn = [asked EXCEPT !.mask = {}, !.executing = {task}] /\ becomes.runs = <<>>
      BY <2>4, <2>10 DEF handle_request, Becomes
    <3>2. becomes.conn.open /\ becomes.conn.mask = {}
      BY <2>5, <2>6, <3>1
    <3> QED BY <2>7, <3>1, <3>2 DEF Onward, Yet
  <2> QED BY <2>8, <2>9, <2>10
<1> QED BY <1>5, <1>6, <1>7

LEMMA InputOnward ==
  ASSUME SetupKnown, NEW x, Proper(x, setup), NEW s, IsServer(setup, s), NEW ts, Sound(ts),
         NEW tc, NEW out, NEW rd, Exchange(x, setup, s, ts, tc, out, rd),
         s.open, "INPUT" \in s.mask, NEW j \in 1 .. Len(ts)
  PROVE  LET read == read_packet(s.preader, SubSeq(ts, 1, j), max_request_sz, setup.ver_level)
             conn_ == [s EXCEPT !.preader = read.reader]
             becomes == Handled(conn_, read.outcome, Asked(read.outcome))
         IN  /\ becomes.conn.open
             /\ Exchange(x, setup, becomes.conn, Rest(ts, j), tc, out, rd)
             /\ Onward(x, setup, s, becomes.conn, becomes.runs)
<1> DEFINE read == read_packet(s.preader, SubSeq(ts, 1, j), max_request_sz, setup.ver_level)
           conn_ == [s EXCEPT !.preader = read.reader]
           becomes == Handled(conn_, read.outcome, Asked(read.outcome))
<1>1. IsReader(read.reader) /\ Within(read.reader)
  <2>1. IsReader(s.preader) /\ Within(s.preader) /\ Sound(SubSeq(ts, 1, j))
    BY FirstOf DEF IsServer
  <2> QED BY <2>1, ReadPacket
<1>2. read.outcome.is \in {"incomplete", "error", "packet"}
  BY OutcomeIs
<1>3. CASE Reads(x, setup, s, ts, tc, out, rd)
  <2>1. s.mask = {"INPUT"}
    BY <1>3 DEF Reads
  <2>2. /\ Exchange(x, setup, becomes.conn, Rest(ts, j), tc, out, rd)
        /\ read.outcome.is = "packet" =>
             /\ read.outcome = Packet(x.packet[1], RequestContent(x.request))
             /\ Refusal(<<x.packet[1]>>, setup.ver_level) = 0
    BY <1>3, ReadsOn
  <2> DEFINE r == read.reader  outcome == read.outcome
  <2> HIDE DEF read
  <2>3. /\ IsReader(r) /\ Within(r) /\ outcome.is \in {"incomplete", "error", "packet"}
        /\ outcome.is = "packet" =>
             /\ outcome = Packet(x.packet[1], RequestContent(x.request))
             /\ Refusal(<<x.packet[1]>>, setup.ver_level) = 0
    BY <1>1, <1>2, <2>2
  <2> HIDE DEF r, outcome
  <2>4. LET new == Handled([s EXCEPT !.preader = r], outcome, Asked(outcome))
        IN  new.conn.open /\ Onward(x, setup, s, new.conn, new.runs)
    BY <2>1, <2>3, HandledOnward
  <2> QED BY <2>2, <2>4 DEF r, outcome, read
<1>4. CASE TurnsAway(x, setup, s, ts, tc, out, rd)
  <2>1. s.mask = {"INPUT", "OUTPUT"}
    BY <1>4 DEF TurnsAway
  <2>2. /\ Exchange(x, setup, becomes.conn, Rest(ts, j), tc, out, rd)
        /\ read.outcome.is # "packet"
    BY <1>4, RefusesOn
  <2> DEFINE r == read.reader  outcome == read.outcome
  <2> HIDE DEF read
  <2>3. /\ IsReader(r) /\ Within(r) /\ outcome.is \in {"incomplete", "error", "packet"}
        /\ outcome.is = "packet" =>
             /\ s.mask = {"INPUT"} /\ outcome = Packet(x.packet[1], RequestContent(x.request))
             /\ Refusal(<<x.packet[1]>>, setup.ver_level) = 0
    BY <1>1, <1>2, <2>2
  <2> HIDE DEF r, outcome
  <2>4. LET new == Handled([s EXCEPT !.preader = r], outcome, Asked(outcome))
        IN  new.conn.open /\ Onward(x, setup, s, new.conn, new.runs)
    BY <2>1, <2>3, HandledOnward
  <2> QED BY <2>2, <2>4 DEF r, outcome, read
<1>5. Reads(x, setup, s, ts, tc, out, rd) \/ TurnsAway(x, setup, s, ts, tc, out, rd)
  <2>1. "INPUT" \notin {} /\ "INPUT" \notin {"OUTPUT"}
    OBVIOUS
  <2> QED BY <2>1 DEF Exchange, Works, Replies
<1> QED BY <1>3, <1>4, <1>5

LEMMA MethodOnward ==
  ASSUME SetupKnown, NEW x, Proper(x, setup), NEW s, IsServer(setup, s), NEW ts, NEW tc, NEW out, NEW rd,
         Exchange(x, setup, s, ts, tc, out, rd), NEW task \in s.executing
  PROVE  LET becomes == Executed(s, task)
         IN  /\ becomes.conn.open
             /\ Exchange(x, setup, becomes.conn, ts, tc, out, rd)
             /\ Onward(x, setup, s, becomes.conn, becomes.runs)
<1> DEFINE becomes == Executed(s, task)
<1>1. Works(x, setup, s, ts, tc, out, rd)
  BY DEF Exchange, Reads, Replies, TurnsAway
<1>2. Due(x, setup, task) /\ s.open /\ s.mask = {}
  BY <1>1 DEF Works
<1>3. Exchange(x, setup, becomes.conn, ts, tc, out, rd)
  BY WorksOff
<1>4. RunOnce(x, setup, becomes.runs) /\ Paid(x, setup, becomes.runs)
  BY <1>2, RunsForCall
<1>5. \E answer : becomes.conn = schedule_response(s, answer)
  BY DEF Executed, Becomes
<1> HIDE DEF becomes
<1>6. becomes.conn.open /\ becomes.conn.mask = {"OUTPUT"}
  BY <1>2, <1>5, ResponseScheduled
<1>7. Onward(x, setup, s, becomes.conn, becomes.runs)
  BY <1>2, <1>4, <1>6 DEF Onward, Yet
<1> QED BY <1>3, <1>6, <1>7 DEF becomes

(* What the server's end of connection c does is what call n asks for.     *)
Serving(c, n) ==
  IF server[c].open
  THEN \E tc, out, rd : Exchange(The(n), setup, server[c], to_server[c], tc, out, rd)
  ELSE server[c].executing = {}

(* A step of the server for connection c.                                  *)
ServingOn(c, runs) ==
  /\ executed' = executed \o runs
  /\ \A n \in Calls :
       Serving(c, n) => /\ Serving(c, n)' /\ Onward(The(n), setup, server[c], server'[c], runs)
                        /\ Yet(server[c]) => server'[c].open \/ c \in left

LEMMA InputServing ==
  ASSUME IInv, NEW c \in Conns, handle_input(c)
  PROVE  \E runs : ServingOn(c, runs)
<1>1. UNCHANGED serverOthers /\ Open(c) /\ "INPUT" \in server[c].mask
  BY DEF handle_input
<1>2. PICK k \in 1 .. Len(to_server[c]) :
        \E read \in {read_packet(server[c].preader, SubSeq(to_server[c], 1, k), max_request_sz,
                                  setup.ver_level)} :
        \E task \in {Asked(read.outcome)}, conn_ \in {[server[c] EXCEPT !.preader = read.reader]} :
        \E becomes \in {Handled(conn_, read.outcome, task)} :
          /\ to_server' = [to_server EXCEPT ![c] = Rest(@, k)]
          /\ server' = [server EXCEPT ![c] = becomes.conn]
          /\ executed' = executed \o becomes.runs
  BY ZenonT(60) DEF handle_input
<1> DEFINE s == server[c]  ts == to_server[c]
           read == read_packet(s.preader, SubSeq(ts, 1, k), max_request_sz, setup.ver_level)
           conn_ == [s EXCEPT !.preader = read.reader]
           becomes == Handled(conn_, read.outcome, Asked(read.outcome))
           rest == Rest(ts, k)
<1>3. /\ to_server' = [to_server EXCEPT ![c] = rest]
      /\ server' = [server EXCEPT ![c] = becomes.conn]
      /\ executed' = executed \o becomes.runs
  BY <1>2
<1>4. /\ c \in DOMAIN server /\ c \in DOMAIN to_server /\ SetupKnown /\ s.open
      /\ IsServer(setup, s) /\ Sound(ts)
  BY <1>1, ConnsAre DEF IInv, Pipes, Conns, Open
<1>5. ASSUME NEW n \in Calls, NEW tc, NEW out, NEW rd, Exchange(The(n), setup, s, ts, tc, out, rd)
      PROVE  /\ becomes.conn.open /\ Exchange(The(n), setup, becomes.conn, rest, tc, out, rd)
             /\ Onward(The(n), setup, s, becomes.conn, becomes.runs)
  <2> DEFINE x == The(n)
  <2>1. Proper(x, setup)
    BY CallIs
  <2> HIDE DEF x, s, ts
  <2> QED BY <1>1, <1>4, <1>5, <2>1, InputOnward DEF x, s, ts
<1> HIDE DEF becomes, rest
<1>6. server'[c] = becomes.conn /\ to_server'[c] = rest
  BY <1>3, <1>4
<1>7. ASSUME NEW n \in Calls, Serving(c, n)
      PROVE  /\ Serving(c, n)' /\ Onward(The(n), setup, s, server'[c], becomes.runs)
             /\ server'[c].open
  <2>1. PICK tc, out, rd : Exchange(The(n), setup, s, ts, tc, out, rd)
    BY <1>4, <1>7 DEF Serving
  <2>2. /\ server'[c].open /\ Exchange(The(n), setup, server'[c], to_server'[c], tc, out, rd)
        /\ Onward(The(n), setup, s, server'[c], becomes.runs)
    BY <1>5, <1>6, <2>1
  <2>3. The(n)' = The(n) /\ setup' = setup
    BY <1>1, TheSame DEF serverOthers
  <2> QED BY <2>2, <2>3 DEF Serving
<1> QED BY <1>3, <1>7 DEF ServingOn

LEMMA MethodServing ==
  ASSUME IInv, NEW c \in Conns, process_actual_execution(c)
  PROVE  \E runs : ServingOn(c, runs)
<1>1. UNCHANGED serverOthers /\ UNCHANGED to_server
  BY DEF process_actual_execution
<1> DEFINE s == server[c]  ts == to_server[c]
<1>2. PICK task \in s.executing :
        /\ executed' = executed \o Executed(s, task).runs
        /\ server' = [server EXCEPT ![c] = Executed(s, task).conn]
  BY DEF process_actual_execution
<1> DEFINE becomes == Executed(s, task)
<1>3. c \in DOMAIN server /\ SetupKnown /\ IsServer(setup, s)
  BY ConnsAre DEF IInv, Conns
<1>4. ASSUME NEW n \in Calls, NEW tc, NEW out, NEW rd, Exchange(The(n), setup, s, ts, tc, out, rd)
      PROVE  /\ becomes.conn.open /\ Exchange(The(n), setup, becomes.conn, ts, tc, out, rd)
             /\ Onward(The(n), setup, s, becomes.conn, becomes.runs)
  <2> DEFINE x == The(n)
  <2>1. Proper(x, setup)
    BY CallIs
  <2> HIDE DEF x, s, ts
  <2> QED BY <1>3, <1>4, <2>1, MethodOnward DEF x, s, ts
<1>5. executed' = executed \o becomes.runs /\ server' = [server EXCEPT ![c] = becomes.conn]
  BY <1>2
<1> HIDE DEF becomes
<1>6. server'[c] = becomes.conn /\ to_server' = to_server
  BY <1>1, <1>3, <1>5
<1>7. ASSUME NEW n \in Calls, Serving(c, n)
      PROVE  /\ Serving(c, n)' /\ Onward(The(n), setup, s, server'[c], becomes.runs)
             /\ server'[c].open
  <2>1. PICK tc, out, rd : Exchange(The(n), setup, s, ts, tc, out, rd)
    BY <1>2, <1>7 DEF Serving
  <2>2. /\ server'[c].open /\ Exchange(The(n), setup, server'[c], to_server'[c], tc, out, rd)
        /\ Onward(The(n), setup, s, server'[c], becomes.runs)
    BY <1>4, <1>6, <2>1
  <2>3. The(n)' = The(n) /\ setup' = setup
    BY <1>1, TheSame DEF serverOthers
  <2> QED BY <2>2, <2>3 DEF Serving
<1> QED BY <1>5, <1>7 DEF ServingOn

LEMMA LeftServing ==
  ASSUME IInv, IsText(executed), NEW c \in Conns, handle_input_closed(c) \/ handle_output_fails(c)
  PROVE  \E runs : ServingOn(c, runs)
<1>1. /\ UNCHANGED serverOthers /\ c \in left /\ executed' = executed
      /\ server' = [server EXCEPT ![c] = Gone]
      /\ server[c].open
  BY DEF handle_input_closed, handle_output_fails, Close, Gone, Open
<1>2. c \in DOMAIN server
  BY ConnsAre DEF Conns
<1>3. ~ server'[c].open /\ server'[c].executing = {}
  BY <1>1, <1>2, GoneIs
<1>4. executed' = executed \o <<>>
  BY <1>1, ConcatEmptySeq DEF IsText
<1>5. ASSUME NEW n \in Calls
      PROVE  Serving(c, n)' /\ Onward(The(n), setup, server[c], server'[c], <<>>)
  BY <1>3 DEF Serving, Onward, Yet, Turned
<1> QED BY <1>1, <1>4, <1>5 DEF ServingOn

(* The response, or the rest of it, is sent.                               *)
LEMMA OutputIs ==
  ASSUME IInv, NEW c \in Conns, handle_output(c)
  PROVE  \E k \in 1 .. Len(server[c].response) :
           LET piece == Sent(to_client[c], server[c].response, k)
               rest == [server[c] EXCEPT !.response = Rest(@, k)]
           IN  /\ to_client'[c] \in {to_client[c], piece, <<>>}
               /\ \/ server' = [server EXCEPT ![c] = rest] /\ UNCHANGED to_server
                  \/ k = Len(server[c].response) /\ server[c].keep_alive
                  \/ server' = [server EXCEPT ![c] = Gone]
<1> DEFINE response == server[c].response
           sent(k) == IF c \in left THEN to_client
                      ELSE [to_client EXCEPT ![c] = Sent(to_client[c], response, k)]
<1>1. PICK k \in 1 .. Len(response) :
        IF k < Len(response)
        THEN /\ server' = [server EXCEPT ![c] = [server[c] EXCEPT !.response = Rest(@, k)]]
             /\ to_client' = sent(k) /\ UNCHANGED to_server
        ELSE IF server[c].keep_alive
        THEN to_client' = sent(k)
        ELSE Close(c) /\ to_client' \in Lost(c, sent(k))
  BY DEF handle_output
<1>2. Len(response) \in Nat /\ c \in DOMAIN to_client
  <2>1. IsServer(setup, server[c])
    BY DEF IInv
  <2> QED BY <2>1, ConnsAre, TextIs DEF IsServer, Conns, IInv
<1>3. sent(k)[c] \in {to_client[c], Sent(to_client[c], response, k)} /\ c \in DOMAIN sent(k)
  BY <1>2
<1>4. ~ (k < Len(response)) => k = Len(response)
  <2> HIDE DEF response
  <2> QED BY <1>2
<1> HIDE DEF sent
<1>5. to_client' \in {sent(k), [sent(k) EXCEPT ![c] = <<>>]}
  BY <1>1 DEF Lost
<1>6. to_client'[c] \in {to_client[c], Sent(to_client[c], response, k), <<>>}
  BY <1>3, <1>5
<1>7. \/ server' = [server EXCEPT ![c] = [server[c] EXCEPT !.response = Rest(@, k)]] /\ UNCHANGED to_server
      \/ k = Len(response) /\ server[c].keep_alive
      \/ server' = [server EXCEPT ![c] = Gone]
  BY <1>1, <1>4 DEF Close, Gone
<1> QED BY <1>6, <1>7

LEMMA OutputServing ==
  ASSUME IInv, IsText(executed), NEW c \in Conns, handle_output(c)
  PROVE  \E runs : ServingOn(c, runs)
<1> DEFINE s == server[c]  ts == to_server[c]
<1>1. /\ UNCHANGED serverOthers /\ executed' = executed /\ s.open /\ "OUTPUT" \in s.mask
  BY DEF handle_output, Open
<1>2. PICK k \in 1 .. Len(s.response) :
        \/ server' = [server EXCEPT ![c] = [s EXCEPT !.response = Rest(@, k)]] /\ UNCHANGED to_server
        \/ k = Len(s.response) /\ s.keep_alive
        \/ server' = [server EXCEPT ![c] = Gone]
  BY OutputIs
<1>3. c \in DOMAIN server /\ SetupKnown /\ IsServer(setup, s)
  BY ConnsAre DEF IInv, Conns
<1>4. executed' = executed \o <<>>
  BY <1>1, ConcatEmptySeq DEF IsText
<1> DEFINE q == [s EXCEPT !.response = Rest(@, k)]
<1>5. q.open = s.open /\ q.mask = s.mask
  BY <1>3 DEF IsServer
<1>6. ~ Yet(s)
  BY <1>1 DEF Yet
<1>7. ASSUME NEW n \in Calls, Serving(c, n)
      PROVE  Serving(c, n)' /\ Onward(The(n), setup, s, server'[c], <<>>)
  <2>1. PICK tc, out, rd : Exchange(The(n), setup, s, ts, tc, out, rd)
    BY <1>1, <1>7 DEF Serving
  <2>2. ~ s.keep_alive /\ Exchange(The(n), setup, q, ts, Sent(tc, s.response, k), out, rd)
    <3> DEFINE x == The(n)
    <3>1. Proper(x, setup)
      BY CallIs
    <3> HIDE DEF x, s, ts
    <3> QED BY <1>1, <1>3, <2>1, <3>1, SendsOn DEF x, s, ts
  <2>3. The(n)' = The(n) /\ setup' = setup
    BY <1>1, TheSame DEF serverOthers
  <2>4. CASE server' = [server EXCEPT ![c] = q] /\ UNCHANGED to_server
    <3> HIDE DEF q
    <3>1. server'[c] = q /\ to_server'[c] = ts
      BY <1>3, <2>4
    <3>2. Serving(c, n)'
      BY <1>1, <1>5, <2>2, <2>3, <3>1 DEF Serving
    <3> QED BY <1>1, <1>5, <3>1, <3>2 DEF Onward, Yet, Turned
  <2>5. CASE server' = [server EXCEPT ![c] = Gone]
    <3>1. ~ server'[c].open /\ server'[c].executing = {}
      BY <1>3, <2>5, GoneIs
    <3> QED BY <1>6, <3>1 DEF Serving, Onward, Yet, Turned
  <2> QED BY <1>2, <2>2, <2>4, <2>5
<1> QED BY <1>4, <1>6, <1>7 DEF ServingOn

LEMMA StepServing ==
  ASSUME IInv, IsText(executed), NEW c \in Conns, Serve(c)
  PROVE  /\ \E runs : ServingOn(c, runs)
         /\ UNCHANGED serverOthers /\ Conns' = Conns
         /\ \A d \in Conns : d # c => server'[d] = server[d] /\ to_server'[d] = to_server[d]
<1>1. \E runs : ServingOn(c, runs)
  BY InputServing, MethodServing, LeftServing, OutputServing DEF Serve
<1>2. /\ UNCHANGED serverOthers
      /\ \E s : server' = [server EXCEPT ![c] = s]
      /\ to_server' = to_server \/ \E ts : to_server' = [to_server EXCEPT ![c] = ts]
  <2>1. CASE handle_input(c)
    BY <2>1, ZenonT(60) DEF handle_input
  <2>2. CASE handle_input_closed(c)
    BY <2>2 DEF handle_input_closed, Close
  <2>3. CASE process_actual_execution(c)
    BY <2>3 DEF process_actual_execution
  <2>4. CASE handle_output(c)
    BY <2>4 DEF handle_output, Close
  <2>5. CASE handle_output_fails(c)
    BY <2>5 DEF handle_output_fails, Close
  <2> QED BY <2>1, <2>2, <2>3, <2>4, <2>5 DEF Serve
<1>3. DOMAIN server' = DOMAIN server /\ DOMAIN to_server = DOMAIN server
  BY <1>2, ConnsAre DEF Conns
<1> QED BY <1>1, <1>2, <1>3 DEF Conns

-----------------------------------------------------------------------------
(* The runs of methods go with connections, and those with calls.          *)

(* The calls that connections belong to, in the order they were made; and  *)
(* what the server's end of a connection has come to.                      *)
Placed(g) ==
  /\ \A c, d \in Conns : c < d => g[c] < g[d]
  /\ \A c \in Conns : g[c] \in Calls /\ g[c] <= call /\ Serving(c, g[c])
  /\ phase # "idle" => conn = Len(server) /\ g[conn] = Len(results) + 1
  /\ ~ opts.timeout => \A c \in Conns : Yet(server[c]) => phase # "idle" /\ c = conn

(* The connections that runs belong to.                                    *)
Ran(g, h) ==
  /\ \A i \in DOMAIN executed :
       ~ Yet(server[h[i]]) /\ RunFor(The(g[h[i]]), setup, executed[i])
  /\ \A i, j \in DOMAIN executed : i < j => IF opts.timeout THEN h[i] # h[j] ELSE h[i] < h[j]

RunInv ==
  \E g \in [Conns -> Nat], h \in [DOMAIN executed -> Conns] : Placed(g) /\ Ran(g, h)

LEMMA RanStays ==
  ASSUME UNCHANGED <<opts, setup, executed>>, NEW g, NEW g2, NEW h \in [DOMAIN executed -> Conns], Ran(g, h),
         \A c \in Conns : (Yet(server'[c]) => Yet(server[c])) /\ g2[c] = g[c]
  PROVE  Ran(g2, h)'
<1>1. ASSUME NEW i \in DOMAIN executed
      PROVE  ~ Yet(server'[h[i]]) /\ RunFor(The(g2[h[i]])', setup, executed[i])
  <2>1. h[i] \in Conns
    OBVIOUS
  <2>2. ~ Yet(server[h[i]]) /\ RunFor(The(g[h[i]]), setup, executed[i])
    BY DEF Ran
  <2>3. The(g2[h[i]])' = The(g[h[i]])
    <3> DEFINE n == g2[h[i]]
    <3>1. n = g[h[i]]
      BY <2>1
    <3> HIDE DEF n
    <3>2. The(n)' = The(n)
      BY TheSame
    <3> QED BY <3>1, <3>2 DEF n
  <2> QED BY <2>1, <2>2, <2>3
<1>2. \A i, j \in DOMAIN executed : i < j => IF opts.timeout THEN h[i] # h[j] ELSE h[i] < h[j]
  BY DEF Ran
<1> QED BY <1>1, <1>2 DEF Ran

(* A call goes on, or is over.                                             *)
LEMMA PlacedStays ==
  ASSUME IInv, NEW g, Placed(g), UNCHANGED <<opts, setup, server>>, call <= call', call' \in Nat,
         phase' # "idle" => phase # "idle" /\ conn' = conn /\ results' = results,
         \A c \in Conns, n \in Calls :
           Serving(c, n) /\ (phase # "idle" /\ c = conn => n = Len(results) + 1) => Serving(c, n)',
         ~ opts.timeout /\ phase # "idle" /\ phase' = "idle" => ~ Yet(server[conn])
  PROVE  Placed(g)'
<1>1. Conns' = Conns /\ Calls' = Calls
  BY DEF Conns, Calls
<1>2. ASSUME NEW c \in Conns
      PROVE  g[c] \in Calls /\ g[c] <= call' /\ Serving(c, g[c])'
  <2> DEFINE n == g[c]
  <2>1. n \in Calls /\ n <= call /\ Serving(c, n) /\ (phase # "idle" /\ c = conn => n = Len(results) + 1)
    BY DEF Placed
  <2>2. call \in Nat /\ n \in Nat
    <3>1. Len(results) \in Nat
      BY TextIs DEF IInv
    <3> HIDE DEF n
    <3> QED BY <2>1, <3>1, CallAsks DEF call
  <2> HIDE DEF n
  <2>3. Serving(c, n)' /\ n <= call'
    BY <2>1, <2>2
  <2> QED BY <2>1, <2>3 DEF n
<1>3. \A c, d \in Conns : c < d => g[c] < g[d]
  BY DEF Placed
<1>4. phase' # "idle" => conn' = Len(server') /\ g[conn'] = Len(results') + 1
  BY DEF Placed
<1>5. ~ opts.timeout => \A c \in Conns : Yet(server[c]) => phase' # "idle" /\ c = conn'
  BY DEF Placed
<1> QED BY <1>1, <1>2, <1>3, <1>4, <1>5 DEF Placed

LEMMA BeginsPlaced ==
  ASSUME IInv, OwnInv, OwnInv', ~ opts.keep_alive, execute_on_new, RunInv
  PROVE  RunInv'
<1>1. PICK g \in [Conns -> Nat], h \in [DOMAIN executed -> Conns] : Placed(g) /\ Ran(g, h)
  BY DEF RunInv
<1>2. /\ phase = "idle" /\ phase' # "idle" /\ conn' = Len(server) + 1
      /\ Len(results) < Len(opts.requests)
      /\ UNCHANGED <<opts, setup, results, executed>>
      /\ server' = Append(server, Accepted)
      /\ to_server' = Append(to_server, <<>>)
  BY DEF execute_on_new, StartCall
<1>3. /\ Len(server) \in Nat /\ Conns = 1 .. Len(server) /\ Len(results) \in Nat
      /\ IsText(server) /\ IsText(to_server) /\ Len(to_server) = Len(server)
      /\ Len(opts.requests) \in Nat
  BY ConnsAre, TextIs, OptionsAre DEF IInv
<1>4. /\ Conns' = 1 .. Len(server) + 1 /\ Len(server') = Len(server) + 1
      /\ server'[conn'] = Accepted
      /\ \A c \in Conns : server'[c] = server[c] /\ to_server'[c] = to_server[c]
  BY <1>2, <1>3, TextAppended DEF Conns
<1>n. PICK new \in Nat : new = Len(results) + 1
  BY <1>3
<1>5. PICK g2 \in [1 .. Len(server) + 1 -> Nat] :
        /\ g2[Len(server) + 1] = new
        /\ \A c \in Conns : g2[c] = g[c] /\ g[c] \in Nat /\ c # Len(server) + 1
  <2> DEFINE top == Len(server) + 1
             q == [c \in 1 .. top |-> IF c = top THEN new ELSE g[c]]
  <2>1. top \in 1 .. top /\ \A c \in 1 .. top : c # top => c \in Conns
    <3> DEFINE l == Len(server)
    <3>1. l \in Nat /\ Conns = 1 .. l
      BY <1>3
    <3> HIDE DEF l
    <3>2. l + 1 \in 1 .. l + 1 /\ \A c \in 1 .. l + 1 : c # l + 1 => c \in Conns
      BY ONLY <3>1
    <3> QED BY <3>2 DEF l
  <2>2. \A c \in Conns : c \in 1 .. top /\ c # top /\ g[c] \in Nat
    BY <1>1, <1>3
  <2> HIDE DEF top
  <2>3. q \in [1 .. top -> Nat] /\ q[top] = new /\ \A c \in Conns : q[c] = g[c]
    BY <2>1, <2>2
  <2> HIDE DEF q
  <2> QED BY <2>2, <2>3 DEF top
<1>6. call = Len(results) /\ call' = new
  BY <1>2, <1>3, <1>n DEF call
<1>7. \A c, d \in 1 .. Len(server) + 1 : c < d => g2[c] < g2[d]
  <2> SUFFICES ASSUME NEW c \in 1 .. Len(server) + 1, NEW d \in 1 .. Len(server) + 1, c < d
               PROVE  g2[c] < g2[d]
    OBVIOUS
  <2>1. c \in Conns /\ g[c] <= Len(results)
    BY <1>1, <1>3, <1>6 DEF Placed
  <2>2. CASE d = Len(server) + 1
    BY <1>3, <1>n, <1>5, <2>1, <2>2
  <2>3. CASE d # Len(server) + 1
    <3>1. d \in Conns
      BY <1>3, <2>3
    <3> QED BY <1>1, <1>5, <2>1, <3>1 DEF Placed
  <2> QED BY <2>2, <2>3
<1>8. ASSUME NEW c \in 1 .. Len(server) + 1
      PROVE  g2[c] \in Calls' /\ g2[c] <= call' /\ Serving(c, g2[c])'
  <2>1. CASE c = Len(server) + 1
    <3>1. new \in Calls' /\ new <= call'
      BY <1>2, <1>3, <1>n, <1>6 DEF Calls
    <3>2. Exchange(The(new)', setup', server'[c], to_server'[c], to_client'[c], out_str', preader')
      <4>1. Exchanging'
        BY <1>2 DEF OwnInv
      <4>2. Exchange(Current', setup', server'[conn'], to_server'[conn'], to_client'[conn'],
                     out_str', preader')
        BY <1>2, <4>1 DEF Exchanging
      <4>3. Current' = The(new)'
        BY <1>2, <1>n DEF Current
      <4> QED BY <1>2, <2>1, <4>2, <4>3
    <3>3. server'[c].open
      BY <1>2, <1>4, <2>1 DEF Accepted
    <3>4. Serving(c, new)'
      BY <3>2, <3>3 DEF Serving
    <3> QED BY <1>5, <2>1, <3>1, <3>4
  <2>2. CASE c # Len(server) + 1
    <3> DEFINE n == g[c]
    <3>1. c \in Conns
      BY <1>3, <2>2
    <3>2. n \in Calls /\ n <= call /\ Serving(c, n) /\ g2[c] = n /\ n \in Nat
      BY <1>1, <1>5, <3>1 DEF Placed
    <3> HIDE DEF n
    <3>3. The(n)' = The(n)
      BY <1>2, TheSame
    <3>4. Serving(c, n)'
      BY <1>2, <1>4, <3>1, <3>2, <3>3 DEF Serving
    <3>5. n \in Calls' /\ n <= call'
      BY <1>2, <1>3, <1>n, <1>6, <3>2 DEF Calls
    <3> QED BY <3>2, <3>4, <3>5
  <2> QED BY <2>1, <2>2
<1>9. ASSUME ~ opts.timeout, NEW c \in 1 .. Len(server) + 1, Yet(server'[c])
      PROVE  phase' # "idle" /\ c = conn'
  <2>1. CASE c \in Conns
    BY <1>1, <1>2, <1>4, <1>9, <2>1 DEF Placed
  <2>2. CASE c \notin Conns
    BY <1>2, <1>3, <2>2
  <2> QED BY <2>1, <2>2
<1>10. Placed(g2)'
  <2>1. phase' # "idle" => conn' = Len(server') /\ g2[conn'] = Len(results') + 1
    BY <1>2, <1>4, <1>n, <1>5
  <2>2. Conns' = 1 .. Len(server) + 1
    BY <1>4
  <2> QED BY <1>2, <1>7, <1>8, <1>9, <2>1, <2>2 DEF Placed
<1>11. Ran(g2, h)'
  <2>1. \A c \in Conns : (Yet(server'[c]) => Yet(server[c])) /\ g2[c] = g[c]
    BY <1>4, <1>5
  <2> QED BY <1>1, <1>2, <2>1, RanStays
<1>12. g2 \in [Conns' -> Nat] /\ h \in [DOMAIN executed' -> Conns']
  <2>1. Conns \subseteq Conns'
    BY <1>3, <1>4
  <2> QED BY <1>2, <1>4, <2>1
<1> QED BY <1>10, <1>11, <1>12 DEF RunInv

(* What the client's steps on a connection it has change.                  *)
LEMMA ClientOn ==
  ASSUME IInv, OwnInv, OwnInv', ~ opts.keep_alive,
         client_handle_output \/ output_fails \/ client_handle_input \/ input_fails \/ Client_timeout
  PROVE  /\ UNCHANGED <<opts, setup, server, executed>> /\ phase # "idle"
         /\ \/ phase' # "idle" /\ conn' = conn /\ results' = results
            \/ /\ phase' = "idle" /\ \E result : results' = Append(results, result)
               /\ opts.timeout \/ ~ Yet(server[conn])
               /\ to_server' = to_server
         /\ \A c \in Conns : c # conn => to_server'[c] = to_server[c]
<1>1. /\ UNCHANGED <<opts, setup, server, executed>> /\ phase # "idle"
  BY DEF client_handle_output, output_fails, client_handle_input, input_fails, Client_timeout
<1>2. conn \in DOMAIN to_server /\ DOMAIN to_server = Conns
  BY <1>1, CallGoing, ConnsAre
<1>3. CASE client_handle_output
  <2>1. phase' = phase /\ conn' = conn /\ results' = results
    BY <1>3 DEF client_handle_output
  <2>2. to_server' = to_server \/ \E ts : to_server' = [to_server EXCEPT ![conn] = ts]
    BY <1>3 DEF client_handle_output
  <2> QED BY <1>1, <1>2, <2>1, <2>2
<1>4. CASE output_fails
  <2>1. ~ Open(conn) /\ EndCall(Threw_("network", 0), mask, to_client) /\ to_server' = to_server
    BY <1>4 DEF output_fails
  <2> QED BY <1>1, <2>1 DEF EndCall, Yet, Open
<1>5. CASE input_fails
  <2>1. /\ ~ Open(conn) \/ opts.timeout
        /\ EndCall(Threw_("network", 0), mask, to_client) /\ to_server' = to_server
    BY <1>5 DEF input_fails
  <2> QED BY <1>1, <2>1 DEF EndCall, Yet, Open
<1>6. CASE Client_timeout
  <2>1. opts.timeout /\ EndCall(Threw_("timeout", 0), mask, to_client) /\ to_server' = to_server
    BY <1>6 DEF Client_timeout
  <2> QED BY <1>1, <2>1 DEF EndCall
<1>7. CASE client_handle_input
  <2>1. to_server' = to_server /\ \E k : k \in 1 .. Len(to_client[conn])
    BY <1>7, ZenonT(60) DEF client_handle_input
  <2>2. to_client[conn] # <<>>
    BY <2>1, EmptyText
  <2>3. ~ Yet(server[conn])
    <3>1. Exchange(Current, setup, server[conn], to_server[conn], to_client[conn], out_str, preader)
      BY <1>1, CallGoing
    <3>2. "OUTPUT" \in {"OUTPUT"} /\ "OUTPUT" \in {"INPUT", "OUTPUT"}
      OBVIOUS
    <3> QED BY <2>2, <3>1, <3>2 DEF Exchange, Reads, Works, Replies, TurnsAway, Yet
  <2>4. \/ \E result, pipes, events : EndCall(result, events, pipes)
        \/ phase' \in {"receiving", "events"} /\ UNCHANGED <<conn, results>>
    <3>1. \E k \in 1 .. Len(to_client[conn]) : \E ver_level \in Levels :
          \E read \in {read_packet(preader, SubSeq(to_client[conn], 1, k), 0, ver_level)} :
            LET rest == [to_client EXCEPT ![conn] = Rest(@, k)]
            IN  CASE read.outcome.is = "packet" ->
                       EndCall(Returned(read.outcome), {}, rest)
                  [] read.outcome.is = "error" ->
                       EndCall(Threw_("malformed", 0), mask, rest)
                  [] OTHER ->
                       /\ phase' = IF k = read_buf_sz THEN "receiving" ELSE "events"
                       /\ UNCHANGED <<conn, results>>
      BY <1>7, ZenonT(60) DEF client_handle_input
    <3> QED BY <3>1
  <2>5. ("receiving" # "idle") /\ ("events" # "idle")
    OBVIOUS
  <2> QED BY <1>1, <2>1, <2>3, <2>4, <2>5 DEF EndCall
<1> QED BY <1>3, <1>4, <1>5, <1>6, <1>7

LEMMA ClientPlaced ==
  ASSUME IInv, OwnInv, OwnInv', ~ opts.keep_alive, RunInv,
         client_handle_output \/ output_fails \/ client_handle_input \/ input_fails \/ Client_timeout
  PROVE  RunInv'
<1>1. PICK g \in [Conns -> Nat], h \in [DOMAIN executed -> Conns] : Placed(g) /\ Ran(g, h)
  BY DEF RunInv
<1>2. /\ UNCHANGED <<opts, setup, server, executed>> /\ phase # "idle"
      /\ \/ phase' # "idle" /\ conn' = conn /\ results' = results
         \/ /\ phase' = "idle" /\ \E result : results' = Append(results, result)
            /\ opts.timeout \/ ~ Yet(server[conn])
            /\ to_server' = to_server
      /\ \A c \in Conns : c # conn => to_server'[c] = to_server[c]
  BY ClientOn
<1>3. IsText(results) /\ Len(results) \in Nat /\ conn \in Conns
  BY <1>2, TextIs, Connected DEF IInv
<1>4. call <= call' /\ call' \in Nat
  <2>1. CASE phase' # "idle" /\ results' = results
    BY <1>2, <1>3, <2>1 DEF call
  <2>2. CASE phase' = "idle" /\ \E result : results' = Append(results, result)
    <3>1. Len(results') = Len(results) + 1
      BY <1>3, <2>2, TextAppended
    <3> QED BY <1>2, <1>3, <2>2, <3>1 DEF call
  <2> QED BY <1>2, <2>1, <2>2
<1>5. ASSUME NEW c \in Conns, NEW n \in Calls, Serving(c, n), c = conn => n = Len(results) + 1
      PROVE  Serving(c, n)'
  <2>1. The(n)' = The(n)
    BY <1>2, TheSame
  <2>2. CASE to_server'[c] = to_server[c]
    BY <1>2, <1>5, <2>1, <2>2 DEF Serving
  <2>3. CASE to_server'[c] # to_server[c]
    <3>1. c = conn /\ phase' # "idle" /\ conn' = conn /\ results' = results
      BY <1>2, <2>3
    <3>2. Exchanging'
      BY <1>2 DEF OwnInv
    <3>3. Exchange(Current', setup', server'[conn'], to_server'[conn'], to_client'[conn'], out_str', preader')
      BY <3>1, <3>2 DEF Exchanging
    <3>4. Current' = The(n)'
      BY <1>5, <3>1 DEF Current
    <3>5. Exchange(The(n)', setup', server'[c], to_server'[c], to_client'[conn'], out_str', preader')
      BY <3>1, <3>3, <3>4
    <3>6. CASE server[c].open
      BY <1>2, <3>5, <3>6 DEF Serving
    <3>7. CASE ~ server[c].open
      BY <1>2, <1>5, <3>7 DEF Serving
    <3> QED BY <3>6, <3>7
  <2> QED BY <2>2, <2>3
<1>6. Placed(g)'
  <2>1. phase' # "idle" => phase # "idle" /\ conn' = conn /\ results' = results
    BY <1>2
  <2>2. \A c \in Conns, n \in Calls :
          Serving(c, n) /\ (phase # "idle" /\ c = conn => n = Len(results) + 1) => Serving(c, n)'
    BY <1>2, <1>5
  <2>3. ~ opts.timeout /\ phase # "idle" /\ phase' = "idle" => ~ Yet(server[conn])
    BY <1>2
  <2> QED BY <1>1, <1>2, <1>4, <2>1, <2>2, <2>3, PlacedStays
<1>7. Ran(g, h)'
  <2>1. \A c \in Conns : (Yet(server'[c]) => Yet(server[c])) /\ g[c] = g[c]
    BY <1>2
  <2> QED BY <1>1, <1>2, <2>1, RanStays
<1> QED BY <1>1, <1>2, <1>6, <1>7 DEF RunInv, Conns

LEMMA RefusedPlaced ==
  ASSUME IInv, ~ opts.keep_alive, RunInv, connect_fails
  PROVE  RunInv'
<1>1. PICK g \in [Conns -> Nat], h \in [DOMAIN executed -> Conns] : Placed(g) /\ Ran(g, h)
  BY DEF RunInv
<1>2. /\ UNCHANGED <<opts, setup, server, executed, to_server, phase>> /\ phase = "idle"
      /\ results' = Append(results, Threw_("connect", 0))
  BY DEF connect_fails
<1>3. IsText(results) /\ Len(results) \in Nat
  BY TextIs DEF IInv
<1>4. call <= call' /\ call' \in Nat
  <2>1. Len(results') = Len(results) + 1
    BY <1>2, <1>3, TextAppended
  <2> QED BY <1>2, <1>3, <2>1 DEF call
<1>5. ASSUME NEW c \in Conns, NEW n \in Calls, Serving(c, n)
      PROVE  Serving(c, n)'
  <2>1. The(n)' = The(n)
    BY <1>2, TheSame
  <2> QED BY <1>2, <1>5, <2>1 DEF Serving
<1>6. Placed(g)'
  <2>1. phase' # "idle" => phase # "idle" /\ conn' = conn /\ results' = results
    BY <1>2
  <2>2. \A c \in Conns, n \in Calls :
          Serving(c, n) /\ (phase # "idle" /\ c = conn => n = Len(results) + 1) => Serving(c, n)'
    BY <1>5
  <2>3. ~ opts.timeout /\ phase # "idle" /\ phase' = "idle" => ~ Yet(server[conn])
    BY <1>2
  <2> QED BY <1>1, <1>2, <1>4, <2>1, <2>2, <2>3, PlacedStays
<1>7. Ran(g, h)'
  <2>1. \A c \in Conns : (Yet(server'[c]) => Yet(server[c])) /\ g[c] = g[c]
    BY <1>2
  <2> QED BY <1>1, <1>2, <2>1, RanStays
<1> QED BY <1>1, <1>2, <1>6, <1>7 DEF RunInv, Conns

(* The server's end of a connection makes a run, and will make no other.   *)
LEMMA RanAdded ==
  ASSUME UNCHANGED <<opts, setup>>, Conns' = Conns, IsText(executed),
         NEW run, executed' = executed \o <<run>>,
         NEW g, NEW h \in [DOMAIN executed -> Conns], Ran(g, h), NEW c \in Conns,
         Yet(server[c]), ~ Yet(server'[c]), RunFor(The(g[c]), setup, run),
         \A d \in Conns : d # c => server'[d] = server[d],
         ~ opts.timeout => \A d \in Conns : d <= c, Conns \subseteq Nat
  PROVE  \E h2 \in [DOMAIN executed' -> Conns'] : Ran(g, h2)'
<1> DEFINE l == Len(executed)
<1>1. l \in Nat /\ DOMAIN executed = 1 .. l /\ executed \in Seq(Range(executed))
  BY TextIs
<1>2. /\ DOMAIN executed' = 1 .. l + 1 /\ executed'[l + 1] = run
      /\ \A i \in 1 .. l : executed'[i] = executed[i]
  <2>1. executed' = Append(executed, run)
    BY <1>1
  <2> QED BY <2>1, TextAppended
<1> HIDE DEF l
<1>3. PICK h2 \in [1 .. l + 1 -> Conns] : h2[l + 1] = c /\ \A i \in 1 .. l : h2[i] = h[i]
  <2> DEFINE q == [i \in 1 .. l + 1 |-> IF i = l + 1 THEN c ELSE h[i]]
  <2>1. q \in [1 .. l + 1 -> Conns] /\ q[l + 1] = c /\ \A i \in 1 .. l : q[i] = h[i]
    BY <1>1
  <2> HIDE DEF q
  <2> QED BY <2>1
<1>4. \A i \in 1 .. l : /\ h2[i] = h[i] /\ h[i] \in Conns /\ h[i] # c
                        /\ ~ Yet(server'[h[i]])
                        /\ RunFor(The(g[h[i]]), setup, executed[i])
  BY <1>1, <1>3 DEF Ran
<1>5. ASSUME NEW i \in 1 .. l + 1
      PROVE  ~ Yet(server'[h2[i]]) /\ RunFor(The(g[h2[i]])', setup, executed'[i])
  <2> DEFINE n == g[h2[i]]
  <2>1. ~ Yet(server'[h2[i]]) /\ RunFor(The(n), setup, executed'[i])
    <3>1. CASE i = l + 1
      BY <1>2, <1>3, <3>1
    <3>2. CASE i # l + 1
      <4>1. i \in 1 .. l
        BY <1>1, <3>2
      <4> QED BY <1>2, <1>4, <4>1
    <3> QED BY <3>1, <3>2
  <2> HIDE DEF n
  <2>2. The(n)' = The(n)
    BY TheSame
  <2> QED BY <2>1, <2>2 DEF n
<1>6. ASSUME NEW i \in 1 .. l + 1, NEW j \in 1 .. l + 1, i < j
      PROVE  IF opts.timeout THEN h2[i] # h2[j] ELSE h2[i] < h2[j]
  <2>1. i \in 1 .. l /\ h2[i] = h[i] /\ h[i] # c /\ h[i] \in Conns
    BY <1>1, <1>4, <1>6
  <2>2. CASE j = l + 1
    <3>1. ~ opts.timeout => h[i] < c
      <4>1. h[i] \in Nat /\ c \in Nat /\ (~ opts.timeout => h[i] <= c)
        BY <2>1
      <4> QED BY <2>1, <4>1
    <3> QED BY <1>3, <2>1, <2>2, <3>1
  <2>3. CASE j # l + 1
    <3>1. j \in 1 .. l /\ h2[j] = h[j]
      BY <1>1, <1>4, <2>3
    <3> QED BY <1>1, <1>6, <2>1, <3>1 DEF Ran
  <2> QED BY <2>2, <2>3
<1>7. Ran(g, h2)'
  BY <1>2, <1>5, <1>6 DEF Ran
<1> QED BY <1>2, <1>3, <1>7

LEMMA ServedPlaced ==
  ASSUME IInv, IsText(executed), ~ opts.keep_alive, RunInv, NEW c \in Conns, Serve(c)
  PROVE  RunInv'
<1>1. PICK g \in [Conns -> Nat], h \in [DOMAIN executed -> Conns] : Placed(g) /\ Ran(g, h)
  BY DEF RunInv
<1>2. PICK runs : ServingOn(c, runs)
  BY StepServing
<1>3. /\ UNCHANGED <<opts, setup, phase, conn, results, left>> /\ Conns' = Conns
      /\ \A d \in Conns : d # c => server'[d] = server[d] /\ to_server'[d] = to_server[d]
  BY StepServing DEF serverOthers
<1>4. /\ Len(server') = Len(server) /\ Len(server) \in Nat /\ Conns = 1 .. Len(server)
      /\ Len(results) \in Nat
  <2>1. Conns = 1 .. Len(server) /\ Len(server) \in Nat /\ IsText(server)
    BY ConnsAre DEF IInv
  <2>2. IInv'
    BY Served
  <2>3. Conns' = 1 .. Len(server') /\ Len(server') \in Nat
    BY <2>2, TextIs DEF IInv, Conns
  <2>4. Len(results) \in Nat
    BY TextIs DEF IInv
  <2> QED BY <1>3, <2>1, <2>3, <2>4
<1> DEFINE n == g[c]
<1>5. n \in Calls /\ Serving(c, n)
  BY <1>1 DEF Placed
<1> HIDE DEF n
<1>6. /\ executed' = executed \o runs /\ Serving(c, n)'
      /\ Onward(The(n), setup, server[c], server'[c], runs)
  BY <1>2, <1>5 DEF ServingOn
<1>7. ASSUME NEW d \in Conns
      PROVE  (Yet(server'[d]) => Yet(server[d])) /\ Serving(d, g[d])'
  <2>1. CASE d = c
    BY <1>6, <2>1 DEF Onward, n
  <2>2. CASE d # c
    <3> DEFINE m == g[d]
    <3>1. Serving(d, m)
      BY <1>1 DEF Placed
    <3> HIDE DEF m
    <3>2. The(m)' = The(m)
      BY <1>3, TheSame
    <3>3. Serving(d, m)'
      BY <1>3, <2>2, <3>1, <3>2 DEF Serving
    <3> QED BY <1>3, <2>2, <3>3 DEF m
  <2> QED BY <2>1, <2>2
<1>8. Placed(g)'
  <2>1. call' = call /\ Calls' = Calls
    BY <1>3 DEF call, Calls
  <2>2. \A d \in Conns : g[d] \in Calls /\ g[d] <= call /\ Serving(d, g[d])'
    BY <1>1, <1>7 DEF Placed
  <2>3. ~ opts.timeout => \A d \in Conns : Yet(server'[d]) => phase # "idle" /\ d = conn
    BY <1>1, <1>7 DEF Placed
  <2>4. \A d, e \in Conns : d < e => g[d] < g[e]
    BY <1>1 DEF Placed
  <2>5. phase # "idle" => conn = Len(server') /\ g[conn] = Len(results) + 1
    BY <1>1, <1>4 DEF Placed
  <2> QED BY <1>3, <2>1, <2>2, <2>3, <2>4, <2>5 DEF Placed
<1>9. CASE runs = <<>>
  <2>1. executed' = executed
    BY <1>6, <1>9, ConcatEmptySeq DEF IsText
  <2>2. \A d \in Conns : (Yet(server'[d]) => Yet(server[d])) /\ g[d] = g[d]
    BY <1>7
  <2>3. Ran(g, h)'
    BY <1>1, <1>3, <2>1, <2>2, RanStays
  <2> QED BY <1>1, <1>3, <1>8, <2>1, <2>3 DEF RunInv
<1>10. CASE runs # <<>>
  <2>1. Yet(server[c]) /\ ~ Yet(server'[c]) /\ RunOnce(The(n), setup, runs)
    BY <1>6, <1>10 DEF Onward
  <2>2. PICK run : runs = <<run>> /\ RunFor(The(n), setup, run)
    BY <1>10, <2>1 DEF RunOnce
  <2>3. ~ opts.timeout => \A d \in Conns : d <= c
    BY <1>1, <1>4, <2>1 DEF Placed
  <2>4. Conns \subseteq Nat /\ RunFor(The(g[c]), setup, run) /\ executed' = executed \o <<run>>
    BY <1>4, <1>6, <2>2 DEF n
  <2>5. \E h2 \in [DOMAIN executed' -> Conns'] : Ran(g, h2)'
    BY <1>1, <1>3, <2>1, <2>3, <2>4, RanAdded
  <2>6. PICK h2 \in [DOMAIN executed' -> Conns'] : Ran(g, h2)'
    BY <2>5
  <2>7. g \in [Conns' -> Nat]
    BY <1>3
  <2> QED BY <1>8, <2>6, <2>7 DEF RunInv
<1> QED BY <1>9, <1>10

LEMMA RunInvariance == Spec => [](~ opts.keep_alive => RunInv)
<1> DEFINE Inv == ~ opts.keep_alive => RunInv
           Known_ == IInv /\ OwnInv /\ IsText(executed)
<1>1. ASSUME Init PROVE Inv
  <2>1. server = <<>> /\ executed = <<>> /\ phase = "idle"
    BY <1>1 DEF Init
  <2>2. Conns = {} /\ DOMAIN executed = {}
    BY <2>1, EmptyText DEF Conns
  <2>3. PICK g : g \in [Conns -> Nat]
    <3>1. [c \in Conns |-> 0] \in [Conns -> Nat]
      OBVIOUS
    <3> QED BY <3>1
  <2>4. PICK h : h \in [DOMAIN executed -> Conns]
    <3>1. [i \in DOMAIN executed |-> 0] \in [DOMAIN executed -> Conns]
      BY <2>2
    <3> QED BY <3>1
  <2>5. Placed(g) /\ Ran(g, h)
    BY <2>1, <2>2 DEF Placed, Ran
  <2> QED BY <2>3, <2>4, <2>5 DEF RunInv
<1>2. ASSUME Known_, Known_', Inv, [Next]_vars PROVE Inv'
  <2>1. opts' = opts
    BY <1>2 DEF Next, Client, execute_on_new, execute_on_kept, StartCall, client_handle_output,
                output_fails, client_handle_input, input_fails, Client_timeout, connect_fails,
                Serve, handle_input, handle_input_closed, process_actual_execution,
                handle_output, handle_output_fails, serverOthers, vars, clientVars
  <2> SUFFICES ASSUME ~ opts.keep_alive PROVE RunInv'
    BY <2>1
  <2>2. CASE Client
    BY <1>2, <2>2, NoneKept, BeginsPlaced, ClientPlaced DEF Client
  <2>3. CASE connect_fails
    BY <1>2, <2>3, RefusedPlaced
  <2>4. CASE \E c \in Conns : Serve(c)
    BY <1>2, <2>4, ServedPlaced
  <2>5. CASE UNCHANGED vars
    <3>1. /\ UNCHANGED <<opts, setup, phase, conn, results, server, to_server, executed>>
      BY <2>5 DEF vars, clientVars
    <3>2. PICK g \in [Conns -> Nat], h \in [DOMAIN executed -> Conns] : Placed(g) /\ Ran(g, h)
      BY <1>2 DEF RunInv
    <3>3. Ran(g, h)'
      <4>1. \A c \in Conns : (Yet(server'[c]) => Yet(server[c])) /\ g[c] = g[c]
        BY <3>1
      <4> QED BY <3>1, <3>2, <4>1, RanStays
    <3>4. ASSUME NEW n, NEW c, Serving(c, n) PROVE Serving(c, n)'
      <4>1. The(n)' = The(n)
        BY <3>1, TheSame
      <4> QED BY <3>1, <3>4, <4>1 DEF Serving
    <3>5. Placed(g)'
      BY <3>1, <3>2, <3>4 DEF Placed, Conns, call, Calls
    <3> QED BY <3>1, <3>2, <3>3, <3>5 DEF RunInv, Conns
  <2> QED BY <1>2, <2>2, <2>3, <2>4, <2>5 DEF Next
<1>3. Spec => []Known_
  <2>1. ArePermitted(setup, executed) => IsText(executed)
    BY DEF ArePermitted
  <2> QED BY <2>1, OwnInvariance, RunsInvariance, PTL
<1> HIDE DEF Inv, Known_
<1>4. Spec => []Inv
  BY <1>1, <1>2, <1>3, PTL DEF Spec
<1> QED BY <1>4 DEF Inv

-----------------------------------------------------------------------------
(* The values that are returned.                                           *)

(* A value that has been returned is what a run came to; and one that will *)
(* be has its run, or is still to be asked for.                            *)
Valued ==
  \A n \in DOMAIN results :
    results[n].is = "value" =>
      \E i \in DOMAIN executed : execute(setup, executed[i].method, executed[i].request) = results[n]

Denied ==
  /\ Turned(server[conn])
  /\ Refusing(to_client[conn], Current.causes) /\ Disappointed(preader, Current.causes)

Backed == phase # "idle" => Paid(Current, setup, executed) \/ Yet(server[conn]) \/ Denied

ValueInv == Valued /\ Backed

(* What the client throws is no value.                                     *)
LEMMA ThrownIs ==
  ASSUME NEW what, NEW code
  PROVE  Threw_(what, code).is # "value"
BY DEF Threw_

LEMMA CurrentStays ==
  ASSUME UNCHANGED <<opts, setup, results>>
  PROVE  Current' = Current
<1> DEFINE n == Len(results) + 1
<1>1. The(n)' = The(n)
  BY TheSame
<1> QED BY <1>1 DEF Current

(* A call is over.                                                         *)
LEMMA ValuedEnd ==
  ASSUME IInv, Valued, UNCHANGED <<setup, executed>>, phase' = "idle", NEW result,
         results' = Append(results, result),
         result.is = "value" =>
           \E i \in DOMAIN executed : execute(setup, executed[i].method, executed[i].request) = result
  PROVE  ValueInv'
<1>1. IsText(results) /\ Len(results) \in Nat /\ DOMAIN results = 1 .. Len(results)
  BY TextIs DEF IInv
<1>2. /\ DOMAIN results' = 1 .. Len(results) + 1 /\ results'[Len(results) + 1] = result
      /\ \A n \in 1 .. Len(results) : results'[n] = results[n]
  BY <1>1, TextAppended
<1>3. ASSUME NEW n \in DOMAIN results', results'[n].is = "value"
      PROVE  \E i \in DOMAIN executed :
               execute(setup, executed[i].method, executed[i].request) = results'[n]
  <2>1. CASE n = Len(results) + 1
    BY <1>2, <1>3, <2>1
  <2>2. CASE n # Len(results) + 1
    <3>1. n \in DOMAIN results /\ results'[n] = results[n]
      BY <1>1, <1>2, <2>2
    <3> QED BY <1>3, <3>1 DEF Valued
  <2> QED BY <2>1, <2>2
<1> QED BY <1>3 DEF ValueInv, Valued, Backed

(* Runs are not taken back.                                                *)
LEMMA RunsKept ==
  ASSUME IsText(executed), NEW runs, IsText(runs), executed' = executed \o runs
  PROVE  /\ \A i \in DOMAIN executed : i \in DOMAIN executed' /\ executed'[i] = executed[i]
         /\ \A j \in DOMAIN runs : \E i \in DOMAIN executed' : executed'[i] = runs[j]
<1> DEFINE S == Range(executed) \cup Range(runs)
<1>1. /\ executed \in Seq(S) /\ runs \in Seq(S) /\ Len(executed) \in Nat /\ Len(runs) \in Nat
      /\ DOMAIN executed = 1 .. Len(executed) /\ DOMAIN runs = 1 .. Len(runs)
  BY TextIs, SeqMonotonic
<1>2. /\ executed' \in Seq(S) /\ Len(executed') = Len(executed) + Len(runs)
      /\ \A i \in 1 .. Len(executed) + Len(runs) :
           executed'[i] = IF i <= Len(executed) THEN executed[i] ELSE runs[i - Len(executed)]
  BY <1>1, ConcatProperties
<1>3. DOMAIN executed' = 1 .. Len(executed) + Len(runs)
  BY <1>2, LenProperties
<1>4. ASSUME NEW i \in DOMAIN executed PROVE i \in DOMAIN executed' /\ executed'[i] = executed[i]
  BY <1>1, <1>2, <1>3
<1>5. ASSUME NEW j \in DOMAIN runs PROVE \E i \in DOMAIN executed' : executed'[i] = runs[j]
  <2> DEFINE i == Len(executed) + j
  <2>1. i \in DOMAIN executed' /\ ~ (i <= Len(executed)) /\ i - Len(executed) = j
    BY <1>1, <1>3
  <2>2. executed'[i] = runs[j]
    BY <1>2, <1>3, <2>1
  <2> QED BY <2>1, <2>2
<1> QED BY <1>4, <1>5

LEMMA PipesServed ==
  ASSUME IInv, NEW c \in Conns, Serve(c)
  PROVE  /\ \/ to_client'[c] \in {to_client[c], <<>>}
            \/ \E k \in 1 .. Len(server[c].response) :
                 to_client'[c] = Sent(to_client[c], server[c].response, k)
         /\ \A d \in Conns : d # c => to_client'[d] = to_client[d]
         /\ server[c].open \/ server[c].executing # {}
<1>1. CASE handle_output(c)
  <2>1. \E k \in 1 .. Len(server[c].response) :
          to_client'[c] \in {to_client[c], Sent(to_client[c], server[c].response, k), <<>>}
    BY <1>1, OutputIs
  <2> DEFINE sent(k) == IF c \in left THEN to_client
                        ELSE [to_client EXCEPT ![c] = Sent(to_client[c], server[c].response, k)]
  <2>2. \E k : to_client' \in {sent(k), [sent(k) EXCEPT ![c] = <<>>]}
    BY <1>1 DEF handle_output, Lost
  <2>3. \A d \in Conns : d # c => to_client'[d] = to_client[d]
    <3>1. DOMAIN to_client = Conns
      BY ConnsAre
    <3> QED BY <2>2, <3>1
  <2>4. server[c].open
    BY <1>1 DEF handle_output, Open
  <2> QED BY <2>1, <2>3, <2>4
<1>2. CASE ~ handle_output(c)
  <2>1. to_client' = to_client
    BY <1>2 DEF Serve, handle_input, handle_input_closed, process_actual_execution, handle_output_fails
  <2>2. server[c].open \/ server[c].executing # {}
    BY <1>2 DEF Serve, handle_input, handle_input_closed, process_actual_execution, handle_output_fails,
                Open
  <2> QED BY <2>1, <2>2
<1> QED BY <1>1, <1>2

(* The server's end that refuses goes on refusing.                         *)
LEMMA DenialServed ==
  ASSUME IInv, OwnInv, ~ opts.keep_alive, phase # "idle", Denied, Serve(conn), UNCHANGED serverOthers,
         Turned(server'[conn])
  PROVE  Denied'
<1> DEFINE x == Current  s == server[conn]  tc == to_client[conn]
<1>1. conn \in Conns /\ Exchange(x, setup, s, to_server[conn], tc, out_str, preader)
  BY CallGoing
<1>2. s.open
  <2>1. s.open \/ s.executing # {}
    BY <1>1, PipesServed
  <2> QED BY <1>1, <2>1 DEF Exchange, Reads, Works, Replies, TurnsAway
<1>3. s.mask = {"INPUT", "OUTPUT"}
  BY <1>2 DEF Denied, Turned
<1> HIDE DEF x, s
<1>4. Refusing(s.response, x.causes)
  <2>1. /\ {"INPUT", "OUTPUT"} # {"INPUT"} /\ {"INPUT", "OUTPUT"} # {} /\ {"INPUT", "OUTPUT"} # {"OUTPUT"}
    OBVIOUS
  <2> QED BY <1>1, <1>2, <1>3, <2>1 DEF Exchange, Reads, Works, Replies, TurnsAway
<1>5. Refusing(tc, x.causes) /\ Disappointed(preader, x.causes)
  BY DEF Denied, x
<1>6. Refusing(to_client'[conn], x.causes)
  <2>1. \/ to_client'[conn] \in {tc, <<>>}
        \/ \E k \in 1 .. Len(s.response) : to_client'[conn] = Sent(tc, s.response, k)
    BY <1>1, PipesServed DEF s
  <2>2. ASSUME NEW k \in 1 .. Len(s.response) PROVE Refusing(Sent(tc, s.response, k), x.causes)
    <3>1. Refusing(SubSeq(s.response, 1, k), x.causes)
      BY <1>4, RefusingFirst
    <3> HIDE DEF tc
    <3> QED BY <1>5, <3>1, RefusingJoined DEF Sent
  <2> QED BY <1>5, <2>1, <2>2, RefusingEmpty
<1>7. Current' = x
  BY CurrentStays DEF serverOthers, x
<1>8. conn' = conn /\ preader' = preader
  BY DEF serverOthers
<1> QED BY <1>5, <1>6, <1>7, <1>8 DEF Denied

(* It has just begun to.                                                   *)
LEMMA DenialBegins ==
  ASSUME IInv, OwnInv', ~ opts'.keep_alive, phase' # "idle", server'[conn'].open, Turned(server'[conn'])
  PROVE  Denied'
<1> DEFINE x == Current'  s == server'[conn']
<1>1. Exchange(x, setup', s, to_server'[conn'], to_client'[conn'], out_str', preader')
  BY DEF OwnInv, Exchanging
<1>2. s.mask = {"INPUT", "OUTPUT"} /\ s.open
  BY DEF Turned
<1>3. /\ {"INPUT", "OUTPUT"} # {"INPUT"} /\ {"INPUT", "OUTPUT"} # {} /\ {"INPUT", "OUTPUT"} # {"OUTPUT"}
  OBVIOUS
<1> HIDE DEF x, s
<1>4. Refusing(to_client'[conn'], x.causes) /\ Disappointed(preader', x.causes)
  BY <1>1, <1>2, <1>3 DEF Exchange, Reads, Works, Replies, TurnsAway
<1> QED BY <1>4 DEF Denied, x

LEMMA ServedValued ==
  ASSUME IInv, OwnInv, OwnInv', IsText(executed), ~ opts.keep_alive, RunInv, ValueInv,
         NEW c \in Conns, Serve(c)
  PROVE  ValueInv'
<1>1. PICK runs : ServingOn(c, runs)
  BY StepServing
<1>2. /\ UNCHANGED serverOthers
      /\ \A d \in Conns : d # c => server'[d] = server[d] /\ to_client'[d] = to_client[d]
  BY StepServing, PipesServed
<1>3. executed' = executed \o runs /\ IsText(runs)
  <2>1. PICK g \in [Conns -> Nat], h \in [DOMAIN executed -> Conns] : Placed(g) /\ Ran(g, h)
    BY DEF RunInv
  <2>2. g[c] \in Calls /\ Serving(c, g[c])
    BY <2>1 DEF Placed
  <2>3. Onward(The(g[c]), setup, server[c], server'[c], runs) /\ executed' = executed \o runs
    BY <1>1, <2>2 DEF ServingOn
  <2>4. runs = <<>> \/ \E run : runs = <<run>>
    BY <2>3 DEF Onward, RunOnce
  <2>5. ASSUME NEW run PROVE IsText(<<run>>)
    <3>1. <<run>> \in Seq({run})
      OBVIOUS
    <3> QED BY <3>1, TextOf
  <2> QED BY <2>3, <2>4, <2>5, EmptyText
<1>4. /\ \A i \in DOMAIN executed : i \in DOMAIN executed' /\ executed'[i] = executed[i]
      /\ \A j \in DOMAIN runs : \E i \in DOMAIN executed' : executed'[i] = runs[j]
  BY <1>3, RunsKept
<1>5. UNCHANGED <<opts, setup, phase, conn, preader, results, left>>
  BY <1>2 DEF serverOthers
<1>6. Valued'
  BY <1>4, <1>5 DEF ValueInv, Valued
<1>7. ASSUME NEW x, Paid(x, setup, executed) \/ Paid(x, setup, runs)
      PROVE  Paid(x, setup, executed')
  <2> SUFFICES ASSUME x.answer.is = "responds", x.answer.resp.is = "value"
               PROVE  \E i \in DOMAIN executed' :
                        execute(setup, executed'[i].method, executed'[i].request) = x.answer.resp
    BY DEF Paid
  <2>1. CASE Paid(x, setup, executed)
    <3>1. PICK i \in DOMAIN executed :
            execute(setup, executed[i].method, executed[i].request) = x.answer.resp
      BY <2>1 DEF Paid
    <3> QED BY <1>4, <3>1
  <2>2. CASE Paid(x, setup, runs)
    <3>1. PICK j \in DOMAIN runs : execute(setup, runs[j].method, runs[j].request) = x.answer.resp
      BY <2>2 DEF Paid
    <3>2. PICK i \in DOMAIN executed' : executed'[i] = runs[j]
      BY <1>4
    <3> QED BY <3>1, <3>2
  <2> QED BY <1>7, <2>1, <2>2
<1>8. ASSUME phase # "idle" PROVE Paid(Current, setup, executed') \/ Yet(server'[conn]) \/ Denied'
  <2>1. Paid(Current, setup, executed) \/ Yet(server[conn]) \/ Denied
    BY <1>8 DEF ValueInv, Backed
  <2>2. conn \in Conns /\ conn \notin left /\ Len(results) < Len(opts.requests)
        /\ Exchange(Current, setup, server[conn], to_server[conn], to_client[conn], out_str, preader)
    BY <1>8, CallGoing
  <2>3. CASE c # conn
    <3>1. server'[conn] = server[conn] /\ to_client'[conn] = to_client[conn]
      BY <1>2, <2>2, <2>3
    <3>2. Current' = Current
      BY <1>5, CurrentStays
    <3>3. Denied => Denied'
      BY <1>5, <3>1, <3>2 DEF Denied
    <3> QED BY <1>7, <2>1, <3>1, <3>3
  <2>4. CASE c = conn
    <3> DEFINE n == Len(results) + 1
    <3>1. n \in Calls
      BY <2>2, CurrentIs
    <3>2. server[conn].open
      <4>1. server[conn].open \/ server[conn].executing # {}
        BY <2>4, PipesServed
      <4> QED BY <2>2, <4>1 DEF Exchange, Reads, Works, Replies, TurnsAway
    <3>3. Current = The(n)
      BY DEF Current
    <3> HIDE DEF n
    <3>4. Serving(conn, n)
      BY <2>2, <3>2, <3>3 DEF Serving
    <3>5. /\ Onward(Current, setup, server[conn], server'[conn], runs)
          /\ Yet(server[conn]) => server'[conn].open
      BY <1>1, <2>2, <2>4, <3>1, <3>3, <3>4 DEF ServingOn
    <3>6. CASE Yet(server[conn]) /\ ~ Yet(server'[conn]) /\ Turned(server'[conn])
      <4>1. server'[conn].open
        BY <3>5, <3>6
      <4>2. Denied'
        BY <1>5, <1>8, <3>6, <4>1, DenialBegins
      <4> QED BY <4>2
    <3>7. CASE Denied /\ Turned(server'[conn])
      BY <1>2, <1>8, <2>4, <3>7, DenialServed
    <3>8. Paid(Current, setup, executed) => Paid(Current, setup, executed')
      <4> DEFINE x == Current
      <4> HIDE DEF x
      <4>1. Paid(x, setup, executed) => Paid(x, setup, executed')
        BY <1>7
      <4> QED BY <4>1 DEF x
    <3>9. Paid(Current, setup, runs) => Paid(Current, setup, executed')
      <4> DEFINE x == Current
      <4> HIDE DEF x
      <4>1. Paid(x, setup, runs) => Paid(x, setup, executed')
        BY <1>7
      <4> QED BY <4>1 DEF x
    <3>10. Denied => Turned(server[conn])
      BY DEF Denied
    <3> QED BY <2>1, <3>2, <3>5, <3>6, <3>7, <3>8, <3>9, <3>10 DEF Onward, Yet, Turned
  <2> QED BY <2>3, <2>4
<1>9. Backed'
  <2>1. Current' = Current
    BY <1>5, CurrentStays
  <2> QED BY <1>5, <1>8, <2>1 DEF Backed
<1> QED BY <1>6, <1>9 DEF ValueInv

LEMMA BeginsValued ==
  ASSUME IInv, ValueInv, execute_on_new
  PROVE  ValueInv'
<1>1. /\ UNCHANGED <<setup, results, executed>> /\ conn' = Len(server) + 1
      /\ server' = Append(server, Accepted)
  BY DEF execute_on_new, StartCall
<1>2. IsText(server)
  BY DEF IInv
<1>3. server'[conn'] = Accepted
  BY <1>1, <1>2, TextAppended
<1>4. Yet(server'[conn'])
  BY <1>3 DEF Yet, Accepted
<1> QED BY <1>1, <1>4 DEF ValueInv, Valued, Backed

(* The client throws.                                                      *)
LEMMA ThrowsValued ==
  ASSUME IInv, ValueInv, output_fails \/ input_fails \/ Client_timeout \/ connect_fails
  PROVE  ValueInv'
<1>1. UNCHANGED <<setup, executed>>
  BY DEF output_fails, input_fails, Client_timeout, connect_fails
<1>2. phase' = "idle"
  BY DEF output_fails, input_fails, Client_timeout, connect_fails, EndCall
<1>3. \E what, code : results' = Append(results, Threw_(what, code))
  BY DEF output_fails, input_fails, Client_timeout, connect_fails, EndCall
<1> QED BY <1>1, <1>2, <1>3, ThrownIs, ValuedEnd DEF ValueInv

LEMMA WritesValued ==
  ASSUME IInv, OwnInv, ~ opts.keep_alive, ValueInv, client_handle_output
  PROVE  ValueInv'
<1>1. /\ UNCHANGED <<opts, setup, phase, conn, preader, results, server, executed>> /\ phase # "idle"
      /\ to_client' \in {to_client, [to_client EXCEPT ![conn] = <<>>]}
  BY DEF client_handle_output
<1>2. conn \in DOMAIN to_client
  BY <1>1, CallGoing
<1>3. to_client'[conn] \in {to_client[conn], <<>>}
  BY <1>1, <1>2
<1>4. Current' = Current
  BY <1>1, CurrentStays
<1>5. Denied => Denied'
  BY <1>1, <1>3, <1>4, RefusingEmpty DEF Denied
<1> QED BY <1>1, <1>4, <1>5 DEF ValueInv, Valued, Backed

(* A value that is returned is the one that was owed.                      *)
LEMMA ReadsValued ==
  ASSUME IInv, OwnInv, ~ opts.keep_alive, ValueInv, client_handle_input
  PROVE  ValueInv'
<1>1. phase # "idle" /\ UNCHANGED <<opts, setup, server, executed>>
  BY DEF client_handle_input
<1>2. /\ conn \in DOMAIN to_client /\ Proper(Current, setup)
      /\ Exchange(Current, setup, server[conn], to_server[conn], to_client[conn], out_str, preader)
  BY <1>1, CallGoing
<1>3. PICK k \in 1 .. Len(to_client[conn]), ver_level \in Levels :
      \E read \in {read_packet(preader, SubSeq(to_client[conn], 1, k), 0, ver_level)} :
        LET rest == [to_client EXCEPT ![conn] = Rest(@, k)]
        IN  /\ preader' = read.reader
            /\ CASE read.outcome.is = "packet" ->
                      EndCall(Returned(read.outcome), {}, rest)
                 [] read.outcome.is = "error" ->
                      EndCall(Threw_("malformed", 0), mask, rest)
                 [] OTHER ->
                      /\ to_client' = rest
                      /\ UNCHANGED <<conn, mask, results, left>>
  BY ZenonT(60) DEF client_handle_input
<1> DEFINE tc == to_client[conn]
           piece == SubSeq(tc, 1, k)
           read == read_packet(preader, piece, 0, ver_level)
           rest == [to_client EXCEPT ![conn] = Rest(@, k)]
<1>4. /\ preader' = read.reader
      /\ CASE read.outcome.is = "packet" ->
                EndCall(Returned(read.outcome), {}, rest)
           [] read.outcome.is = "error" ->
                EndCall(Threw_("malformed", 0), mask, rest)
           [] OTHER ->
                /\ to_client' = rest
                /\ UNCHANGED <<conn, mask, results, left>>
  BY <1>3
<1>5. rest[conn] = Rest(tc, k)
  BY <1>2
<1>6. tc # <<>>
  BY EmptyText
<1>7. ~ Yet(server[conn])
  <2>1. "OUTPUT" \in {"OUTPUT"} /\ "OUTPUT" \in {"INPUT", "OUTPUT"}
    OBVIOUS
  <2> QED BY <1>2, <1>6, <2>1 DEF Exchange, Reads, Works, Replies, TurnsAway, Yet
<1>8. read.outcome.is = "packet" => Comes(Returned(read.outcome), Current, opts.timeout)
  <2> DEFINE x == Current  s == server[conn]  ts == to_server[conn]
  <2>1. Exchange(x, setup, s, ts, tc, out_str, preader) /\ Proper(x, setup) /\ k \in 1 .. Len(tc)
    BY <1>2, <1>3
  <2> HIDE DEF x, s, ts, tc
  <2>2. read.outcome.is = "packet" => Comes(Returned(read.outcome), x, opts.timeout)
    BY <2>1, TakesIn
  <2> QED BY <2>2 DEF x, s, ts
<1>9. ASSUME Denied
      PROVE  /\ read.outcome.is = "packet" => read.outcome.header.code \in Current.causes
             /\ read.outcome.is # "packet" => Disappointed(read.reader, Current.causes)
             /\ Refusing(Rest(tc, k), Current.causes)
  <2> DEFINE causes == Current.causes
  <2>1. Refusing(tc, causes) /\ Disappointed(preader, causes) /\ k \in 1 .. Len(tc)
    BY <1>3, <1>9 DEF Denied
  <2> HIDE DEF causes, tc
  <2>2. Refusing(piece, causes) /\ Refusing(Rest(tc, k), causes)
    BY <2>1, RefusingFirst
  <2> HIDE DEF piece
  <2>3. /\ read.outcome.is = "packet" => read.outcome.header.code \in causes
        /\ read.outcome.is # "packet" => Disappointed(read.reader, causes)
    BY <2>1, <2>2, DisappointedRead
  <2> QED BY <2>2, <2>3 DEF causes
<1>10. Paid(Current, setup, executed) \/ Denied
  BY <1>1, <1>7 DEF ValueInv, Backed
<1> HIDE DEF read, rest, tc
<1>11. CASE read.outcome.is = "packet"
  <2> DEFINE result == Returned(read.outcome)
  <2>1. results' = Append(results, result) /\ phase' = "idle"
    BY <1>4, <1>11 DEF EndCall
  <2>2. ASSUME result.is = "value"
        PROVE  \E i \in DOMAIN executed :
                 execute(setup, executed[i].method, executed[i].request) = result
    <3>1. ~ Denied
      <4> SUFFICES ASSUME Denied PROVE FALSE
        OBVIOUS
      <4>1. read.outcome.header.code \in {400, 413}
        BY <1>2, <1>9, <1>11 DEF Proper
      <4>2. result = Threw_("http", read.outcome.header.code)
        BY <4>1 DEF Returned
      <4> HIDE DEF result
      <4> QED BY <2>2, <4>2, ThrownIs
    <3>2. Responds(result) = Current.answer
      <4> HIDE DEF result
      <4>1. Comes(result, Current, opts.timeout)
        BY <1>8, <1>11 DEF result
      <4> QED BY <2>2, <4>1 DEF Comes
    <3> HIDE DEF result
    <3>3. Current.answer.is = "responds" /\ Current.answer.resp = result
      <4>1. Responds(result).is = "responds" /\ Responds(result).resp = result
        BY DEF Responds
      <4> QED BY <3>2, <4>1
    <3> QED BY <1>10, <2>2, <3>1, <3>3 DEF Paid
  <2> HIDE DEF result
  <2> QED BY <1>1, <2>1, <2>2, ValuedEnd DEF ValueInv
<1>12. CASE read.outcome.is = "error"
  <2>1. results' = Append(results, Threw_("malformed", 0)) /\ phase' = "idle"
    BY <1>4, <1>12 DEF EndCall
  <2> QED BY <1>1, <2>1, ThrownIs, ValuedEnd DEF ValueInv
<1>13. CASE read.outcome.is \notin {"packet", "error"}
  <2>1. to_client' = rest /\ UNCHANGED <<conn, mask, results, left>> /\ preader' = read.reader
    BY <1>4, <1>13
  <2>2. Current' = Current
    BY <1>1, <2>1, CurrentStays
  <2>3. Denied => Denied'
    BY <1>1, <1>5, <1>9, <1>13, <2>1, <2>2 DEF Denied
  <2> QED BY <1>1, <1>10, <2>1, <2>2, <2>3 DEF ValueInv, Valued, Backed
<1> QED BY <1>11, <1>12, <1>13

LEMMA ValueInvariance == Spec => [](~ opts.keep_alive => ValueInv)
<1> DEFINE Inv == ~ opts.keep_alive => ValueInv
           Known_ == IInv /\ OwnInv /\ IsText(executed) /\ (~ opts.keep_alive => RunInv)
<1>1. ASSUME Init PROVE Inv
  <2>1. results = <<>> /\ phase = "idle"
    BY <1>1 DEF Init
  <2> QED BY <2>1, EmptyText DEF ValueInv, Valued, Backed
<1>2. ASSUME Known_, Known_', Inv, [Next]_vars PROVE Inv'
  <2>1. opts' = opts
    BY <1>2 DEF Next, Client, execute_on_new, execute_on_kept, StartCall, client_handle_output,
                output_fails, client_handle_input, input_fails, Client_timeout, connect_fails,
                Serve, handle_input, handle_input_closed, process_actual_execution,
                handle_output, handle_output_fails, serverOthers, vars, clientVars
  <2> SUFFICES ASSUME ~ opts.keep_alive PROVE ValueInv'
    BY <2>1
  <2>2. CASE Client
    BY <1>2, <2>2, NoneKept, BeginsValued, WritesValued, ReadsValued, ThrowsValued DEF Client
  <2>3. CASE connect_fails
    BY <1>2, <2>3, ThrowsValued
  <2>4. CASE \E c \in Conns : Serve(c)
    BY <1>2, <2>4, ServedValued
  <2>5. CASE UNCHANGED vars
    <3>1. /\ UNCHANGED <<opts, setup, phase, conn, results, server, to_client, preader, executed>>
      BY <2>5 DEF vars, clientVars
    <3>2. Current' = Current
      BY <3>1, CurrentStays
    <3> QED BY <1>2, <3>1, <3>2 DEF ValueInv, Valued, Backed, Denied
  <2> QED BY <1>2, <2>2, <2>3, <2>4, <2>5 DEF Next
<1>3. Spec => []Known_
  <2>1. ArePermitted(setup, executed) => IsText(executed)
    BY DEF ArePermitted
  <2> QED BY <2>1, OwnInvariance, RunsInvariance, RunInvariance, PTL
<1> HIDE DEF Inv, Known_
<1>4. Spec => []Inv
  BY <1>1, <1>2, <1>3, PTL DEF Spec
<1> QED BY <1>4 DEF Inv

(* The credentials arrive as they were sent.                               *)
LEMMA PacketAsks ==
  ASSUME IInv, NEW n \in Calls
  PROVE  The(n).packet[1].options.authorization = Asks(opts.authinfo[n]).authorization
<1> DEFINE info == opts.authinfo[n]
           content == RequestContent(opts.requests[n])
           options == Asks(info)
           p == dump(0, options, content)
<1>1. /\ IsText(content) /\ info \in UNION {Range(s.client.authinfo) : s \in Sessions}
      /\ info.user \in Seq(Byte) /\ info.passwd \in Seq(Byte)
  BY CallAsks
<1>2. /\ IsOptions(options) /\ options.connection = Word("close") /\ options.content_type = NoValue
      /\ options.authorization =
           IF info.user = <<>> THEN NoValue ELSE Basic(encode(Credentials(info)))
  BY <1>1, AsksIs
<1>3. The(n).packet = p
  BY DEF The, Packet_of, Asks
<1> HIDE DEF info, content, options
<1>4. p[1] = Head_(0, set_content_length(options, Len(content)))
  BY <1>1, <1>2, PacketIs
<1> DEFINE h == p[1]  len == Len(content)
<1> HIDE DEF p, len
<1>5. h = Head_(0, set_content_length(options, len))
  BY <1>4 DEF len
<1>6. /\ Refusal(<<h>>, setup.ver_level) \in {0, 400}
      /\ h.options.authorization = options.authorization
  BY <1>2, <1>5, ParseIs
<1> QED BY <1>3, <1>6 DEF options, info

(* A run that is permitted, and for a call, is what the call asked for.    *)
LEMMA RunIs ==
  ASSUME IInv, NEW n \in Calls, NEW run, Permitted(setup, run), RunFor(The(n), setup, run)
  PROVE  IsRunOf(run, n, n)
<1> DEFINE options == The(n).packet[1].options
<1>1. /\ run.request = opts.requests[n] /\ run.authname \in authenticate(setup, options)
      /\ NewLine \notin Range(options.authorization.base64)
  BY DEF RunFor, The
<1>2. options.authorization = Asks(opts.authinfo[n]).authorization
  BY PacketAsks
<1> HIDE DEF options
<1>3. Authorised(n) /\ NamedFor(run.authname, n)
  BY <1>1, <1>2, AuthorisedIs
<1> DEFINE s == setup.pushed  ics == setup.interceptors
<1>4. /\ IsText(ics) /\ IsText(s) /\ Len(ics) = Len(s)
      /\ \A i \in DOMAIN ics : ics[i] = s[Len(s) + 1 - i]
  BY InterceptorsAre, ConnsAre
<1>5. Len(s) \in Nat /\ DOMAIN s = 1 .. Len(s) /\ DOMAIN ics = 1 .. Len(s)
  BY <1>4, TextIs
<1>6. /\ run.through = [i \in DOMAIN ics |-> ics[i].name]
      /\ \A i \in DOMAIN ics : run.request.name \notin ics[i].stops
      /\ \E d \in DOMAIN setup.dispatchers :
           /\ run.request.name \in DOMAIN setup.dispatchers[d]
           /\ run.method = setup.dispatchers[d][run.request.name]
           /\ \A e \in 1 .. d - 1 : run.request.name \notin DOMAIN setup.dispatchers[e]
  BY DEF Permitted
<1> HIDE DEF s, ics
<1>7. run.through = [i \in DOMAIN s |-> s[Len(s) + 1 - i].name]
  BY <1>4, <1>5, <1>6
<1>8. ASSUME NEW i \in DOMAIN s PROVE run.request.name \notin s[i].stops
  <2> DEFINE j == Len(s) + 1 - i
  <2>1. j \in DOMAIN ics /\ Len(s) + 1 - j = i
    BY <1>5
  <2> HIDE DEF j
  <2> QED BY <1>4, <1>6, <2>1
<1> QED BY <1>1, <1>3, <1>6, <1>7, <1>8 DEF IsRunOf, NamedFor, s

(* Every run is one that a call of this client asked for, by one who may:  *)
(* each call has at most one, without timeouts in the order of the calls,  *)
(* and no value is returned that is not what a run came to                 *)
(* (Server::schedule_execute, Pool_executor::process_actual_execution,     *)
(* Client_base::execute).                                                  *)
THEOREM ExecutedAsAsked == Spec => [](~ opts.keep_alive => ExecutedAsSent)
<1>1. ASSUME IInv, ArePermitted(setup, executed), RunInv, ValueInv PROVE ExecutedAsSent
  <2>1. PICK g \in [Conns -> Nat], h \in [DOMAIN executed -> Conns] : Placed(g) /\ Ran(g, h)
    BY <1>1 DEF RunInv
  <2>2. call \in Nat
    <3>1. Len(results) \in Nat
      BY <1>1, TextIs DEF IInv
    <3> QED BY <3>1 DEF call
  <2>3. ASSUME NEW i \in DOMAIN executed
        PROVE  h[i] \in Conns /\ g[h[i]] \in 1 .. call /\ IsRunOf(executed[i], g[h[i]], g[h[i]])
    <3> DEFINE n == g[h[i]]
    <3>1. h[i] \in Conns
      BY <2>1
    <3>2. n \in Calls /\ n <= call /\ RunFor(The(n), setup, executed[i])
      BY <2>1, <3>1 DEF Placed, Ran
    <3> HIDE DEF n
    <3>3. Permitted(setup, executed[i])
      BY <1>1 DEF ArePermitted
    <3>4. IsRunOf(executed[i], n, n)
      BY <1>1, <3>2, <3>3, RunIs
    <3>5. n \in 1 .. call
      <4>1. Len(opts.requests) \in Nat
        BY <1>1, OptionsAre, TextIs
      <4> QED BY <2>2, <3>2, <4>1 DEF Calls
    <3> QED BY <3>1, <3>4, <3>5 DEF n
  <2>4. Conns \subseteq Nat
    BY <1>1, ConnsAre
  <2>5. ASSUME NEW c \in Conns, NEW d \in Conns, c # d PROVE g[c] # g[d]
    <3>1. c \in Nat /\ d \in Nat /\ g[c] \in Nat /\ g[d] \in Nat
      BY <2>1, <2>4
    <3>2. (c < d => g[c] < g[d]) /\ (d < c => g[d] < g[c])
      BY <2>1 DEF Placed
    <3> QED BY <2>5, <3>1, <3>2
  <2>6. ASSUME NEW i \in DOMAIN executed, NEW j \in DOMAIN executed, i < j
        PROVE  IF opts.timeout THEN g[h[i]] # g[h[j]] ELSE g[h[i]] < g[h[j]]
    <3>1. h[i] \in Conns /\ h[j] \in Conns
      BY <2>3
    <3>2. IF opts.timeout THEN h[i] # h[j] ELSE h[i] < h[j]
      BY <2>1, <2>6 DEF Ran
    <3>3. CASE opts.timeout
      BY <2>5, <3>1, <3>2, <3>3
    <3>4. CASE ~ opts.timeout
      BY <2>1, <3>1, <3>2, <3>4 DEF Placed
    <3> QED BY <3>3, <3>4
  <2> DEFINE f == [i \in DOMAIN executed |-> g[h[i]]]
  <2>7. f \in [DOMAIN executed -> 1 .. call] /\ \A i \in DOMAIN executed : f[i] = g[h[i]]
    BY <2>3
  <2> HIDE DEF f
  <2>8. /\ \A i \in DOMAIN executed : IsRunOf(executed[i], f[i], f[i])
        /\ \A i, j \in DOMAIN executed :
             i < j => IF opts.timeout THEN f[i] # f[j] ELSE f[i] < f[j]
    BY <2>3, <2>6, <2>7
  <2>9. \A n \in DOMAIN results :
          results[n].is = "value" =>
            \E i \in DOMAIN executed :
              execute(setup, executed[i].method, executed[i].request) = results[n]
    BY <1>1 DEF ValueInv, Valued
  <2> QED BY <2>7, <2>8, <2>9 DEF ExecutedAsSent
<1> QED BY <1>1, Invariance, RunsInvariance, RunInvariance, ValueInvariance, PTL

=============================================================================
