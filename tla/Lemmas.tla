------------------------------- MODULE Lemmas -------------------------------
(***************************************************************************)
(* Facts the proofs about the components share: about the remainder, for   *)
(* counters that wrap and the slots they are reduced to, about the runs of *)
(* bytes and messages that lie in several buffers one behind the other,    *)
(* and about the least and the greatest number of a set.                   *)
(***************************************************************************)
EXTENDS SequenceTheorems, WellFoundedInduction, TLAPS

\* A remainder lies below its divisor.
LEMMA RemainderRange ==
  ASSUME NEW a \in Int, NEW n \in Nat \ {0}
  PROVE  a % n \in 0..(n - 1)
  OBVIOUS

\* A number is a multiple of the divisor plus its remainder.
LEMMA Quotient ==
  ASSUME NEW a \in Int, NEW n \in Nat \ {0}
  PROVE  \E q \in Int : a = n * q + (a % n)
<1>1. a \div n \in Int /\ a = n * (a \div n) + (a % n)
  OBVIOUS
<1>2. QED
  BY <1>1

\* The remainder is the only number below the divisor at a multiple's distance.
LEMMA RemainderUnique ==
  ASSUME NEW n \in Nat \ {0}, NEW q \in Int, NEW r \in 0..(n - 1)
  PROVE  (n * q + r) % n = r
  OBVIOUS

\* The remainder counts with the number, up to the divisor.
LEMMA RemainderCounts ==
  ASSUME NEW k \in Nat, NEW m \in Nat \ {0}
  PROVE  (k + 1) % m = IF k % m = m - 1 THEN 0 ELSE (k % m) + 1
<1> DEFINE r == k % m
<1>1. r \in 0 .. m - 1
  BY RemainderRange
<1>2. PICK q \in Int : k = m * q + r
  <2>1. k \in Int
    OBVIOUS
  <2>2. \E q \in Int : k = m * q + (k % m)
    BY <2>1, Quotient, Zenon
  <2> QED
    BY <2>2, Zenon
<1> HIDE DEF r
<1>3. CASE r = m - 1
  <2>1. k + 1 = m * (q + 1) + 0
    BY <1>2, <1>3
  <2>2. (m * (q + 1) + 0) % m = 0
    <3>1. q + 1 \in Int /\ 0 \in 0 .. m - 1
      OBVIOUS
    <3> QED
      BY <3>1, RemainderUnique
  <2> QED
    BY <1>3, <2>1, <2>2 DEF r
<1>4. CASE r # m - 1
  <2>1. r + 1 \in 0 .. m - 1 /\ k + 1 = m * q + (r + 1)
    BY <1>1, <1>2, <1>4
  <2>2. (m * q + (r + 1)) % m = r + 1
    BY <2>1, RemainderUnique
  <2> QED
    BY <1>4, <2>1, <2>2 DEF r
<1> QED
  BY <1>3, <1>4

\* Multiplication distributes over subtraction and associates.
LEMMA Distribute ==
  ASSUME NEW n \in Int, NEW p \in Int, NEW q \in Int
  PROVE  /\ n * (p - q) = n * p - n * q
         /\ n * p \in Int
         /\ p - q \in Int
         /\ p * q \in Int
         /\ n * (p * q) = (n * p) * q
  OBVIOUS

\* Two numbers a multiple of n apart have the same remainder.
LEMMA RemainderShift ==
  ASSUME NEW n \in Nat \ {0}, NEW a \in Int, NEW b \in Int, NEW q \in Int,
         a = b + n * q
  PROVE  a % n = b % n
<1>1. PICK p \in Int : b = n * p + (b % n)
  BY Quotient
<1>2. b % n \in 0..(n - 1)
  BY RemainderRange
<1>3. n * (p - (0 - q)) = n * p - n * (0 - q) /\ n * (0 - q) = n * 0 - n * q /\ p - (0 - q) \in Int
  BY Distribute
<1>4. a = n * (p - (0 - q)) + (b % n)
  BY <1>1, <1>2, <1>3
<1>5. QED
  BY <1>2, <1>3, <1>4, RemainderUnique

\* A number at a multiple's distance from one below the divisor.
LEMMA RemainderIs ==
  ASSUME NEW n \in Nat \ {0}, NEW a \in Int, NEW q \in Int, NEW r \in 0..(n - 1),
         a = r + n * q
  PROVE  a % n = r
<1>1. a = n * q + r
  BY Distribute
<1>2. QED
  BY <1>1, RemainderUnique

\* The remainder of a number at most one divisor out of range.
LEMMA NearRemainder ==
  ASSUME NEW n \in Nat \ {0}, NEW a \in Int
  PROVE  /\ a \in 0..(n - 1) => a % n = a
         /\ a \in n..(n + n - 1) => a % n = a - n
         /\ a \in (0 - n)..(0 - 1) => a % n = a + n
<1>1. ASSUME NEW q \in Int, NEW r \in 0..(n - 1), a = r + n * q
      PROVE  a % n = r
  BY <1>1, RemainderIs
<1>2. ASSUME a \in 0..(n - 1) PROVE a % n = a
  <2>1. a = a + n * 0
    OBVIOUS
  <2>2. QED
    BY <1>1, <1>2, <2>1
<1>3. ASSUME a \in n..(n + n - 1) PROVE a % n = a - n
  <2>1. a = (a - n) + n * 1 /\ a - n \in 0..(n - 1)
    BY <1>3
  <2>2. QED
    BY <1>1, <2>1
<1>4. ASSUME a \in (0 - n)..(0 - 1) PROVE a % n = a + n
  <2>1. a = (a + n) + n * (0 - 1) /\ a + n \in 0..(n - 1)
    BY <1>4
  <2>2. QED
    BY <1>1, <2>1
<1>5. QED
  BY <1>2, <1>3, <1>4

\* Reducing before an addition changes nothing.
LEMMA RemainderAdd ==
  ASSUME NEW n \in Nat \ {0}, NEW a \in Int, NEW b \in Int
  PROVE  ((a % n) + b) % n = (a + b) % n
<1>1. PICK q \in Int : a = n * q + (a % n)
  BY Quotient
<1>2. a % n \in Int /\ n * q \in Int
  BY RemainderRange, Distribute
<1>3. a + b = ((a % n) + b) + n * q
  <2>1. ASSUME NEW s \in Int, NEW r \in Int, a = s + r
        PROVE  a + b = (r + b) + s
    BY <2>1
  <2>2. QED
    BY <1>1, <1>2, <2>1
<1>4. (a % n) + b \in Int /\ a + b \in Int
  BY <1>2
<1>5. QED
  BY <1>3, <1>4, RemainderShift

\* Reducing modulo a multiple first changes nothing either.
LEMMA RemainderOfRemainder ==
  ASSUME NEW a \in Int, NEW n \in Nat \ {0}, NEW w \in Nat \ {0}, w % n = 0
  PROVE  (a % w) % n = a % n
<1>1. PICK m \in Int : w = n * m + (w % n)
  <2>1. w \in Int
    OBVIOUS
  <2>2. QED
    BY <2>1, Quotient
<1>2. PICK q \in Int : a = w * q + (a % w)
  BY Quotient
<1>3. a % w \in Int /\ n * m \in Int
  BY RemainderRange, Distribute
<1>4. w = n * m
  BY <1>1, <1>3
<1>5. w * q = n * (m * q) /\ m * q \in Int
  BY <1>4, Distribute
<1>6. a = (a % w) + n * (m * q)
  <2>1. w * q \in Int
    BY Distribute
  <2>2. ASSUME NEW s \in Int, NEW r \in Int, a = s + r
        PROVE  a = r + s
    BY <2>2
  <2>3. a = (a % w) + w * q
    BY <1>2, <1>3, <2>1, <2>2
  <2>4. QED
    BY <1>5, <2>3
<1>7. ASSUME NEW r \in Int, NEW k \in Int, a = r + n * k
      PROVE  a % n = r % n
  BY <1>7, RemainderShift
<1>8. QED
  BY <1>3, <1>5, <1>6, <1>7

\* Two numbers less than n apart have different remainders.
LEMMA RemainderDistinct ==
  ASSUME NEW n \in Nat \ {0}, NEW a \in Int, NEW d \in 1..(n - 1)
  PROVE  (a + d) % n # a % n
<1>1. PICK q \in Int : a = n * q + (a % n)
  BY Quotient
<1>2. a + d \in Int
  OBVIOUS
<1>3. PICK p \in Int : a + d = n * p + ((a + d) % n)
  BY <1>2, Quotient
<1>4. SUFFICES ASSUME (a + d) % n = a % n
               PROVE  FALSE
  OBVIOUS
<1>5. n * (p - q) = n * p - n * q /\ n * p \in Int /\ n * q \in Int /\ p - q \in Int
  BY Distribute
<1>6. a % n \in Int
  BY RemainderRange
<1>7. d = n * (p - q)
  BY <1>1, <1>3, <1>4, <1>5, <1>6
<1>8. CASE p - q <= 0
  <2>1. n * (p - q) <= 0
    BY <1>5, <1>8
  <2>2. QED
    BY <1>7, <2>1
<1>9. CASE p - q >= 1
  <2>1. n * (p - q) >= n
    BY <1>5, <1>9
  <2>2. QED
    BY <1>7, <2>1
<1>10. QED
  BY <1>5, <1>8, <1>9

\* The block of n numbers that a is in.
LEMMA Blocks ==
  ASSUME NEW n \in Nat \ {0}, NEW a \in Nat
  PROVE  /\ (a \div n) * n \in Nat /\ a % n \in 0 .. n - 1
         /\ a = (a \div n) * n + (a % n) /\ a - (a % n) = (a \div n) * n
<1>1. a \div n \in Nat /\ a = n * (a \div n) + (a % n)
  OBVIOUS
<1>2. a % n \in 0 .. n - 1
  BY RemainderRange
<1>3. \A q \in Nat : q * n = n * q /\ q * n \in Nat
  OBVIOUS
<1> QED
  BY <1>1, <1>2, <1>3

\* It ends where a multiple of n does, if a lies below that.
LEMMA BlockFits ==
  ASSUME NEW n \in Nat \ {0}, NEW f \in Nat, f % n = 0, NEW a \in Nat, a < f
  PROVE  (a \div n) * n + n <= f
<1> DEFINE p == a \div n
           q == f \div n
<1>1. p \in Nat /\ q \in Nat /\ f = q * n /\ p * n <= a
  BY Blocks
<1> HIDE DEF p, q
<1>2. p < q
  <2>1. ASSUME q <= p PROVE q * n <= p * n
    <3>1. PICK e \in Nat : p = q + e
      BY <1>1, <2>1
    <3>2. (q + e) * n = q * n + e * n /\ e * n \in Nat /\ q * n \in Nat
      BY <1>1, <3>1
    <3> QED
      BY <3>1, <3>2
  <2> QED
    BY <1>1, <2>1
<1>3. p * n + n <= q * n
  <2>1. PICK e \in Nat : q = p + 1 + e
    <3>1. q - p - 1 \in Nat /\ q = p + 1 + (q - p - 1)
      BY <1>1, <1>2
    <3> QED
      BY <3>1
  <2>2. (p + 1 + e) * n = p * n + n + e * n /\ e * n \in Nat /\ p * n \in Nat
    BY <1>1, <2>1
  <2> QED
    BY <2>1, <2>2
<1> QED
  BY <1>1, <1>3 DEF p

\* Inside a block the remainder counts with the number.
LEMMA InBlock ==
  ASSUME NEW n \in Nat \ {0}, NEW a \in Nat, NEW k \in Nat, (a % n) + k < n
  PROVE  (a + k) % n = (a % n) + k
<1>1. PICK q \in Int : a = n * q + (a % n)
  <2>1. a \in Int
    OBVIOUS
  <2>2. \E q \in Int : a = n * q + (a % n)
    BY <2>1, Quotient, Zenon
  <2> QED
    BY <2>2, Zenon
<1> DEFINE r == (a % n) + k
<1>2. r \in 0 .. n - 1 /\ a + k = n * q + r
  <2> DEFINE b == a % n
             z == n * q
  <2>1. b \in 0 .. n - 1 /\ z \in Int /\ a = z + b /\ b + k < n
    BY <1>1, RemainderRange, Distribute
  <2> HIDE DEF b, z
  <2>2. b + k \in 0 .. n - 1 /\ a + k = z + (b + k)
    BY <2>1
  <2> QED
    BY <2>2 DEF b, z
<1> HIDE DEF r
<1>3. (n * q + r) % n = r
  BY <1>2, RemainderUnique
<1> QED
  BY <1>2, <1>3 DEF r

\* What divides a divisor divides what it divides.
LEMMA DividesOn ==
  ASSUME NEW n \in Nat \ {0}, NEW m \in Nat \ {0}, NEW a \in Nat, a % m = 0, m % n = 0
  PROVE  a % n = 0
<1>1. PICK q \in Int : a = m * q
  <2>1. a \in Int
    OBVIOUS
  <2>2. PICK q \in Int : a = m * q + (a % m)
    BY <2>1, Quotient, Zenon
  <2>3. a = m * q
    BY <2>2
  <2> QED
    BY <2>3
<1>2. PICK p \in Int : m = n * p
  <2>1. m \in Int
    OBVIOUS
  <2>2. PICK p \in Int : m = n * p + (m % n)
    BY <2>1, Quotient, Zenon
  <2>3. m = n * p
    BY <2>2
  <2> QED
    BY <2>3
<1>3. p * q \in Int /\ n * (p * q) = (n * p) * q
  BY Distribute
<1>4. a = n * (p * q) + 0
  BY <1>1, <1>2, <1>3
<1>5. 0 \in 0 .. n - 1
  OBVIOUS
<1> QED
  BY <1>3, <1>4, <1>5, RemainderUnique

-----------------------------------------------------------------------------
(***************************************************************************)
(* Runs.  They are sequences, joined by an operator of their own, of       *)
(* which the provers see the facts below and nothing else.                 *)
(***************************************************************************)

Runs(S) == Seq(S)

Then(s, t) == s \o t

\* Three runs, one behind the other.
Row(s, t, u) == Then(Then(s, t), u)

\* s is what is left of t when elements are taken out of it.
PartOf(s, t) ==
  \E at \in [DOMAIN s -> DOMAIN t] :
    /\ \A i, j \in DOMAIN s : i < j => at[i] < at[j]
    /\ \A i \in DOMAIN s : s[i] = t[at[i]]

\* The numbers of s are in order, none of them twice, and no greater than n.
Rises(s, n) ==
  /\ \A i, j \in DOMAIN s : i < j => s[i] < s[j]
  /\ \A i \in DOMAIN s : s[i] <= n

\* Runs joined are a run, as long as the two are together.
LEMMA ThenIsRun == \A S : \A s, t \in Runs(S) : Then(s, t) \in Runs(S)
BY ConcatProperties DEF Runs, Then

\* The length of two sequences, one after the other.
LEMMA ThenLength == \A S : \A s, t \in Runs(S) : Len(Then(s, t)) = Len(s) + Len(t)
BY ConcatProperties DEF Runs, Then

\* It does not matter which are joined first, and nothing joined changes nothing.
LEMMA ThenAssociates ==
  \A S : \A s, t, u \in Runs(S) : Then(Then(s, t), u) = Then(s, Then(t, u))
BY ConcatAssociative DEF Runs, Then

\* The empty sequence adds nothing.
LEMMA ThenEmpty ==
  \A S : /\ <<>> \in Runs(S)
         /\ \A s \in Runs(S) : Then(s, <<>>) = s /\ Then(<<>>, s) = s
BY EmptySeq, ConcatEmptySeq DEF Runs, Then

\* An element appended is a run of one element joined.
LEMMA ThenAppend ==
  \A S : \A e \in S : /\ <<e>> \in Runs(S)
                      /\ \A s \in Runs(S) : Append(s, e) = Then(s, <<e>>)
BY AppendIsConcat DEF Runs, Then

\* A run cut in two.
LEMMA CutInTwo ==
  ASSUME NEW S, NEW s \in Seq(S), NEW n \in 0 .. Len(s)
  PROVE  /\ SubSeq(s, 1, n) \in Seq(S) /\ Len(SubSeq(s, 1, n)) = n
         /\ SubSeq(s, n + 1, Len(s)) \in Seq(S) /\ Len(SubSeq(s, n + 1, Len(s))) = Len(s) - n
         /\ SubSeq(s, 1, n) \o SubSeq(s, n + 1, Len(s)) = s
<1>1. Len(s) \in Nat /\ \A i \in 1 .. Len(s) : s[i] \in S
  BY LenProperties, ElementOfSeq
<1>2. SubSeq(s, 1, n) \in Seq(S) /\ Len(SubSeq(s, 1, n)) = n
  BY <1>1, SubSeqProperties
<1>3. SubSeq(s, n + 1, Len(s)) \in Seq(S) /\ Len(SubSeq(s, n + 1, Len(s))) = Len(s) - n
  BY <1>1, SubSeqProperties
<1>4. SubSeq(s, 1, n) \o SubSeq(s, n + 1, Len(s)) = SubSeq(s, 1, Len(s))
  <2>1. 1 \in 1 .. Len(s) + 1 /\ n \in 1 - 1 .. Len(s) /\ Len(s) \in n .. Len(s)
    BY <1>1
  <2> QED
    BY <2>1, ConcatAdjacentSubSeq
<1> QED
  BY <1>2, <1>3, <1>4, SubSeqFull

\* What joined runs are made of.
LEMMA RangeThen ==
  \A S : \A s, t \in Runs(S) : Range(Then(s, t)) = Range(s) \cup Range(t)
BY RangeConcatenation DEF Runs, Then

\* The elements of two sequences, one after the other.
LEMMA ThenElements ==
  ASSUME NEW S, NEW s \in Runs(S), NEW t \in Runs(S)
  PROVE  /\ DOMAIN s = 1 .. Len(s) /\ DOMAIN t = 1 .. Len(t) /\ Len(s) \in Nat /\ Len(t) \in Nat
         /\ DOMAIN Then(s, t) = 1 .. Len(s) + Len(t)
         /\ \A i \in 1 .. Len(s) : Then(s, t)[i] = s[i]
         /\ \A i \in 1 .. Len(t) : Then(s, t)[Len(s) + i] = t[i]
<1>1. s \in Seq(S) /\ t \in Seq(S)
  BY DEF Runs
<1> DEFINE u == s \o t
<1>2. DOMAIN s = 1 .. Len(s) /\ DOMAIN t = 1 .. Len(t) /\ Len(s) \in Nat /\ Len(t) \in Nat
  BY <1>1, LenProperties
<1>3. /\ u \in Seq(S) /\ Len(u) = Len(s) + Len(t)
      /\ \A i \in 1 .. Len(s) + Len(t) : u[i] = IF i <= Len(s) THEN s[i] ELSE t[i - Len(s)]
  BY <1>1, ConcatProperties
<1> HIDE DEF u
<1>4. DOMAIN u = 1 .. Len(s) + Len(t)
  BY <1>3, LenProperties
<1>5. \A i \in 1 .. Len(s) : u[i] = s[i]
  BY <1>2, <1>3
<1>6. ASSUME NEW i \in 1 .. Len(t) PROVE u[Len(s) + i] = t[i]
  <2>1. Len(s) + i \in 1 .. Len(s) + Len(t) /\ ~(Len(s) + i <= Len(s)) /\ Len(s) + i - Len(s) = i
    BY <1>2
  <2> QED
    BY <1>3, <2>1
<1> QED
  BY <1>2, <1>4, <1>5, <1>6 DEF u, Then

\* Three runs: the last one grows, and the middle one moves to the first while what
\* is cut off the last takes its place.
LEMMA RowGrows ==
  ASSUME NEW S, NEW f \in Runs(S), NEW w \in Runs(S),
         NEW q \in Runs(S), NEW t \in Runs(S)
  PROVE  Then(Row(f, w, q), t) = Row(f, w, Then(q, t)) /\ Row(f, w, q) \in Runs(S)
<1> DEFINE front == Then(f, w)
<1>1. front \in Runs(S)
  BY ThenIsRun
<1> HIDE DEF front
<1>2. Then(Then(front, q), t) = Then(front, Then(q, t)) /\ Then(front, q) \in Runs(S)
  BY <1>1, ThenAssociates, ThenIsRun
<1> QED
  BY <1>2 DEF Row, front

\* What leaves the second place of a row enters the third.
LEMMA RowMoves ==
  ASSUME NEW S, NEW f \in Runs(S), NEW w \in Runs(S),
         NEW h \in Runs(S), NEW r \in Runs(S)
  PROVE  Row(Then(f, w), h, r) = Row(f, w, Then(h, r))
<1> DEFINE front == Then(f, w)
<1>1. front \in Runs(S)
  BY ThenIsRun
<1> HIDE DEF front
<1> QED
  BY <1>1, ThenAssociates DEF Row, front

\* A run cut out of the middle leaves a part.
LEMMA CutIsPart ==
  ASSUME NEW S, NEW p \in Runs(S), NEW q \in Runs(S), NEW r \in Runs(S)
  PROVE  PartOf(Then(p, r), Then(Then(p, q), r))
<1>0. \A x, y \in Runs(S) :
        /\ DOMAIN Then(x, y) = 1 .. Len(x) + Len(y)
        /\ \A i \in 1 .. Len(x) : Then(x, y)[i] = x[i]
        /\ \A i \in 1 .. Len(y) : Then(x, y)[Len(x) + i] = y[i]
  <2> TAKE x, y \in Runs(S)
  <2>1. DOMAIN Then(x, y) = 1 .. Len(x) + Len(y)
    BY ThenElements
  <2>2. \A i \in 1 .. Len(x) : Then(x, y)[i] = x[i]
    BY ThenElements
  <2>3. \A i \in 1 .. Len(y) : Then(x, y)[Len(x) + i] = y[i]
    BY ThenElements
  <2> QED
    BY <2>1, <2>2, <2>3
<1> DEFINE u == Then(p, r)
           f == Then(p, q)
           t == Then(f, r)
           at == [i \in DOMAIN u |-> IF i <= Len(p) THEN i ELSE i + Len(q)]
<1>1. /\ Len(p) \in Nat /\ Len(q) \in Nat /\ Len(r) \in Nat
      /\ DOMAIN u = 1 .. Len(p) + Len(r)
      /\ \A i \in 1 .. Len(p) : u[i] = p[i]
      /\ \A i \in 1 .. Len(r) : u[Len(p) + i] = r[i]
  BY ThenElements
<1>2. \A i \in 1 .. Len(p) : f[i] = p[i]
  BY ThenElements
<1>3. f \in Runs(S) /\ Len(f) = Len(p) + Len(q)
  BY ThenIsRun, ThenLength
<1> HIDE DEF f
<1>4. /\ DOMAIN t = 1 .. Len(f) + Len(r)
      /\ \A i \in 1 .. Len(f) : t[i] = f[i]
      /\ \A i \in 1 .. Len(r) : t[Len(f) + i] = r[i]
  BY <1>0, <1>3, Zenon
<1> HIDE DEF u, t
<1>5. ASSUME NEW i \in DOMAIN u
      PROVE  at[i] \in DOMAIN t /\ u[i] = t[at[i]]
  <2>1. CASE i <= Len(p)
    BY <1>1, <1>2, <1>3, <1>4, <2>1
  <2>2. CASE ~(i <= Len(p))
    <3>1. /\ i - Len(p) \in 1 .. Len(r) /\ Len(p) + (i - Len(p)) = i
          /\ Len(f) + (i - Len(p)) = i + Len(q)
      BY <1>1, <1>3, <2>2
    <3>2. u[i] = r[i - Len(p)] /\ t[i + Len(q)] = r[i - Len(p)]
      BY <1>1, <1>4, <3>1
    <3>3. at[i] = i + Len(q) /\ at[i] \in DOMAIN t
      BY <1>1, <1>3, <1>4, <2>2
    <3> QED
      BY <3>2, <3>3
  <2> QED
    BY <2>1, <2>2
<1>6. \A i, j \in DOMAIN u : i < j => at[i] < at[j]
  BY <1>1
<1>7. at \in [DOMAIN u -> DOMAIN t]
  BY <1>5
<1> HIDE DEF at
<1>8. PartOf(u, t)
  BY <1>5, <1>6, <1>7 DEF PartOf
<1> QED
  BY <1>8 DEF u, t, f

\* A sequence is a part of itself.
LEMMA WholeIsPart == ASSUME NEW s PROVE PartOf(s, s)
<1> DEFINE at == [i \in DOMAIN s |-> i]
<1>1. /\ at \in [DOMAIN s -> DOMAIN s] /\ \A i, j \in DOMAIN s : i < j => at[i] < at[j]
      /\ \A i \in DOMAIN s : s[i] = s[at[i]]
  OBVIOUS
<1> HIDE DEF at
<1> QED
  BY <1>1 DEF PartOf

\* The numbers left are in order.
LEMMA RisesPart ==
  ASSUME NEW s, NEW t, NEW n, PartOf(s, t), Rises(t, n)
  PROVE  Rises(s, n)
<1>1. PICK at \in [DOMAIN s -> DOMAIN t] :
        /\ \A i, j \in DOMAIN s : i < j => at[i] < at[j]
        /\ \A i \in DOMAIN s : s[i] = t[at[i]]
  BY DEF PartOf
<1>2. /\ \A i, j \in DOMAIN t : i < j => t[i] < t[j]
      /\ \A i \in DOMAIN t : t[i] <= n
  BY DEF Rises
<1>3. \A i \in DOMAIN s : at[i] \in DOMAIN t
  BY <1>1
<1> QED
  BY <1>1, <1>2, <1>3 DEF Rises

\* What rises still does when its middle is cut out.
LEMMA ThenCut ==
  ASSUME NEW S, NEW n, NEW p \in Runs(S), NEW q \in Runs(S), NEW r \in Runs(S),
         Rises(Then(Then(p, q), r), n)
  PROVE  Rises(Then(p, r), n)
BY CutIsPart, RisesPart

\* The next number goes to the end.
LEMMA Grow ==
  ASSUME NEW S \in SUBSET Nat, NEW s \in Seq(S), NEW n \in Nat, n + 1 \in S, Rises(s, n)
  PROVE  Rises(Append(s, n + 1), n + 1)
<1> DEFINE t == Append(s, n + 1)
<1>1. /\ t \in Seq(S) /\ Len(t) = Len(s) + 1
      /\ \A i \in 1 .. Len(s) : t[i] = s[i]
      /\ t[Len(s) + 1] = n + 1
  BY AppendProperties
<1>2. DOMAIN t = 1 .. Len(s) + 1 /\ DOMAIN s = 1 .. Len(s) /\ Len(s) \in Nat
  BY <1>1, LenProperties
<1>3. \A i \in 1 .. Len(s) : s[i] \in Nat
  BY ElementOfSeq
<1> HIDE DEF t
<1> QED
  BY <1>1, <1>2, <1>3 DEF Rises, t

\* Two parts of a run that rises have no number in common.
LEMMA RisesApart ==
  ASSUME NEW s \in Runs(Nat), NEW t \in Runs(Nat), NEW n \in Nat, Rises(Then(s, t), n)
  PROVE  Rises(s, n) /\ Rises(t, n) /\ Range(s) \cap Range(t) = {}
<1> DEFINE u == Then(s, t)
<1>1. /\ DOMAIN s = 1 .. Len(s) /\ DOMAIN t = 1 .. Len(t) /\ Len(s) \in Nat /\ Len(t) \in Nat
      /\ DOMAIN u = 1 .. Len(s) + Len(t)
      /\ \A i \in 1 .. Len(s) : u[i] = s[i]
      /\ \A i \in 1 .. Len(t) : u[Len(s) + i] = t[i]
  BY ThenElements
<1>2. /\ \A i, j \in DOMAIN u : i < j => u[i] < u[j]
      /\ \A i \in DOMAIN u : u[i] <= n
  BY DEF Rises
<1> HIDE DEF u
<1>3. \A i \in DOMAIN s : i \in DOMAIN u /\ u[i] = s[i]
  BY <1>1
<1>4. \A i \in DOMAIN t : Len(s) + i \in DOMAIN u /\ u[Len(s) + i] = t[i]
  BY <1>1
<1>5. Rises(s, n)
  BY <1>2, <1>3 DEF Rises
<1>6. Rises(t, n)
  <2>1. \A i, j \in DOMAIN t : i < j => Len(s) + i < Len(s) + j
    BY <1>1
  <2> QED
    BY <1>2, <1>4, <2>1 DEF Rises
<1>7. \A i \in DOMAIN s, j \in DOMAIN t : s[i] < t[j]
  <2>1. \A i \in DOMAIN s, j \in DOMAIN t : i < Len(s) + j
    BY <1>1
  <2> QED
    BY <1>2, <1>3, <1>4, <2>1
<1>8. \A i \in DOMAIN s : s[i] \in Nat
  BY <1>1, ElementOfSeq DEF Runs
<1>9. \A i \in DOMAIN s, j \in DOMAIN t : s[i] # t[j]
  BY <1>7, <1>8
<1> QED
  BY <1>5, <1>6, <1>9 DEF Range

\* In a run that rises, what is in front is less than what is behind.
LEMMA RisesAcross ==
  ASSUME NEW s \in Runs(Nat), NEW t \in Runs(Nat), NEW n, Rises(Then(s, t), n)
  PROVE  \A x \in Range(s), y \in Range(t) : x < y
<1> DEFINE u == Then(s, t)
<1>1. /\ DOMAIN s = 1 .. Len(s) /\ DOMAIN t = 1 .. Len(t) /\ Len(s) \in Nat /\ Len(t) \in Nat
      /\ DOMAIN u = 1 .. Len(s) + Len(t)
      /\ \A i \in 1 .. Len(s) : u[i] = s[i]
      /\ \A i \in 1 .. Len(t) : u[Len(s) + i] = t[i]
  BY ThenElements
<1>2. \A i, j \in DOMAIN u : i < j => u[i] < u[j]
  BY DEF Rises
<1> HIDE DEF u
<1>3. \A i \in DOMAIN s : i \in DOMAIN u /\ u[i] = s[i]
  BY <1>1
<1>4. \A i \in DOMAIN t : Len(s) + i \in DOMAIN u /\ u[Len(s) + i] = t[i]
  BY <1>1
<1>5. \A i \in DOMAIN s, j \in DOMAIN t : i < Len(s) + j
  BY <1>1
<1>6. \A i \in DOMAIN s, j \in DOMAIN t : s[i] < t[j]
  BY <1>2, <1>3, <1>4, <1>5
<1> QED
  BY <1>6 DEF Range

\* The numbers after m.
LEMMA NewBytes ==
  ASSUME NEW m \in Nat, NEW n \in Nat
  PROVE  LET t == [i \in 1..n |-> m + i]
         IN  t \in Runs(Nat) /\ Len(t) = n /\ Range(t) = m + 1 .. m + n
<1> DEFINE t == [i \in 1..n |-> m + i]
<1>1. t \in [1..n -> Nat]
  OBVIOUS
<1>2. t \in Seq(Nat)
  BY <1>1, SeqDef
<1>3. Len(t) = n
  BY <1>1
<1>4. Range(t) = m + 1 .. m + n
  <2>1. ASSUME NEW x \in m + 1 .. m + n PROVE \E i \in 1..n : m + i = x
    <3>1. x - m \in 1..n /\ m + (x - m) = x
      OBVIOUS
    <3> QED
      BY <3>1
  <2> QED
    BY <2>1 DEF Range
<1> QED
  BY <1>2, <1>3, <1>4 DEF Runs

\* They go to the end of those up to m.
LEMMA RisesOn ==
  ASSUME NEW s \in Runs(Nat), NEW m \in Nat, NEW n \in Nat, Rises(s, m)
  PROVE  Rises(Then(s, [i \in 1..n |-> m + i]), m + n)
<1> DEFINE t == [i \in 1..n |-> m + i]
           u == Then(s, t)
<1>0. t \in Runs(Nat) /\ Len(t) = n
  BY NewBytes
<1>a. \A i \in 1..n : t[i] = m + i
  OBVIOUS
<1> HIDE DEF t
<1>1. /\ DOMAIN s = 1 .. Len(s) /\ Len(s) \in Nat
      /\ DOMAIN u = 1 .. Len(s) + n
      /\ \A i \in 1 .. Len(s) : u[i] = s[i]
      /\ \A i \in 1 .. n : u[Len(s) + i] = t[i]
  BY <1>0, ThenElements
<1>2. \A i \in 1 .. Len(s) : s[i] \in Nat /\ s[i] <= m
  BY <1>1, ElementOfSeq DEF Runs, Rises
<1> HIDE DEF u
<1>3. ASSUME NEW k \in DOMAIN u
      PROVE  (k <= Len(s) /\ u[k] = s[k]) \/ (~(k <= Len(s)) /\ u[k] = m + (k - Len(s)))
  <2>1. CASE k <= Len(s)
    BY <1>1, <2>1
  <2>2. CASE ~(k <= Len(s))
    <3>1. k - Len(s) \in 1..n /\ Len(s) + (k - Len(s)) = k
      BY <1>1, <2>2
    <3> QED
      BY <1>1, <1>a, <2>2, <3>1
  <2> QED
    BY <2>1, <2>2
<1>4. \A i \in DOMAIN u : u[i] <= m + n
  BY <1>1, <1>2, <1>3
<1>5. ASSUME NEW i \in DOMAIN u, NEW j \in DOMAIN u, i < j
      PROVE  u[i] < u[j]
  <2>1. CASE j <= Len(s)
    <3>1. i \in DOMAIN s /\ j \in DOMAIN s /\ u[i] = s[i] /\ u[j] = s[j]
      BY <1>1, <1>5, <2>1
    <3> QED
      BY <1>5, <3>1 DEF Rises
  <2>2. CASE ~(j <= Len(s))
    BY <1>1, <1>2, <1>3, <1>5, <2>2
  <2> QED
    BY <2>1, <2>2
<1> QED
  BY <1>4, <1>5 DEF Rises, u, t

\* The first element, and the others.
LEMMA HeadAndTail ==
  ASSUME NEW S, NEW s \in Runs(S), s # <<>>
  PROVE  /\ Head(s) \in S /\ <<Head(s)>> \in Runs(S) /\ Tail(s) \in Runs(S)
         /\ Then(<<Head(s)>>, Tail(s)) = s /\ Len(Tail(s)) = Len(s) - 1
<1>1. s \in Seq(S)
  BY DEF Runs
<1>2. Head(s) \in S /\ Tail(s) \in Seq(S) /\ Len(Tail(s)) = Len(s) - 1
  BY <1>1, HeadTailProperties
<1>3. <<Head(s)>> \in Seq(S)
  BY <1>2
<1>4. <<Head(s)>> \o Tail(s) = s
  BY <1>1, <1>2
<1> QED
  BY <1>2, <1>3, <1>4 DEF Runs, Then

\* The last element replaced.
Replaced(s, n, e) == [s EXCEPT ![n] = e]

\* The last element replaced by another.
LEMMA LastReplaced ==
  ASSUME NEW S, NEW s \in Runs(S), NEW e \in S, s # <<>>
  PROVE  /\ \E f \in Runs(S), x \in Runs(S) :
              s = Then(f, x) /\ Replaced(s, Len(s), e) = Then(f, <<e>>)
         /\ Replaced(s, Len(s), e) \in Runs(S) /\ Len(Replaced(s, Len(s), e)) = Len(s)
<1>n. Len(s) \in Nat \ {0}
  BY EmptySeq, LenProperties DEF Runs
<1>0. PICK n \in Nat \ {0} : n = Len(s)
  BY <1>n
<1> DEFINE f == SubSeq(s, 1, n - 1)
           x == <<s[n]>>
           t == [s EXCEPT ![n] = e]
<1>1. s \in Seq(S) /\ DOMAIN s = 1..n /\ n - 1 \in 0 .. Len(s) /\ n \in 1 .. Len(s)
  BY <1>0, LenProperties DEF Runs
<1>2. s[n] \in S
  BY <1>1, ElementOfSeq
<1>3. f \in Seq(S) /\ Len(f) = n - 1 /\ \A i \in 1 .. n - 1 : f[i] = s[i]
  BY <1>1, SubSeqProperties
<1>4. t \in Seq(S) /\ Len(t) = n /\ t[n] = e /\ \A i \in 1 .. n - 1 : t[i] = s[i]
  <2>1. \A j \in 1..n : t[j] = IF j = n THEN e ELSE s[j]
    BY <1>0, <1>1, ExceptSeq
  <2>2. n \in 1..n /\ \A i \in 1 .. n - 1 : i \in 1..n /\ i # n
    OBVIOUS
  <2>3. t \in Seq(S) /\ Len(t) = n
    BY <1>0, <1>1, ExceptSeq
  <2> QED
    BY <2>1, <2>2, <2>3
<1> HIDE DEF f, t
<1>5. \A y \in S : /\ Append(f, y) \in Seq(S) /\ Len(Append(f, y)) = n /\ Append(f, y)[n] = y
                   /\ \A i \in 1 .. n - 1 : Append(f, y)[i] = s[i]
  BY <1>3, AppendProperties, LenProperties
<1>6. \A i \in 1..n : i = n \/ i \in 1 .. n - 1
  OBVIOUS
<1>7. Append(f, s[n]) = s
  BY <1>0, <1>1, <1>2, <1>5, <1>6, SeqEqual
<1>8. Append(f, e) = t
  BY <1>4, <1>5, <1>6, SeqEqual
<1>9. x \in Runs(S) /\ f \in Runs(S) /\ s = Then(f, x) /\ t = Then(f, <<e>>)
  BY <1>2, <1>3, <1>7, <1>8, ThenAppend DEF Runs
<1>t. t = Replaced(s, Len(s), e)
  BY <1>0 DEF t, Replaced
<1> QED
  BY <1>0, <1>4, <1>9, <1>t DEF Runs

\* Three runs: what is cut off the front of the second or the third, or off
\* the end of the second when the front of the third takes its place, leaves a
\* part; and so does what is behind the first.
LEMMA RowCuts ==
  ASSUME NEW S, NEW g \in Runs(S), NEW r \in Runs(S), NEW x \in Runs(S),
         NEW h \in Runs(S), NEW m \in Runs(S)
  PROVE  /\ PartOf(Row(g, r, m), Row(g, r, Then(h, m)))
         /\ PartOf(Row(g, r, m), Row(g, Then(h, r), m))
         /\ PartOf(Row(g, Then(r, h), m), Row(g, Then(r, x), Then(h, m)))
         /\ PartOf(g, Row(g, r, m))
<1> DEFINE back == Then(h, m)
           end == Then(r, m)
           front == Then(g, r)
           first == Then(g, h)
<1>0. /\ back \in Runs(S) /\ end \in Runs(S) /\ front \in Runs(S) /\ first \in Runs(S)
      /\ <<>> \in Runs(S)
  BY ThenIsRun, ThenEmpty
<1>a. /\ Then(front, Then(h, m)) = Then(Then(front, h), m)
      /\ Then(Then(first, r), m) = Then(first, end)
      /\ Then(front, m) = Then(g, end)
      /\ Then(Then(g, end), <<>>) = Then(g, end) /\ Then(g, <<>>) = g
      /\ Then(g, Then(h, r)) = Then(first, r) /\ Then(g, Then(r, h)) = Then(front, h)
      /\ Then(g, Then(r, x)) = Then(front, x)
  <2>1. \A u, v, w \in Runs(S) : Then(Then(u, v), w) = Then(u, Then(v, w))
    BY ThenAssociates
  <2>2. \A u \in Runs(S) : Then(u, <<>>) = u
    BY ThenEmpty
  <2>3. Then(g, end) \in Runs(S)
    BY <1>0, ThenIsRun
  <2> HIDE DEF front, first, end
  <2>4. Then(Then(g, end), <<>>) = Then(g, end) /\ Then(g, <<>>) = g
    BY <2>2, <2>3
  <2>5. Then(front, Then(h, m)) = Then(Then(front, h), m) /\ Then(Then(first, r), m) = Then(first, Then(r, m))
    BY <1>0, <2>1
  <2>6. Then(Then(g, r), m) = Then(g, Then(r, m))
    BY <2>1
  <2>7. /\ Then(g, Then(h, r)) = Then(Then(g, h), r) /\ Then(g, Then(r, h)) = Then(Then(g, r), h)
        /\ Then(g, Then(r, x)) = Then(Then(g, r), x)
    BY <2>1
  <2> QED
    BY <2>4, <2>5, <2>6, <2>7 DEF front, first, end
<1>b. /\ PartOf(Then(front, m), Then(Then(front, h), m))
      /\ PartOf(Then(g, end), Then(Then(g, h), end))
      /\ PartOf(Then(front, back), Then(Then(front, x), back))
      /\ PartOf(Then(g, <<>>), Then(Then(g, end), <<>>))
  <2>1. \A u, v, w \in Runs(S) : PartOf(Then(u, w), Then(Then(u, v), w))
    BY CutIsPart
  <2> HIDE DEF front, back, end
  <2> QED
    BY <1>0, <2>1, Zenon
<1>1. PartOf(Row(g, r, m), Row(g, r, Then(h, m)))
  BY <1>a, <1>b DEF Row
<1>2. PartOf(Row(g, r, m), Row(g, Then(h, r), m))
  BY <1>a, <1>b DEF Row
<1>3. PartOf(Row(g, Then(r, h), m), Row(g, Then(r, x), Then(h, m)))
  BY <1>a, <1>b DEF Row
<1>4. PartOf(g, Row(g, r, m))
  BY <1>a, <1>b DEF Row
<1> QED
  BY <1>1, <1>2, <1>3, <1>4

-----------------------------------------------------------------------------
(***************************************************************************)
(* Sets of natural numbers, and the ends of runs.                          *)
(***************************************************************************)

\* Some number of a set is the least.
LEMMA LeastExists ==
  ASSUME NEW S, S \subseteq Nat, S # {}
  PROVE  \E x \in S : \A y \in S : x <= y
<1>1. PICK x \in S : \A y \in S : ~ (<<y, x>> \in OpToRel(<, Nat))
  BY NatLessThanWellFounded, WFMin, Zenon
<1>2. \A y \in S : ~ (y < x)
  BY <1>1 DEF OpToRel
<1> QED
  BY <1>2

\* Some number of a set below a bound is the greatest.
LEMMA GreatestExists ==
  ASSUME NEW S, NEW n \in Nat, S \subseteq 0..n, S # {}
  PROVE  \E x \in S : \A y \in S : y <= x
<1> DEFINE T == {n - y : y \in S}
<1>1. T \subseteq Nat /\ T # {}
  <2>1. \A y \in 0..n : n - y \in Nat
    OBVIOUS
  <2> QED
    BY <2>1
<1>2. PICK z \in T : \A u \in T : z <= u
  BY <1>1, LeastExists
<1>3. PICK x \in S : z = n - x
  OBVIOUS
<1>4. ASSUME NEW y \in S PROVE y <= x
  <2>1. n - y \in T
    OBVIOUS
  <2>2. n - x <= n - y
    BY <1>2, <1>3, <2>1
  <2>3. x \in 0..n /\ y \in 0..n
    OBVIOUS
  <2> QED
    BY <2>2, <2>3
<1> QED
  BY <1>4

\* A cut behind the first k elements.
LEMMA MiddleCut ==
  ASSUME NEW S, NEW s, NEW k \in Nat, NEW n \in Nat, n > 0, \A i \in k + 1 .. k + n : s[i] \in S
  PROVE  /\ SubSeq(s, k + 1, k + n) \in Seq(S) /\ Len(SubSeq(s, k + 1, k + n)) = n
         /\ \A i \in 1 .. n : SubSeq(s, k + 1, k + n)[i] = s[k + i]
<1> DEFINE a == k + 1
           b == k + n
<1>1. a \in Int /\ b \in Int /\ a <= b /\ b - a + 1 = n /\ \A i \in 1 .. n : a + i - 1 = k + i
  OBVIOUS
<1>2. \A i \in a .. b : s[i] \in S
  OBVIOUS
<1> HIDE DEF a, b
<1>3. /\ SubSeq(s, a, b) \in Seq(S)
      /\ Len(SubSeq(s, a, b)) = IF a <= b THEN b - a + 1 ELSE 0
      /\ \A i \in 1 .. b - a + 1 : SubSeq(s, a, b)[i] = s[a + i - 1]
  BY <1>1, <1>2, SubSeqProperties
<1>4. /\ SubSeq(s, a, b) \in Seq(S) /\ Len(SubSeq(s, a, b)) = n
      /\ \A i \in 1 .. n : SubSeq(s, a, b)[i] = s[k + i]
  BY <1>1, <1>3
<1> QED
  BY <1>4 DEF a, b

\* s is the end of t.
EndOf(s, t) == Len(s) <= Len(t) /\ \A i \in 1 .. Len(s) : s[i] = t[Len(t) - Len(s) + i]

\* The end of a run, as SubSeq cuts it off.
LEMMA EndIsCut ==
  ASSUME NEW S, NEW s \in Seq(S), NEW t \in Seq(S), EndOf(s, t)
  PROVE  s = SubSeq(t, Len(t) - Len(s) + 1, Len(t))
<1> DEFINE m == Len(t) - Len(s) + 1
           u == SubSeq(t, m, Len(t))
<1>1. Len(s) \in Nat /\ Len(t) \in Nat /\ Len(s) <= Len(t) /\ m \in Int /\ Len(t) - m + 1 = Len(s)
  BY LenProperties DEF EndOf
<1>2. \A i \in m .. Len(t) : t[i] \in S
  BY <1>1, ElementOfSeq
<1>3. /\ u \in Seq(S) /\ Len(u) = IF m <= Len(t) THEN Len(t) - m + 1 ELSE 0
      /\ \A i \in 1 .. Len(t) - m + 1 : u[i] = t[m + i - 1]
  BY <1>1, <1>2, SubSeqProperties
<1>4. \A i \in 1 .. Len(s) : m + i - 1 = Len(t) - Len(s) + i
  BY <1>1
<1> HIDE DEF m, u
<1>5. Len(u) = Len(s)
  BY <1>1, <1>3
<1>6. \A i \in 1 .. Len(s) : u[i] = s[i]
  BY <1>1, <1>3, <1>4 DEF EndOf
<1>7. u = s
  BY <1>3, <1>5, <1>6, SeqEqual
<1> QED
  BY <1>7 DEF u, m

\* An element behind both.
LEMMA EndGrows ==
  ASSUME NEW S, NEW s \in Seq(S), NEW t \in Seq(S), NEW e \in S, EndOf(s, t)
  PROVE  EndOf(Append(s, e), Append(t, e))
<1> DEFINE u == Append(s, e)
           v == Append(t, e)
<1>1. /\ Len(s) \in Nat /\ Len(t) \in Nat
      /\ Len(u) = Len(s) + 1 /\ u[Len(s) + 1] = e /\ \A i \in 1 .. Len(s) : u[i] = s[i]
      /\ Len(v) = Len(t) + 1 /\ v[Len(t) + 1] = e /\ \A i \in 1 .. Len(t) : v[i] = t[i]
  BY LenProperties, AppendProperties
<1> HIDE DEF u, v
<1>2. ASSUME NEW i \in 1 .. Len(u) PROVE u[i] = v[Len(v) - Len(u) + i]
  <2>1. CASE i = Len(u)
    BY <1>1, <2>1 DEF EndOf
  <2>2. CASE i # Len(u)
    <3>1. i \in 1 .. Len(s) /\ Len(v) - Len(u) + i = Len(t) - Len(s) + i
          /\ Len(t) - Len(s) + i \in 1 .. Len(t)
      BY <1>1, <2>2 DEF EndOf
    <3> QED
      BY <1>1, <3>1 DEF EndOf
  <2> QED
    BY <2>1, <2>2
<1>3. Len(u) <= Len(v)
  BY <1>1 DEF EndOf
<1> QED
  BY <1>2, <1>3 DEF EndOf, u, v

\* The first element of the longer one goes.
LEMMA EndShrinks ==
  ASSUME NEW S, NEW s \in Seq(S), NEW t \in Seq(S), EndOf(s, t), Len(s) < Len(t)
  PROVE  EndOf(s, Tail(t))
<1>1. /\ Len(s) \in Nat /\ Len(t) \in Nat /\ t # <<>>
      /\ Len(Tail(t)) = Len(t) - 1 /\ \A i \in 1 .. Len(t) - 1 : Tail(t)[i] = t[i + 1]
  BY LenProperties, HeadTailProperties, EmptySeq
<1>2. ASSUME NEW i \in 1 .. Len(s) PROVE s[i] = Tail(t)[Len(Tail(t)) - Len(s) + i]
  <2>1. Len(Tail(t)) - Len(s) + i \in 1 .. Len(t) - 1
        /\ (Len(Tail(t)) - Len(s) + i) + 1 = Len(t) - Len(s) + i
    BY <1>1
  <2> QED
    BY <1>1, <2>1 DEF EndOf
<1>3. Len(s) <= Len(Tail(t))
  BY <1>1
<1> QED
  BY <1>2, <1>3 DEF EndOf
=============================================================================
