--------------------------- MODULE SequenceLemmas ---------------------------
(***************************************************************************)
(* What the list operators of the models do: Append, RemoveAt, a suffix,   *)
(* Without and Picked.  Induction and recursion over the positions of a    *)
(* list, which the proofs about recursive functions rest on.               *)
(***************************************************************************)
EXTENDS PythonLists, Integers, SequenceTheorems, WellFoundedInduction, TLAPS

\* A new element at the end.
LEMMA AppendIs ==
  ASSUME NEW S, NEW s \in Seq(S), IsInjective(s), NEW c \in S, c \notin ToSet(s)
  PROVE  /\ Append(s, c) \in Seq(S)
         /\ IsInjective(Append(s, c))
         /\ ToSet(Append(s, c)) = ToSet(s) \cup {c}
         /\ Len(Append(s, c)) = Len(s) + 1
  BY DEF ToSet, IsInjective

\* One element taken out of the middle.
LEMMA RemoveAtElements ==
  ASSUME NEW S, NEW s \in Seq(S), NEW i \in 1 .. Len(s)
  PROVE  /\ RemoveAt(s, i) \in Seq(S)
         /\ Len(RemoveAt(s, i)) = Len(s) - 1
         /\ \A j \in 1 .. (Len(s) - 1) : RemoveAt(s, i)[j] = IF j < i THEN s[j] ELSE s[j + 1]
  <1> DEFINE r == RemoveAt(s, i)
             n == Len(s)
  <1>1. n \in Nat /\ DOMAIN s = 1 .. n
    OBVIOUS
  <1>2. i \in 1 .. n
    OBVIOUS
  <1> DEFINE p == SubSeq(s, 1, i - 1)
             q == SubSeq(s, i + 1, n)
  <1>3. p \in Seq(S) /\ Len(p) = i - 1 /\ \A j \in 1 .. (i - 1) : p[j] = s[j]
    BY <1>1, <1>2, SubSeqProperties
  <1>4. q \in Seq(S) /\ Len(q) = n - i /\ \A j \in 1 .. (n - i) : q[j] = s[i + j]
    <2>1. i + 1 \in 1 .. Len(s) + 1 /\ n \in i .. Len(s)
      BY <1>1, <1>2
    <2>2. /\ SubSeq(s, i + 1, n) \in Seq(S)
          /\ Len(SubSeq(s, i + 1, n)) = IF i + 1 <= n THEN n - (i + 1) + 1 ELSE 0
          /\ \A j \in 1 .. (n - (i + 1) + 1) : SubSeq(s, i + 1, n)[j] = s[(i + 1) + j - 1]
      BY <1>1, <2>1, SubSeqProperties
    <2>3. q \in Seq(S) /\ Len(q) = n - i
      <3>1. CASE i + 1 <= n
        BY <1>1, <1>2, <2>2, <3>1
      <3>2. CASE i = n
        BY <1>1, <1>2, <2>2, <3>2
      <3>3. \A m \in Nat : \A j \in 1 .. m : j + 1 <= m \/ j = m
        OBVIOUS
      <3>4. i + 1 <= n \/ i = n
        BY <1>1, <1>2, <3>3
      <3>5. QED
        BY <3>1, <3>2, <3>4
    <2>4. ASSUME NEW j \in 1 .. (n - i)
          PROVE  q[j] = s[i + j]
      <3>1. j \in 1 .. (n - (i + 1) + 1) /\ (i + 1) + j - 1 = i + j
        BY <1>1, <1>2
      <3>2. QED
        BY <2>2, <3>1
    <2>5. QED
      BY <2>3, <2>4
  <1>5. r = p \o q
    BY DEF RemoveAt
  <1> HIDE DEF p, q, r
  <1>6. /\ r \in Seq(S) /\ Len(r) = n - 1
        /\ \A j \in 1 .. (n - 1) : r[j] = IF j < i THEN s[j] ELSE s[j + 1]
    <2>1. r \in Seq(S) /\ Len(r) = n - 1
      <3>1. r \in Seq(S) /\ Len(r) = Len(p) + Len(q)
        BY <1>3, <1>4, <1>5, ConcatProperties
      <3>2. (i - 1) + (n - i) = n - 1
        BY <1>1, <1>2
      <3>3. QED
        BY <1>3, <1>4, <3>1, <3>2
    <2>2. ASSUME NEW j \in 1 .. (n - 1)
          PROVE  r[j] = IF j < i THEN s[j] ELSE s[j + 1]
      <3>1. CASE j < i
        BY <1>1, <1>2, <1>3, <1>4, <1>5, <3>1
      <3>2. CASE ~ (j < i)
        <4>1. r[j] = q[j - (i - 1)] /\ j - (i - 1) \in 1 .. (n - i)
          BY <1>1, <1>2, <1>3, <1>4, <1>5, <3>2
        <4>2. q[j - (i - 1)] = s[i + (j - (i - 1))] /\ i + (j - (i - 1)) = j + 1
          BY <1>1, <1>2, <1>4, <4>1
        <4>3. QED
          BY <3>2, <4>1, <4>2
      <3>3. QED
        BY <3>1, <3>2
    <2>3. QED
      BY <2>1, <2>2
  <1>7. QED
    BY <1>6 DEF r, n

LEMMA RemoveAtIs ==
  ASSUME NEW S, NEW s \in Seq(S), IsInjective(s), NEW i \in 1 .. Len(s)
  PROVE  /\ RemoveAt(s, i) \in Seq(S)
         /\ IsInjective(RemoveAt(s, i))
         /\ ToSet(RemoveAt(s, i)) = ToSet(s) \ {s[i]}
         /\ Len(RemoveAt(s, i)) = Len(s) - 1
         /\ \A j \in 1 .. (Len(s) - 1) : RemoveAt(s, i)[j] = IF j < i THEN s[j] ELSE s[j + 1]
  <1> DEFINE r == RemoveAt(s, i)
             n == Len(s)
  <1>1. n \in Nat /\ DOMAIN s = 1 .. n
    OBVIOUS
  <1>2. i \in 1 .. n
    OBVIOUS
  <1>3. /\ r \in Seq(S) /\ Len(r) = n - 1
        /\ \A j \in 1 .. (n - 1) : r[j] = IF j < i THEN s[j] ELSE s[j + 1]
    BY RemoveAtElements
  <1> HIDE DEF r
  <1>4. IsInjective(r)
    <2>1. SUFFICES ASSUME NEW a \in 1 .. (n - 1), NEW b \in 1 .. (n - 1), r[a] = r[b]
                   PROVE  a = b
      BY <1>1, <1>3 DEF IsInjective
    <2>2. PICK x \in 1 .. n : x = IF a < i THEN a ELSE a + 1
      BY <1>1, <1>2
    <2>3. PICK y \in 1 .. n : y = IF b < i THEN b ELSE b + 1
      BY <1>1, <1>2
    <2>4. s[x] = s[y]
      BY <1>3, <2>1, <2>2, <2>3
    <2>5. x = y
      BY <1>1, <2>4 DEF IsInjective
    <2>6. QED
      BY <1>1, <1>2, <2>2, <2>3, <2>5
  <1>5. ToSet(r) = ToSet(s) \ {s[i]}
    <2>1. ASSUME NEW d \in ToSet(r)
          PROVE  d \in ToSet(s) \ {s[i]}
      <3>1. PICK j \in 1 .. (n - 1) : d = r[j]
        BY <1>1, <1>3, <2>1 DEF ToSet
      <3>2. PICK l \in 1 .. n : l # i /\ d = s[l]
        BY <1>1, <1>2, <1>3, <3>1
      <3>3. QED
        BY <1>1, <1>2, <3>2 DEF ToSet, IsInjective
    <2>2. ASSUME NEW d \in ToSet(s) \ {s[i]}
          PROVE  d \in ToSet(r)
      <3>1. PICK l \in 1 .. n : d = s[l]
        BY <1>1, <2>2 DEF ToSet
      <3>2. l # i
        BY <1>2, <2>2, <3>1
      <3>3. PICK j \in 1 .. (n - 1) : j = IF l < i THEN l ELSE l - 1
        BY <1>1, <1>2, <3>2
      <3>4. d = r[j]
        BY <1>2, <1>3, <3>1, <3>2, <3>3
      <3>5. QED
        BY <1>3, <3>3, <3>4 DEF ToSet
    <2>3. QED
      BY <2>1, <2>2
  <1>6. QED
    BY <1>1, <1>2, <1>3, <1>4, <1>5 DEF r, n

\* What is left when the first n elements are gone.
LEMMA SuffixIs ==
  ASSUME NEW S, NEW s \in Seq(S), IsInjective(s), NEW n \in 0 .. Len(s)
  PROVE  LET r == SubSeq(s, n + 1, Len(s))
         IN /\ r \in Seq(S)
            /\ IsInjective(r)
            /\ Len(r) = Len(s) - n
            /\ \A j \in 1 .. (Len(s) - n) : r[j] = s[n + j]
            /\ ToSet(r) = ToSet(s) \ {s[i] : i \in 1 .. n}
  <1> DEFINE r == SubSeq(s, n + 1, Len(s))
             l == Len(s)
  <1>1. l \in Nat /\ DOMAIN s = 1 .. l /\ n \in 0 .. l
    OBVIOUS
  <1>2. /\ r \in Seq(S)
        /\ Len(r) = IF n + 1 <= l THEN l - (n + 1) + 1 ELSE 0
        /\ \A j \in 1 .. (l - (n + 1) + 1) : r[j] = s[(n + 1) + j - 1]
    <2>1. n + 1 \in Int /\ l \in Int /\ \A j \in (n + 1) .. l : s[j] \in S
      BY <1>1
    <2>2. QED
      BY <2>1, SubSeqProperties
  <1> HIDE DEF r
  <1>3. Len(r) = l - n
    <2>1. \A m \in Nat : \A j \in 0 .. m :
            (IF j + 1 <= m THEN m - (j + 1) + 1 ELSE 0) = m - j
      OBVIOUS
    <2>2. (IF n + 1 <= l THEN l - (n + 1) + 1 ELSE 0) = l - n
      BY <1>1, <2>1
    <2>3. QED
      BY <1>2, <2>2
  <1>4. ASSUME NEW j \in 1 .. (l - n)
        PROVE  r[j] = s[n + j]
    <2>1. j \in 1 .. (l - (n + 1) + 1) /\ (n + 1) + j - 1 = n + j
      BY <1>1
    <2>2. QED
      BY <1>2, <2>1
  <1>5. DOMAIN r = 1 .. (l - n)
    BY <1>2, <1>3
  <1>6. IsInjective(r)
    <2>1. SUFFICES ASSUME NEW a \in 1 .. (l - n), NEW b \in 1 .. (l - n), r[a] = r[b]
                   PROVE  a = b
      BY <1>5 DEF IsInjective
    <2>2. s[n + a] = s[n + b] /\ n + a \in 1 .. l /\ n + b \in 1 .. l
      BY <1>1, <1>4, <2>1
    <2>3. n + a = n + b
      BY <1>1, <2>2 DEF IsInjective
    <2>4. QED
      BY <1>1, <2>3
  <1>7. ToSet(r) = ToSet(s) \ {s[i] : i \in 1 .. n}
    <2>1. ASSUME NEW d \in ToSet(r)
          PROVE  d \in ToSet(s) \ {s[i] : i \in 1 .. n}
      <3>1. PICK j \in 1 .. (l - n) : d = r[j]
        BY <1>5, <2>1 DEF ToSet
      <3>2. d = s[n + j] /\ n + j \in 1 .. l
        BY <1>1, <1>4, <3>1
      <3>3. ASSUME NEW i \in 1 .. n
            PROVE  d # s[i]
        BY <1>1, <3>2 DEF IsInjective
      <3>4. QED
        BY <1>1, <3>2, <3>3 DEF ToSet
    <2>2. ASSUME NEW d \in ToSet(s) \ {s[i] : i \in 1 .. n}
          PROVE  d \in ToSet(r)
      <3>1. PICK k \in 1 .. l : d = s[k]
        BY <1>1, <2>2 DEF ToSet
      <3>2. ~ (k \in 1 .. n)
        BY <2>2, <3>1
      <3>3. k - n \in 1 .. (l - n) /\ n + (k - n) = k
        BY <1>1, <3>2
      <3>4. r[k - n] = d
        BY <1>4, <3>1, <3>3
      <3>5. QED
        BY <1>5, <3>3, <3>4 DEF ToSet
    <2>3. QED
      BY <2>1, <2>2
  <1>8. QED
    BY <1>2, <1>3, <1>4, <1>6, <1>7 DEF r, l

\* The first element taken away.
LEMMA TailIs ==
  ASSUME NEW S, NEW s \in Seq(S), IsInjective(s), s # <<>>
  PROVE  /\ Tail(s) \in Seq(S)
         /\ IsInjective(Tail(s))
         /\ Head(s) \in ToSet(s)
         /\ ToSet(Tail(s)) = ToSet(s) \ {Head(s)}
         /\ Len(Tail(s)) = Len(s) - 1
  <1> DEFINE t == Tail(s)
  <1>1. /\ Len(s) \in Nat \ {0} /\ DOMAIN s = 1 .. Len(s) /\ Head(s) = s[1]
        /\ t \in Seq(S) /\ Len(t) = Len(s) - 1 /\ DOMAIN t = 1 .. Len(s) - 1
    BY EmptySeq
  <1>2. \A j \in 1 .. (Len(s) - 1) : t[j] = s[j + 1]
    BY <1>1
  <1> HIDE DEF t
  <1>3. IsInjective(t)
    <2>1. SUFFICES ASSUME NEW a \in 1 .. (Len(s) - 1), NEW b \in 1 .. (Len(s) - 1), t[a] = t[b]
                   PROVE  a = b
      BY <1>1 DEF IsInjective
    <2>2. a + 1 \in 1 .. Len(s) /\ b + 1 \in 1 .. Len(s) /\ s[a + 1] = s[b + 1]
      BY <1>1, <1>2, <2>1
    <2>3. a + 1 = b + 1
      BY <1>1, <2>2 DEF IsInjective
    <2>4. QED
      BY <1>1, <2>3
  <1>4. Head(s) \in ToSet(s)
    BY <1>1 DEF ToSet
  <1>5. ASSUME NEW d \in ToSet(t)
        PROVE  d \in ToSet(s) \ {Head(s)}
    <2>1. PICK j \in 1 .. (Len(s) - 1) : d = s[j + 1]
      BY <1>1, <1>2, <1>5 DEF ToSet
    <2>2. j + 1 \in 1 .. Len(s) /\ j + 1 # 1
      BY <1>1, <2>1
    <2>3. QED
      BY <1>1, <2>1, <2>2 DEF ToSet, IsInjective
  <1>6. ASSUME NEW d \in ToSet(s) \ {Head(s)}
        PROVE  d \in ToSet(t)
    <2>1. PICK l \in 1 .. Len(s) : d = s[l] /\ l # 1
      BY <1>1, <1>6 DEF ToSet
    <2>2. l - 1 \in 1 .. (Len(s) - 1) /\ t[l - 1] = d
      BY <1>1, <1>2, <2>1
    <2>3. QED
      BY <1>1, <2>2 DEF ToSet
  <1>7. QED
    BY <1>1, <1>3, <1>4, <1>5, <1>6 DEF t

\* What taking one element out leaves.
LEMMA WithoutIs ==
  ASSUME NEW S, NEW s \in Seq(S), IsInjective(s), NEW c
  PROVE  /\ Without(s, c) \in Seq(S)
         /\ IsInjective(Without(s, c))
         /\ ToSet(Without(s, c)) = ToSet(s) \ {c}
         /\ Len(Without(s, c)) = IF c \in ToSet(s) THEN Len(s) - 1 ELSE Len(s)
  <1>1. CASE c \notin ToSet(s)
    BY <1>1 DEF Without
  <1>2. CASE c \in ToSet(s)
    <2>1. PICK i \in DOMAIN s : s[i] = c /\ Without(s, c) = RemoveAt(s, i)
      BY <1>2 DEF ToSet, Without
    <2>2. i \in 1 .. Len(s)
      OBVIOUS
    <2>3. QED
      BY <1>2, <2>1, <2>2, RemoveAtIs
  <1>3. QED
    BY <1>1, <1>2

LEMMA WithoutTyped ==
  ASSUME NEW S, NEW s \in Seq(S), NEW c
  PROVE  Without(s, c) \in Seq(S)
  <1>1. CASE c \notin ToSet(s)
    BY <1>1 DEF Without
  <1>2. CASE c \in ToSet(s)
    <2>1. PICK i \in DOMAIN s : s[i] = c /\ Without(s, c) = RemoveAt(s, i)
      BY <1>2 DEF ToSet, Without
    <2>2. SubSeq(s, 1, i - 1) \in Seq(S) /\ SubSeq(s, i + 1, Len(s)) \in Seq(S)
      <3>1. 1 \in Int /\ i - 1 \in Int /\ \A j \in 1 .. (i - 1) : s[j] \in S
        OBVIOUS
      <3>2. i + 1 \in Int /\ Len(s) \in Int /\ \A j \in (i + 1) .. Len(s) : s[j] \in S
        OBVIOUS
      <3>3. QED
        BY <3>1, <3>2, SubSeqProperties
    <2>3. QED
      BY <2>1, <2>2 DEF RemoveAt
  <1>3. QED
    BY <1>1, <1>2

\* A new element, repeated or not.
LEMMA AppendToSet ==
  ASSUME NEW S, NEW s \in Seq(S), NEW c \in S
  PROVE  ToSet(Append(s, c)) = ToSet(s) \cup {c}
  <1>1. Len(s) \in Nat /\ DOMAIN s = 1 .. Len(s) /\ DOMAIN Append(s, c) = 1 .. Len(s) + 1
    OBVIOUS
  <1>2. Append(s, c)[Len(s) + 1] = c /\ \A i \in 1 .. Len(s) : Append(s, c)[i] = s[i]
    OBVIOUS
  <1>3. 1 .. Len(s) + 1 = 1 .. Len(s) \cup {Len(s) + 1}
    BY <1>1
  <1> DEFINE t == Append(s, c)
  <1> HIDE DEF t
  <1>4. DOMAIN t = DOMAIN s \cup {Len(s) + 1} /\ t[Len(s) + 1] = c /\ \A i \in DOMAIN s : t[i] = s[i]
    BY <1>1, <1>2, <1>3 DEF t
  <1>5. ToSet(t) = ToSet(s) \cup {c}
    BY <1>4 DEF ToSet
  <1>6. QED
    BY <1>5 DEF t

\* What is left has no other elements.
LEMMA RemoveAtToSet ==
  ASSUME NEW S, NEW s \in Seq(S), NEW i \in DOMAIN s
  PROVE  ToSet(RemoveAt(s, i)) \subseteq ToSet(s)
  <1> DEFINE r == RemoveAt(s, i)
  <1>1. Len(s) \in Nat /\ DOMAIN s = 1 .. Len(s)
    OBVIOUS
  <1>2. /\ r \in Seq(S) /\ Len(r) = Len(s) - 1
        /\ \A j \in 1 .. (Len(s) - 1) : r[j] = IF j < i THEN s[j] ELSE s[j + 1]
    BY <1>1, RemoveAtElements
  <1> HIDE DEF r
  <1>3. DOMAIN r = 1 .. Len(s) - 1
    BY <1>2
  <1>4. ASSUME NEW j \in DOMAIN r PROVE r[j] \in ToSet(s)
    <2>1. j \in DOMAIN s /\ j + 1 \in DOMAIN s
      BY <1>1, <1>3
    <2>2. r[j] = s[j] \/ r[j] = s[j + 1]
      BY <1>2, <1>3
    <2>3. QED
      BY <2>1, <2>2 DEF ToSet
  <1>5. ToSet(r) \subseteq ToSet(s)
    BY <1>4 DEF ToSet
  <1>6. QED
    BY <1>5 DEF r

\* Two lists, one behind the other.
LEMMA ConcatToSet ==
  ASSUME NEW S, NEW s \in Seq(S), NEW t \in Seq(S)
  PROVE  ToSet(s \o t) = ToSet(s) \cup ToSet(t)
  <1> DEFINE r == s \o t
  <1>1. Len(s) \in Nat /\ Len(t) \in Nat /\ DOMAIN s = 1 .. Len(s) /\ DOMAIN t = 1 .. Len(t)
    OBVIOUS
  <1>2. /\ r \in Seq(S) /\ Len(r) = Len(s) + Len(t)
        /\ \A i \in 1 .. Len(s) + Len(t) : r[i] = IF i <= Len(s) THEN s[i] ELSE t[i - Len(s)]
    BY ConcatProperties
  <1> HIDE DEF r
  <1>3. DOMAIN r = 1 .. Len(s) + Len(t)
    BY <1>2
  <1>4. ASSUME NEW i \in DOMAIN r PROVE r[i] \in ToSet(s) \cup ToSet(t)
    <2>1. CASE i <= Len(s)
      BY <1>1, <1>2, <1>3, <2>1 DEF ToSet
    <2>2. CASE ~ (i <= Len(s))
      <3>1. i - Len(s) \in DOMAIN t /\ r[i] = t[i - Len(s)]
        BY <1>1, <1>2, <1>3, <2>2
      <3>2. QED
        BY <3>1 DEF ToSet
    <2>3. QED
      BY <2>1, <2>2
  <1>5. ASSUME NEW i \in DOMAIN s PROVE s[i] \in ToSet(r)
    <2>1. i \in DOMAIN r /\ r[i] = s[i]
      BY <1>1, <1>2, <1>3
    <2>2. QED
      BY <2>1 DEF ToSet
  <1>6. ASSUME NEW i \in DOMAIN t PROVE t[i] \in ToSet(r)
    <2>1. Len(s) + i \in DOMAIN r /\ r[Len(s) + i] = t[i]
      BY <1>1, <1>2, <1>3
    <2>2. QED
      BY <2>1 DEF ToSet
  <1>7. ToSet(r) = ToSet(s) \cup ToSet(t)
    BY <1>4, <1>5, <1>6 DEF ToSet
  <1>8. QED
    BY <1>7 DEF r

\* An element put between others.
LEMMA InsertAtIs ==
  ASSUME NEW S, NEW s \in Seq(S), NEW c \in S, NEW i \in 1 .. Len(s) + 1
  PROVE  /\ InsertAt(s, i, c) \in Seq(S)
         /\ Len(InsertAt(s, i, c)) = Len(s) + 1
         /\ ToSet(InsertAt(s, i, c)) = ToSet(s) \cup {c}
  <1> DEFINE p == SubSeq(s, 1, i - 1)
             q == SubSeq(s, i, Len(s))
  <1>1. Len(s) \in Nat /\ DOMAIN s = 1 .. Len(s)
    OBVIOUS
  <1>2. p \in Seq(S) /\ Len(p) = i - 1 /\ \A j \in 1 .. (i - 1) : p[j] = s[j]
    BY <1>1, SubSeqProperties
  <1>3. q \in Seq(S) /\ Len(q) = Len(s) + 1 - i /\ \A j \in 1 .. (Len(s) + 1 - i) : q[j] = s[i + j - 1]
    BY <1>1, SubSeqProperties
  <1>4. InsertAt(s, i, c) = (p \o <<c>>) \o q
    BY DEF InsertAt
  <1> HIDE DEF p, q
  <1>5. <<c>> \in Seq(S) /\ Len(<<c>>) = 1 /\ ToSet(<<c>>) = {c}
    BY DEF ToSet
  <1>6. ToSet(p) \cup ToSet(q) = ToSet(s)
    <2>1. DOMAIN p = 1 .. i - 1 /\ DOMAIN q = 1 .. Len(s) + 1 - i
      BY <1>1, <1>2, <1>3
    <2>2. ASSUME NEW j \in DOMAIN p PROVE p[j] \in ToSet(s)
      <3>1. j \in DOMAIN s /\ p[j] = s[j]
        BY <1>1, <1>2, <2>1
      <3>2. QED
        BY <3>1 DEF ToSet
    <2>3. ASSUME NEW j \in DOMAIN q PROVE q[j] \in ToSet(s)
      <3>1. j \in 1 .. (Len(s) + 1 - i) /\ i + j - 1 \in 1 .. Len(s)
        BY <1>1, <2>1
      <3>2. i + j - 1 \in DOMAIN s /\ q[j] = s[i + j - 1]
        BY <1>1, <1>3, <3>1
      <3>3. QED
        BY <3>2 DEF ToSet
    <2>4. ASSUME NEW j \in DOMAIN s PROVE s[j] \in ToSet(p) \cup ToSet(q)
      <3>1. CASE j < i
        <4>1. j \in DOMAIN p /\ p[j] = s[j]
          BY <1>1, <1>2, <2>1, <3>1
        <4>2. QED
          BY <4>1 DEF ToSet
      <3>2. CASE ~ (j < i)
        <4>1. j + 1 - i \in DOMAIN q /\ q[j + 1 - i] = s[j]
          <5>1. j + 1 - i \in 1 .. (Len(s) + 1 - i) /\ i + (j + 1 - i) - 1 = j
            BY <1>1, <3>2
          <5>2. QED
            BY <1>3, <2>1, <5>1
        <4>2. QED
          BY <4>1 DEF ToSet
      <3>3. QED
        BY <3>1, <3>2
    <2>5. QED
      BY <2>2, <2>3, <2>4 DEF ToSet
  <1>7. p \o <<c>> \in Seq(S) /\ Len(p \o <<c>>) = i /\ ToSet(p \o <<c>>) = ToSet(p) \cup {c}
    <2> DEFINE one == <<c>>
    <2>1. one \in Seq(S) /\ Len(one) = 1 /\ ToSet(one) = {c}
      BY <1>5
    <2> HIDE DEF one
    <2>2. ToSet(p \o one) = ToSet(p) \cup ToSet(one)
      BY <1>2, <2>1, ConcatToSet
    <2>3. p \o one \in Seq(S) /\ Len(p \o one) = Len(p) + Len(one)
      BY <1>2, <2>1, ConcatProperties
    <2>4. Len(p) + 1 = i
      BY <1>1, <1>2
    <2>5. QED
      BY <2>1, <2>2, <2>3, <2>4 DEF one
  <1> DEFINE pc == p \o <<c>>
  <1> HIDE DEF pc
  <1>8. /\ pc \o q \in Seq(S) /\ Len(pc \o q) = Len(s) + 1
        /\ ToSet(pc \o q) = ToSet(pc) \cup ToSet(q)
    <2>1. pc \in Seq(S) /\ Len(pc) = i
      BY <1>7 DEF pc
    <2>2. i + (Len(s) + 1 - i) = Len(s) + 1
      BY <1>1
    <2>3. QED
      BY <1>3, <2>1, <2>2, ConcatProperties, ConcatToSet
  <1>9. QED
    BY <1>4, <1>6, <1>7, <1>8 DEF pc

----------------------------------------------------------------------------
(* The least and the greatest of a set of naturals.                         *)

\* The order of the naturals as the relation that the library's theorems take.
LEMMA LessThanInNat == \A x, y \in Nat : <<x, y>> \in OpToRel(<, Nat) <=> x < y
  BY DEF OpToRel

LEMMA MinIs ==
  ASSUME NEW U \in SUBSET Nat, U # {}
  PROVE  Min(U) \in U /\ \A x \in U : Min(U) <= x
  <1> DEFINE R == OpToRel(<, Nat)
  <1>1. \A x, y \in Nat : <<x, y>> \in R <=> x < y
    BY LessThanInNat
  <1>2. IsWellFoundedOn(R, Nat)
    BY NatLessThanWellFounded
  <1> HIDE DEF R
  <1>3. PICK m \in U : \A y \in U : ~ (<<y, m>> \in R)
    BY <1>2, WFMin
  <1>4. ASSUME NEW y \in U PROVE m <= y
    <2>1. m \in Nat /\ y \in Nat /\ ~ (y < m)
      BY <1>1, <1>3
    <2>2. QED
      BY <2>1
  <1>5. QED
    BY <1>4 DEF Min

LEMMA MaxIs ==
  ASSUME NEW n \in Nat, NEW U \in SUBSET (0 .. n), U # {}
  PROVE  Max(U) \in U /\ \A x \in U : x <= Max(U)
  <1> DEFINE W == {n - x : x \in U}
  <1>1. W \in SUBSET Nat /\ W # {}
    <2>1. \A x \in U : n - x \in Nat
      OBVIOUS
    <2>2. QED
      BY <2>1
  <1>2. PICK w \in W : \A y \in W : w <= y
    BY <1>1, MinIs
  <1>3. PICK m \in U : w = n - m
    OBVIOUS
  <1>4. \A x \in U : x <= m
    <2>1. SUFFICES ASSUME NEW x \in U PROVE x <= m
      OBVIOUS
    <2>2. n - m <= n - x
      BY <1>2, <1>3
    <2>3. QED
      BY <2>2
  <1>5. QED
    BY <1>4 DEF Max

----------------------------------------------------------------------------
(* Induction and recursion over positions.                                  *)

\* A set that has every position whose predecessors it has, has them all.
LEMMA StrongInduction ==
  ASSUME NEW D \in SUBSET Nat, NEW T,
         \A i \in D : (\A j \in D : j < i => j \in T) => i \in T
  PROVE  D \subseteq T
  <1> DEFINE R == OpToRel(<, Nat)
             U == D \ T
  <1>1. \A x, y \in Nat : <<x, y>> \in R <=> x < y
    BY LessThanInNat
  <1>2. IsWellFoundedOn(R, Nat)
    BY NatLessThanWellFounded
  <1> HIDE DEF R
  <1>3. SUFFICES ASSUME U # {} PROVE FALSE
    OBVIOUS
  <1>4. PICK x \in U : \A y \in U : ~ (<<y, x>> \in R)
    BY <1>2, <1>3, WFMin
  <1>5. \A j \in D : j < x => j \in T
    BY <1>1, <1>4
  <1>6. QED
    BY <1>4, <1>5

\* Body makes a function of D to V from one, and looks only at smaller arguments.
Recursive(Body, D, V) ==
  /\ V # {} /\ \E N \in Nat : D \subseteq 0 .. N
  /\ Body \in [[D -> V] -> [D -> V]]
  /\ \A g, h \in [D -> V] : \A i \in D :
       (\A j \in D : j < i => g[j] = h[j]) => Body[g][i] = Body[h][i]

\* A recursive function that looks only at smaller arguments exists.
LEMMA Recursion ==
  ASSUME NEW Body, NEW D, NEW V, Recursive(Body, D, V)
  PROVE  \E f \in [D -> V] : f = Body[f]
  <1>1. PICK N \in Nat : D \subseteq 0 .. N
    BY DEF Recursive
  <1>2. V # {} /\ D \subseteq Nat /\ Body \in [[D -> V] -> [D -> V]]
    BY <1>1 DEF Recursive
  <1> DEFINE Fixed(g, n) == \A i \in D : i <= n => Body[g][i] = g[i]
             T == {n \in Nat : \E g \in [D -> V] : Fixed(g, n)}
  <1>3. ASSUME NEW n \in Nat, NEW g \in [D -> V],
               \A i \in D : i < n => Body[g][i] = g[i]
        PROVE  n \in T
    <2>1. PICK h \in [D -> V] : h = Body[g]
      BY <1>2
    <2>2. ASSUME NEW i \in D, i <= n
          PROVE  Body[h][i] = h[i]
      <3>1. \A j \in D : j < i => g[j] = h[j]
        BY <1>2, <1>3, <2>1, <2>2
      <3>2. QED
        BY <2>1, <3>1 DEF Recursive
    <2>3. Fixed(h, n)
      BY <2>2
    <2>4. QED
      BY <2>3
  <1>4. ASSUME NEW n \in Nat, \A m \in Nat : m < n => m \in T
        PROVE  n \in T
    <2>1. CASE n = 0
      <3>1. PICK v \in V : TRUE
        BY <1>2
      <3>2. PICK g \in [D -> V] : g = [i \in D |-> v]
        OBVIOUS
      <3>3. QED
        <4>1. \A i \in D : ~ (i < n)
          BY <1>2, <2>1
        <4> HIDE DEF T
        <4>2. QED
          BY <1>3, <3>2, <4>1
    <2>2. CASE n # 0
      <3>1. n - 1 \in T
        <4>1. n - 1 \in Nat /\ n - 1 < n
          BY <2>2
        <4> HIDE DEF T
        <4>2. QED
          BY <1>4, <4>1
      <3>2. PICK g \in [D -> V] : Fixed(g, n - 1)
        BY <3>1
      <3>3. \A i \in D : i < n => Body[g][i] = g[i]
        BY <1>2, <2>2, <3>2
      <3>4. QED
        BY <1>3, <3>3
    <2>3. QED
      BY <2>1, <2>2
  <1> HIDE DEF T
  <1>5. Nat \subseteq T
    BY <1>4, StrongInduction
  <1>6. PICK f \in [D -> V] : Fixed(f, N)
    BY <1>5 DEF T
  <1>7. \A i \in D : Body[f][i] = f[i]
    BY <1>1, <1>6
  <1>8. Body[f] = f
    <2>1. PICK h \in [D -> V] : h = Body[f]
      BY <1>2
    <2>2. \A i \in D : h[i] = f[i]
      BY <1>7, <2>1
    <2>3. h = f
      <3>1. h = [i \in D |-> h[i]] /\ f = [i \in D |-> f[i]]
        OBVIOUS
      <3>2. QED
        BY <2>2, <3>1, Zenon
    <2>4. QED
      BY <2>1, <2>3, Zenon
  <1>9. QED
    BY <1>8

\* What a comprehension with a condition keeps.
LEMMA PickedIs ==
  ASSUME NEW S, NEW s \in Seq(S), NEW at
  PROVE  /\ Picked(s, at) \in Seq(S)
         /\ ToSet(Picked(s, at)) = {s[i] : i \in at \cap DOMAIN s}
  <1> DEFINE D == 0 .. Len(s)
             V == Seq(S)
             E(g, n) == IF n = 0 THEN <<>>
                        ELSE IF n \in at THEN Append(g[n - 1], s[n]) ELSE g[n - 1]
             upTo == CHOOSE g : g = [n \in D |-> E(g, n)]
             Body == [g \in [D -> V] |-> [n \in D |-> E(g, n)]]
             At(n) == {s[i] : i \in at \cap 1 .. n}
  <1>1. Len(s) \in Nat /\ D \in SUBSET (0 .. Len(s)) /\ V # {}
    OBVIOUS
  <1>2. DOMAIN s = 1 .. Len(s) /\ \A n \in D \ {0} : s[n] \in S /\ n - 1 \in D /\ n - 1 < n
    OBVIOUS
  <1>3. \A g \in [D -> V] : \A n \in D : E(g, n) \in V
    BY <1>2
  <1>4. Body \in [[D -> V] -> [D -> V]]
    BY <1>3
  <1>5. Recursive(Body, D, V)
    BY <1>1, <1>2, <1>4 DEF Recursive
  <1>6. PICK f \in [D -> V] : f = Body[f]
    <2> HIDE DEF D, V, Body
    <2> QED
      BY <1>5, Recursion
  <1>7. f = [n \in D |-> E(f, n)]
    BY <1>6
  <1>8. upTo = [n \in D |-> E(upTo, n)]
    <2> HIDE DEF D, E
    <2> QED
      BY <1>7
  <1>9. Picked(s, at) = upTo[Len(s)]
    BY DEF Picked
  <1> HIDE DEF upTo, Body
  <1> DEFINE T == {n \in D : upTo[n] \in V /\ ToSet(upTo[n]) = At(n)}
  <1>10. ASSUME NEW n \in D, \A j \in D : j < n => j \in T
         PROVE  n \in T
    <2>1. upTo[n] = E(upTo, n)
      BY <1>8
    <2>2. CASE n = 0
      BY <2>1, <2>2 DEF ToSet
    <2>3. CASE n # 0
      <3>1. n - 1 \in D /\ n - 1 < n /\ s[n] \in S /\ n \in Nat
        BY <1>2, <2>3
      <3>2. upTo[n - 1] \in V /\ ToSet(upTo[n - 1]) = At(n - 1)
        BY <1>10, <3>1
      <3>3. At(n) = At(n - 1) \cup (IF n \in at THEN {s[n]} ELSE {})
        <4>1. 1 .. n = 1 .. (n - 1) \cup {n}
          BY <2>3, <3>1
        <4>2. QED
          BY <4>1
      <3>4. ToSet(Append(upTo[n - 1], s[n])) = ToSet(upTo[n - 1]) \cup {s[n]}
        BY <3>1, <3>2, AppendToSet
      <3>5. upTo[n] \in V
        BY <2>1, <2>3, <3>1, <3>2
      <3>6. ToSet(upTo[n]) = At(n)
        <4> HIDE DEF At
        <4> QED
          BY <2>1, <2>3, <3>2, <3>3, <3>4
      <3>7. QED
        BY <3>5, <3>6
    <2>4. QED
      BY <2>2, <2>3
  <1>11. D \subseteq T
    <2>1. D \in SUBSET Nat
      OBVIOUS
    <2> HIDE DEF D, T
    <2>2. QED
      BY <1>10, <2>1, StrongInduction
  <1>12. Len(s) \in T
    <2> HIDE DEF T
    <2> QED
      BY <1>1, <1>11
  <1>13. QED
    BY <1>2, <1>9, <1>12
=============================================================================
