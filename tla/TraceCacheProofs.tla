--------------------------- MODULE TraceCacheProofs ---------------------------
(***************************************************************************)
(* Theorems about TraceCache, for any calls and any max_entries: that the  *)
(* threads keep the promises of Correlation, and the bound on the cache.   *)
(***************************************************************************)
EXTENDS TraceCache, SequenceLemmas, FiniteSetTheorems

----------------------------------------------------------------------------
Before == {"idle", "put scan", "put evict", "insert", "unput"}

Puts == {c \in ToSet(entries) : Putting(c)}

Shape ==
  /\ entries \in Seq(Calls) /\ IsInjective(entries)
  /\ stage \in [Calls -> Stages]
  /\ got \in [Calls -> {"none", "found", "missing", "raised"}]

\* The inductive invariant: no entry before its put inserts it or after its put
\* has raised, and a call is over when it has its answer.
CacheInv ==
  /\ Shape
  /\ \A c \in Calls : stage[c] \in Before => c \notin ToSet(entries)
  /\ \A c \in Calls : got[c] = "none" <=> stage[c] # "end"

\* What a step of the thread of call c may do to the cache.
Quiet(c) ==
  /\ entries' = entries /\ got' = got
  /\ \E s \in Stages \ {"end"} :
       /\ stage[c] # "end"
       /\ stage' = [stage EXCEPT ![c] = s]
       /\ s \in Before => c \notin ToSet(entries)
       /\ \/ stage[c] \in {"move", "check", "trim"} => s \in {"move", "check", "trim"}
          \/ c \notin ToSet(entries)
          \/ Len(entries) <= MaxEntries

Inserts(c) ==
  /\ stage[c] = "insert"
  /\ entries' = Append(entries, c)
  /\ stage' = [stage EXCEPT ![c] = "move"] /\ got' = got

Moves(c) ==
  /\ stage[c] = "move" /\ c \in ToSet(entries)
  /\ entries' = Append(Without(entries, c), c)
  /\ stage' = [stage EXCEPT ![c] = "check"] /\ got' = got

Drops ==
  /\ \E d : entries' = Without(entries, d)
  /\ stage' = stage /\ got' = got

Trims(c) ==
  /\ stage[c] = "trim" /\ entries # <<>>
  /\ entries' = Tail(entries)
  /\ stage' = [stage EXCEPT ![c] = "check"] /\ got' = got

Takes(c) ==
  /\ stage[c] = "pop evict"
  /\ entries' = Without(entries, c)
  /\ stage' = [stage EXCEPT ![c] = "end"]
  /\ got' = [got EXCEPT ![c] = IF c \in ToSet(entries) THEN "found" ELSE "missing"]

Fails(c) ==
  /\ stage[c] = "pop scan"
  /\ entries' = entries
  /\ stage' = [stage EXCEPT ![c] = "end"]
  /\ got' = [got EXCEPT ![c] = "raised"]

LEMMA NextIs ==
  ASSUME CacheInv, [Next]_vars
  PROVE  \/ UNCHANGED <<entries, stage, got>>
         \/ Drops
         \/ \E c \in Calls :
              Quiet(c) \/ Inserts(c) \/ Moves(c) \/ Trims(c) \/ Takes(c) \/ Fails(c)
  <1> USE DEF Goto, Stages, PutStages, PopStages, Before
  <1>1. ASSUME NEW c \in Calls,
               BeginPut(c) \/ ScanEntries(c, "put scan", "put evict") \/ PutScanRaises(c)
               \/ Create(c)
        PROVE  Quiet(c)
    <2>1. c \notin ToSet(entries)
      BY <1>1 DEF CacheInv, BeginPut, ScanEntries, PutScanRaises, Create, Evicted
    <2>2. QED
      BY <1>1, <2>1
         DEF BeginPut, BeginEvict, ScanEntries, PutScanRaises, PutRaises, Create, Evicted, Quiet
  <1>2. ASSUME NEW c \in Calls, MoveRaises(c) \/ CheckSize(c) \/ TrimRaises(c)
        PROVE  Quiet(c)
    <2>1. CASE MoveRaises(c)
      BY <2>1 DEF MoveRaises, PutRaises, Quiet
    <2>2. CASE CheckSize(c) /\ TooMany
      BY <2>2 DEF CheckSize, Quiet
    <2>3. CASE CheckSize(c) /\ ~ TooMany
      <3>1. Len(entries) <= MaxEntries
        <4>1. entries \in Seq(Calls)
          BY DEF CacheInv, Shape
        <4>2. Len(entries) \in Nat /\ MaxEntries \in Nat
          BY <4>1, EntriesAssumption
        <4>3. QED
          BY <2>3, <4>2 DEF TooMany
      <3>2. QED
        BY <2>3, <3>1 DEF CheckSize, Quiet
    <2>4. CASE TrimRaises(c)
      <3>1. c \notin ToSet(entries)
        BY <2>4 DEF TrimRaises, ToSet
      <3>2. QED
        BY <2>4, <3>1 DEF TrimRaises, PutRaises, Quiet
    <2>5. QED
      BY <1>2, <2>1, <2>2, <2>3, <2>4
  <1>3. ASSUME NEW c \in Calls, BeginPop(c) \/ ScanEntries(c, "pop scan", "pop evict")
        PROVE  Quiet(c)
    BY <1>3 DEF BeginPop, BeginEvict, ScanEntries, Quiet
  <1>4. ASSUME NEW c \in Calls, Insert(c)
        PROVE  Inserts(c)
    BY <1>4 DEF Insert, Change, Inserts
  <1>5. ASSUME NEW c \in Calls, MoveToEnd(c)
        PROVE  Moves(c)
    BY <1>5 DEF MoveToEnd, Change, Moves
  <1>6. ASSUME NEW c \in Calls, EvictOne(c)
        PROVE  Drops
    BY <1>6 DEF EvictOne, Change, Drops
  <1>7. ASSUME NEW c \in Calls, Trim(c)
        PROVE  Trims(c)
    BY <1>7 DEF Trim, Change, Trims
  <1>8. ASSUME NEW c \in Calls, Take(c)
        PROVE  Takes(c)
    BY <1>8 DEF Take, Evicted, Answer, Change, Takes
  <1>9. ASSUME NEW c \in Calls, PopScanRaises(c)
        PROVE  Fails(c)
    BY <1>9 DEF PopScanRaises, Answer, Fails
  <1>10. CASE Age \/ UNCHANGED vars
    BY <1>10 DEF Age, vars
  <1>11. QED
    BY <1>1, <1>2, <1>3, <1>4, <1>5, <1>6, <1>7, <1>8, <1>9, <1>10
       DEF Next, PutStep, PopStep

\* What the steps do to the entries, as sets.
LEMMA EntriesAre ==
  ASSUME CacheInv
  PROVE  /\ \A c \in Calls : Inserts(c) =>
              /\ entries' \in Seq(Calls) /\ IsInjective(entries')
              /\ ToSet(entries') = ToSet(entries) \cup {c} /\ c \notin ToSet(entries)
              /\ Len(entries') = Len(entries) + 1
         /\ \A c \in Calls : Moves(c) =>
              /\ entries' \in Seq(Calls) /\ IsInjective(entries')
              /\ ToSet(entries') = ToSet(entries) /\ Len(entries') = Len(entries)
         /\ \A d : entries' = Without(entries, d) =>
              /\ entries' \in Seq(Calls) /\ IsInjective(entries')
              /\ ToSet(entries') = ToSet(entries) \ {d}
              /\ Len(entries') = IF d \in ToSet(entries) THEN Len(entries) - 1 ELSE Len(entries)
         /\ \A c \in Calls : Trims(c) =>
              /\ entries' \in Seq(Calls) /\ IsInjective(entries')
              /\ Head(entries) \in ToSet(entries)
              /\ ToSet(entries') = ToSet(entries) \ {Head(entries)}
              /\ Len(entries') = Len(entries) - 1
  <1>1. entries \in Seq(Calls) /\ IsInjective(entries) /\ Len(entries) \in Nat
    BY DEF CacheInv, Shape
  <1>2. ASSUME NEW c \in Calls, Inserts(c)
        PROVE  /\ entries' \in Seq(Calls) /\ IsInjective(entries')
               /\ ToSet(entries') = ToSet(entries) \cup {c} /\ c \notin ToSet(entries)
               /\ Len(entries') = Len(entries) + 1
    BY <1>1, <1>2, AppendIs DEF Inserts, CacheInv, Before
  <1>3. ASSUME NEW c \in Calls, Moves(c)
        PROVE  /\ entries' \in Seq(Calls) /\ IsInjective(entries')
               /\ ToSet(entries') = ToSet(entries) /\ Len(entries') = Len(entries)
    <2>1. /\ Without(entries, c) \in Seq(Calls) /\ IsInjective(Without(entries, c))
          /\ ToSet(Without(entries, c)) = ToSet(entries) \ {c}
          /\ Len(Without(entries, c)) = Len(entries) - 1
          /\ c \in ToSet(entries) /\ entries' = Append(Without(entries, c), c)
      BY <1>1, <1>3, WithoutIs DEF Moves
    <2>2. /\ entries' \in Seq(Calls) /\ IsInjective(entries')
          /\ ToSet(entries') = (ToSet(entries) \ {c}) \cup {c}
          /\ Len(entries') = Len(entries) - 1 + 1
      BY <2>1, AppendIs
    <2>3. QED
      BY <1>1, <2>1, <2>2
  <1>4. ASSUME NEW d, entries' = Without(entries, d)
        PROVE  /\ entries' \in Seq(Calls) /\ IsInjective(entries')
               /\ ToSet(entries') = ToSet(entries) \ {d}
               /\ Len(entries') = IF d \in ToSet(entries) THEN Len(entries) - 1
                                                         ELSE Len(entries)
    BY <1>1, <1>4, WithoutIs
  <1>5. ASSUME NEW c \in Calls, Trims(c)
        PROVE  /\ entries' \in Seq(Calls) /\ IsInjective(entries')
               /\ Head(entries) \in ToSet(entries)
               /\ ToSet(entries') = ToSet(entries) \ {Head(entries)}
               /\ Len(entries') = Len(entries) - 1
    <2>1. entries # <<>> /\ entries' = Tail(entries)
      BY <1>5 DEF Trims
    <2>2. QED
      BY <1>1, <2>1, TailIs
  <1>6. QED
    BY <1>2, <1>3, <1>4, <1>5

LEMMA CacheInvNext == CacheInv /\ [Next]_vars => CacheInv'
  <1> SUFFICES ASSUME CacheInv, [Next]_vars
               PROVE  CacheInv'
    OBVIOUS
  <1> USE DEF Stages, PutStages, PopStages, Before
  <1>1. /\ entries \in Seq(Calls) /\ IsInjective(entries)
        /\ stage \in [Calls -> Stages] /\ got \in [Calls -> {"none", "found", "missing", "raised"}]
    BY DEF CacheInv, Shape
  <1>2. CASE UNCHANGED <<entries, stage, got>>
    BY <1>2 DEF CacheInv, Shape
  <1>3. CASE Drops
    <2>1. PICK d : entries' = Without(entries, d)
      BY <1>3 DEF Drops
    <2>2. /\ entries' \in Seq(Calls) /\ IsInjective(entries')
          /\ ToSet(entries') = ToSet(entries) \ {d}
      BY <2>1, EntriesAre
    <2>3. QED
      BY <1>1, <1>3, <2>2 DEF Drops, CacheInv, Shape
  <1>4. ASSUME NEW c \in Calls, Quiet(c)
        PROVE  CacheInv'
    BY <1>1, <1>4 DEF Quiet, CacheInv, Shape
  <1>5. ASSUME NEW c \in Calls, Inserts(c)
        PROVE  CacheInv'
    BY <1>1, <1>5, EntriesAre DEF Inserts, CacheInv, Shape
  <1>6. ASSUME NEW c \in Calls, Moves(c)
        PROVE  CacheInv'
    BY <1>1, <1>6, EntriesAre DEF Moves, CacheInv, Shape
  <1>7. ASSUME NEW c \in Calls, Trims(c)
        PROVE  CacheInv'
    BY <1>1, <1>7, EntriesAre DEF Trims, CacheInv, Shape
  <1>8. ASSUME NEW c \in Calls, Takes(c)
        PROVE  CacheInv'
    BY <1>1, <1>8, EntriesAre DEF Takes, CacheInv, Shape
  <1>9. ASSUME NEW c \in Calls, Fails(c)
        PROVE  CacheInv'
    BY <1>1, <1>9 DEF Fails, CacheInv, Shape
  <1>10. QED
    BY <1>2, <1>3, <1>4, <1>5, <1>6, <1>7, <1>8, <1>9, NextIs

LEMMA CacheInvariance == Spec => []CacheInv
  <1>1. Init => CacheInv
    BY DEF Init, CacheInv, Shape, Stages, Before, ToSet, IsInjective
  <1>2. QED
    BY <1>1, CacheInvNext, PTL DEF Spec

\* A put that raised leaves no entry, whatever the other threads do.
THEOREM FailedPutsHoldNothing == Spec => []FailedPutHoldsNothing
  <1>1. CacheInv => FailedPutHoldsNothing
    BY DEF CacheInv, Before, FailedPutHoldsNothing
  <1>2. QED
    BY <1>1, CacheInvariance, PTL

----------------------------------------------------------------------------
\* Every step of the threads is one of Correlation's, or a stutter.
LEMMA CorrelationStep ==
  ASSUME CacheInv, [Next]_vars
  PROVE  [CorrelationSpec!Next]_(CorrelationSpec!vars)
  <1> USE DEF CorrelationSpec!vars, CorrelationSpec!Next, CorrelationSpec!Answer
  <1>1. entries \in Seq(Calls) /\ \A d \in ToSet(entries) : d \in Calls
    BY DEF CacheInv, Shape, ToSet
  <1>2. CASE UNCHANGED <<entries, stage, got>>
    BY <1>2
  <1>3. CASE Drops
    <2>1. PICK d : entries' = Without(entries, d)
      BY <1>3 DEF Drops
    <2>2. ToSet(entries') = ToSet(entries) \ {d} /\ got' = got
      BY <1>3, <2>1, EntriesAre DEF Drops
    <2>3. CASE d \in ToSet(entries)
      BY <1>1, <2>2, <2>3 DEF CorrelationSpec!Drop
    <2>4. CASE d \notin ToSet(entries)
      BY <2>2, <2>4
    <2>5. QED
      BY <2>3, <2>4
  <1>4. ASSUME NEW c \in Calls, Quiet(c)
        PROVE  UNCHANGED CorrelationSpec!vars
    BY <1>4 DEF Quiet
  <1>5. ASSUME NEW c \in Calls, Inserts(c)
        PROVE  CorrelationSpec!Put(c)
    BY <1>5, EntriesAre DEF Inserts, CacheInv, CorrelationSpec!Put
  <1>6. ASSUME NEW c \in Calls, Moves(c)
        PROVE  UNCHANGED CorrelationSpec!vars
    BY <1>6, EntriesAre DEF Moves
  <1>7. ASSUME NEW c \in Calls, Trims(c)
        PROVE  CorrelationSpec!Drop(Head(entries)) /\ Head(entries) \in Calls
    BY <1>1, <1>7, EntriesAre DEF Trims, CorrelationSpec!Drop
  <1>8. ASSUME NEW c \in Calls, Takes(c)
        PROVE  CorrelationSpec!Hand(c) \/ CorrelationSpec!Miss(c)
    <2>1. got[c] = "none" /\ ToSet(entries') = ToSet(entries) \ {c}
      BY <1>8, EntriesAre DEF Takes, CacheInv
    <2>2. CASE c \in ToSet(entries)
      BY <1>8, <2>1, <2>2 DEF Takes, CorrelationSpec!Hand
    <2>3. CASE c \notin ToSet(entries)
      BY <1>8, <2>1, <2>3 DEF Takes, CorrelationSpec!Miss
    <2>4. QED
      BY <2>2, <2>3
  <1>9. ASSUME NEW c \in Calls, Fails(c)
        PROVE  CorrelationSpec!Fail(c)
    BY <1>9 DEF Fails, CacheInv, CorrelationSpec!Fail
  <1>10. QED
    BY <1>2, <1>3, <1>4, <1>5, <1>6, <1>7, <1>8, <1>9, NextIs

\* Whatever the threads interleave, a decision is handed out once at most, and
\* none is missed that the cache still holds.
THEOREM CacheCorrelates == Spec => ImplementsCorrelation
  <1>1. Init => CorrelationSpec!Init
    BY DEF Init, CorrelationSpec!Init, ToSet
  <1>2. CacheInv /\ [Next]_vars => [CorrelationSpec!Next]_(CorrelationSpec!vars)
    BY CorrelationStep
  <1>3. QED
    BY <1>1, <1>2, CacheInvariance, PTL DEF Spec, ImplementsCorrelation, CorrelationSpec!Spec

----------------------------------------------------------------------------
(* The bound.                                                              *)

Bounded == Len(entries) <= MaxEntries + Cardinality(Puts)

LEMMA PutsFinite == CacheInv => IsFiniteSet(Puts) /\ Cardinality(Puts) \in Nat
  <1> SUFFICES ASSUME CacheInv
               PROVE  IsFiniteSet(Puts)
    BY FS_CardinalityType
  <1>1. entries \in Seq(Calls)
    BY DEF CacheInv, Shape
  <1>2. DOMAIN entries = 1 .. Len(entries) /\ Len(entries) \in Nat
    BY <1>1
  <1>3. IsFiniteSet(DOMAIN entries)
    BY <1>2, FS_Interval
  <1>4. IsFiniteSet(ToSet(entries))
    <2>1. entries \in Surjection(DOMAIN entries, ToSet(entries))
      BY <1>1, <1>2 DEF Surjection, ToSet
    <2>2. QED
      BY <1>3, <2>1, FS_Surjection
  <1>5. QED
    BY <1>4, FS_Subset DEF Puts

\* The cache grows by a put that begins, and a put ends when it fits.
LEMMA BoundKept ==
  ASSUME CacheInv, CacheInv', Bounded,
         \/ Len(entries') <= MaxEntries
         \/ Len(entries') = Len(entries) /\ Puts \subseteq Puts'
         \/ \E c : /\ Len(entries') = Len(entries) + 1
                   /\ Puts \subseteq Puts' /\ c \in Puts' \ Puts
         \/ \E c : Len(entries') = Len(entries) - 1 /\ Puts \ {c} \subseteq Puts'
  PROVE  Bounded'
  <1>1. /\ IsFiniteSet(Puts) /\ Cardinality(Puts) \in Nat
        /\ IsFiniteSet(Puts') /\ Cardinality(Puts') \in Nat
        /\ Len(entries) \in Nat /\ Len(entries') \in Nat /\ MaxEntries \in Nat
    <2>1. entries \in Seq(Calls) /\ entries' \in Seq(Calls)
      BY DEF CacheInv, Shape
    <2>2. (CacheInv => IsFiniteSet(Puts) /\ Cardinality(Puts) \in Nat)'
      BY PutsFinite, PTL
    <2>3. QED
      BY <2>1, <2>2, PutsFinite, EntriesAssumption
  <1>2. CASE Len(entries') <= MaxEntries
    BY <1>1, <1>2 DEF Bounded
  <1>3. CASE Len(entries') = Len(entries) /\ Puts \subseteq Puts'
    <2>1. Cardinality(Puts) <= Cardinality(Puts')
      BY <1>1, <1>3, FS_Subset
    <2>2. QED
      BY <1>1, <1>3, <2>1 DEF Bounded
  <1>4. ASSUME NEW c, Len(entries') = Len(entries) + 1, Puts \subseteq Puts', c \in Puts' \ Puts
        PROVE  Bounded'
    <2>1. Cardinality(Puts \cup {c}) = Cardinality(Puts) + 1 /\ IsFiniteSet(Puts \cup {c})
      BY <1>1, <1>4, FS_AddElement
    <2>2. Cardinality(Puts \cup {c}) <= Cardinality(Puts')
      BY <1>1, <1>4, FS_Subset
    <2>3. QED
      BY <1>1, <1>4, <2>1, <2>2 DEF Bounded
  <1>5. ASSUME NEW c, Len(entries') = Len(entries) - 1, Puts \ {c} \subseteq Puts'
        PROVE  Bounded'
    <2>1. IsFiniteSet(Puts \ {c}) /\ Cardinality(Puts \ {c}) \in {Cardinality(Puts), Cardinality(Puts) - 1}
      BY <1>1, FS_RemoveElement
    <2>2. Cardinality(Puts \ {c}) <= Cardinality(Puts')
      BY <1>1, <1>5, FS_Subset
    <2>3. QED
      BY <1>1, <1>5, <2>1, <2>2 DEF Bounded
  <1>6. QED
    BY <1>2, <1>3, <1>4, <1>5

LEMMA BoundedNext == CacheInv /\ Bounded /\ [Next]_vars => Bounded'
  <1> SUFFICES ASSUME CacheInv, Bounded, [Next]_vars
               PROVE  Bounded'
    OBVIOUS
  <1> USE DEF Puts, Putting
  <1>1. CacheInv' /\ stage \in [Calls -> Stages] /\ ToSet(entries) \subseteq Calls
    BY CacheInvNext DEF CacheInv, Shape, ToSet
  <1>2. CASE UNCHANGED <<entries, stage, got>>
    <2>1. Len(entries') = Len(entries) /\ Puts \subseteq Puts'
      BY <1>2
    <2>2. QED
      BY <1>1, <2>1, BoundKept
  <1>3. CASE Drops
    <2>1. PICK d : entries' = Without(entries, d)
      BY <1>3 DEF Drops
    <2>2. /\ ToSet(entries') = ToSet(entries) \ {d}
          /\ Len(entries') = IF d \in ToSet(entries) THEN Len(entries) - 1 ELSE Len(entries)
          /\ stage' = stage
      BY <1>3, <2>1, EntriesAre DEF Drops
    <2>3. Puts' = Puts \ {d}
      BY <2>2
    <2>4. CASE d \in ToSet(entries)
      BY <1>1, <2>2, <2>3, <2>4, BoundKept
    <2>5. CASE d \notin ToSet(entries)
      <3>1. Len(entries') = Len(entries) /\ Puts \subseteq Puts'
        BY <2>2, <2>5
      <3>2. QED
        BY <1>1, <3>1, BoundKept
    <2>6. QED
      BY <2>4, <2>5
  <1>4. ASSUME NEW c \in Calls, Quiet(c)
        PROVE  Bounded'
    <2>1. entries' = entries /\ Len(entries') = Len(entries)
      BY <1>4 DEF Quiet
    <2>2. Puts \subseteq Puts' \/ Len(entries') <= MaxEntries
      BY <1>1, <1>4, <2>1 DEF Quiet
    <2>3. QED
      BY <1>1, <2>1, <2>2, BoundKept
  <1>5. ASSUME NEW c \in Calls, Inserts(c)
        PROVE  Bounded'
    <2>1. /\ ToSet(entries') = ToSet(entries) \cup {c} /\ c \notin ToSet(entries)
          /\ Len(entries') = Len(entries) + 1
      BY <1>5, EntriesAre
    <2>2. Puts \subseteq Puts' /\ c \in Puts' \ Puts
      BY <1>1, <1>5, <2>1 DEF Inserts
    <2>3. QED
      BY <1>1, <2>1, <2>2, BoundKept
  <1>6. ASSUME NEW c \in Calls, Moves(c)
        PROVE  Bounded'
    <2>1. ToSet(entries') = ToSet(entries) /\ Len(entries') = Len(entries)
      BY <1>6, EntriesAre
    <2>2. Puts \subseteq Puts'
      BY <1>1, <1>6, <2>1 DEF Moves
    <2>3. QED
      BY <1>1, <2>1, <2>2, BoundKept
  <1>7. ASSUME NEW c \in Calls, Trims(c)
        PROVE  Bounded'
    <2>1. ToSet(entries') = ToSet(entries) \ {Head(entries)} /\ Len(entries') = Len(entries) - 1
      BY <1>7, EntriesAre
    <2>2. Puts \ {Head(entries)} \subseteq Puts'
      BY <1>1, <1>7, <2>1 DEF Trims
    <2>3. QED
      BY <1>1, <2>1, <2>2, BoundKept
  <1>8. ASSUME NEW c \in Calls, Takes(c)
        PROVE  Bounded'
    <2>1. /\ ToSet(entries') = ToSet(entries) \ {c}
          /\ Len(entries') = IF c \in ToSet(entries) THEN Len(entries) - 1 ELSE Len(entries)
      BY <1>8, EntriesAre DEF Takes
    <2>2. Puts \subseteq Puts'
      BY <1>1, <1>8, <2>1 DEF Takes
    <2>3. CASE c \in ToSet(entries)
      <3>1. Len(entries') = Len(entries) - 1 /\ Puts \ {c} \subseteq Puts'
        BY <2>1, <2>2, <2>3
      <3>2. QED
        BY <1>1, <3>1, BoundKept
    <2>4. CASE c \notin ToSet(entries)
      BY <1>1, <2>1, <2>2, <2>4, BoundKept
    <2>5. QED
      BY <2>3, <2>4
  <1>9. ASSUME NEW c \in Calls, Fails(c)
        PROVE  Bounded'
    <2>1. Len(entries') = Len(entries) /\ Puts \subseteq Puts'
      BY <1>1, <1>9 DEF Fails
    <2>2. QED
      BY <1>1, <2>1, BoundKept
  <1>10. QED
    BY <1>2, <1>3, <1>4, <1>5, <1>6, <1>7, <1>8, <1>9, NextIs

\* The cache never outgrows max_entries by more than the puts under way.
THEOREM CacheBounded == Spec => []BoundedByPuts
  <1>1. Init => Bounded
    <2> SUFFICES ASSUME Init
                 PROVE  Bounded
      OBVIOUS
    <2>1. Len(entries) = 0 /\ Puts = {}
      BY DEF Init, Puts, ToSet
    <2>2. QED
      BY <2>1, EntriesAssumption, FS_EmptySet DEF Bounded
  <1>2. CacheInv /\ Bounded /\ [Next]_vars => Bounded'
    BY BoundedNext
  <1>3. Bounded => BoundedByPuts
    BY DEF Bounded, BoundedByPuts, Puts
  <1>4. QED
    BY <1>1, <1>2, <1>3, CacheInvariance, PTL DEF Spec

----------------------------------------------------------------------------
(* The types, and with them the clock: born and age are what created_at and *)
(* the ttl come to, and every entry was born.                               *)

\* A call is not born before its put creates the entry, and born when the put
\* inserts it: no call is born twice.
ClockInv ==
  /\ born \in Seq(Calls) /\ IsInjective(born) /\ ToSet(entries) \subseteq ToSet(born)
  /\ age \in 0 .. Len(born)
  /\ now \in [Calls -> 0 .. Len(born)]
  /\ stale \in [Calls -> BOOLEAN]
  /\ doomed \in [Calls -> Seq(Calls)]
  /\ \A c \in Calls : stage[c] \in {"idle", "put scan", "put evict"} => c \notin ToSet(born)
  /\ \A c \in Calls : stage[c] = "insert" => c \in ToSet(born)

\* What the entries are after a step, before anything is said of their order.
LEMMA EntriesWereBorn ==
  ASSUME CacheInv, ClockInv, [Next]_vars
  PROVE  ToSet(entries') \subseteq ToSet(born)
  <1>1. ToSet(entries) \subseteq ToSet(born)
    BY DEF ClockInv
  <1>2. CASE UNCHANGED <<entries, stage, got>>
    BY <1>1, <1>2
  <1>3. CASE Drops
    BY <1>1, <1>3, EntriesAre DEF Drops
  <1>4. ASSUME NEW c \in Calls, Quiet(c) \/ Fails(c)
        PROVE  ToSet(entries') \subseteq ToSet(born)
    BY <1>1, <1>4 DEF Quiet, Fails
  <1>5. ASSUME NEW c \in Calls, Inserts(c)
        PROVE  ToSet(entries') \subseteq ToSet(born)
    <2>1. c \in ToSet(born)
      BY <1>5 DEF Inserts, ClockInv
    <2>2. QED
      BY <1>1, <1>5, <2>1, EntriesAre
  <1>6. ASSUME NEW c \in Calls, Moves(c) \/ Trims(c)
        PROVE  ToSet(entries') \subseteq ToSet(born)
    BY <1>1, <1>6, EntriesAre
  <1>7. ASSUME NEW c \in Calls, Takes(c)
        PROVE  ToSet(entries') \subseteq ToSet(born)
    BY <1>1, <1>7, EntriesAre DEF Takes
  <1>8. QED
    BY <1>2, <1>3, <1>4, <1>5, <1>6, <1>7, NextIs

\* A step that leaves born alone, by what it does to the other parts.
LEMMA ClockKept ==
  ASSUME CacheInv, ClockInv, [Next]_vars, born' = born,
         age' \in 0 .. Len(born),
         now' \in [Calls -> 0 .. Len(born)],
         stale' \in [Calls -> BOOLEAN],
         doomed' \in [Calls -> Seq(Calls)],
         \A c \in Calls : /\ stage'[c] = "insert" => stage[c] = "insert"
                          /\ stage'[c] \in {"idle", "put scan", "put evict"} =>
                               stage[c] \in {"idle", "put scan", "put evict"}
  PROVE  ClockInv'
  <1>1. ToSet(entries') \subseteq ToSet(born')
    BY EntriesWereBorn
  <1>2. ASSUME NEW c \in Calls
        PROVE  /\ stage'[c] \in {"idle", "put scan", "put evict"} => c \notin ToSet(born')
               /\ stage'[c] = "insert" => c \in ToSet(born')
    BY DEF ClockInv
  <1>3. born' \in Seq(Calls) /\ IsInjective(born') /\ Len(born') = Len(born)
    BY DEF ClockInv
  <1>4. QED
    BY <1>1, <1>2, <1>3 DEF ClockInv

LEMMA ClockInvNext == CacheInv /\ ClockInv /\ [Next]_vars => ClockInv'
  <1> SUFFICES ASSUME CacheInv, ClockInv, [Next]_vars
               PROVE  ClockInv'
    OBVIOUS
  <1>1. /\ entries \in Seq(Calls) /\ stage \in [Calls -> Stages]
        /\ born \in Seq(Calls) /\ Len(born) \in Nat /\ age \in 0 .. Len(born)
        /\ now \in [Calls -> 0 .. Len(born)] /\ stale \in [Calls -> BOOLEAN]
        /\ doomed \in [Calls -> Seq(Calls)]
    <2>1. /\ entries \in Seq(Calls) /\ stage \in [Calls -> Stages]
          /\ born \in Seq(Calls) /\ age \in 0 .. Len(born)
          /\ now \in [Calls -> 0 .. Len(born)] /\ stale \in [Calls -> BOOLEAN]
          /\ doomed \in [Calls -> Seq(Calls)]
      BY Zenon DEF CacheInv, Shape, ClockInv
    <2>2. QED
      BY <2>1
  <1>2. CASE UNCHANGED vars
    BY <1>2 DEF vars, ClockInv
  <1>3. CASE Age
    <2>1. age' \in 0 .. Len(born)
      BY <1>1, <1>3 DEF Age
    <2>2. QED
      BY <1>1, <1>3, <2>1, ClockKept DEF Age
  <1>4. ASSUME NEW c \in Calls, BeginPut(c) \/ BeginPop(c)
        PROVE  ClockInv'
    <2>1. now' \in [Calls -> 0 .. Len(born)] /\ stale' \in [Calls -> BOOLEAN]
      BY <1>1, <1>4 DEF BeginPut, BeginPop, BeginEvict
    <2>2. UNCHANGED <<born, age, doomed>>
      BY <1>4 DEF BeginPut, BeginPop, BeginEvict
    <2>3. \A d \in Calls : /\ stage'[d] = "insert" => stage[d] = "insert"
                           /\ stage'[d] \in {"idle", "put scan", "put evict"} =>
                                stage[d] \in {"idle", "put scan", "put evict"}
      BY <1>1, <1>4 DEF BeginPut, BeginPop, BeginEvict, Goto
    <2>4. QED
      BY <1>1, <2>1, <2>2, <2>3, ClockKept
  <1>5. ASSUME NEW c \in Calls,
               ScanEntries(c, "put scan", "put evict") \/ ScanEntries(c, "pop scan", "pop evict")
        PROVE  ClockInv'
    <2>1. now' \in [Calls -> 0 .. Len(born)] /\ UNCHANGED <<born, age, stale>>
      <3>1. now' = [now EXCEPT ![c] = 0] /\ UNCHANGED <<born, age, stale>>
        BY <1>5 DEF ScanEntries
      <3>2. 0 \in 0 .. Len(born)
        BY <1>1
      <3>3. QED
        BY <1>1, <3>1, <3>2
    <2>2. doomed' \in [Calls -> Seq(Calls)]
      <3>1. PICK at : doomed' = [doomed EXCEPT ![c] = Picked(entries, at)]
        BY <1>5 DEF ScanEntries
      <3>2. Picked(entries, at) \in Seq(Calls)
        BY <1>1, PickedIs
      <3>3. QED
        BY <1>1, <3>1, <3>2
    <2>3. \A d \in Calls : /\ stage'[d] = "insert" => stage[d] = "insert"
                           /\ stage'[d] \in {"idle", "put scan", "put evict"} =>
                                stage[d] \in {"idle", "put scan", "put evict"}
      BY <1>1, <1>5 DEF ScanEntries, Goto
    <2>4. QED
      BY <1>1, <2>1, <2>2, <2>3, ClockKept
  <1>6. ASSUME NEW c \in Calls, EvictOne(c)
        PROVE  ClockInv'
    <2>1. stale' \in [Calls -> BOOLEAN] /\ UNCHANGED <<born, age, stage, now>>
      BY <1>1, <1>6 DEF EvictOne, Change
    <2>2. doomed' \in [Calls -> Seq(Calls)]
      <3>1. doomed[c] \in Seq(Calls) /\ doomed[c] # <<>>
        BY <1>1, <1>6 DEF EvictOne
      <3>2. Tail(doomed[c]) \in Seq(Calls)
        BY <3>1
      <3>3. QED
        BY <1>1, <1>6, <3>2 DEF EvictOne
    <2>3. QED
      BY <1>1, <2>1, <2>2, ClockKept
  <1>7. ASSUME NEW c \in Calls,
               PutScanRaises(c) \/ MoveRaises(c) \/ CheckSize(c) \/ TrimRaises(c)
               \/ PopScanRaises(c)
        PROVE  ClockInv'
    <2>1. UNCHANGED <<born, age, now, stale, doomed>>
      BY <1>7 DEF PutScanRaises, MoveRaises, TrimRaises, PutRaises, CheckSize,
                  PopScanRaises, Answer
    <2>2. \A d \in Calls : /\ stage'[d] = "insert" => stage[d] = "insert"
                           /\ stage'[d] \in {"idle", "put scan", "put evict"} =>
                                stage[d] \in {"idle", "put scan", "put evict"}
      BY <1>1, <1>7 DEF PutScanRaises, MoveRaises, TrimRaises, PutRaises, CheckSize,
                        PopScanRaises, Answer, Goto
    <2>3. QED
      BY <1>1, <2>1, <2>2, ClockKept
  <1>8. ASSUME NEW c \in Calls, Insert(c) \/ MoveToEnd(c) \/ Trim(c) \/ Take(c)
        PROVE  ClockInv'
    <2>1. stale' \in [Calls -> BOOLEAN] /\ UNCHANGED <<born, age, now, doomed>>
      BY <1>1, <1>8 DEF Insert, MoveToEnd, Trim, Take, Answer, Change
    <2>2. \A d \in Calls : /\ stage'[d] = "insert" => stage[d] = "insert"
                           /\ stage'[d] \in {"idle", "put scan", "put evict"} =>
                                stage[d] \in {"idle", "put scan", "put evict"}
      BY <1>1, <1>8 DEF Insert, MoveToEnd, Trim, Take, Answer, Goto
    <2>3. QED
      BY <1>1, <2>1, <2>2, ClockKept
  <1>9. ASSUME NEW c \in Calls, Create(c)
        PROVE  ClockInv'
    <2>1. /\ stage[c] = "put evict" /\ stage' = [stage EXCEPT ![c] = "insert"]
          /\ born' = Append(born, c) /\ UNCHANGED <<entries, age, now, stale, doomed>>
      BY <1>9 DEF Create, Evicted, Goto
    <2>2. c \notin ToSet(born) /\ IsInjective(born)
      BY <2>1 DEF ClockInv
    <2>3. /\ born' \in Seq(Calls) /\ IsInjective(born')
          /\ ToSet(born') = ToSet(born) \cup {c} /\ Len(born') = Len(born) + 1
      BY <1>1, <2>1, <2>2, AppendIs
    <2>4. age' \in 0 .. Len(born') /\ now' \in [Calls -> 0 .. Len(born')]
      <3>1. 0 .. Len(born) \subseteq 0 .. Len(born')
        BY <1>1, <2>3
      <3>2. QED
        BY <1>1, <2>1, <3>1
    <2>5. ToSet(entries') \subseteq ToSet(born')
      BY <2>1, <2>3 DEF ClockInv
    <2>6. ASSUME NEW d \in Calls
          PROVE  /\ stage'[d] \in {"idle", "put scan", "put evict"} => d \notin ToSet(born')
                 /\ stage'[d] = "insert" => d \in ToSet(born')
      BY <1>1, <2>1, <2>3 DEF ClockInv
    <2>7. QED
      BY <1>1, <2>1, <2>3, <2>4, <2>5, <2>6 DEF ClockInv
  <1>10. QED
    BY <1>2, <1>3, <1>4, <1>5, <1>6, <1>7, <1>8, <1>9 DEF Next, PutStep, PopStep

\* The cache keeps its types, an OrderedDict among them: no call has two entries
\* in _entries, and none without a created_at, whichever threads meet.
THEOREM CacheTypeCorrect == Spec => []TypeOK
  <1>1. Init => ClockInv
    BY DEF Init, ClockInv, ToSet, IsInjective
  <1>2. CacheInv /\ ClockInv => TypeOK
    BY DEF CacheInv, Shape, ClockInv, TypeOK
  <1>3. QED
    BY <1>1, <1>2, CacheInvariance, ClockInvNext, PTL DEF Spec
=============================================================================
