---------------------------- MODULE ContextProofs ----------------------------
(***************************************************************************)
(* Proofs about what goes to the model and what comes back.                *)
(*   ContextCompaction: types, ToolChainKept and RecentUnitsStay, for      *)
(*     transcripts, batches and windows of any size.                       *)
(*   ModelRound: types and RoundIsAsSaid, for whatever the model may say.  *)
(***************************************************************************)
EXTENDS ContextCompaction, ModelRound, FiniteSetTheorems, SequenceTheorems, TLAPS

\* The messages of a transcript.
Messages == [role : Roles, calls : Seq(Nat), stored : BOOLEAN]

\* Messages that are neither a call nor the answer to one, and where units begin in a transcript
\* whose batches are whole.
Plain(m) == m.role \notin {"assistant", "tool"}
Heads(h) == {i \in DOMAIN h : h[i].role # "tool"}
Openers(h) == {i \in DOMAIN h : h[i].role = "assistant" /\ h[i].calls # <<>>}
After(S, m) == {i \in S : i > m}

\* Every batch is followed by its answers in their order, and there are no other answers.
Batched(h) ==
  /\ \A a \in DOMAIN h : h[a].role = "assistant" =>
       \A j \in DOMAIN h[a].calls :
         a + j \in DOMAIN h /\ h[a + j].role = "tool" /\ h[a + j].calls = <<h[a].calls[j]>>
  /\ \A i \in DOMAIN h : h[i].role = "tool" =>
       \E a \in 1..i : h[a].role = "assistant" /\ i - a \in DOMAIN h[a].calls

\* No two answers have the same call.
OneAnswer(h) ==
  \A i, k \in DOMAIN h : h[i].role = "tool" /\ h[k].role = "tool" /\ h[i].calls = h[k].calls => i = k

\* Only answers are stored, and only those with enough batches after them.
StoredAreOld(h) ==
  \A i \in DOMAIN h : h[i].stored =>
    h[i].role = "tool" /\ RecentToolUnits <= Cardinality(After(Openers(h), i))

\* The calls that were answered.
Ids(h) == {h[i].calls[1] : i \in {k \in DOMAIN h : h[k].role = "tool"}}

\* The batches are whole.
Whole(h) == h \in Seq(Messages) /\ Batched(h) /\ OneAnswer(h)

\* No plan is in the transcript; there is at most one.
NoPlan(h) == \A i \in DOMAIN h : h[i].role # "plan"
OnePlan(h) == \A i, k \in DOMAIN h : h[i].role = "plan" /\ h[k].role = "plan" => i = k

\* A transcript behind the prompt in which the calls 1..n were answered.
Proper(h, n) ==
  /\ Whole(h) /\ StoredAreOld(h) /\ Len(h) # 0 /\ h[1] = Prompt
  /\ \A k : k \in Ids(h) <=> k \in 1..n
  /\ OnePlan(h)

\* The live transcript has whole batches, and its length is within the bound.
LiveOK == Len(live) \in 2..MaxLive /\ \E n \in Nat : Proper(live, n)

\* How many units the transcript has behind the prompt.
LiveUnits == Cardinality(After(Heads(live), 1))

\* A state of the current version counts units, one of an older version messages.
StateTypeOK(s) ==
  /\ s \in [units : Nat, messages : Nat, version : 0..MaxVersion]
  /\ s # NoState =>
       /\ s.version # 0 /\ s.units # 0
       /\ s.units <= MaxLive \/ (s.units = UnknownUnits /\ s.messages # 0)

\* A state that was computed in this run covers at most what the window leaves of the transcript
\* with both blocks, and of the transcript with one of them as soon as a unit was appended.
StateOK ==
  /\ StateTypeOK(state) /\ StateTypeOK(committed)
  /\ ~carried => /\ state # NoState
                 /\ state.units + ProtectedRecent <= LiveUnits + (IF grown THEN 1 ELSE 2)

\* The inductive invariant of ContextCompaction.
CtxInv ==
  /\ LiveOK /\ StateOK /\ carried \in BOOLEAN /\ grown \in BOOLEAN
  /\ ToolChainKept /\ RecentUnitsStay

-----------------------------------------------------------------------------
(* Counting positions.                                                     *)
\* How many members of S are at most m.
Upto(S, m) == {i \in S : i <= m}
Count(S, m) == Cardinality(Upto(S, m))

\* Positions are finite in number.
LEMMA PositionsFinite ==
  ASSUME NEW n \in Nat, NEW S, \A i \in S : i \in 1..n
  PROVE  IsFiniteSet(S) /\ Cardinality(S) \in Nat /\ \A T : T \subseteq S => IsFiniteSet(T) /\ Cardinality(T) \in Nat
<1>1. 1 \in Int /\ n \in Int /\ S \in SUBSET (1..n)
  OBVIOUS
<1>2. IsFiniteSet(1..n)
  BY <1>1, FS_Interval, Zenon
<1>3. IsFiniteSet(S)
  BY <1>1, <1>2, FS_Subset
<1> QED BY <1>3, FS_Subset, FS_CardinalityType

\* A set of positions and its parts are finite, and what is not counted up to m comes after m.
LEMMA CountType ==
  ASSUME NEW n \in Nat, NEW S, \A i \in S : i \in 1..n, NEW m \in Int
  PROVE  /\ IsFiniteSet(After(S, m)) /\ Cardinality(After(S, m)) \in Nat
         /\ IsFiniteSet(Upto(S, m)) /\ Count(S, m) \in 0..Cardinality(S)
         /\ Cardinality(After(S, m)) = Cardinality(S) - Count(S, m)
<1>1. IsFiniteSet(S) /\ Cardinality(S) \in Nat
  BY PositionsFinite
<1>2. \A i \in S : i \in Int
  OBVIOUS
<1>3. \A x : /\ x \in Upto(S, m) \/ x \in After(S, m) <=> x \in S
             /\ ~(x \in Upto(S, m) /\ x \in After(S, m))
  BY <1>2 DEF After, Upto
<1>4. /\ IsFiniteSet(Upto(S, m)) /\ IsFiniteSet(After(S, m))
      /\ Cardinality(Upto(S, m)) \in Nat /\ Cardinality(After(S, m)) \in Nat
  <2>1. Upto(S, m) \subseteq S /\ After(S, m) \subseteq S
    BY <1>3
  <2> QED BY <2>1, PositionsFinite
<1>5. Upto(S, m) \union After(S, m) = S /\ Upto(S, m) \intersect After(S, m) = {}
  BY <1>3
<1>6. Cardinality(S) = Cardinality(Upto(S, m)) + Cardinality(After(S, m)) - Cardinality(Upto(S, m) \intersect After(S, m))
  BY <1>4, <1>5, FS_Union
<1>7. Cardinality(Upto(S, m) \intersect After(S, m)) = 0
  BY <1>5, FS_EmptySet
<1> QED BY <1>1, <1>4, <1>6, <1>7 DEF Count

\* The count at the ends.
LEMMA CountEnds ==
  ASSUME NEW n \in Nat, NEW S, \A i \in S : i \in 1..n, NEW m \in Int
  PROVE  /\ m <= 0 => Count(S, m) = 0
         /\ m >= n => Count(S, m) = Cardinality(S)
<1>1. ASSUME m <= 0 PROVE Count(S, m) = 0
  <2>1. \A x : x \notin Upto(S, m)
    BY <1>1 DEF Upto
  <2>2. Upto(S, m) = {}
    BY <2>1
  <2> QED BY <2>2, FS_EmptySet DEF Count
<1>2. ASSUME m >= n PROVE Count(S, m) = Cardinality(S)
  <2>1. \A x : x \in Upto(S, m) <=> x \in S
    <3>1. ASSUME NEW x \in S PROVE x <= m
      BY <1>2
    <3> QED BY <3>1 DEF Upto
  <2>2. Upto(S, m) = S
    BY <2>1
  <2> QED BY <2>2 DEF Count
<1> QED BY <1>1, <1>2

\* The count rises at every member, by one.
LEMMA CountRises ==
  ASSUME NEW n \in Nat, NEW S, \A i \in S : i \in 1..n, NEW m \in Int, NEW k \in S, m < k
  PROVE  /\ Count(S, m) < Count(S, k)
         /\ k = m + 1 => Count(S, k) = Count(S, m) + 1
<1>1. /\ IsFiniteSet(Upto(S, m)) /\ Count(S, m) \in Nat /\ IsFiniteSet(Upto(S, k)) /\ Count(S, k) \in Nat
      /\ k \in Int /\ \A i \in S : i \in Int
  <2>1. Cardinality(S) \in Nat
    BY PositionsFinite
  <2>2. k \in Int /\ \A i \in S : i \in Int
    OBVIOUS
  <2>3. IsFiniteSet(Upto(S, m)) /\ Count(S, m) \in 0..Cardinality(S)
    BY CountType
  <2>4. IsFiniteSet(Upto(S, k)) /\ Count(S, k) \in 0..Cardinality(S)
    BY <2>2, CountType
  <2> QED BY <2>1, <2>2, <2>3, <2>4
<1>2. k \in Upto(S, k) /\ k \notin Upto(S, m)
  BY <1>1 DEF Upto
<1>3. ASSUME NEW x \in Upto(S, m) PROVE x \in Upto(S, k)
  <2>1. x \in S /\ x \in Int /\ x <= m
    BY <1>1 DEF Upto
  <2> QED BY <1>1, <2>1 DEF Upto
<1>4. IsFiniteSet(Upto(S, m) \union {k}) /\ Cardinality(Upto(S, m) \union {k}) = Count(S, m) + 1
  BY <1>1, <1>2, FS_AddElement DEF Count
<1>5. Count(S, m) < Count(S, k)
  <2>1. Upto(S, m) \union {k} \in SUBSET Upto(S, k)
    BY <1>2, <1>3
  <2>2. Cardinality(Upto(S, m) \union {k}) <= Cardinality(Upto(S, k))
    BY <1>1, <2>1, FS_Subset
  <2> QED BY <1>1, <1>4, <2>2 DEF Count
<1>6. ASSUME k = m + 1 PROVE Count(S, k) = Count(S, m) + 1
  <2>1. ASSUME NEW x \in Upto(S, k), x # k PROVE x \in Upto(S, m)
    <3>1. x \in S /\ x \in Int /\ x <= k
      BY <1>1 DEF Upto
    <3>2. x <= m
      BY <1>1, <1>6, <2>1, <3>1
    <3> QED BY <3>1, <3>2 DEF Upto
  <2>2. Upto(S, k) = Upto(S, m) \union {k}
    BY <1>2, <1>3, <2>1
  <2> QED BY <1>4, <2>2 DEF Count
<1> QED BY <1>5, <1>6

\* Every number up to the size of S is the count at one member of S.
LEMMA CountReached ==
  ASSUME NEW n \in Nat, NEW S, \A i \in S : i \in 1..n, NEW k \in 1..Cardinality(S)
  PROVE  \E i \in S : Count(S, i) = k
<1> DEFINE f == [i \in S |-> Count(S, i)]
           N == Cardinality(S)
<1>1. IsFiniteSet(S) /\ N \in Nat
  BY PositionsFinite
<1>2. \A i \in S : i \in Int
  OBVIOUS
<1>3. /\ \A i \in S : Count(S, i) \in 1..N
      /\ \A i, j \in S : i < j => Count(S, i) < Count(S, j)
  <2>1. ASSUME NEW i \in S PROVE Count(S, i) \in 1..N
    <3>1. i \in Int /\ 0 \in Int /\ 0 < i
      OBVIOUS
    <3>2. Count(S, i) \in 0..N
      BY <3>1, CountType
    <3>3. Count(S, 0) = 0
      <4>1. 0 \in Int /\ 0 <= 0
        OBVIOUS
      <4> QED BY <4>1, CountEnds, Zenon
    <3>4. Count(S, 0) < Count(S, i)
      BY <3>1, CountRises
    <3> QED BY <1>1, <3>2, <3>3, <3>4
  <2>2. \A i, j \in S : i < j => Count(S, i) < Count(S, j)
    BY <1>2, CountRises
  <2> QED BY <2>1, <2>2
<1>4. f \in [S -> 1..N] /\ \A i \in S : f[i] = Count(S, i)
  BY <1>3
<1> HIDE DEF f
<1>5. ASSUME NEW i \in S, NEW j \in S, f[i] = f[j] PROVE i = j
  <2>1. i \in Int /\ j \in Int /\ Count(S, i) = Count(S, j) /\ Count(S, i) \in Int
    BY <1>2, <1>3, <1>4, <1>5
  <2>2. ~(i < j) /\ ~(j < i)
    BY <1>3, <2>1
  <2> QED BY <2>1, <2>2
<1>6. f \in Injection(S, 1..N)
  BY <1>4, <1>5 DEF Injection, IsInjective
<1>7. IsFiniteSet(1..N) /\ Cardinality(1..N) = N
  <2>1. 1 \in Int /\ N \in Int
    BY <1>1
  <2> QED BY <1>1, <2>1, FS_Interval
<1>8. f \in Surjection(S, 1..N)
  BY <1>6, <1>7, FS_Injection
<1> QED BY <1>4, <1>8 DEF Surjection

\* Moving all positions by a distance does not change how many they are.
LEMMA ShiftedSize ==
  ASSUME NEW S, IsFiniteSet(S), \A x \in S : x \in Int, NEW T, NEW d \in Int,
         \A y \in S : y + d \in T, \A x \in T : \E y \in S : x = y + d
  PROVE  IsFiniteSet(T) /\ Cardinality(T) = Cardinality(S)
<1> DEFINE f == [x \in S |-> x + d]
<1>1. f \in [S -> T] /\ \A x \in S : f[x] = x + d
  OBVIOUS
<1> HIDE DEF f
<1>2. ASSUME NEW x \in S, NEW y \in S, f[x] = f[y] PROVE x = y
  <2>1. x \in Int /\ y \in Int /\ x + d = y + d
    BY <1>1, <1>2
  <2> QED BY <2>1
<1>3. \A t \in T : \E x \in S : f[x] = t
  BY <1>1
<1>4. f \in Bijection(S, T)
  BY <1>1, <1>2, <1>3 DEF Bijection, Injection, Surjection, IsInjective
<1> QED BY <1>4, FS_Bijection DEF ExistsBijection

-----------------------------------------------------------------------------
(* Units of a transcript whose batches are whole.                          *)

\* Types of a message's parts.
LEMMA MessageParts ==
  ASSUME NEW h \in Seq(Messages)
  PROVE  /\ Len(h) \in Nat /\ DOMAIN h = 1..Len(h)
         /\ \A i \in 1..Len(h) : /\ h[i] \in Messages /\ h[i].role \in Roles /\ h[i].stored \in BOOLEAN
                                 /\ h[i].calls \in Seq(Nat) /\ Len(h[i].calls) \in Nat
                                 /\ DOMAIN h[i].calls = 1..Len(h[i].calls)
<1>1. Len(h) \in Nat /\ DOMAIN h = 1..Len(h) /\ \A i \in 1..Len(h) : h[i] \in Messages
  OBVIOUS
<1>2. \A m \in Messages : m.role \in Roles /\ m.stored \in BOOLEAN /\ m.calls \in Seq(Nat)
  BY DEF Messages
<1>3. \A c \in Seq(Nat) : Len(c) \in Nat /\ DOMAIN c = 1..Len(c)
  OBVIOUS
<1> QED BY <1>1, <1>2, <1>3

\* An answer belongs to the batch that is open before it.
LEMMA AnswersOfBatch ==
  ASSUME NEW h \in Seq(Messages), Batched(h)
  PROVE  /\ \A a \in 1..Len(h) : h[a].role = "assistant" =>
              \A k \in a + 1..a + Len(h[a].calls) :
                k \in 1..Len(h) /\ h[k].role = "tool" /\ h[k].calls = <<h[a].calls[k - a]>>
         /\ \A i \in 1..Len(h) : h[i].role = "tool" =>
              \E a \in 1..i - 1 : h[a].role = "assistant" /\ i <= a + Len(h[a].calls)
<1>1. /\ Len(h) \in Nat /\ DOMAIN h = 1..Len(h)
      /\ \A i \in 1..Len(h) : Len(h[i].calls) \in Nat /\ DOMAIN h[i].calls = 1..Len(h[i].calls)
  BY MessageParts
<1>2. ASSUME NEW a \in 1..Len(h), h[a].role = "assistant", NEW k \in a + 1..a + Len(h[a].calls)
      PROVE  k \in 1..Len(h) /\ h[k].role = "tool" /\ h[k].calls = <<h[a].calls[k - a]>>
  <2>1. k - a \in DOMAIN h[a].calls /\ a + (k - a) = k
    BY <1>1
  <2> QED BY <1>1, <1>2, <2>1 DEF Batched
<1>3. ASSUME NEW i \in 1..Len(h), h[i].role = "tool"
      PROVE  \E a \in 1..i - 1 : h[a].role = "assistant" /\ i <= a + Len(h[a].calls)
  <2>1. PICK a \in 1..i : h[a].role = "assistant" /\ i - a \in DOMAIN h[a].calls
    BY <1>1, <1>3 DEF Batched
  <2>2. a \in 1..Len(h) /\ Len(h[a].calls) \in Nat /\ i - a \in 1..Len(h[a].calls)
    BY <1>1, <2>1
  <2>3. a \in 1..i - 1 /\ i <= a + Len(h[a].calls)
    BY <2>2
  <2> QED BY <2>1, <2>3
<1> QED BY <1>2, <1>3

\* The call that an answer names is open before the answer.
LEMMA AnswerIsOpen ==
  ASSUME NEW h \in Seq(Messages), Batched(h), OneAnswer(h), NEW i \in 1..Len(h), h[i].role = "tool"
  PROVE  h[i].calls[1] \in OpenCalls(h, i - 1)
<1>1. /\ Len(h) \in Nat /\ DOMAIN h = 1..Len(h)
      /\ \A k \in 1..Len(h) : Len(h[k].calls) \in Nat /\ DOMAIN h[k].calls = 1..Len(h[k].calls)
  BY MessageParts
<1>2. PICK a \in 1..i - 1 : h[a].role = "assistant" /\ i <= a + Len(h[a].calls)
  BY AnswersOfBatch
<1>3. a \in 1..Len(h) /\ Len(h[a].calls) \in Nat /\ a \in 1..(i - 1) /\ a < i
  BY <1>1, <1>2
<1>4. ASSUME NEW k \in a + 1..i
      PROVE  k \in 1..Len(h) /\ h[k].role = "tool" /\ h[k].calls = <<h[a].calls[k - a]>>
  <2>1. k \in a + 1..a + Len(h[a].calls)
    BY <1>2, <1>3
  <2> QED BY <1>2, <1>3, <2>1, AnswersOfBatch
<1>5. h[i].calls[1] \in Declared(h[a])
  <2>1. i \in a + 1..i /\ i - a \in DOMAIN h[a].calls
    BY <1>1, <1>2, <1>3
  <2>2. h[i].calls[1] = h[a].calls[i - a]
    BY <1>4, <2>1
  <2> QED BY <2>1, <2>2 DEF Declared
<1>6. ASSUME NEW k \in a + 1..i - 1 PROVE h[i].calls[1] \notin Declared(h[k])
  <2>1. k \in a + 1..i /\ i \in a + 1..i /\ k # i /\ k \in DOMAIN h
    BY <1>1, <1>3
  <2>2. /\ h[k].role = "tool" /\ h[k].calls = <<h[a].calls[k - a]>>
        /\ h[i].role = "tool" /\ h[i].calls = <<h[a].calls[i - a]>>
    BY <1>4, <2>1
  <2>3. h[k].calls # h[i].calls
    BY <1>1, <2>1, <2>2 DEF OneAnswer
  <2>4. Declared(h[k]) = {h[a].calls[k - a]} /\ h[i].calls[1] = h[a].calls[i - a]
    BY <2>2 DEF Declared
  <2> QED BY <2>2, <2>3, <2>4
<1>7. a \in {b \in 1..(i - 1) : h[b].role = "assistant" /\ \A k \in b + 1..(i - 1) : h[k].role = "tool"}
  <2>1. \A k \in a + 1..(i - 1) : h[k].role = "tool"
    <3>1. ASSUME NEW k \in a + 1..(i - 1) PROVE h[k].role = "tool"
      <4>1. k \in a + 1..i
        BY <1>3
      <4> QED BY <1>4, <4>1
    <3> QED BY <3>1
  <2>2. a \in 1..(i - 1) /\ h[a].role = "assistant"
    BY <1>2
  <2> QED BY <2>1, <2>2
<1> DEFINE callers == {b \in 1..(i - 1) : h[b].role = "assistant" /\ \A k \in b + 1..(i - 1) : h[k].role = "tool"}
           open(b) == Declared(h[b]) \ UNION {Declared(h[k]) : k \in b + 1..(i - 1)}
<1>8. OpenCalls(h, i - 1) = UNION {open(b) : b \in callers}
  BY Zenon DEF OpenCalls
<1>9. h[i].calls[1] \in open(a)
  BY <1>5, <1>6
<1>10. a \in callers
  BY <1>7
<1> HIDE DEF callers, open
<1> QED BY <1>8, <1>9, <1>10

\* Such a transcript is canonical, and its units begin where a message is no answer.
LEMMA WholeIsCanonical ==
  ASSUME NEW h \in Seq(Messages), Batched(h), OneAnswer(h)
  PROVE  /\ Canonical(h) /\ UnitStarts(h) = Heads(h)
         /\ \A i \in Heads(h) : i \in 1..Len(h)
         /\ Len(h) # 0 => 1 \in Heads(h)
<1>1. Len(h) \in Nat /\ DOMAIN h = 1..Len(h)
  BY MessageParts
<1>2. Canonical(h)
  BY <1>1, AnswerIsOpen DEF Canonical
<1>3. ASSUME NEW i PROVE i \in UnitStarts(h) <=> i \in Heads(h)
  <2>1. ASSUME i \in 1..Len(h), h[i].role = "tool" PROVE OpenCalls(h, i - 1) # {}
    BY <2>1, AnswerIsOpen
  <2> QED BY <1>1, <2>1 DEF UnitStarts, Heads
<1>4. ASSUME Len(h) # 0 PROVE 1 \in Heads(h)
  <2>1. 1 \in 1..Len(h)
    BY <1>1, <1>4
  <2>2. h[1].role # "tool"
    <3>1. ASSUME h[1].role = "tool" PROVE FALSE
      <4>1. \E a \in 1..1 - 1 : TRUE
        BY <2>1, <3>1, AnswersOfBatch
      <4> QED BY <4>1
    <3> QED BY <3>1
  <2> QED BY <1>1, <2>1, <2>2 DEF Heads
<1>5. \A i \in Heads(h) : i \in 1..Len(h)
  BY <1>1 DEF Heads
<1> QED BY <1>2, <1>3, <1>4, <1>5

\* Where a unit may end.
Boundary(h, m) == m = Len(h) \/ m + 1 \in Heads(h)

\* The unit that begins at a head ends before the next one.
LEMMA EndOfUnit ==
  ASSUME NEW h \in Seq(Messages), Batched(h), NEW i \in Heads(h)
  PROVE  LET e == UnitEnd(h, Heads(h), i)
         IN e \in i..Len(h) /\ Boundary(h, e) /\ \A k \in i + 1..e : k \notin Heads(h)
<1> DEFINE n == IF h[i].role = "assistant" THEN Len(h[i].calls) ELSE 0
           E(e) == (e = Len(h) \/ e + 1 \in Heads(h)) /\ Heads(h) \intersect (i + 1..e) = {}
<1>1. /\ Len(h) \in Nat /\ DOMAIN h = 1..Len(h) /\ i \in 1..Len(h) /\ h[i].role # "tool"
      /\ \A k \in 1..Len(h) : Len(h[k].calls) \in Nat
  BY MessageParts DEF Heads
<1>2. n \in Nat /\ (n # 0 => h[i].role = "assistant") /\ (h[i].role = "assistant" => n = Len(h[i].calls))
  BY <1>1
<1> HIDE DEF n
<1>3. \A k \in i + 1..i + n : k \in 1..Len(h) /\ k \notin Heads(h)
  <2>1. ASSUME NEW k \in i + 1..i + n PROVE k \in 1..Len(h) /\ h[k].role = "tool"
    <3>1. n # 0
      BY <1>1, <1>2
    <3> QED BY <1>1, <1>2, <3>1, AnswersOfBatch
  <2> QED BY <2>1 DEF Heads
<1>4. i + n \in i..Len(h)
  <2>1. CASE n = 0
    BY <1>1, <2>1
  <2>2. CASE n # 0
    <3>1. i + n \in i + 1..i + n
      BY <1>1, <1>2, <2>2
    <3>2. i + n \in 1..Len(h)
      BY <1>3, <3>1
    <3> QED BY <1>1, <1>2, <3>2
  <2> QED BY <2>1, <2>2
<1>5. i + n = Len(h) \/ i + n + 1 \in Heads(h)
  <2>1. ASSUME i + n < Len(h), h[i + n + 1].role = "tool" PROVE FALSE
    <3>1. i + n + 1 \in 1..Len(h)
      BY <1>1, <1>2, <2>1
    <3>2. PICK a \in 1..(i + n + 1) - 1 : h[a].role = "assistant" /\ i + n + 1 <= a + Len(h[a].calls)
      BY <2>1, <3>1, AnswersOfBatch
    <3>3. a \in 1..Len(h) /\ Len(h[a].calls) \in Nat /\ a <= i + n
      BY <1>1, <1>2, <2>1, <3>2
    <3>4. CASE a < i
      <4>1. i \in a + 1..a + Len(h[a].calls)
        BY <1>1, <1>2, <3>2, <3>3, <3>4
      <4> QED BY <1>1, <3>2, <3>3, <4>1, AnswersOfBatch
    <3>5. CASE a = i
      BY <1>1, <1>2, <3>2, <3>3, <3>5
    <3>6. CASE a > i
      <4>1. a \in i + 1..i + n
        BY <1>1, <1>2, <3>3, <3>6
      <4>2. a \notin Heads(h)
        BY <1>3, <4>1
      <4> QED BY <1>1, <3>2, <3>3, <4>2 DEF Heads
    <3> QED BY <1>1, <3>3, <3>4, <3>5, <3>6
  <2>2. CASE i + n # Len(h)
    <3>0. i \in Nat /\ i # 0 /\ n \in Nat /\ Len(h) \in Nat /\ i + n <= Len(h)
      BY <1>1, <1>2, <1>4
    <3>1. i + n < Len(h) /\ i + n + 1 \in 1..Len(h)
      BY <2>2, <3>0
    <3> QED BY <1>1, <2>1, <3>1 DEF Heads
  <2> QED BY <2>2
<1>6. E(i + n)
  BY <1>3, <1>5
<1> DEFINE e == UnitEnd(h, Heads(h), i)
<1>7. e = CHOOSE x \in i..Len(h) : E(x)
  BY DEF UnitEnd
<1> HIDE DEF e
<1>8. e \in i..Len(h) /\ E(e)
  <2> HIDE DEF E
  <2> QED BY <1>4, <1>6, <1>7
<1>9. \A k \in i + 1..e : k \notin Heads(h)
  BY <1>8
<1> QED BY <1>8, <1>9 DEF e, Boundary

\* What a unit of such a transcript is: it begins at a head, is whole and complete.
LEMMA UnitsOfWhole ==
  ASSUME NEW h \in Seq(Messages), Batched(h), OneAnswer(h)
  PROVE  LET units == BuildUnits(h)
         IN /\ \A u \in units :
                 /\ u.first \in Heads(h) /\ u.last \in u.first..Len(h) /\ Boundary(h, u.last)
                 /\ \A k \in u.first + 1..u.last : k \notin Heads(h)
                 /\ u.complete /\ (u.batch <=> u.first \in Openers(h))
            /\ \A i \in Heads(h) : \E u \in units : u.first = i
            /\ \A u, v \in units : u.first = v.first => u = v
<1> DEFINE units == BuildUnits(h)
           End(i) == UnitEnd(h, Heads(h), i)
<1>1. units = {UnitAt(h, i, End(i)) : i \in Heads(h)}
  BY WholeIsCanonical DEF BuildUnits
<1>2. /\ Len(h) \in Nat /\ DOMAIN h = 1..Len(h)
      /\ \A k \in 1..Len(h) : Len(h[k].calls) \in Nat /\ DOMAIN h[k].calls = 1..Len(h[k].calls)
  BY MessageParts
<1>3. ASSUME NEW i \in Heads(h)
      PROVE  LET u == UnitAt(h, i, End(i))
             IN /\ u.first = i /\ u.last = End(i) /\ u.last \in i..Len(h) /\ Boundary(h, u.last)
                /\ \A k \in i + 1..u.last : k \notin Heads(h)
                /\ u.complete /\ (u.batch <=> i \in Openers(h))
  <2> DEFINE e == End(i)
  <2>1. e \in i..Len(h) /\ Boundary(h, e) /\ \A k \in i + 1..e : k \notin Heads(h)
    BY EndOfUnit
  <2>2. i \in 1..Len(h) /\ h[i].role # "tool"
    BY <1>2 DEF Heads
  <2> HIDE DEF e
  <2>3. ASSUME h[i].role = "assistant"
        PROVE  Declared(h[i]) \subseteq UNION {Declared(h[k]) : k \in i + 1..e}
    <3>1. ASSUME NEW j \in DOMAIN h[i].calls PROVE \E k \in i + 1..e : h[i].calls[j] \in Declared(h[k])
      <4>1. /\ j \in 1..Len(h[i].calls) /\ i + j \in i + 1..i + Len(h[i].calls)
            /\ (i + j) - i = j /\ j \in Nat
        BY <1>2, <2>2
      <4>2. i + j \in 1..Len(h) /\ h[i + j].role = "tool" /\ h[i + j].calls = <<h[i].calls[j]>>
        BY <2>2, <2>3, <4>1, AnswersOfBatch
      <4>3. h[i].calls[j] \in Declared(h[i + j])
        BY <4>2 DEF Declared
      <4>4. i + j <= e
        <5>1. CASE e = Len(h)
          BY <1>2, <2>2, <4>2, <5>1
        <5>2. CASE e + 1 \in Heads(h) /\ e < i + j
          <6>1. /\ e + 1 \in i + 1..i + Len(h[i].calls)
            BY <1>2, <2>1, <2>2, <4>1, <5>2
          <6>2. h[e + 1].role = "tool"
            BY <2>2, <2>3, <6>1, AnswersOfBatch
          <6> QED BY <5>2, <6>2 DEF Heads
        <5> QED BY <2>1, <2>2, <4>1, <5>1, <5>2 DEF Boundary
      <4>5. i + j \in i + 1..e
        BY <2>1, <2>2, <4>1, <4>4
      <4> QED BY <4>3, <4>5
    <3> QED BY <3>1 DEF Declared
  <2>4. i \in Openers(h) <=> h[i].role = "assistant" /\ h[i].calls # <<>>
    BY <1>2, <2>2 DEF Openers
  <2> DEFINE batch == h[i].role = "assistant" /\ h[i].calls # <<>>
             whole == Declared(h[i]) \subseteq UNION {Declared(h[k]) : k \in i + 1..e}
  <2>5. UnitAt(h, i, e) = [first |-> i, last |-> e, batch |-> batch, complete |-> batch => whole]
    BY DEF UnitAt
  <2>6. batch => whole
    BY <2>3
  <2>7. batch <=> i \in Openers(h)
    BY <2>4
  <2> HIDE DEF batch, whole
  <2>8. /\ UnitAt(h, i, e).first = i /\ UnitAt(h, i, e).last = e
        /\ UnitAt(h, i, e).batch = batch /\ UnitAt(h, i, e).complete = (batch => whole)
    BY <2>5
  <2> QED BY <2>1, <2>6, <2>7, <2>8 DEF e
<1> HIDE DEF End
<1>4. \A u \in units : \E i \in Heads(h) : u = UnitAt(h, i, End(i))
  BY <1>1
<1>5. \A i \in Heads(h) : UnitAt(h, i, End(i)) \in units
  BY <1>1
<1> HIDE DEF units
<1>6. \A u \in units :
        /\ u.first \in Heads(h) /\ u.last \in u.first..Len(h) /\ Boundary(h, u.last)
        /\ \A k \in u.first + 1..u.last : k \notin Heads(h)
        /\ u.complete /\ (u.batch <=> u.first \in Openers(h))
  BY <1>3, <1>4
<1>7. \A i \in Heads(h) : \E u \in units : u.first = i
  BY <1>3, <1>5
<1>8. \A u, v \in units : u.first = v.first => u = v
  BY <1>3, <1>4
<1> QED BY <1>6, <1>7, <1>8 DEF units

\* A set of units has the size of the set of their first messages.
LEMMA FirstsSize ==
  ASSUME NEW h \in Seq(Messages), Batched(h), OneAnswer(h),
         NEW T, T \subseteq BuildUnits(h), NEW F,
         \A u \in T : u.first \in F, \A i \in F : \E u \in T : u.first = i
  PROVE  IsFiniteSet(T) /\ IsFiniteSet(F) /\ Cardinality(T) = Cardinality(F) /\ Cardinality(F) \in Nat
<1> DEFINE f == [u \in T |-> u.first]
<1>1. /\ Len(h) \in Nat /\ \A u \in T : u.first \in 1..Len(h)
      /\ \A u, v \in T : u.first = v.first => u = v
  <2>1. \A i \in Heads(h) : i \in 1..Len(h)
    BY WholeIsCanonical
  <2>2. /\ \A u \in BuildUnits(h) : u.first \in Heads(h)
        /\ \A u, v \in BuildUnits(h) : u.first = v.first => u = v
    BY UnitsOfWhole
  <2> QED BY <2>1, <2>2, MessageParts
<1>2. \A i \in F : i \in 1..Len(h)
  BY <1>1
<1>3. f \in [T -> F] /\ \A u \in T : f[u] = u.first
  OBVIOUS
<1> HIDE DEF f
<1>4. (\A u, v \in T : f[u] = f[v] => u = v) /\ \A i \in F : \E u \in T : f[u] = i
  BY <1>1, <1>3
<1>5. f \in Bijection(T, F) /\ f \in Injection(T, F)
  BY <1>3, <1>4 DEF Bijection, Injection, Surjection, IsInjective
<1>6. IsFiniteSet(F) /\ Cardinality(F) \in Nat
  BY <1>1, <1>2, PositionsFinite
<1>7. IsFiniteSet(T)
  BY <1>5, <1>6, FS_Injection
<1>8. Cardinality(F) = Cardinality(T)
  BY <1>5, <1>7, FS_Bijection DEF ExistsBijection
<1> QED BY <1>6, <1>7, <1>8

\* The number of units, and of those that end before a boundary.
LEMMA UnitsCounted ==
  ASSUME NEW h \in Seq(Messages), Batched(h), OneAnswer(h)
  PROVE  LET units == BuildUnits(h)
         IN /\ IsFiniteSet(units) /\ Cardinality(units) = Cardinality(Heads(h)) /\ Cardinality(units) \in Nat
            /\ \A m \in Nat : Boundary(h, m) => UnitsCovered(units, m) = Count(Heads(h), m)
            /\ \A m \in Nat : UnitsCovered(units, m) \in Nat
<1> DEFINE units == BuildUnits(h)
<1>1. /\ \A u \in units :
           /\ u.first \in Heads(h) /\ u.last \in u.first..Len(h) /\ Boundary(h, u.last)
           /\ \A k \in u.first + 1..u.last : k \notin Heads(h)
      /\ \A i \in Heads(h) : \E u \in units : u.first = i
  BY UnitsOfWhole
<1>2. (\A i \in Heads(h) : i \in 1..Len(h)) /\ Len(h) \in Nat
  BY WholeIsCanonical, MessageParts
<1> HIDE DEF units
<1>3. units \subseteq BuildUnits(h)
  BY DEF units
<1>4. IsFiniteSet(units) /\ Cardinality(units) = Cardinality(Heads(h)) /\ Cardinality(units) \in Nat
  BY <1>1, <1>3, FirstsSize
<1>5. ASSUME NEW m \in Nat, Boundary(h, m) PROVE UnitsCovered(units, m) = Count(Heads(h), m)
  <2> DEFINE T == {u \in units : u.last <= m}
  <2>1. ASSUME NEW u \in units, u.first <= m PROVE u.last <= m
    <3>1. ASSUME m < u.last PROVE FALSE
      <4>1. u.first \in Nat /\ u.last \in Nat /\ u.last <= Len(h)
        BY <1>1, <1>2
      <4>2. m + 1 \in u.first + 1..u.last
        BY <2>1, <3>1, <4>1
      <4>3. m + 1 \notin Heads(h) /\ m # Len(h)
        BY <1>1, <1>2, <3>1, <4>1, <4>2
      <4> QED BY <1>5, <4>3 DEF Boundary
    <3>2. u.last \in Nat
      BY <1>1, <1>2
    <3> QED BY <3>1, <3>2
  <2>2. T \subseteq BuildUnits(h)
    BY <1>3
  <2>3. ASSUME NEW u \in T PROVE u.first \in Upto(Heads(h), m)
    <3>1. u.first \in Heads(h) /\ u.first \in Nat /\ u.last \in Nat /\ u.first <= u.last /\ u.last <= m
      BY <1>1, <1>2
    <3>2. u.first <= m
      BY <3>1
    <3> QED BY <3>1, <3>2 DEF Upto
  <2>4. ASSUME NEW i \in Upto(Heads(h), m) PROVE \E u \in T : u.first = i
    <3>1. i \in Heads(h) /\ i <= m
      BY DEF Upto
    <3>2. PICK u \in units : u.first = i
      BY <1>1, <3>1
    <3> QED BY <2>1, <3>1, <3>2
  <2> HIDE DEF T
  <2>5. Cardinality(T) = Cardinality(Upto(Heads(h), m))
    BY <2>2, <2>3, <2>4, FirstsSize
  <2> QED BY <2>5 DEF T, UnitsCovered, Count
<1>6. ASSUME NEW m \in Nat PROVE UnitsCovered(units, m) \in Nat
  <2>1. {u \in units : u.last <= m} \in SUBSET units
    OBVIOUS
  <2>2. IsFiniteSet({u \in units : u.last <= m})
    BY <1>4, <2>1, FS_Subset
  <2> QED BY <2>2, FS_CardinalityType DEF UnitsCovered
<1> QED BY <1>4, <1>5, <1>6 DEF units

\* The first n units end at a boundary, and what follows are the other units.
LEMMA CutAtUnits ==
  ASSUME NEW h \in Seq(Messages), Batched(h), OneAnswer(h), NEW n \in Nat
  PROVE  LET m == MessagesBefore(BuildUnits(h), n)
             size == Cardinality(Heads(h))
         IN /\ m \in 0..Len(h) /\ Boundary(h, m) /\ size \in Nat
            /\ Cardinality(After(Heads(h), m)) = IF n <= size THEN size - n ELSE 0
            /\ n # 0 /\ Len(h) # 0 => m # 0
<1> DEFINE units == BuildUnits(h)
           size == Cardinality(Heads(h))
           goal == IF n <= size THEN n ELSE size
           Ends == {0} \union {u.last : u \in units}
           m == MessagesBefore(units, n)
<1>1. /\ \A u \in units :
           /\ u.first \in Heads(h) /\ u.last \in u.first..Len(h) /\ Boundary(h, u.last)
           /\ \A k \in u.first + 1..u.last : k \notin Heads(h)
      /\ \A i \in Heads(h) : \E u \in units : u.first = i
  BY UnitsOfWhole
<1>2. /\ \A i \in Heads(h) : i \in 1..Len(h)
      /\ Len(h) \in Nat /\ (Len(h) # 0 => 1 \in Heads(h))
      /\ \A i \in 1..Len(h) : i \in Heads(h) <=> h[i].role # "tool"
  BY WholeIsCanonical, MessageParts DEF Heads
<1>3. /\ Cardinality(units) = size /\ size \in Nat
      /\ \A k \in Nat : Boundary(h, k) => UnitsCovered(units, k) = Count(Heads(h), k)
  BY UnitsCounted
<1>4. m = CHOOSE x \in Ends : UnitsCovered(units, x) = goal
  BY <1>3 DEF MessagesBefore
<1>5. goal \in Nat
  BY <1>3
<1> HIDE DEF goal, m, units
<1>6. \A x \in Ends : x \in 0..Len(h) /\ Boundary(h, x)
  <2>1. 0 \in 0..Len(h) /\ Boundary(h, 0)
    BY <1>2 DEF Boundary
  <2>2. \A u \in units : u.last \in 0..Len(h) /\ Boundary(h, u.last)
    BY <1>1, <1>2
  <2> QED BY <2>1, <2>2
<1>7. /\ \A k \in Int : k <= 0 => Count(Heads(h), k) = 0
      /\ \A k \in Int : k >= Len(h) => Count(Heads(h), k) = size
      /\ \A k \in Int : \A l \in Heads(h) :
           k < l => Count(Heads(h), k) < Count(Heads(h), l) /\ (l = k + 1 => Count(Heads(h), l) = Count(Heads(h), k) + 1)
  <2>1. Len(h) \in Nat /\ \A i \in Heads(h) : i \in 1..Len(h)
    BY <1>2
  <2>2. \A k \in Int : (k <= 0 => Count(Heads(h), k) = 0) /\ (k >= Len(h) => Count(Heads(h), k) = size)
    BY <2>1, CountEnds
  <2>3. \A k \in Int : \A l \in Heads(h) :
          k < l => Count(Heads(h), k) < Count(Heads(h), l) /\ (l = k + 1 => Count(Heads(h), l) = Count(Heads(h), k) + 1)
    BY <2>1, CountRises
  <2> QED BY <2>2, <2>3
<1>8. \A k \in Int : Count(Heads(h), k) \in 0..size /\ Cardinality(After(Heads(h), k)) = size - Count(Heads(h), k)
  BY <1>2, CountType
\* Some boundary has so many heads before it.
<1>9. \E x \in 0..Len(h) : Boundary(h, x) /\ Count(Heads(h), x) = goal
  <2>1. CASE size <= n
    BY <1>2, <1>3, <1>7, <2>1 DEF Boundary, goal
  <2>2. CASE n < size
    <3>1. n + 1 \in 1..size
      BY <1>3, <2>2
    <3>2. PICK i \in Heads(h) : Count(Heads(h), i) = n + 1
      BY <1>2, <3>1, CountReached
    <3>3. i \in Int /\ i - 1 \in Int /\ (i - 1) + 1 = i /\ i - 1 \in 0..Len(h)
      BY <1>2
    <3>4. Count(Heads(h), i) = Count(Heads(h), i - 1) + 1 /\ Count(Heads(h), i - 1) \in 0..size
      <4> DEFINE k == i - 1
      <4>1. k \in Int /\ i = k + 1 /\ k < i
        BY <3>3
      <4> HIDE DEF k
      <4>2. Count(Heads(h), i) = Count(Heads(h), k) + 1
        BY <1>7, <4>1
      <4>3. Count(Heads(h), k) \in 0..size
        BY <1>8, <4>1
      <4> QED BY <4>2, <4>3 DEF k
    <3>5. Count(Heads(h), i - 1) = n /\ goal = n
      BY <1>3, <2>2, <3>2, <3>4 DEF goal
    <3>6. Boundary(h, i - 1)
      BY <3>3 DEF Boundary
    <3> QED BY <3>3, <3>5, <3>6
  <2> QED BY <1>3, <2>1, <2>2
\* A boundary is where a unit ends.
<1>10. ASSUME NEW x \in 1..Len(h), Boundary(h, x) PROVE \E u \in units : u.last = x
  <2>1. \E s \in Heads(h) : s <= x /\ \A k \in s + 1..x : k \notin Heads(h)
    <3>1. CASE x \in Heads(h)
      BY <3>1
    <3>2. CASE h[x].role = "tool"
      <4>1. PICK a \in 1..x - 1 : h[a].role = "assistant" /\ x <= a + Len(h[a].calls)
        BY <3>2, AnswersOfBatch
      <4>2. a \in 1..Len(h) /\ a <= x /\ a \in Heads(h)
        BY <1>2, <4>1
      <4>3. ASSUME NEW k \in a + 1..x PROVE k \notin Heads(h)
        <5>1. Len(h[a].calls) \in Nat
          BY <4>2, MessageParts
        <5>2. k \in a + 1..a + Len(h[a].calls)
          BY <4>1, <4>2, <5>1
        <5>3. k \in 1..Len(h) /\ h[k].role = "tool"
          BY <4>1, <4>2, <5>2, AnswersOfBatch
        <5> QED BY <1>2, <5>3
      <4> QED BY <4>2, <4>3
    <3> QED BY <1>2, <3>1, <3>2
  <2>2. PICK s \in Heads(h) : s <= x /\ \A k \in s + 1..x : k \notin Heads(h)
    BY <2>1
  <2>3. PICK u \in units : u.first = s
    BY <1>1
  <2>4. /\ s \in Nat /\ u.last \in Nat /\ s <= u.last /\ u.last <= Len(h)
        /\ (u.last = Len(h) \/ u.last + 1 \in Heads(h)) /\ \A k \in s + 1..u.last : k \notin Heads(h)
    BY <1>1, <1>2, <2>3 DEF Boundary
  <2>5. ~(u.last < x)
    <3>1. ASSUME u.last < x PROVE FALSE
      <4>1. u.last + 1 \in s + 1..x /\ u.last # Len(h)
        BY <1>2, <2>4, <3>1
      <4> QED BY <2>2, <2>4, <4>1
    <3> QED BY <3>1
  <2>6. ~(x < u.last)
    <3>1. ASSUME x < u.last PROVE FALSE
      <4>1. x + 1 \in s + 1..u.last /\ x # Len(h)
        BY <1>2, <2>2, <2>4, <3>1
      <4> QED BY <1>10, <2>4, <4>1 DEF Boundary
    <3> QED BY <3>1
  <2>7. u.last = x
    BY <2>4, <2>5, <2>6
  <2> QED BY <2>7
<1>11. \E x \in Ends : UnitsCovered(units, x) = goal
  <2>1. PICK x \in 0..Len(h) : Boundary(h, x) /\ Count(Heads(h), x) = goal
    BY <1>9
  <2>2. x \in Ends
    BY <1>2, <1>10, <2>1
  <2> QED BY <1>2, <1>3, <2>1, <2>2
<1>12. m \in Ends /\ UnitsCovered(units, m) = goal
  BY <1>4, <1>11
<1>13. m \in 0..Len(h) /\ Boundary(h, m) /\ Count(Heads(h), m) = goal
  BY <1>2, <1>3, <1>6, <1>12
<1>14. Cardinality(After(Heads(h), m)) = IF n <= size THEN size - n ELSE 0
  <2>1. m \in Int /\ Cardinality(After(Heads(h), m)) = size - goal
    BY <1>2, <1>8, <1>13
  <2> QED BY <1>3, <2>1 DEF goal
<1>15. ASSUME n # 0, Len(h) # 0 PROVE m # 0
  <2>0. 0 \in Int /\ 1 \in Int /\ 0 <= 0 /\ 0 < 1
    OBVIOUS
  <2>1. 1 \in Heads(h) /\ Count(Heads(h), 0) = 0
    BY <1>2, <1>7, <1>15, <2>0
  <2>2. Count(Heads(h), 0) < Count(Heads(h), 1) /\ Count(Heads(h), 1) \in 0..size
    BY <1>7, <1>8, <2>0, <2>1
  <2>3. goal # 0
    BY <1>3, <1>15, <2>1, <2>2 DEF goal
  <2> QED BY <1>13, <2>1, <2>3
<1> QED BY <1>3, <1>13, <1>14, <1>15 DEF m, units

-----------------------------------------------------------------------------
(* Transcripts that agree from some message on.                            *)

\* What follows message p of g is what follows message c of h, but for what is stored.
Alike(g, p, h, c) ==
  /\ g \in Seq(Messages) /\ h \in Seq(Messages)
  /\ p \in 0..Len(g) /\ c \in 0..Len(h) /\ Len(g) - p = Len(h) - c
  /\ \A k \in p + 1..Len(g) : g[k].role = h[k - p + c].role /\ g[k].calls = h[k - p + c].calls

\* Positions after p in g are positions after c in h.
AlikeAt(g, p, h, c) ==
  /\ p \in Nat /\ c \in Nat /\ Len(g) \in Nat /\ Len(h) \in Nat
  /\ DOMAIN g = 1..Len(g) /\ DOMAIN h = 1..Len(h)
  /\ \A k \in 1..Len(g) : p < k =>
       /\ k - p + c \in 1..Len(h) /\ c < k - p + c
       /\ g[k].role = h[k - p + c].role /\ g[k].calls = h[k - p + c].calls
  /\ \A k \in 1..Len(h) : c < k =>
       /\ k - c + p \in 1..Len(g) /\ p < k - c + p /\ (k - c + p) - p + c = k
       /\ g[k - c + p].role = h[k].role /\ g[k - c + p].calls = h[k].calls

\* What is alike is alike at each position.
LEMMA AlikePositions ==
  ASSUME NEW g, NEW p, NEW h, NEW c, Alike(g, p, h, c)
  PROVE  AlikeAt(g, p, h, c)
<1>1. /\ p \in Nat /\ c \in Nat /\ Len(g) \in Nat /\ Len(h) \in Nat
      /\ DOMAIN g = 1..Len(g) /\ DOMAIN h = 1..Len(h) /\ Len(g) - p = Len(h) - c
      /\ \A k \in p + 1..Len(g) : g[k].role = h[k - p + c].role /\ g[k].calls = h[k - p + c].calls
  BY MessageParts DEF Alike
<1>2. ASSUME NEW k \in 1..Len(g), p < k
      PROVE  /\ k - p + c \in 1..Len(h) /\ c < k - p + c
             /\ g[k].role = h[k - p + c].role /\ g[k].calls = h[k - p + c].calls
  <2>1. k \in p + 1..Len(g) /\ k - p + c \in 1..Len(h) /\ c < k - p + c
    BY <1>1, <1>2
  <2> QED BY <1>1, <2>1
<1>3. ASSUME NEW k \in 1..Len(h), c < k
      PROVE  /\ k - c + p \in 1..Len(g) /\ p < k - c + p /\ (k - c + p) - p + c = k
             /\ g[k - c + p].role = h[k].role /\ g[k - c + p].calls = h[k].calls
  <2> DEFINE i == k - c + p
  <2>1. i \in p + 1..Len(g) /\ i \in 1..Len(g) /\ p < i /\ i - p + c = k
    BY <1>1, <1>3
  <2> HIDE DEF i
  <2>2. g[i].role = h[k].role /\ g[i].calls = h[k].calls
    BY <1>1, <2>1
  <2> QED BY <2>1, <2>2 DEF i
<1> QED BY <1>1, <1>2, <1>3 DEF AlikeAt

\* As many units and batches follow in the one as in the other.
LEMMA AlikeCounts ==
  ASSUME NEW g, NEW p, NEW h, NEW c, Alike(g, p, h, c), NEW m \in p..Len(g), NEW e, e = m - p + c
  PROVE  /\ Cardinality(After(Heads(g), m)) = Cardinality(After(Heads(h), e))
         /\ Cardinality(After(Openers(g), m)) = Cardinality(After(Openers(h), e))
         /\ Cardinality(After(Heads(h), e)) \in Nat
         /\ Cardinality(After(Openers(h), e)) \in Nat
<1>0. AlikeAt(g, p, h, c)
  BY AlikePositions
<1>1. /\ p \in Nat /\ c \in Nat /\ Len(g) \in Nat /\ Len(h) \in Nat
      /\ DOMAIN g = 1..Len(g) /\ DOMAIN h = 1..Len(h)
      /\ \A k \in 1..Len(g) : p < k =>
           /\ k - p + c \in 1..Len(h) /\ c < k - p + c
           /\ g[k].role = h[k - p + c].role /\ g[k].calls = h[k - p + c].calls
      /\ \A k \in 1..Len(h) : c < k =>
           /\ k - c + p \in 1..Len(g) /\ p < k - c + p /\ (k - c + p) - p + c = k
           /\ g[k - c + p].role = h[k].role /\ g[k - c + p].calls = h[k].calls
  BY <1>0, Zenon DEF AlikeAt
<1> DEFINE d == c - p
           n == m - p + c
<1>2. d \in Int /\ m \in Nat /\ n \in Int /\ n >= c /\ n = m + d
  BY <1>1
<1>3. ASSUME NEW A, NEW B, \A i \in A : i \in 1..Len(g), \A i \in B : i \in 1..Len(h),
             \A i \in 1..Len(g) : p < i => (i \in A <=> i - p + c \in B)
      PROVE  Cardinality(After(A, m)) = Cardinality(After(B, n)) /\ Cardinality(After(B, n)) \in Nat
  <2> HIDE DEF d, n
  <2>1. IsFiniteSet(After(A, m)) /\ Cardinality(After(A, m)) \in Nat
    <3>1. m \in Int /\ Len(g) \in Nat /\ \A i \in A : i \in 1..Len(g)
      BY <1>1, <1>2, <1>3
    <3> QED BY <3>1, CountType
  <2> USE DEF d, n
  <2>2. \A x \in After(A, m) : x \in A /\ x \in Int /\ x > m /\ x \in 1..Len(g)
    BY <1>2, <1>3 DEF After
  <2>3. ASSUME NEW y \in After(A, m) PROVE y + d \in After(B, n)
    <3>1. y \in A /\ y \in 1..Len(g) /\ y > m /\ p < y
      BY <1>1, <1>2, <2>2
    <3>2. y - p + c \in B /\ y - p + c = y + d
      BY <1>1, <1>3, <3>1
    <3>3. y + d \in B /\ y + d > n
      BY <1>2, <3>1, <3>2
    <3> QED BY <3>3 DEF After
  <2>4. ASSUME NEW x \in After(B, n) PROVE \E y \in After(A, m) : x = y + d
    <3> DEFINE y == x - c + p
    <3>1. x \in B /\ x \in 1..Len(h) /\ x > n
      BY <1>2, <1>3 DEF After
    <3>2. c < x
      BY <1>1, <1>2, <3>1
    <3>3. y \in 1..Len(g) /\ p < y /\ y - p + c = x
      BY <1>1, <3>1, <3>2
    <3>4. y > m /\ x = y + d
      BY <1>1, <1>2, <3>1
    <3> HIDE DEF y
    <3>5. y \in A
      BY <1>3, <3>1, <3>3
    <3> QED BY <3>4, <3>5 DEF After
  <2> HIDE DEF d, n
  <2>5. Cardinality(After(B, n)) = Cardinality(After(A, m))
    BY <1>2, <2>1, <2>2, <2>3, <2>4, ShiftedSize
  <2> QED BY <2>1, <2>5
<1>4. /\ \A i \in Heads(g) : i \in 1..Len(g)
      /\ \A i \in Heads(h) : i \in 1..Len(h)
      /\ \A i \in Openers(g) : i \in 1..Len(g)
      /\ \A i \in Openers(h) : i \in 1..Len(h)
  BY <1>1 DEF Heads, Openers
<1>5. ASSUME NEW i \in 1..Len(g), p < i
      PROVE  (i \in Heads(g) <=> i - p + c \in Heads(h)) /\ (i \in Openers(g) <=> i - p + c \in Openers(h))
  <2>1. /\ i - p + c \in 1..Len(h) /\ g[i].role = h[i - p + c].role /\ g[i].calls = h[i - p + c].calls
    BY <1>1, <1>5
  <2> QED BY <1>1, <2>1 DEF Heads, Openers
<1> HIDE DEF d, n
<1>6. Cardinality(After(Heads(g), m)) = Cardinality(After(Heads(h), n)) /\ Cardinality(After(Heads(h), n)) \in Nat
  BY <1>3, <1>4, <1>5
<1>7. Cardinality(After(Openers(g), m)) = Cardinality(After(Openers(h), n)) /\ Cardinality(After(Openers(h), n)) \in Nat
  BY <1>3, <1>4, <1>5
<1> QED BY <1>6, <1>7 DEF n

\* What follows a boundary of a whole transcript is whole behind any plain messages.
LEMMA AlikeWhole ==
  ASSUME NEW g, NEW p, NEW h, NEW c, Alike(g, p, h, c), \A k \in 1..p : Plain(g[k]),
         Batched(h), OneAnswer(h), Boundary(h, c)
  PROVE  Batched(g) /\ OneAnswer(g)
<1>0. AlikeAt(g, p, h, c)
  BY AlikePositions
<1>1. /\ p \in Nat /\ c \in Nat /\ Len(g) \in Nat /\ Len(h) \in Nat
      /\ DOMAIN g = 1..Len(g) /\ DOMAIN h = 1..Len(h)
      /\ \A k \in 1..Len(g) : p < k =>
           /\ k - p + c \in 1..Len(h) /\ c < k - p + c
           /\ g[k].role = h[k - p + c].role /\ g[k].calls = h[k - p + c].calls
      /\ \A k \in 1..Len(h) : c < k =>
           /\ k - c + p \in 1..Len(g) /\ p < k - c + p /\ (k - c + p) - p + c = k
           /\ g[k - c + p].role = h[k].role /\ g[k - c + p].calls = h[k].calls
  BY <1>0, Zenon DEF AlikeAt
<1>2. ASSUME NEW k \in 1..Len(g), g[k].role \in {"assistant", "tool"} PROVE p < k
  <2>1. ~(k \in 1..p)
    BY <1>2 DEF Plain
  <2> QED BY <1>1, <2>1
<1>3. h \in Seq(Messages) /\ \A k \in 1..Len(h) : Len(h[k].calls) \in Nat /\ DOMAIN h[k].calls = 1..Len(h[k].calls)
  BY MessageParts DEF Alike
<1>4. ASSUME NEW a \in 1..Len(g), g[a].role = "assistant", NEW j \in DOMAIN g[a].calls
      PROVE  a + j \in 1..Len(g) /\ g[a + j].role = "tool" /\ g[a + j].calls = <<g[a].calls[j]>>
  <2> DEFINE b == a - p + c
             i == b + j
  <2>1. b \in 1..Len(h) /\ c < b /\ g[a].role = h[b].role /\ g[a].calls = h[b].calls
    BY <1>1, <1>2, <1>4
  <2> HIDE DEF b
  <2>2. j \in 1..Len(h[b].calls) /\ j \in Nat
    BY <1>3, <1>4, <2>1
  <2>3. i \in b + 1..b + Len(h[b].calls) /\ c < i /\ i - b = j
    BY <1>1, <1>3, <2>1, <2>2
  <2> HIDE DEF i
  <2>4. i \in 1..Len(h) /\ h[i].role = "tool" /\ h[i].calls = <<h[b].calls[j]>>
    <3>1. h[b].role = "assistant"
      BY <1>4, <2>1
    <3>2. i \in 1..Len(h) /\ h[i].role = "tool" /\ h[i].calls = <<h[b].calls[i - b]>>
      <4>1. \A k \in b + 1..b + Len(h[b].calls) :
              k \in 1..Len(h) /\ h[k].role = "tool" /\ h[k].calls = <<h[b].calls[k - b]>>
        BY <1>3, <2>1, <3>1, AnswersOfBatch
      <4> QED BY <2>3, <4>1
    <3> QED BY <2>3, <3>2
  <2>5. i - c + p \in 1..Len(g) /\ g[i - c + p].role = "tool" /\ g[i - c + p].calls = <<g[a].calls[j]>>
    BY <1>1, <2>1, <2>3, <2>4
  <2>6. i - c + p = a + j
    <3>1. a \in Int /\ p \in Int /\ c \in Int /\ j \in Int
      BY <1>1, <2>2
    <3> HIDE DEF Alike
    <3>2. i = ((a - p) + c) + j
      BY DEF b, i
    <3> QED BY <3>1, <3>2
  <2> QED BY <2>5, <2>6
<1>5. ASSUME NEW i \in 1..Len(g), g[i].role = "tool"
      PROVE  \E a \in 1..i : g[a].role = "assistant" /\ i - a \in DOMAIN g[a].calls
  <2> DEFINE k == i - p + c
  <2>1. k \in 1..Len(h) /\ c < k /\ h[k].role = "tool" /\ i - p + c = k
    BY <1>1, <1>2, <1>5
  <2> HIDE DEF k
  <2>2. PICK b \in 1..k - 1 : h[b].role = "assistant" /\ k <= b + Len(h[b].calls)
    BY <1>3, <2>1, AnswersOfBatch
  <2>3. b \in 1..Len(h) /\ Len(h[b].calls) \in Nat /\ b < k
    BY <1>1, <1>3, <2>1, <2>2
  <2>4. c < b
    <3>1. ASSUME b <= c PROVE FALSE
      <4>0. /\ b \in Int /\ c \in Int /\ k \in Int /\ Len(h[b].calls) \in Int /\ Len(h) \in Int
            /\ b <= c /\ c < k /\ k <= b + Len(h[b].calls) /\ k <= Len(h)
        BY <1>1, <2>1, <2>2, <2>3, <3>1
      <4>1. c + 1 \in b + 1..b + Len(h[b].calls)
        BY <4>0
      <4>2. h[c + 1].role = "tool"
        BY <1>3, <2>2, <2>3, <4>1, AnswersOfBatch
      <4>3. c # Len(h)
        BY <4>0
      <4> QED BY <4>2, <4>3 DEF Boundary, Heads
    <3> QED BY <1>1, <2>3, <3>1
  <2> DEFINE a == b - c + p
  <2>5. a \in 1..Len(g) /\ g[a].role = "assistant" /\ g[a].calls = h[b].calls
    BY <1>1, <2>2, <2>3, <2>4
  <2>6. i - a = k - b /\ a \in Nat /\ i \in Nat /\ a <= i
    BY <1>1, <2>1, <2>3, <2>4
  <2>7. k - b \in DOMAIN h[b].calls
    BY <1>3, <2>1, <2>2, <2>3
  <2> HIDE DEF a
  <2>8. a \in 1..i /\ i - a \in DOMAIN g[a].calls
    BY <2>5, <2>6, <2>7
  <2> QED BY <2>5, <2>8
<1>6. ASSUME NEW i \in 1..Len(g), NEW k \in 1..Len(g), g[i].role = "tool", g[k].role = "tool", g[i].calls = g[k].calls
      PROVE  i = k
  <2>1. /\ i - p + c \in 1..Len(h) /\ h[i - p + c].role = "tool" /\ h[i - p + c].calls = g[i].calls
        /\ k - p + c \in 1..Len(h) /\ h[k - p + c].role = "tool" /\ h[k - p + c].calls = g[k].calls
    BY <1>1, <1>2, <1>6
  <2> DEFINE x == i - p + c
             y == k - p + c
  <2>2. /\ x \in DOMAIN h /\ h[x].role = "tool" /\ h[x].calls = g[i].calls
        /\ y \in DOMAIN h /\ h[y].role = "tool" /\ h[y].calls = g[k].calls
    BY <1>1, <2>1
  <2> HIDE DEF x, y
  <2>3. x = y
    BY <1>6, <2>2 DEF OneAnswer
  <2>4. i \in Int /\ k \in Int /\ p \in Int /\ c \in Int
    BY <1>1
  <2> QED BY <2>3, <2>4 DEF x, y
<1>7. Batched(g)
  BY <1>1, <1>4, <1>5 DEF Batched
<1>8. OneAnswer(g)
  BY <1>1, <1>6 DEF OneAnswer
<1> QED BY <1>7, <1>8

\* What is stored stays old when a part of it is sent.
LEMMA AlikeOld ==
  ASSUME NEW g, NEW p, NEW h, NEW c, Alike(g, p, h, c), StoredAreOld(h),
         \A k \in 1..p : ~g[k].stored,
         \A k \in p + 1..Len(g) : g[k].stored => h[k - p + c].stored
  PROVE  StoredAreOld(g)
<1>0. AlikeAt(g, p, h, c)
  BY AlikePositions
<1>1. /\ p \in Nat /\ c \in Nat /\ Len(g) \in Nat
      /\ DOMAIN g = 1..Len(g) /\ DOMAIN h = 1..Len(h)
      /\ \A k \in 1..Len(g) : p < k => k - p + c \in 1..Len(h) /\ g[k].role = h[k - p + c].role
  BY <1>0 DEF AlikeAt
<1>2. ASSUME NEW i \in 1..Len(g), g[i].stored
      PROVE  g[i].role = "tool" /\ RecentToolUnits <= Cardinality(After(Openers(g), i))
  <2>1. i \in p + 1..Len(g) /\ p < i /\ i \in p..Len(g)
    BY <1>1, <1>2
  <2>2. h[i - p + c].stored /\ i - p + c \in DOMAIN h
    BY <1>1, <1>2, <2>1
  <2>3. h[i - p + c].role = "tool" /\ RecentToolUnits <= Cardinality(After(Openers(h), i - p + c))
    BY <2>2 DEF StoredAreOld
  <2>4. Cardinality(After(Openers(g), i)) = Cardinality(After(Openers(h), i - p + c))
    BY <2>1, AlikeCounts
  <2> QED BY <1>1, <2>1, <2>3, <2>4
<1> QED BY <1>1, <1>2 DEF StoredAreOld

-----------------------------------------------------------------------------
(* More counting.                                                          *)

\* Fewer positions follow a later one, and strictly fewer if some lie between.
LEMMA AfterShrinks ==
  ASSUME NEW n \in Nat, NEW S, \A i \in S : i \in 1..n, NEW m \in Int, NEW k \in Int, m <= k
  PROVE  /\ Cardinality(After(S, k)) <= Cardinality(After(S, m))
         /\ Cardinality(After(S, k)) \in Nat /\ Cardinality(After(S, m)) \in Nat
         /\ \A x \in S : m < x /\ x <= k => Cardinality(After(S, k)) < Cardinality(After(S, m))
<1>1. /\ IsFiniteSet(After(S, m)) /\ IsFiniteSet(After(S, k))
      /\ Cardinality(After(S, m)) \in Nat /\ Cardinality(After(S, k)) \in Nat
  BY CountType
<1>2. \A i \in S : i \in Int
  OBVIOUS
<1>3. After(S, k) \in SUBSET After(S, m)
  <2>1. ASSUME NEW x \in After(S, k) PROVE x \in After(S, m)
    <3>1. x \in S /\ x \in Int /\ x > k
      BY <1>2 DEF After
    <3>2. x > m
      BY <3>1
    <3> QED BY <3>1, <3>2 DEF After
  <2> QED BY <2>1
<1>4. Cardinality(After(S, k)) <= Cardinality(After(S, m))
  BY <1>1, <1>3, FS_Subset
<1>5. ASSUME NEW x \in S, m < x, x <= k
      PROVE  Cardinality(After(S, k)) < Cardinality(After(S, m))
  <2>1. x \in Int /\ ~(x > k) /\ x > m
    BY <1>2, <1>5
  <2>2. x \in After(S, m) /\ x \notin After(S, k)
    BY <2>1 DEF After
  <2>3. Cardinality(After(S, k) \union {x}) = Cardinality(After(S, k)) + 1
    BY <1>1, <2>2, FS_AddElement
  <2>4. After(S, k) \union {x} \in SUBSET After(S, m)
    BY <1>3, <2>2
  <2>5. Cardinality(After(S, k) \union {x}) <= Cardinality(After(S, m))
    BY <1>1, <2>4, FS_Subset
  <2> QED BY <1>1, <2>3, <2>5
<1> QED BY <1>1, <1>4, <1>5

\* Positions that are all taken count themselves.
LEMMA FullCount ==
  ASSUME NEW n \in Nat, NEW S, \A i \in S : i \in 1..n, NEW a \in Int, NEW j \in Nat,
         \A x \in a + 1..a + j : x \in S
  PROVE  Count(S, a + j) = Count(S, a) + j
<1> DEFINE b == a + j
           I == a + 1..b
<1>1. b \in Int /\ a + 1 \in Int /\ a <= b /\ b - a = j
  OBVIOUS
<1>2. IsFiniteSet(Upto(S, a)) /\ Count(S, a) \in Nat
  <2>1. Count(S, a) \in 0..Cardinality(S) /\ IsFiniteSet(Upto(S, a)) /\ Cardinality(S) \in Nat
    BY CountType, PositionsFinite
  <2> QED BY <2>1
<1>3. \A i \in S : i \in Int
  OBVIOUS
<1>4. IsFiniteSet(I) /\ Cardinality(I) = j
  <2>1. IsFiniteSet(I) /\ Cardinality(I) = IF a + 1 > b THEN 0 ELSE b - (a + 1) + 1
    <3> HIDE DEF b
    <3> QED BY <1>1, FS_Interval, Zenon
  <2> QED BY <1>1, <2>1
<1>5. \A x : x \in Upto(S, b) <=> x \in Upto(S, a) \/ x \in I
  <2>1. ASSUME NEW x \in S, x <= b PROVE x <= a \/ x \in I
    <3>1. x \in Int
      BY <1>3
    <3> QED BY <1>1, <2>1, <3>1
  <2>2. ASSUME NEW x \in S, x <= a PROVE x <= b
    <3>1. x \in Int
      BY <1>3
    <3> QED BY <1>1, <2>2, <3>1
  <2>3. \A x \in I : x \in S /\ x <= b
    BY <1>1
  <2> HIDE DEF b, I
  <2> QED BY <2>1, <2>2, <2>3 DEF Upto
<1>6. \A x : ~(x \in Upto(S, a) /\ x \in I)
  <2>1. \A x \in I : ~(x <= a)
    BY <1>1
  <2> HIDE DEF I
  <2> QED BY <2>1 DEF Upto
<1> HIDE DEF b, I
<1>7. Upto(S, b) = Upto(S, a) \union I /\ Upto(S, a) \intersect I = {}
  BY <1>5, <1>6
<1>8. Cardinality(Upto(S, b)) = Cardinality(Upto(S, a)) + Cardinality(I) - Cardinality(Upto(S, a) \intersect I)
  BY <1>2, <1>4, <1>7, FS_Union
<1>9. Cardinality(Upto(S, a) \intersect I) = 0
  BY <1>7, FS_EmptySet
<1>10. Count(S, b) = Count(S, a) + j
  BY <1>2, <1>4, <1>8, <1>9 DEF Count
<1> QED BY <1>10 DEF b

-----------------------------------------------------------------------------
(* Parts of transcripts that agree.                                        *)

\* The tail of a transcript agrees with it.
LEMMA TailAlike ==
  ASSUME NEW g \in Seq(Messages), Len(g) # 0
  PROVE  /\ Alike(Tail(g), 0, g, 1)
         /\ Len(Tail(g)) = Len(g) - 1 /\ \A i \in 1..Len(Tail(g)) : Tail(g)[i] = g[i + 1]
<1>1. /\ Tail(g) \in Seq(Messages) /\ Len(Tail(g)) = Len(g) - 1 /\ Len(g) \in Nat
      /\ \A i \in 1..Len(g) - 1 : Tail(g)[i] = g[i + 1]
  OBVIOUS
<1> DEFINE t == Tail(g)
<1>2. t \in Seq(Messages) /\ Len(t) = Len(g) - 1 /\ \A i \in 1..Len(t) : t[i] = g[i + 1]
  BY <1>1
<1> HIDE DEF t
<1>3. ASSUME NEW k \in 0 + 1..Len(t) PROVE t[k] = g[k - 0 + 1]
  <2>1. k \in 1..Len(t) /\ k - 0 + 1 = k + 1
    BY <1>1, <1>2
  <2> QED BY <1>2, <2>1
<1>4. 0 \in 0..Len(t) /\ 1 \in 0..Len(g) /\ Len(t) - 0 = Len(g) - 1
  BY <1>1, <1>2
<1>5. Alike(t, 0, g, 1)
  BY <1>2, <1>3, <1>4 DEF Alike
<1> QED BY <1>2, <1>5 DEF t

\* Agreeing goes through a third transcript.
LEMMA AlikeThrough ==
  ASSUME NEW f, NEW q, NEW g, NEW b, NEW p, NEW h, NEW c, Alike(f, q, g, b), Alike(g, p, h, c)
  PROVE  /\ p <= b => Alike(f, q, h, b - p + c)
         /\ b <= p /\ p <= Len(g) => Alike(f, q + p - b, h, c)
<1>1. /\ f \in Seq(Messages) /\ g \in Seq(Messages) /\ h \in Seq(Messages)
      /\ q \in 0..Len(f) /\ b \in 0..Len(g) /\ Len(f) - q = Len(g) - b
      /\ p \in 0..Len(g) /\ c \in 0..Len(h) /\ Len(g) - p = Len(h) - c
      /\ Len(f) \in Nat /\ Len(g) \in Nat /\ Len(h) \in Nat
      /\ \A k \in q + 1..Len(f) : f[k].role = g[k - q + b].role /\ f[k].calls = g[k - q + b].calls
      /\ \A k \in p + 1..Len(g) : g[k].role = h[k - p + c].role /\ g[k].calls = h[k - p + c].calls
  BY MessageParts DEF Alike
<1>2. ASSUME p <= b PROVE Alike(f, q, h, b - p + c)
  <2> DEFINE e == b - p + c
  <2>1. e \in 0..Len(h) /\ Len(f) - q = Len(h) - e
    <3>1. /\ q \in Int /\ b \in Int /\ p \in Int /\ c \in Int /\ Len(f) \in Int /\ Len(g) \in Int /\ Len(h) \in Int
          /\ 0 <= q /\ q <= Len(f) /\ 0 <= c /\ c <= Len(h) /\ b <= Len(g) /\ p <= Len(g)
          /\ Len(f) - q = Len(g) - b /\ Len(g) - p = Len(h) - c
      BY <1>1
    <3> QED BY <1>2, <3>1
  <2>2. ASSUME NEW k \in q + 1..Len(f)
        PROVE  f[k].role = h[k - q + e].role /\ f[k].calls = h[k - q + e].calls
    <3> DEFINE i == k - q + b
    <3>1. i \in p + 1..Len(g) /\ i - p + c = k - q + e
      BY <1>1, <1>2
    <3>2. f[k].role = g[i].role /\ f[k].calls = g[i].calls
      BY <1>1
    <3> HIDE DEF i, e
    <3>3. g[i].role = h[i - p + c].role /\ g[i].calls = h[i - p + c].calls
      BY <1>1, <3>1
    <3> QED BY <3>1, <3>2, <3>3
  <2> HIDE DEF e
  <2>3. Alike(f, q, h, e)
    BY <1>1, <2>1, <2>2 DEF Alike
  <2> QED BY <2>3 DEF e
<1>3. ASSUME b <= p PROVE Alike(f, q + p - b, h, c)
  <2> DEFINE e == q + p - b
  <2>1. e \in 0..Len(f) /\ Len(f) - e = Len(h) - c
    <3>1. /\ q \in Int /\ b \in Int /\ p \in Int /\ c \in Int /\ Len(f) \in Int /\ Len(g) \in Int /\ Len(h) \in Int
          /\ 0 <= q /\ q <= Len(f) /\ 0 <= c /\ c <= Len(h) /\ b <= Len(g) /\ p <= Len(g)
          /\ Len(f) - q = Len(g) - b /\ Len(g) - p = Len(h) - c
      BY <1>1
    <3> QED BY <1>3, <3>1
  <2>2. ASSUME NEW k \in e + 1..Len(f)
        PROVE  f[k].role = h[k - e + c].role /\ f[k].calls = h[k - e + c].calls
    <3> DEFINE i == k - q + b
    <3>1. i \in p + 1..Len(g) /\ i - p + c = k - e + c /\ k \in q + 1..Len(f)
      BY <1>1, <1>3
    <3>2. f[k].role = g[i].role /\ f[k].calls = g[i].calls
      BY <1>1, <3>1
    <3> HIDE DEF i, e
    <3>3. g[i].role = h[i - p + c].role /\ g[i].calls = h[i - p + c].calls
      BY <1>1, <3>1
    <3> QED BY <3>1, <3>2, <3>3
  <2> HIDE DEF e
  <2>3. Alike(f, e, h, c)
    BY <1>1, <2>1, <2>2 DEF Alike
  <2> QED BY <2>3 DEF e
<1> QED BY <1>2, <1>3

-----------------------------------------------------------------------------
(* What is sent of a transcript.                                           *)

\* Behind p plain messages, of which the first is the prompt, msgs has what follows message c of
\* h, where a unit ends; what h has stored stays stored, and what is stored is old.
Sends(msgs, p, h, c) ==
  /\ Alike(msgs, p, h, c) /\ Boundary(h, c) /\ c # 0 /\ p \in 2..Len(msgs)
  /\ msgs[1] = Prompt /\ \A k \in 1..p : Plain(msgs[k]) /\ ~msgs[k].stored
  /\ \A k \in p + 1..Len(msgs) : h[k - p + c].stored => msgs[k].stored
  /\ StoredAreOld(msgs)

\* Heads and batches are positions.
LEMMA HeadPositions ==
  ASSUME NEW h \in Seq(Messages)
  PROVE  /\ Len(h) \in Nat /\ DOMAIN h = 1..Len(h)
         /\ \A i \in Heads(h) : i \in 1..Len(h)
         /\ \A i \in Openers(h) : i \in 1..Len(h)
         /\ \A i \in 1..Len(h) : i \in Heads(h) <=> h[i].role # "tool"
  BY MessageParts DEF Heads, Openers

\* The transcript that is sent is whole, and so is its history, in whose units those behind the
\* cut follow one unit for every plain message.
LEMMA SentIsWhole ==
  ASSUME NEW h, Whole(h), NEW msgs, NEW p, NEW c, Sends(msgs, p, h, c)
  PROVE  /\ Whole(msgs) /\ Canonical(msgs)
         /\ Len(msgs) \in Nat /\ p \in Nat /\ 2 <= p /\ p <= Len(msgs)
         /\ c \in 1..Len(h) /\ Len(h) \in Nat
<1>1. h \in Seq(Messages) /\ Batched(h) /\ OneAnswer(h)
  BY DEF Whole
<1>2. /\ msgs \in Seq(Messages) /\ Alike(msgs, p, h, c) /\ Boundary(h, c) /\ p \in 2..Len(msgs)
      /\ \A k \in 1..p : Plain(msgs[k])
      /\ c \in 0..Len(h) /\ c # 0
  BY DEF Sends, Alike
<1>3. Len(msgs) \in Nat /\ Len(h) \in Nat
  BY <1>1, <1>2, MessageParts
<1>4. Batched(msgs) /\ OneAnswer(msgs)
  BY <1>1, <1>2, AlikeWhole
<1>5. Canonical(msgs)
  BY <1>2, <1>4, WholeIsCanonical
<1> QED BY <1>2, <1>3, <1>4, <1>5 DEF Whole

\* The same of the history of what is sent, in which one unit for every plain message precedes
\* the units behind the cut.
LEMMA HistoryIsWhole ==
  ASSUME NEW h, Whole(h), NEW msgs, NEW p, NEW c, Sends(msgs, p, h, c)
  PROVE  LET t == Tail(msgs)
         IN /\ Whole(t) /\ Alike(t, p - 1, h, c)
            /\ Len(t) \in Nat /\ Len(t) = Len(msgs) - 1 /\ \A i \in 1..Len(t) : t[i] = msgs[i + 1]
            /\ \A i \in 1..p - 1 : i \in Heads(t)
            /\ Cardinality(Heads(t)) = p - 1 + Cardinality(After(Heads(h), c))
            /\ Cardinality(After(Heads(h), c)) \in Nat
<1> DEFINE t == Tail(msgs)
<1>1. h \in Seq(Messages) /\ Batched(h) /\ OneAnswer(h)
  BY DEF Whole
<1>2. /\ msgs \in Seq(Messages) /\ Alike(msgs, p, h, c) /\ Boundary(h, c)
      /\ \A k \in 1..p : Plain(msgs[k])
      /\ Len(msgs) \in Nat /\ p \in Nat /\ 2 <= p /\ p <= Len(msgs)
  BY SentIsWhole DEF Sends, Whole
<1>3. Alike(t, 0, msgs, 1) /\ Len(t) = Len(msgs) - 1 /\ \A i \in 1..Len(t) : t[i] = msgs[i + 1]
  <2>1. Len(msgs) # 0
    BY <1>2
  <2> QED BY <1>2, <2>1, TailAlike
<1> HIDE DEF t
<1>4. Alike(t, p - 1, h, c)
  <2>1. Alike(t, 0 + p - 1, h, c)
    <3>1. Alike(t, 0, msgs, 1) /\ Alike(msgs, p, h, c)
      BY <1>2, <1>3
    <3>2. 1 <= p /\ p <= Len(msgs) => Alike(t, 0 + p - 1, h, c)
      BY <3>1, AlikeThrough
    <3> QED BY <1>2, <3>2
  <2>2. 0 + p - 1 = p - 1
    BY <1>2
  <2> QED BY <2>1, <2>2
<1>5. t \in Seq(Messages) /\ Len(t) \in Nat
  BY <1>2, <1>3 DEF Alike
<1>6. ASSUME NEW i \in 1..p - 1 PROVE i \in 1..Len(t) /\ Plain(t[i])
  <2>1. i \in 1..Len(t) /\ i + 1 \in 1..p
    BY <1>2, <1>3
  <2> QED BY <1>2, <1>3, <2>1
<1>7. Batched(t) /\ OneAnswer(t)
  BY <1>1, <1>2, <1>4, <1>6, AlikeWhole
<1>8. ASSUME NEW i \in 1..p - 1 PROVE i \in Heads(t)
  BY <1>5, <1>6, HeadPositions DEF Plain
<1>9. /\ Cardinality(Heads(t)) = p - 1 + Cardinality(After(Heads(h), c))
      /\ Cardinality(After(Heads(h), c)) \in Nat
  <2>1. \A i \in Heads(t) : i \in 1..Len(t)
    BY <1>5, HeadPositions
  <2> DEFINE q == p - 1
  <2>2. q \in Nat /\ q \in q..Len(t) /\ q \in Int /\ 0 \in Int /\ 0 + q = q /\ 0 + 1 = 1
    BY <1>2, <1>3
  <2>3. \A x \in 0 + 1..0 + q : x \in Heads(t)
    BY <1>8, <2>2
  <2>4. c \in Nat /\ q - q + c = c
    BY <2>2, SentIsWhole
  <2> HIDE DEF q
  <2>5. Count(Heads(t), q) = Count(Heads(t), 0) + q
    <3>1. Count(Heads(t), 0 + q) = Count(Heads(t), 0) + q
      BY <1>5, <2>1, <2>2, <2>3, FullCount
    <3> QED BY <2>2, <3>1
  <2>6. Count(Heads(t), 0) = 0
    <3>1. 0 <= 0
      OBVIOUS
    <3> QED BY <1>5, <2>1, <2>2, <3>1, CountEnds
  <2>7. /\ Cardinality(After(Heads(t), q)) = Cardinality(After(Heads(h), c))
        /\ Cardinality(After(Heads(h), c)) \in Nat
    <3>1. Alike(t, q, h, c)
      BY <1>4 DEF q
    <3>2. /\ Cardinality(After(Heads(t), q)) = Cardinality(After(Heads(h), q - q + c))
          /\ Cardinality(After(Heads(h), q - q + c)) \in Nat
      BY <2>2, <3>1, AlikeCounts
    <3> QED BY <2>4, <3>2
  <2>8. /\ Cardinality(After(Heads(t), q)) = Cardinality(Heads(t)) - Count(Heads(t), q)
        /\ Cardinality(Heads(t)) \in Nat
    BY <1>5, <2>1, <2>2, CountType, PositionsFinite
  <2>9. Cardinality(Heads(t)) = q + Cardinality(After(Heads(h), c))
    BY <2>2, <2>5, <2>6, <2>7, <2>8
  <2> QED BY <2>7, <2>9 DEF q
<1> QED BY <1>3, <1>4, <1>5, <1>7, <1>8, <1>9 DEF t, Whole

\* Two transcripts in a row.
LEMMA Joined ==
  ASSUME NEW x \in Seq(Messages), NEW y \in Seq(Messages), NEW r, r = x \o y
  PROVE  r \in Seq(Messages) /\ Len(r) = Len(x) + Len(y) /\ Len(x) \in Nat /\ Len(y) \in Nat
  OBVIOUS

\* The first of them.
LEMMA JoinedFirst ==
  ASSUME NEW x \in Seq(Messages), NEW y \in Seq(Messages), NEW r, r = x \o y, NEW k \in 1..Len(x)
  PROVE  r[k] = x[k]
  OBVIOUS

\* The second of them.
LEMMA JoinedSecond ==
  ASSUME NEW x \in Seq(Messages), NEW y \in Seq(Messages), NEW r, r = x \o y,
         NEW k \in Len(x) + 1..Len(x) + Len(y)
  PROVE  r[k] = y[k - Len(x)]
  OBVIOUS

\* applySummary(): the prompt and the summary stand before what follows message m of the history.
LEMMA SummaryAndSuffix ==
  ASSUME NEW msgs \in Seq(Messages), Len(msgs) # 0, msgs[1] = Prompt, NEW m \in 0..Len(msgs) - 1, NEW r,
         r = <<Head(msgs), Summary>> \o SubSeq(Tail(msgs), m + 1, Len(Tail(msgs)))
  PROVE  /\ Alike(r, 2, msgs, m + 1) /\ Len(r) = Len(msgs) - m + 1 /\ r \in Seq(Messages)
         /\ r[1] = Prompt /\ r[2] = Summary
         /\ \A k \in 3..Len(r) : r[k] = msgs[k + m - 1] /\ k + m - 1 \in 1..Len(msgs)
<1> DEFINE t == Tail(msgs)
           u == SubSeq(t, m + 1, Len(t))
           b == <<Head(msgs), Summary>>
<1>1. /\ t \in Seq(Messages) /\ Len(t) = Len(msgs) - 1 /\ Len(msgs) \in Nat /\ m \in Nat
      /\ \A i \in 1..Len(t) : t[i] = msgs[i + 1]
  <2>1. Alike(t, 0, msgs, 1) /\ Len(t) = Len(msgs) - 1 /\ \A i \in 1..Len(t) : t[i] = msgs[i + 1]
    BY TailAlike
  <2> QED BY <2>1 DEF Alike
<1> HIDE DEF t
<1>2. /\ u \in Seq(Messages) /\ Len(u) = Len(t) - m
      /\ \A i \in 1..Len(t) - m : u[i] = t[i + m]
  BY <1>1
<1>3. Summary \in Messages /\ Head(msgs) = msgs[1] /\ Prompt \in Messages
  BY DEF Summary, Prompt, Msg, Messages, Roles
<1>4. b \in Seq(Messages) /\ Len(b) = 2 /\ b[1] = Prompt /\ b[2] = Summary
  BY <1>3
<1> HIDE DEF u, b
<1>5. r = b \o u
  BY DEF b, u, t
<1>6. /\ r \in Seq(Messages) /\ Len(r) = 2 + Len(u)
      /\ \A k \in 1..2 : r[k] = b[k]
      /\ \A k \in 3..2 + Len(u) : r[k] = u[k - 2]
  <2>1. u \in Seq(Messages) /\ b \in Seq(Messages) /\ Len(b) = 2 /\ r = b \o u
    BY <1>2, <1>4, <1>5
  <2>2. r \in Seq(Messages) /\ Len(r) = Len(b) + Len(u) /\ Len(u) \in Nat
    BY <2>1, Joined
  <2>3. \A k \in 1..Len(b) : r[k] = b[k]
    BY <2>1, JoinedFirst
  <2>4. ASSUME NEW k \in Len(b) + 1..Len(b) + Len(u) PROVE r[k] = u[k - Len(b)]
    BY <2>1, JoinedSecond
  <2>5. Len(b) = 2
    BY <2>1
  <2>6. r \in Seq(Messages) /\ Len(r) = 2 + Len(u)
    BY <2>2, <2>5
  <2>7. \A k \in 1..2 : r[k] = b[k]
    BY <2>3, <2>5
  <2>8. \A k \in 3..2 + Len(u) : r[k] = u[k - 2]
    <3>1. ASSUME NEW k \in 3..2 + Len(u) PROVE r[k] = u[k - 2]
      <4>1. k \in Len(b) + 1..Len(b) + Len(u) /\ k - Len(b) = k - 2
        BY <2>2, <2>5
      <4>2. r[k] = u[k - Len(b)]
        BY <2>4, <4>1
      <4> QED BY <4>1, <4>2
    <3> QED BY <3>1
  <2> QED BY <2>6, <2>7, <2>8
<1>7. Len(r) = Len(msgs) - m + 1
  BY <1>1, <1>2, <1>6
<1>8. r[1] = Prompt /\ r[2] = Summary
  BY <1>4, <1>6
<1>9. ASSUME NEW k \in 3..Len(r) PROVE r[k] = msgs[k + m - 1] /\ k + m - 1 \in 1..Len(msgs)
  <2>1. k - 2 \in 1..Len(t) - m /\ k - 2 + m \in 1..Len(t) /\ (k - 2 + m) + 1 = k + m - 1 /\ k + m - 1 \in 1..Len(msgs)
    <3>1. /\ k \in Int /\ m \in Int /\ Len(t) \in Int /\ Len(msgs) \in Int /\ 0 <= m /\ 3 <= k
          /\ k <= Len(msgs) - m + 1 /\ Len(t) = Len(msgs) - 1
      BY <1>1, <1>7
    <3> QED BY <3>1
  <2>2. r[k] = u[k - 2]
    BY <1>6
  <2>3. u[k - 2] = t[k - 2 + m]
    BY <1>2, <2>1
  <2>4. t[k - 2 + m] = msgs[(k - 2 + m) + 1]
    BY <1>1, <2>1
  <2> QED BY <2>1, <2>2, <2>3, <2>4
<1>10. Alike(r, 2, msgs, m + 1)
  <2>1. 2 \in 0..Len(r) /\ m + 1 \in 0..Len(msgs) /\ Len(r) - 2 = Len(msgs) - (m + 1)
    BY <1>1, <1>7
  <2>2. ASSUME NEW k \in 2 + 1..Len(r) PROVE r[k] = msgs[k - 2 + (m + 1)]
    <3>1. k \in 3..Len(r) /\ k + m - 1 = k - 2 + (m + 1)
      BY <1>1, <1>6
    <3> QED BY <1>9, <3>1
  <2> QED BY <1>6, <2>1, <2>2 DEF Alike
<1> QED BY <1>6, <1>7, <1>8, <1>9, <1>10

\* What applySummary() makes of a transcript that is sent is sent too.  Its suffix begins among
\* the plain messages, or behind as many units as the state covers.
LEMMA SummarySends ==
  ASSUME NEW h, Whole(h), NEW msgs, NEW p, NEW c, Sends(msgs, p, h, c),
         NEW s, s # NoState, NEW n \in Nat, n = CoveredUnits(BuildUnits(Tail(msgs)), s)
  PROVE  LET r == ApplySummary(msgs, s)
             size == p - 1 + Cardinality(After(Heads(h), c))
         IN \E q, d : /\ Sends(r, q, h, d) /\ r[2] = Summary
                      /\ \/ d = c /\ q > 2 /\ (n # 0 => q <= p)
                         \/ q = 2 /\ Cardinality(After(Heads(h), d)) = IF n <= size THEN size - n ELSE 0
<1> DEFINE t == Tail(msgs)
           size == p - 1 + Cardinality(After(Heads(h), c))
           m == MessagesBefore(BuildUnits(t), n)
           r == ApplySummary(msgs, s)
<1>1. /\ Whole(msgs) /\ msgs \in Seq(Messages) /\ h \in Seq(Messages)
      /\ Len(msgs) \in Nat /\ p \in Nat /\ 2 <= p /\ p <= Len(msgs)
      /\ c \in 1..Len(h) /\ Len(h) \in Nat
  BY SentIsWhole DEF Whole
<1>2. /\ Whole(t) /\ Alike(t, p - 1, h, c)
      /\ Len(t) \in Nat /\ Len(t) = Len(msgs) - 1
      /\ Cardinality(Heads(t)) = size /\ Cardinality(After(Heads(h), c)) \in Nat
  BY HistoryIsWhole
<1>3. /\ m \in 0..Len(t) /\ Boundary(t, m)
      /\ Cardinality(After(Heads(t), m)) = IF n <= size THEN size - n ELSE 0
      /\ n # 0 => m # 0
  <2>1. /\ m \in 0..Len(t) /\ Boundary(t, m)
        /\ Cardinality(After(Heads(t), m)) = IF n <= Cardinality(Heads(t)) THEN Cardinality(Heads(t)) - n ELSE 0
        /\ n # 0 /\ Len(t) # 0 => m # 0
    <3>1. t \in Seq(Messages) /\ Batched(t) /\ OneAnswer(t)
      BY <1>2 DEF Whole
    <3> QED BY <3>1, CutAtUnits
  <2>2. Cardinality(Heads(t)) = size
    BY <1>2
  <2>3. Len(t) # 0
    <3> HIDE DEF t
    <3> QED BY <1>1, <1>2
  <2> HIDE DEF t, m, size
  <2> QED BY <2>1, <2>2, <2>3
<1>4. r = <<Head(msgs), Summary>> \o SubSeq(t, m + 1, Len(t))
  BY DEF ApplySummary, History, UnitsFrom
<1> HIDE DEF m, r
<1>5. /\ Alike(r, 2, msgs, m + 1) /\ Len(r) = Len(msgs) - m + 1 /\ r \in Seq(Messages)
      /\ r[1] = Prompt /\ r[2] = Summary
      /\ \A k \in 3..Len(r) : r[k] = msgs[k + m - 1] /\ k + m - 1 \in 1..Len(msgs)
  <2>1. Len(msgs) # 0 /\ m \in 0..Len(msgs) - 1 /\ msgs[1] = Prompt
    BY <1>1, <1>2, <1>3 DEF Sends
  <2>2. msgs \in Seq(Messages) /\ t = Tail(msgs)
    BY <1>1
  <2>3. r = <<Head(msgs), Summary>> \o SubSeq(Tail(msgs), m + 1, Len(Tail(msgs)))
    BY <1>4, <2>2
  <2> HIDE DEF t
  <2> QED BY <2>1, <2>2, <2>3, SummaryAndSuffix
<1> HIDE DEF t
<1>6. /\ Plain(Prompt) /\ ~Prompt.stored /\ Plain(Summary) /\ ~Summary.stored
  BY DEF Plain, Prompt, Summary, Msg
<1>7. StoredAreOld(r)
  <2>1. ASSUME NEW k \in 1..2 PROVE ~r[k].stored
    BY <1>5, <1>6
  <2>2. ASSUME NEW k \in 2 + 1..Len(r), r[k].stored PROVE msgs[k - 2 + (m + 1)].stored
    <3>1. k \in 3..Len(r) /\ k + m - 1 = k - 2 + (m + 1)
      BY <1>3
    <3> QED BY <1>5, <2>2, <3>1
  <2>3. StoredAreOld(msgs)
    BY DEF Sends
  <2>4. Alike(r, 2, msgs, m + 1)
    BY <1>5
  <2> QED BY <2>1, <2>2, <2>3, <2>4, AlikeOld
<1>8. CASE p - 1 <= m
  <2> DEFINE d == (m + 1) - p + c
  <2>1. Alike(r, 2, h, d)
    <3>1. Alike(msgs, p, h, c) /\ Alike(r, 2, msgs, m + 1)
      BY <1>5 DEF Sends
    <3>2. p <= m + 1 => Alike(r, 2, h, (m + 1) - p + c)
      BY <3>1, AlikeThrough
    <3> QED BY <1>1, <1>3, <1>8, <3>2
  <2>2. m \in p - 1..Len(t) /\ m - (p - 1) + c = d /\ d # 0
    BY <1>1, <1>2, <1>3, <1>8
  <2>3. Cardinality(After(Heads(t), m)) = Cardinality(After(Heads(h), d))
    BY <1>2, <2>2, AlikeCounts
  <2>4. Boundary(h, d)
    <3>1. CASE m = Len(t)
      <4>1. Len(t) - (p - 1) = Len(h) - c
        BY <1>2 DEF Alike
      <4>2. d = Len(h)
        BY <1>1, <1>2, <3>1, <4>1
      <4> QED BY <4>2 DEF Boundary
    <3>2. CASE m + 1 \in Heads(t)
      <4>0. AlikeAt(t, p - 1, h, c)
        BY <1>2, AlikePositions
      <4>1. /\ \A k \in 1..Len(t) : p - 1 < k =>
                 k - (p - 1) + c \in 1..Len(h) /\ t[k].role = h[k - (p - 1) + c].role
        BY <4>0, Zenon DEF AlikeAt
      <4>2. m + 1 \in 1..Len(t) /\ t[m + 1].role # "tool"
        BY <1>2, <3>2, HeadPositions DEF Whole
      <4>3. (m + 1) - (p - 1) + c = d + 1 /\ p - 1 < m + 1
        BY <1>1, <1>3, <1>8
      <4>4. d + 1 \in 1..Len(h) /\ h[d + 1].role # "tool"
        BY <4>1, <4>2, <4>3
      <4> QED BY <1>1, <4>4, HeadPositions DEF Boundary
    <3> QED BY <1>3, <3>1, <3>2 DEF Boundary
  <2> HIDE DEF d
  <2>5. ASSUME NEW k \in 1..2 PROVE Plain(r[k]) /\ ~r[k].stored
    BY <1>5, <1>6
  <2>6. ASSUME NEW k \in 2 + 1..Len(r), h[k - 2 + d].stored PROVE r[k].stored
    <3> DEFINE i == k + m - 1
    <3>1. k \in 3..Len(r) /\ i - p + c = k - 2 + d /\ p + 1 <= i
      BY <1>1, <1>3, <1>8 DEF d
    <3>2. i \in 1..Len(msgs) /\ r[k] = msgs[i]
      BY <1>5, <3>1
    <3> HIDE DEF i
    <3>3. i \in p + 1..Len(msgs)
      BY <1>1, <3>1, <3>2
    <3> QED BY <2>6, <3>1, <3>2, <3>3 DEF Sends
  <2>7. 2 \in 2..Len(r)
    BY <1>1, <1>2, <1>3, <1>5
  <2>8. Sends(r, 2, h, d)
    BY <1>5, <1>7, <2>1, <2>2, <2>4, <2>5, <2>6, <2>7 DEF Sends
  <2> QED BY <1>3, <1>5, <2>3, <2>8 DEF r
<1>9. CASE m < p - 1
  <2> DEFINE q == 2 + p - (m + 1)
  <2>1. Alike(r, q, h, c)
    <3>1. Alike(msgs, p, h, c) /\ Alike(r, 2, msgs, m + 1)
      BY <1>5 DEF Sends
    <3>2. m + 1 <= p /\ p <= Len(msgs) => Alike(r, 2 + p - (m + 1), h, c)
      BY <3>1, AlikeThrough
    <3> QED BY <1>1, <1>3, <1>9, <3>2
  <2>2. q > 2 /\ (n # 0 => q <= p) /\ q \in 2..Len(r) /\ q \in Nat
    BY <1>1, <1>2, <1>3, <1>5, <1>9
  <2>3. ASSUME NEW k \in 1..q PROVE Plain(r[k]) /\ ~r[k].stored
    <3>1. CASE k \in 1..2
      BY <1>5, <1>6, <3>1
    <3>2. CASE k \in 3..q
      <4>1. k \in 3..Len(r) /\ k + m - 1 \in 1..p
        BY <1>1, <1>3, <1>5, <1>9, <3>2
      <4> QED BY <1>5, <4>1 DEF Sends
    <3> QED BY <2>2, <3>1, <3>2
  <2>4. ASSUME NEW k \in q + 1..Len(r), h[k - q + c].stored PROVE r[k].stored
    <3> DEFINE i == k + m - 1
    <3>1. k \in 3..Len(r) /\ i - p + c = k - q + c /\ p + 1 <= i
      BY <1>1, <1>3, <1>9, <2>2
    <3>2. i \in 1..Len(msgs) /\ r[k] = msgs[i]
      BY <1>5, <3>1
    <3> HIDE DEF i, q
    <3>3. i \in p + 1..Len(msgs)
      BY <1>1, <3>1, <3>2
    <3> QED BY <2>4, <3>1, <3>2, <3>3 DEF Sends
  <2> HIDE DEF q
  <2>5. Boundary(h, c) /\ c # 0
    BY DEF Sends
  <2>6. Sends(r, q, h, c)
    BY <1>5, <1>7, <2>1, <2>2, <2>3, <2>4, <2>5 DEF Sends
  <2> QED BY <1>5, <2>2, <2>6 DEF r
<1> QED BY <1>1, <1>3, <1>8, <1>9

\* Marking some messages as stored leaves the rest of them alone.
Marking(g, M) == [i \in DOMAIN g |-> IF i \in M THEN [g[i] EXCEPT !.stored = TRUE] ELSE g[i]]

\* What a message keeps when it is marked.
LEMMA Marked ==
  ASSUME NEW g \in Seq(Messages), NEW M, NEW r, r = Marking(g, M)
  PROVE  /\ r \in Seq(Messages) /\ Len(r) = Len(g) /\ DOMAIN r = DOMAIN g
         /\ \A i \in 1..Len(g) : /\ r[i].role = g[i].role /\ r[i].calls = g[i].calls
                                 /\ r[i].stored <=> i \in M \/ g[i].stored
                                 /\ i \notin M => r[i] = g[i]
<1>1. Len(g) \in Nat /\ DOMAIN g = 1..Len(g) /\ \A i \in 1..Len(g) : g[i] \in Messages
  BY MessageParts
<1>2. ASSUME NEW m \in Messages, NEW x, x = [m EXCEPT !.stored = TRUE]
      PROVE  x \in Messages /\ x.role = m.role /\ x.calls = m.calls /\ x.stored = TRUE
  BY <1>2 DEF Messages
<1>3. ASSUME NEW i \in 1..Len(g)
      PROVE  /\ r[i] \in Messages /\ r[i].role = g[i].role /\ r[i].calls = g[i].calls
             /\ r[i].stored <=> i \in M \/ g[i].stored
             /\ i \notin M => r[i] = g[i]
  <2>1. g[i] \in Messages /\ r[i] = IF i \in M THEN [g[i] EXCEPT !.stored = TRUE] ELSE g[i]
    BY <1>1 DEF Marking
  <2>2. CASE i \in M
    <3>1. r[i] = [g[i] EXCEPT !.stored = TRUE]
      BY <2>1, <2>2
    <3>2. r[i] \in Messages /\ r[i].role = g[i].role /\ r[i].calls = g[i].calls /\ r[i].stored = TRUE
      BY <1>2, <2>1, <3>1
    <3> QED BY <2>2, <3>2
  <2>3. CASE i \notin M
    BY <2>1, <2>3
  <2> QED BY <2>2, <2>3
<1>4. DOMAIN r = 1..Len(g)
  BY <1>1 DEF Marking
<1>5. r \in [1..Len(g) -> Messages]
  <2>1. r = [i \in 1..Len(g) |-> r[i]]
    BY <1>1 DEF Marking
  <2> QED BY <1>3, <2>1
<1>6. r \in Seq(Messages) /\ Len(r) = Len(g)
  BY <1>1, <1>5
<1> QED BY <1>1, <1>3, <1>4, <1>6

\* The batches behind a message of a unit are those behind the unit.
LEMMA LaterBatches ==
  ASSUME NEW h, Whole(h), NEW u \in BuildUnits(h), NEW i \in u.first..u.last, NEW T,
         \A v : v \in T <=> v \in BuildUnits(h) /\ v.batch /\ v.first > u.first
  PROVE  /\ Cardinality(T) = Cardinality(After(Openers(h), i)) /\ Cardinality(T) \in Nat
         /\ i \in 1..Len(h) /\ (i # u.first => h[i].role = "tool")
<1>1. /\ h \in Seq(Messages) /\ Batched(h) /\ OneAnswer(h)
  BY DEF Whole
<1>2. /\ \A v \in BuildUnits(h) :
           /\ v.first \in Heads(h) /\ v.last \in v.first..Len(h)
           /\ \A k \in v.first + 1..v.last : k \notin Heads(h)
           /\ v.batch <=> v.first \in Openers(h)
      /\ \A k \in Heads(h) : \E v \in BuildUnits(h) : v.first = k
  BY <1>1, UnitsOfWhole
<1>3. /\ Len(h) \in Nat /\ \A k \in Heads(h) : k \in 1..Len(h)
      /\ \A k \in Openers(h) : k \in Heads(h) /\ k \in Int
      /\ \A k \in 1..Len(h) : k \in Heads(h) <=> h[k].role # "tool"
  <2>1. \A k \in Openers(h) : k \in Heads(h)
    BY DEF Openers, Heads
  <2> QED BY <1>1, <2>1, HeadPositions
<1>4. /\ u.first \in Int /\ u.last \in Int /\ i \in Int /\ u.first <= i /\ i <= u.last /\ i \in 1..Len(h)
      /\ \A k \in u.first + 1..u.last : k \notin Heads(h)
  BY <1>2, <1>3
<1>5. ASSUME NEW v \in T PROVE v.first \in After(Openers(h), i)
  <2>1. v \in BuildUnits(h) /\ v.first \in Openers(h) /\ v.first > u.first /\ v.first \in Heads(h) /\ v.first \in Int
    BY <1>2, <1>3
  <2>2. v.first > i
    <3>1. ASSUME v.first <= i PROVE FALSE
      <4>1. v.first \in u.first + 1..u.last
        BY <1>4, <2>1, <3>1
      <4> QED BY <1>4, <2>1, <4>1
    <3> QED BY <1>4, <2>1, <3>1
  <2> QED BY <2>1, <2>2 DEF After
<1>6. ASSUME NEW k \in After(Openers(h), i) PROVE \E v \in T : v.first = k
  <2>1. k \in Openers(h) /\ k > i /\ k \in Heads(h) /\ k \in Int
    BY <1>3 DEF After
  <2>2. PICK v \in BuildUnits(h) : v.first = k
    BY <1>2, <2>1
  <2>3. v.batch /\ v.first > u.first
    BY <1>2, <1>4, <2>1, <2>2
  <2> QED BY <2>2, <2>3
<1>7. T \subseteq BuildUnits(h)
  OBVIOUS
<1>8. Cardinality(T) = Cardinality(After(Openers(h), i)) /\ Cardinality(After(Openers(h), i)) \in Nat
  BY <1>1, <1>5, <1>6, <1>7, FirstsSize
<1>9. ASSUME i # u.first PROVE h[i].role = "tool"
  <2>1. i \in u.first + 1..u.last
    BY <1>4, <1>9
  <2> QED BY <1>3, <1>4, <2>1
<1> QED BY <1>4, <1>8, <1>9

\* collapseOldToolResults(): what is sent stays so, whichever results are large.
LEMMA CollapseSends ==
  ASSUME NEW h, Whole(h), NEW msgs, NEW p, NEW c, Sends(msgs, p, h, c), NEW large
  PROVE  LET r == Collapse(msgs, large, RecentToolUnits)
         IN Sends(r, p, h, c) /\ r[2] = msgs[2]
<1> DEFINE t == Tail(msgs)
           units == BuildUnits(t)
           old == {u \in Batches(units) \ Kept(units, RecentToolUnits) : u.complete}
           moved == {i \in large : \E u \in old : u.first < i /\ i <= u.last}
           r == Collapse(msgs, large, RecentToolUnits)
           M == {i \in DOMAIN msgs : i - 1 \in moved}
<1>1. /\ Whole(msgs) /\ msgs \in Seq(Messages) /\ h \in Seq(Messages)
      /\ Len(msgs) \in Nat /\ p \in Nat /\ 2 <= p /\ p <= Len(msgs) /\ DOMAIN msgs = 1..Len(msgs)
      /\ c \in 1..Len(h) /\ Len(h) \in Nat
  BY SentIsWhole, MessageParts DEF Whole
<1>2. /\ Whole(t) /\ Len(t) \in Nat /\ Len(t) = Len(msgs) - 1 /\ \A i \in 1..Len(t) : t[i] = msgs[i + 1]
  BY HistoryIsWhole
<1>3. Alike(t, 0, msgs, 1)
  <2>1. Len(msgs) # 0
    BY <1>1
  <2> QED BY <1>1, <2>1, TailAlike
<1>4. r = [i \in DOMAIN msgs |-> IF i - 1 \in moved THEN [msgs[i] EXCEPT !.stored = TRUE] ELSE msgs[i]]
  BY DEF Collapse, History
<1> HIDE DEF r, t
<1>5. ASSUME NEW i \in 1..Len(msgs), i - 1 \in moved
      PROVE  i > p /\ msgs[i].role = "tool" /\ RecentToolUnits <= Cardinality(After(Openers(msgs), i))
  <2> DEFINE j == i - 1
  <2>0. j + 1 = i /\ j \in Int /\ j - 0 + 1 = i
    OBVIOUS
  <2>1. PICK u \in old : u.first < j /\ j <= u.last
    BY <1>5
  <2> HIDE DEF j
  <2>2. u \in units /\ u.batch /\ u \notin Kept(units, RecentToolUnits)
    BY <2>1 DEF Batches
  <2> DEFINE T == {v \in Batches(units) : v.first > u.first}
  <2>3. ~(Cardinality(T) < RecentToolUnits)
    BY <2>2, CompactionBounds DEF Kept, Batches
  <2>4. \A v : v \in T <=> v \in units /\ v.batch /\ v.first > u.first
    BY DEF Batches
  <2>5. u.first \in Int /\ u.last \in Int /\ j \in u.first..u.last /\ j # u.first
    <3>1. \A v \in units : v.first \in Heads(t) /\ v.last \in v.first..Len(t)
      BY <1>2, UnitsOfWhole DEF Whole
    <3>2. \A k \in Heads(t) : k \in 1..Len(t)
      BY <1>2, HeadPositions DEF Whole
    <3>3. u.first \in Int /\ u.last \in Int
      BY <1>2, <2>2, <3>1, <3>2
    <3> QED BY <2>0, <2>1, <3>3
  <2> HIDE DEF T, old
  <2>6. /\ Cardinality(T) = Cardinality(After(Openers(t), j)) /\ Cardinality(T) \in Nat
        /\ j \in 1..Len(t) /\ t[j].role = "tool"
    BY <1>2, <2>2, <2>4, <2>5, LaterBatches
  <2>7. Cardinality(After(Openers(t), j)) = Cardinality(After(Openers(msgs), i))
    <3>1. j \in 0..Len(t)
      BY <2>6
    <3>2. Cardinality(After(Openers(t), j)) = Cardinality(After(Openers(msgs), j - 0 + 1))
      BY <1>3, <3>1, AlikeCounts
    <3> QED BY <2>0, <3>2
  <2>8. msgs[i].role = "tool"
    BY <1>2, <2>0, <2>6
  <2>9. i > p
    <3>1. \A k \in 1..p : Plain(msgs[k])
      BY DEF Sends
    <3>2. ~(i \in 1..p)
      BY <2>8, <3>1 DEF Plain
    <3> QED BY <1>1, <3>2
  <2>10. RecentToolUnits <= Cardinality(T)
    BY <2>3, <2>6, CompactionBounds
  <2> QED BY <2>6, <2>7, <2>8, <2>9, <2>10
<1>6. r = Marking(msgs, M)
  BY <1>4 DEF Marking
<1>7. ASSUME NEW i \in M
      PROVE  i \in 1..Len(msgs) /\ i > p /\ msgs[i].role = "tool" /\ RecentToolUnits <= Cardinality(After(Openers(msgs), i))
  BY <1>1, <1>5
<1> HIDE DEF M, moved, old, units
<1>8. /\ r \in Seq(Messages) /\ Len(r) = Len(msgs) /\ DOMAIN r = DOMAIN msgs
      /\ \A i \in 1..Len(msgs) : /\ r[i].role = msgs[i].role /\ r[i].calls = msgs[i].calls
                                 /\ r[i].stored <=> i \in M \/ msgs[i].stored
                                 /\ i \notin M => r[i] = msgs[i]
  BY <1>1, <1>6, Marked
<1>9. ASSUME NEW i \in 1..p PROVE i \in 1..Len(msgs) /\ r[i] = msgs[i]
  <2>1. i \in 1..Len(msgs) /\ ~(i > p)
    BY <1>1
  <2> QED BY <1>7, <1>8, <2>1
<1>10. Alike(r, p, h, c)
  <2>1. Alike(msgs, p, h, c)
    BY DEF Sends
  <2>2. ASSUME NEW k \in p + 1..Len(r) PROVE k \in 1..Len(msgs)
    BY <1>1, <1>8
  <2> QED BY <1>8, <2>1, <2>2 DEF Alike
<1>11. StoredAreOld(r)
  <2>1. ASSUME NEW i \in 1..Len(msgs), r[i].stored
        PROVE  r[i].role = "tool" /\ RecentToolUnits <= Cardinality(After(Openers(r), i))
    <3>1. Openers(r) = Openers(msgs)
      BY <1>1, <1>8 DEF Openers
    <3>2. StoredAreOld(msgs)
      BY DEF Sends
    <3>3. msgs[i].role = "tool" /\ RecentToolUnits <= Cardinality(After(Openers(msgs), i))
      BY <1>1, <1>7, <1>8, <2>1, <3>2 DEF StoredAreOld
    <3> QED BY <1>8, <3>1, <3>3
  <2> QED BY <1>1, <1>8, <2>1 DEF StoredAreOld
<1>12. ASSUME NEW k \in p + 1..Len(r), h[k - p + c].stored PROVE r[k].stored
  <2>1. k \in 1..Len(msgs) /\ k \in p + 1..Len(msgs)
    BY <1>1, <1>8
  <2>2. msgs[k].stored
    BY <1>12, <2>1 DEF Sends
  <2> QED BY <1>8, <2>1, <2>2
<1>13. /\ Boundary(h, c) /\ c # 0 /\ p \in 2..Len(r) /\ r[1] = Prompt
       /\ \A k \in 1..p : Plain(r[k]) /\ ~r[k].stored
  <2>1. 1 \in 1..p
    BY <1>1
  <2> QED BY <1>8, <1>9, <2>1 DEF Sends
<1>14. Sends(r, p, h, c)
  BY <1>10, <1>11, <1>12, <1>13 DEF Sends
<1>15. r[2] = msgs[2]
  <2>1. 2 \in 1..p
    BY <1>1
  <2> QED BY <1>9, <2>1
<1> QED BY <1>14, <1>15 DEF r

\* The prompt is a unit.
LEMMA PromptIsUnit ==
  ASSUME NEW h, Whole(h), Len(h) >= 2, h[1] = Prompt
  PROVE  2 \in Heads(h) /\ 1 + 1 \in Heads(h)
<1>1. h \in Seq(Messages) /\ Batched(h) /\ Len(h) \in Nat
  BY MessageParts DEF Whole
<1>2. 2 \in 1..Len(h)
  BY <1>1
<1>3. ASSUME h[2].role = "tool" PROVE FALSE
  <2>1. PICK a \in 1..2 - 1 : h[a].role = "assistant" /\ 2 <= a + Len(h[a].calls)
    BY <1>1, <1>2, <1>3, AnswersOfBatch
  <2>2. a = 1
    BY <2>1
  <2> QED BY <2>1, <2>2 DEF Prompt, Msg
<1>4. 2 \in Heads(h) /\ 1 + 1 = 2
  BY <1>1, <1>2, <1>3, HeadPositions
<1> QED BY <1>4

\* What stands before the whole transcript is sent with it.
LEMMA BlocksSend ==
  ASSUME NEW h, Whole(h), StoredAreOld(h), Len(h) >= 2, h[1] = Prompt,
         NEW b \in Seq(Messages), Len(b) >= 2, b[1] = Prompt, \A k \in 1..Len(b) : Plain(b[k]) /\ ~b[k].stored,
         NEW r, r = b \o Tail(h)
  PROVE  Sends(r, Len(b), h, 1)
<1> DEFINE p == Len(b)
           t == Tail(h)
<1>1. /\ h \in Seq(Messages) /\ Batched(h) /\ OneAnswer(h) /\ Len(h) \in Nat /\ p \in Nat /\ 2 <= p
  <2>1. h \in Seq(Messages) /\ Batched(h) /\ OneAnswer(h)
    BY DEF Whole
  <2> QED BY <2>1, MessageParts
<1>2. t \in Seq(Messages) /\ Len(t) = Len(h) - 1 /\ \A i \in 1..Len(t) : t[i] = h[i + 1]
  <2>1. Alike(t, 0, h, 1) /\ Len(t) = Len(h) - 1 /\ \A i \in 1..Len(t) : t[i] = h[i + 1]
    <3>1. Len(h) # 0
      BY <1>1
    <3> QED BY <1>1, <3>1, TailAlike
  <2> QED BY <2>1 DEF Alike
<1> HIDE DEF t
<1>3. r \in Seq(Messages) /\ Len(r) = p + Len(t) /\ Len(t) \in Nat
  BY <1>2, Joined DEF t
<1>4. \A k \in 1..p : r[k] = b[k]
  BY <1>2, JoinedFirst DEF t
<1>5. \A k \in p + 1..p + Len(t) : r[k] = t[k - p]
  BY <1>2, JoinedSecond DEF t
<1> HIDE DEF p
<1>6. ASSUME NEW k \in p + 1..Len(r) PROVE r[k] = h[k - p + 1]
  <2>1. k \in p + 1..p + Len(t) /\ k - p \in 1..Len(t)
    BY <1>1, <1>3
  <2> QED BY <1>2, <1>5, <2>1
<1>7. /\ p \in 0..Len(r) /\ p \in 2..Len(r) /\ 1 \in 0..Len(h) /\ Len(r) - p = Len(h) - 1
  BY <1>1, <1>2, <1>3
<1>8. Alike(r, p, h, 1)
  BY <1>1, <1>3, <1>6, <1>7 DEF Alike
<1>9. \A k \in 1..p : Plain(r[k]) /\ ~r[k].stored
  BY <1>4 DEF p
<1>10. StoredAreOld(r)
  BY <1>6, <1>8, <1>9, AlikeOld
<1>11. Boundary(h, 1)
  BY <1>1, PromptIsUnit DEF Boundary
<1>12. r[1] = Prompt
  BY <1>1, <1>4 DEF p
<1>13. \A k \in p + 1..Len(r) : h[k - p + 1].stored => r[k].stored
  BY <1>6
<1>14. 1 # 0
  OBVIOUS
<1>15. Sends(r, p, h, 1)
  BY <1>7, <1>8, <1>9, <1>10, <1>11, <1>12, <1>13, <1>14 DEF Sends
<1> QED BY <1>15 DEF p

\* withSkills() and withMemories(): one block or two stand behind the prompt.
LEMMA InjectedSends ==
  ASSUME NEW h, Whole(h), StoredAreOld(h), Len(h) >= 2, h[1] = Prompt, NEW memory \in BOOLEAN
  PROVE  \E p \in 2..3 : Sends(Injected(h, memory), p, h, 1)
<1>1. h \in Seq(Messages) /\ Len(h) \in Nat /\ Head(h) = Prompt
  BY MessageParts DEF Whole
<1>2. Prompt \in Messages /\ SkillBlock \in Messages /\ MemoryBlock \in Messages
  BY DEF Prompt, SkillBlock, MemoryBlock, Msg, Messages, Roles
<1>3. /\ Plain(Prompt) /\ Plain(SkillBlock) /\ Plain(MemoryBlock)
      /\ ~Prompt.stored /\ ~SkillBlock.stored /\ ~MemoryBlock.stored
  BY DEF Plain, Prompt, SkillBlock, MemoryBlock, Msg
<1>4. CASE memory
  <2> DEFINE b == <<Prompt, MemoryBlock, SkillBlock>>
  <2>1. b \in Seq(Messages) /\ Len(b) = 3 /\ b[1] = Prompt /\ b[2] = MemoryBlock /\ b[3] = SkillBlock
    BY <1>2
  <2>2. b = <<Head(h)>> \o <<MemoryBlock>> \o <<SkillBlock>>
    BY <1>1, <1>2
  <2>3. Injected(h, memory) = b \o Tail(h)
    BY <1>4, <2>2 DEF Injected, History
  <2> HIDE DEF b
  <2>4. Len(b) >= 2 /\ \A k \in 1..Len(b) : Plain(b[k]) /\ ~b[k].stored
    BY <1>3, <2>1
  <2>5. Sends(Injected(h, memory), Len(b), h, 1)
    BY <2>1, <2>3, <2>4, BlocksSend
  <2> QED BY <2>1, <2>5
<1>5. CASE ~memory
  <2> DEFINE b == <<Prompt, SkillBlock>>
  <2>1. b \in Seq(Messages) /\ Len(b) = 2 /\ b[1] = Prompt /\ b[2] = SkillBlock
    BY <1>2
  <2>2. b = <<Head(h)>> \o <<>> \o <<SkillBlock>>
    BY <1>1, <1>2
  <2>3. Injected(h, memory) = b \o Tail(h)
    BY <1>5, <2>2 DEF Injected, History
  <2> HIDE DEF b
  <2>4. Len(b) >= 2 /\ \A k \in 1..Len(b) : Plain(b[k]) /\ ~b[k].stored
    BY <1>3, <2>1
  <2>5. Sends(Injected(h, memory), Len(b), h, 1)
    BY <2>1, <2>3, <2>4, BlocksSend
  <2> QED BY <2>1, <2>5
<1> QED BY <1>4, <1>5

-----------------------------------------------------------------------------
(* What the runtime keeps of what was sent.                                *)

\* An answer has one call.
LEMMA AnswerHasOneCall ==
  ASSUME NEW h, Whole(h), NEW i \in 1..Len(h), h[i].role = "tool"
  PROVE  h[i].calls = <<h[i].calls[1]>>
<1>1. h \in Seq(Messages) /\ Batched(h) /\ OneAnswer(h) /\ Len(h) \in Nat
  BY MessageParts DEF Whole
<1>2. PICK a \in 1..i - 1 : h[a].role = "assistant" /\ i <= a + Len(h[a].calls)
  BY <1>1, AnswersOfBatch
<1>3. a \in 1..Len(h) /\ i \in a + 1..a + Len(h[a].calls)
  <2>1. a \in 1..Len(h) /\ a \in Int /\ i \in Int /\ a < i
    BY <1>1
  <2>2. Len(h[a].calls) \in Nat
    BY <1>1, <2>1, MessageParts
  <2> QED BY <1>2, <2>1, <2>2
<1>4. h[i].calls = <<h[a].calls[i - a]>>
  BY <1>1, <1>2, <1>3, AnswersOfBatch
<1> QED BY <1>4

\* Two messages with the same parts are the same.
LEMMA SameParts ==
  ASSUME NEW m \in Messages, NEW n \in Messages, m.role = n.role, m.calls = n.calls, m.stored <=> n.stored
  PROVE  m = n
<1>1. m.stored = n.stored
  <2>1. m.stored \in BOOLEAN /\ n.stored \in BOOLEAN
    BY DEF Messages
  <2> QED BY <2>1
<1> QED BY <1>1 DEF Messages

\* applyCollapsedToolPointers() writes to a call what was sent of it, and to no other.
LEMMA WrittenBack ==
  ASSUME NEW h, Whole(h), StoredAreOld(h), NEW msgs, NEW p, NEW c, Sends(msgs, p, h, c),
         NEW r, r = WriteBack(h, Pointers(msgs))
  PROVE  /\ Alike(r, 0, h, 0) /\ Whole(r) /\ StoredAreOld(r) /\ Len(r) = Len(h) /\ r[1] = h[1]
         /\ \A k \in p + 1..Len(msgs) : msgs[k] = r[k - p + c]
<1> DEFINE ids == Pointers(msgs)
           M == {i \in DOMAIN h : h[i].role = "tool" /\ h[i].calls[1] \in ids}
<1>1. /\ h \in Seq(Messages) /\ Batched(h) /\ OneAnswer(h)
      /\ Whole(msgs) /\ msgs \in Seq(Messages)
      /\ Len(msgs) \in Nat /\ p \in Nat /\ 2 <= p /\ p <= Len(msgs)
      /\ c \in 1..Len(h) /\ Len(h) \in Nat
      /\ DOMAIN msgs = 1..Len(msgs) /\ DOMAIN h = 1..Len(h)
  BY SentIsWhole, MessageParts DEF Whole
<1>2. /\ \A k \in 1..Len(msgs) : p < k =>
           /\ k - p + c \in 1..Len(h) /\ c < k - p + c
           /\ msgs[k].role = h[k - p + c].role /\ msgs[k].calls = h[k - p + c].calls
      /\ Alike(msgs, p, h, c)
  <2>1. Alike(msgs, p, h, c)
    BY DEF Sends
  <2>2. AlikeAt(msgs, p, h, c)
    BY <2>1, AlikePositions
  <2> QED BY <2>1, <2>2, Zenon DEF AlikeAt
<1>3. ASSUME NEW k \in 1..Len(msgs), msgs[k].stored
      PROVE  p < k /\ msgs[k].role = "tool" /\ msgs[k].calls[1] \in ids
  <2>1. ~(k \in 1..p) /\ msgs[k].role = "tool"
    BY <1>1, <1>3 DEF Sends, StoredAreOld
  <2>2. msgs[k].calls[1] \in ids
    BY <1>1, <1>3 DEF Pointers
  <2> QED BY <1>1, <2>1, <2>2
<1>4. ASSUME NEW i \in M PROVE i \in 1..Len(h) /\ \E k \in p + 1..Len(msgs) : msgs[k].stored /\ i = k - p + c
  <2>1. i \in 1..Len(h) /\ h[i].role = "tool" /\ h[i].calls[1] \in ids
    BY <1>1
  <2>2. PICK k \in 1..Len(msgs) : msgs[k].stored /\ msgs[k].calls[1] = h[i].calls[1]
    BY <1>1, <2>1 DEF Pointers
  <2> DEFINE j == k - p + c
  <2>3. p < k /\ msgs[k].role = "tool"
    BY <1>3, <2>2
  <2>4. j \in 1..Len(h) /\ h[j].role = "tool" /\ h[j].calls = msgs[k].calls
    BY <1>2, <2>3
  <2>5. h[j].calls = <<h[j].calls[1]>> /\ h[i].calls = <<h[i].calls[1]>>
    <3> HIDE DEF j
    <3> QED BY <2>1, <2>4, AnswerHasOneCall
  <2> HIDE DEF j, M
  <2>6. h[j].calls = h[i].calls
    BY <2>2, <2>4, <2>5
  <2>7. i = j
    BY <1>1, <2>1, <2>4, <2>6 DEF OneAnswer
  <2>8. k \in p + 1..Len(msgs)
    BY <1>1, <2>3
  <2> QED BY <2>1, <2>2, <2>7, <2>8 DEF j
<1>5. ASSUME NEW k \in p + 1..Len(msgs), msgs[k].stored PROVE k - p + c \in M
  <2>1. k \in 1..Len(msgs) /\ p < k
    BY <1>1
  <2>2. msgs[k].role = "tool" /\ msgs[k].calls[1] \in ids
    BY <1>3, <1>5, <2>1
  <2>3. k - p + c \in 1..Len(h) /\ h[k - p + c].role = "tool" /\ h[k - p + c].calls = msgs[k].calls
    BY <1>2, <2>1, <2>2
  <2> QED BY <1>1, <2>2, <2>3
<1>6. r = Marking(h, M)
  BY DEF WriteBack, Marking
<1> HIDE DEF M, ids
<1>7. /\ r \in Seq(Messages) /\ Len(r) = Len(h) /\ DOMAIN r = DOMAIN h
      /\ \A i \in 1..Len(h) : /\ r[i].role = h[i].role /\ r[i].calls = h[i].calls
                              /\ r[i].stored <=> i \in M \/ h[i].stored
                              /\ i \notin M => r[i] = h[i]
  <2> HIDE DEF Whole
  <2> QED BY <1>1, <1>6, Marked
<1>8. Alike(r, 0, h, 0)
  <2>1. ASSUME NEW k \in 0 + 1..Len(r) PROVE k \in 1..Len(h) /\ k - 0 + 0 = k
    BY <1>7
  <2>2. 0 \in 0..Len(h) /\ 0 \in 0..Len(r) /\ Len(r) - 0 = Len(h) - 0
    BY <1>1, <1>7
  <2> QED BY <1>1, <1>7, <2>1, <2>2 DEF Alike
<1>9. Batched(r) /\ OneAnswer(r)
  <2>1. Boundary(h, 0)
    <3>1. 1 \in Heads(h) /\ 0 + 1 = 1
      BY <1>1, WholeIsCanonical
    <3> QED BY <3>1 DEF Boundary
  <2>2. \A k \in 1..0 : Plain(r[k])
    OBVIOUS
  <2> QED BY <1>1, <1>8, <2>1, <2>2, AlikeWhole
<1>10. ASSUME NEW k \in p + 1..Len(msgs) PROVE msgs[k] = r[k - p + c]
  <2> DEFINE j == k - p + c
  <2>1. k \in 1..Len(msgs) /\ p < k
    BY <1>1
  <2>2. j \in 1..Len(h) /\ msgs[k].role = h[j].role /\ msgs[k].calls = h[j].calls
    BY <1>2, <2>1
  <2>3. h[j].stored => msgs[k].stored
    BY DEF Sends
  <2>4. msgs[k].stored => j \in M
    BY <1>5
  <2>5. ASSUME j \in M PROVE msgs[k].stored
    <3>1. PICK l \in p + 1..Len(msgs) : msgs[l].stored /\ j = l - p + c
      BY <1>4, <2>5
    <3>2. k \in Int /\ l \in Int /\ p \in Int /\ c \in Int /\ k - p + c = l - p + c
      BY <1>1, <3>1
    <3>3. k = l
      BY <3>2
    <3> QED BY <3>1, <3>3
  <2> HIDE DEF j
  <2>6. r[j].role = msgs[k].role /\ r[j].calls = msgs[k].calls /\ (r[j].stored <=> msgs[k].stored)
    BY <1>7, <2>2, <2>3, <2>4, <2>5
  <2>7. r[j] \in Messages /\ msgs[k] \in Messages
    BY <1>1, <1>7, <2>1, <2>2, MessageParts
  <2>8. msgs[k] = r[j]
    BY <2>6, <2>7, SameParts
  <2> QED BY <2>8 DEF j
<1>11. StoredAreOld(r)
  <2>1. ASSUME NEW i \in 1..Len(h), r[i].stored
        PROVE  r[i].role = "tool" /\ RecentToolUnits <= Cardinality(After(Openers(r), i))
    <3>1. Openers(r) = Openers(h)
      BY <1>1, <1>7 DEF Openers
    <3>2. CASE h[i].stored
      <4>1. h[i].role = "tool" /\ RecentToolUnits <= Cardinality(After(Openers(h), i))
        BY <1>1, <3>2 DEF StoredAreOld
      <4> QED BY <1>7, <3>1, <4>1
    <3>3. CASE i \in M
      <4>1. PICK k \in p + 1..Len(msgs) : msgs[k].stored /\ i = k - p + c
        BY <1>4, <3>3
      <4>2. k \in 1..Len(msgs) /\ p < k /\ k \in p..Len(msgs)
        BY <1>1
      <4>3. msgs[k].role = "tool" /\ RecentToolUnits <= Cardinality(After(Openers(msgs), k))
        BY <1>1, <4>1, <4>2 DEF Sends, StoredAreOld
      <4>4. Cardinality(After(Openers(msgs), k)) = Cardinality(After(Openers(h), k - p + c))
        BY <1>2, <4>2, AlikeCounts
      <4>5. r[i].role = "tool"
        BY <1>2, <1>7, <4>1, <4>2, <4>3
      <4> QED BY <3>1, <4>1, <4>3, <4>4, <4>5
    <3> QED BY <1>7, <2>1, <3>2, <3>3
  <2> QED BY <1>1, <1>7, <2>1 DEF StoredAreOld
<1>12. r[1] = h[1]
  <2>1. 1 \in 1..Len(h)
    BY <1>1
  <2>2. 1 \notin M
    <3>1. ASSUME 1 \in M PROVE FALSE
      <4>1. PICK k \in p + 1..Len(msgs) : msgs[k].stored /\ 1 = k - p + c
        BY <1>4, <3>1
      <4> QED BY <1>1, <4>1
    <3> QED BY <3>1
  <2> QED BY <1>7, <2>1, <2>2
<1> QED BY <1>7, <1>8, <1>9, <1>10, <1>11, <1>12 DEF Whole

-----------------------------------------------------------------------------
(* The most recent units.                                                  *)

\* In a transcript where only old results are stored the newest batches are in full.
LEMMA NewestInFull ==
  ASSUME NEW h, Whole(h), StoredAreOld(h), NEW u \in BuildUnits(h), u.batch,
         Cardinality({v \in BuildUnits(h) : v.first > u.first /\ v.batch}) < RecentToolUnits,
         NEW i \in u.first..u.last
  PROVE  ~h[i].stored
<1> DEFINE T == {v \in BuildUnits(h) : v.first > u.first /\ v.batch}
<1>1. \A v : v \in T <=> v \in BuildUnits(h) /\ v.batch /\ v.first > u.first
  OBVIOUS
<1>2. Cardinality(T) < RecentToolUnits
  OBVIOUS
<1> HIDE DEF T
<1>3. /\ Cardinality(T) = Cardinality(After(Openers(h), i)) /\ Cardinality(T) \in Nat /\ i \in 1..Len(h)
  BY <1>1, LaterBatches
<1>4. ASSUME h[i].stored PROVE FALSE
  <2>1. i \in DOMAIN h
    BY <1>3, MessageParts DEF Whole
  <2>2. RecentToolUnits <= Cardinality(After(Openers(h), i))
    BY <1>4, <2>1 DEF StoredAreOld
  <2> QED BY <1>2, <1>3, <2>2, CompactionBounds
<1> QED BY <1>4

\* Transcripts with the same messages are the same.
LEMMA SameMessages ==
  ASSUME NEW x \in Seq(Messages), NEW y \in Seq(Messages), Len(x) = Len(y),
         \A i \in 1..Len(x) : x[i] = y[i]
  PROVE  x = y
OBVIOUS

\* A part of a transcript.
LEMMA Suffix ==
  ASSUME NEW x \in Seq(Messages), NEW m \in 0..Len(x), NEW y, y = SubSeq(x, m + 1, Len(x))
  PROVE  y \in Seq(Messages) /\ Len(y) = Len(x) - m
OBVIOUS

\* The messages of that part.
LEMMA SuffixAt ==
  ASSUME NEW x \in Seq(Messages), NEW m \in 0..Len(x), NEW y, y = SubSeq(x, m + 1, Len(x)),
         NEW i \in 1..Len(x) - m
  PROVE  y[i] = x[m + i]
OBVIOUS

\* What follows message p of g is what follows message c of h.
Copies(g, p, h, c) == \A k \in p + 1..Len(g) : g[k] = h[k - p + c]

\* When msgs has what follows message c of h, it ends with what follows any later message.
LEMMA EndsWithLater ==
  ASSUME NEW h \in Seq(Messages), NEW msgs \in Seq(Messages), NEW p \in 0..Len(msgs), NEW c \in 0..Len(h),
         Len(msgs) - p = Len(h) - c, Copies(msgs, p, h, c),
         NEW q \in c..Len(h), NEW tail \in Seq(Messages), Len(tail) = Len(h) - q, Copies(tail, 0, h, q)
  PROVE  EndsWith(msgs, tail)
<1> DEFINE lm == Len(msgs)
           lh == Len(h)
           lt == Len(tail)
           m == lm - lt
           y == SubSeq(msgs, m + 1, lm)
<1>1. /\ lh \in Int /\ lm \in Int /\ lt \in Int /\ p \in Int /\ c \in Int /\ q \in Int
      /\ 0 <= p /\ p <= lm /\ 0 <= c /\ c <= q /\ q <= lh
      /\ lt = lh - q /\ lm - p = lh - c
  <2>1. lh \in Int /\ lm \in Int /\ lt \in Int
    OBVIOUS
  <2> QED BY <2>1
<1> HIDE DEF lm, lh, lt, y
<1>2. /\ m \in 0..lm /\ m \in Int /\ lm - m = lt /\ m - p + c = q /\ p <= m /\ lt <= lm
      /\ lt \in Nat
  BY <1>1
<1> HIDE DEF m
<1>3. y \in Seq(Messages) /\ Len(y) = lt
  BY <1>2, Suffix DEF y, lm
<1>4. ASSUME NEW i \in 1..lt PROVE y[i] = tail[i]
  <2>1. i \in Int /\ i \in 1..lm - m /\ 1 <= i /\ i <= lt
    BY <1>1, <1>2
  <2>2. y[i] = msgs[m + i]
    BY <1>2, <2>1, SuffixAt DEF y, lm
  <2> DEFINE k == m + i
  <2>3. k \in p + 1..lm /\ k - p + c = q + i
    BY <1>1, <1>2, <2>1
  <2> HIDE DEF k
  <2>4. msgs[k] = h[k - p + c]
    BY <2>3 DEF Copies, lm
  <2>5. tail[i] = h[q + i]
    <3>1. i \in 0 + 1..Len(tail) /\ i - 0 + q = q + i
      BY <1>1, <2>1 DEF lt
    <3>2. tail[i] = h[i - 0 + q]
      BY <3>1 DEF Copies
    <3> QED BY <3>1, <3>2
  <2> USE DEF k
  <2> QED BY <2>1, <2>2, <2>3, <2>4, <2>5
<1>5. y = tail
  BY <1>3, <1>4, SameMessages DEF lt
<1> QED BY <1>2, <1>5 DEF EndsWith, y, m, lm, lt

\* When all is sent, or at least as many units as the window has, what is sent ends with the
\* window.
LEMMA WindowStays ==
  ASSUME NEW h, Whole(h), Len(h) >= 2, h[1] = Prompt,
         NEW msgs \in Seq(Messages), NEW p \in 0..Len(msgs), NEW c \in 1..Len(h),
         Len(msgs) - p = Len(h) - c, Copies(msgs, p, h, c),
         c # 1 => ProtectedRecent <= Cardinality(After(Heads(h), c))
  PROVE  EndsWith(msgs, LastUnits(Tail(h), ProtectedRecent))
<1> DEFINE t == Tail(h)
           units == BuildUnits(t)
           size == Cardinality(units)
<1>1. /\ h \in Seq(Messages) /\ Batched(h) /\ OneAnswer(h) /\ Len(h) \in Nat /\ ProtectedRecent \in Nat
      /\ 2 \in Heads(h) /\ Boundary(h, 1)
  BY PromptIsUnit, MessageParts, CompactionBounds DEF Whole, Boundary
<1>2. /\ Alike(t, 0, h, 1) /\ t \in Seq(Messages) /\ Len(t) = Len(h) - 1
      /\ \A i \in 1..Len(t) : t[i] = h[i + 1]
  <2>1. Len(h) # 0
    BY <1>1
  <2> QED BY <1>1, <2>1, TailAlike DEF Alike
<1> HIDE DEF t
<1>3. Batched(t) /\ OneAnswer(t)
  <2>1. \A k \in 1..0 : Plain(t[k])
    OBVIOUS
  <2> QED BY <1>1, <1>2, <2>1, AlikeWhole
<1>4. \A i \in Heads(h) : i \in 1..Len(h) /\ i \in Int
  BY <1>1, HeadPositions
<1>5. /\ size = Cardinality(Heads(t)) /\ size \in Nat
      /\ size = Cardinality(After(Heads(h), 1))
  <2>1. size = Cardinality(Heads(t)) /\ size \in Nat
    BY <1>2, <1>3, UnitsCounted
  <2>2. 0 \in Int /\ 0 <= 0 /\ 0 - 0 + 1 = 1 /\ Len(t) \in Nat /\ 0 \in 0..Len(t)
    BY <1>1, <1>2
  <2>3. \A i \in Heads(t) : i \in 1..Len(t)
    BY <1>2, HeadPositions
  <2>4. Cardinality(After(Heads(t), 0)) = Cardinality(Heads(t)) - Count(Heads(t), 0) /\ Count(Heads(t), 0) = 0
    <3>1. Cardinality(After(Heads(t), 0)) = Cardinality(Heads(t)) - Count(Heads(t), 0)
      BY <2>2, <2>3, CountType
    <3>2. Count(Heads(t), 0) = 0
      BY <2>2, <2>3, CountEnds, Zenon
    <3> QED BY <3>1, <3>2
  <2>5. Cardinality(After(Heads(t), 0)) = Cardinality(After(Heads(h), 0 - 0 + 1))
    BY <1>2, <2>2, AlikeCounts
  <2> QED BY <2>1, <2>2, <2>4, <2>5
<1>6. ASSUME NEW m \in 0..Len(t), c <= m + 1, NEW tail, tail \in Seq(Messages), Len(tail) = Len(t) - m,
             \A i \in 1..Len(tail) : tail[i] = t[m + i]
      PROVE  EndsWith(msgs, tail)
  <2> DEFINE q == m + 1
  <2>1. q \in c..Len(h) /\ Len(tail) = Len(h) - q /\ c \in 0..Len(h)
    BY <1>1, <1>2, <1>6
  <2>2. ASSUME NEW i \in 1..Len(tail) PROVE tail[i] = h[q + i]
    <3>1. m + i \in 1..Len(t) /\ m + i + 1 = q + i
      <4>1. m \in 0..Len(t) /\ Len(t) \in Nat /\ i \in 1..(Len(t) - m)
        BY <1>1, <1>2, <1>6
      <4> QED BY <4>1
    <3>2. tail[i] = t[m + i] /\ t[m + i] = h[m + i + 1]
      BY <1>2, <1>6, <3>1
    <3> QED BY <3>1, <3>2
  <2> HIDE DEF q
  <2>3. Copies(tail, 0, h, q)
    <3>1. ASSUME NEW i \in 0 + 1..Len(tail) PROVE i \in 1..Len(tail) /\ i - 0 + q = q + i
      BY <2>1
    <3> QED BY <2>2, <3>1 DEF Copies
  <2> QED BY <1>1, <1>6, <2>1, <2>3, EndsWithLater
<1>7. CASE size > ProtectedRecent
  <2> DEFINE n == size - ProtectedRecent
             m == MessagesBefore(units, n)
             tail == SubSeq(t, m + 1, Len(t))
  <2>1. n \in Nat /\ n <= size /\ size - n = ProtectedRecent
    BY <1>1, <1>5, <1>7
  <2>2. LastUnits(t, ProtectedRecent) = tail
    BY <1>7 DEF LastUnits, UnitsFrom
  <2> HIDE DEF n
  <2>3. m \in 0..Len(t) /\ Boundary(t, m) /\ Cardinality(After(Heads(t), m)) = ProtectedRecent
    <3>1. /\ m \in 0..Len(t) /\ Boundary(t, m)
          /\ Cardinality(After(Heads(t), m)) = IF n <= Cardinality(Heads(t)) THEN Cardinality(Heads(t)) - n ELSE 0
      BY <1>2, <1>3, <2>1, CutAtUnits
    <3> HIDE DEF m, size
    <3> QED BY <1>5, <2>1, <3>1
  <2> HIDE DEF m
  <2>4. c <= m + 1
    <3>1. ASSUME m + 1 < c PROVE FALSE
      <4>1. m \in Int /\ m + 1 \in Int /\ m + 2 \in Int /\ c \in Int /\ c # 1 /\ m # Len(t) /\ m + 1 < m + 2 /\ m + 2 <= c
        BY <1>1, <1>2, <2>3, <3>1
      <4>2. m + 1 \in 1..Len(t) /\ t[m + 1].role # "tool" /\ m + 1 + 1 = m + 2
        BY <1>2, <2>3, <4>1, HeadPositions DEF Boundary
      <4>3. m + 2 \in Heads(h)
        <5>1. m + 2 \in 1..Len(h) /\ h[m + 2].role # "tool"
          BY <1>2, <4>1, <4>2
        <5> QED BY <1>1, <5>1, HeadPositions
      <4>4. Cardinality(After(Heads(t), m)) = Cardinality(After(Heads(h), m + 1))
        <5> DEFINE p0 == 0
                   c1 == 1
                   e == m + 1
        <5>1. e = m - p0 + c1
          BY <4>1
        <5>2. Alike(t, p0, h, c1) /\ m \in p0..Len(t)
          BY <1>2, <2>3
        <5> HIDE DEF e, p0, c1
        <5>3. Cardinality(After(Heads(t), m)) = Cardinality(After(Heads(h), e))
          BY <5>1, <5>2, AlikeCounts
        <5> QED BY <5>3 DEF e
      <4> DEFINE k == m + 1
                 x == m + 2
      <4>5. k \in Int /\ k < x /\ x <= c /\ x \in Heads(h) /\ k <= c
        BY <4>1, <4>3
      <4> HIDE DEF k, x
      <4>6. Cardinality(After(Heads(h), c)) < Cardinality(After(Heads(h), k))
        BY <1>1, <1>4, <4>1, <4>5, AfterShrinks
      <4>7. Cardinality(After(Heads(h), c)) \in Nat /\ Cardinality(After(Heads(h), k)) = ProtectedRecent
        BY <1>1, <1>4, <2>3, <4>1, <4>4, CountType DEF k
      <4> QED BY <1>1, <4>1, <4>6, <4>7
    <3>2. m \in Int /\ c \in Int
      BY <2>3
    <3> QED BY <3>1, <3>2
  <2>5. tail \in Seq(Messages) /\ Len(tail) = Len(t) - m
    BY <1>2, <2>3, Suffix
  <2>6. \A i \in 1..Len(tail) : tail[i] = t[m + i]
    <3>1. \A i \in 1..Len(t) - m : tail[i] = t[m + i]
      BY <1>2, <2>3, SuffixAt
    <3> QED BY <2>5, <3>1
  <2> HIDE DEF tail
  <2> QED BY <1>6, <2>2, <2>3, <2>4, <2>5, <2>6 DEF t
<1>8. CASE ~(size > ProtectedRecent)
  <2>1. LastUnits(t, ProtectedRecent) = t
    BY <1>8 DEF LastUnits
  <2>2. c = 1
    <3>1. ASSUME c # 1 PROVE FALSE
      <4>1. c \in Int /\ 1 \in Int /\ 1 < 2 /\ 2 <= c /\ 1 <= c /\ \A i \in Heads(h) : i \in 1..Len(h)
        BY <1>1, <1>4, <3>1
      <4>2. Cardinality(After(Heads(h), c)) < Cardinality(After(Heads(h), 1)) /\ Cardinality(After(Heads(h), c)) \in Nat
        BY <1>1, <4>1, AfterShrinks
      <4>3. ProtectedRecent <= Cardinality(After(Heads(h), c))
        BY <3>1
      <4> HIDE DEF size
      <4> QED BY <1>1, <1>5, <1>8, <4>2, <4>3
    <3> QED BY <3>1
  <2>3. /\ 0 \in 0..Len(t) /\ c <= 0 + 1 /\ Len(t) = Len(t) - 0
        /\ \A i \in 1..Len(t) : t[i] = t[0 + i]
    BY <1>1, <1>2, <2>2
  <2>4. EndsWith(msgs, t)
    BY <1>2, <1>6, <2>3
  <2> QED BY <2>1, <2>4 DEF t
<1> QED BY <1>7, <1>8 DEF t

-----------------------------------------------------------------------------
(* Transcripts in a row, and transcripts without some of their messages.   *)

\* A message of two transcripts in a row is a message of one of them.
LEMMA JoinedAt ==
  ASSUME NEW x \in Seq(Messages), NEW y \in Seq(Messages), NEW r, r = x \o y
  PROVE  /\ \A i \in 1..Len(r) : \/ i \in 1..Len(x) /\ r[i] = x[i]
                                 \/ i - Len(x) \in 1..Len(y) /\ i > Len(x) /\ r[i] = y[i - Len(x)]
         /\ \A i \in 1..Len(x) : i \in 1..Len(r) /\ r[i] = x[i]
         /\ \A i \in 1..Len(y) : i + Len(x) \in 1..Len(r) /\ r[i + Len(x)] = y[i]
<1>1. r \in Seq(Messages) /\ Len(r) = Len(x) + Len(y) /\ Len(x) \in Nat /\ Len(y) \in Nat
  BY Joined
<1>2. \A i \in 1..Len(x) : r[i] = x[i]
  BY JoinedFirst
<1>3. \A i \in Len(x) + 1..Len(x) + Len(y) : r[i] = y[i - Len(x)]
  BY JoinedSecond
<1> DEFINE n == Len(x)
           l == Len(y)
<1>4. n \in Nat /\ l \in Nat /\ Len(r) = n + l
  BY <1>1
<1> HIDE DEF n, l
<1>5. ASSUME NEW i \in 1..Len(r)
      PROVE  \/ i \in 1..n /\ r[i] = x[i]
             \/ i - n \in 1..l /\ i > n /\ r[i] = y[i - n]
  <2>1. i \in Int /\ 1 <= i /\ i <= n + l
    BY <1>4
  <2>2. CASE i <= n
    BY <1>2, <1>4, <2>1, <2>2 DEF n
  <2>3. CASE i > n
    <3>1. i \in n + 1..n + l /\ i - n \in 1..l
      BY <1>4, <2>1, <2>3
    <3>2. r[i] = y[i - n]
      BY <1>3, <3>1 DEF n, l
    <3> QED BY <2>3, <3>1, <3>2
  <2> QED BY <1>4, <2>1, <2>2, <2>3
<1>6. ASSUME NEW i \in 1..n PROVE i \in 1..Len(r) /\ r[i] = x[i]
  <2>1. i \in 1..Len(r)
    BY <1>4
  <2> QED BY <1>2, <2>1 DEF n
<1>7. ASSUME NEW i \in 1..l PROVE i + n \in 1..Len(r) /\ r[i + n] = y[i]
  <2>1. i + n \in 1..Len(r) /\ i + n \in n + 1..n + l /\ i + n - n = i
    BY <1>4
  <2>2. r[i + n] = y[i + n - n]
    BY <1>3, <2>1 DEF n, l
  <2> QED BY <2>1, <2>2
<1> QED BY <1>5, <1>6, <1>7 DEF n, l

\* Two whole transcripts in a row are whole when they have no call in common.
LEMMA JoinedWhole ==
  ASSUME NEW x, Whole(x), NEW y, Whole(y), \A k \in Ids(x) : k \notin Ids(y), NEW r, r = x \o y
  PROVE  Whole(r) /\ \A k : k \in Ids(r) <=> k \in Ids(x) \/ k \in Ids(y)
<1>1. /\ x \in Seq(Messages) /\ y \in Seq(Messages) /\ Batched(x) /\ Batched(y) /\ OneAnswer(x) /\ OneAnswer(y)
  BY DEF Whole
<1> DEFINE n == Len(x)
           l == Len(y)
<1>2. /\ r \in Seq(Messages) /\ n \in Nat /\ l \in Nat /\ Len(r) = n + l
      /\ DOMAIN r = 1..Len(r) /\ DOMAIN x = 1..n /\ DOMAIN y = 1..l
  BY <1>1, Joined, MessageParts
<1>3. /\ \A i \in 1..Len(r) : \/ i \in 1..n /\ r[i] = x[i]
                              \/ i - n \in 1..l /\ i > n /\ r[i] = y[i - n]
      /\ \A i \in 1..n : i \in 1..Len(r) /\ r[i] = x[i]
      /\ \A i \in 1..l : i + n \in 1..Len(r) /\ r[i + n] = y[i]
  BY <1>1, JoinedAt
<1> HIDE DEF n, l
<1>4. ASSUME NEW a \in 1..Len(r), r[a].role = "assistant", NEW j \in DOMAIN r[a].calls
      PROVE  a + j \in 1..Len(r) /\ r[a + j].role = "tool" /\ r[a + j].calls = <<r[a].calls[j]>>
  <2>1. CASE a \in 1..n /\ r[a] = x[a]
    <3>1. a + j \in 1..n /\ x[a + j].role = "tool" /\ x[a + j].calls = <<x[a].calls[j]>>
      <4>1. a \in DOMAIN x /\ x[a].role = "assistant" /\ j \in DOMAIN x[a].calls
        BY <1>2, <1>4, <2>1
      <4>2. a + j \in DOMAIN x /\ x[a + j].role = "tool" /\ x[a + j].calls = <<x[a].calls[j]>>
        BY <1>1, <4>1 DEF Batched
      <4> QED BY <1>2, <4>2
    <3>2. a + j \in 1..Len(r) /\ r[a + j] = x[a + j]
      BY <1>3, <3>1
    <3> QED BY <2>1, <3>1, <3>2
  <2>2. CASE a - n \in 1..l /\ a > n /\ r[a] = y[a - n]
    <3> DEFINE b == a - n
    <3>1. b \in 1..l /\ r[a] = y[b]
      BY <2>2
    <3>2. b + n = a
      BY <1>2
    <3> HIDE DEF b
    <3>3. b + j \in 1..l /\ y[b + j].role = "tool" /\ y[b + j].calls = <<y[b].calls[j]>>
      BY <1>1, <1>2, <1>4, <3>1 DEF Batched
    <3>4. (b + j) + n = a + j
      <4>1. j \in Int
        <5>1. Len(r[a].calls) \in Nat /\ DOMAIN r[a].calls = 1..Len(r[a].calls)
          BY <1>2, MessageParts
        <5> QED BY <1>4, <5>1
      <4>2. b \in Int /\ n \in Int
        BY <1>2, <3>1
      <4> QED BY <3>2, <4>1, <4>2
    <3>5. (b + j) + n \in 1..Len(r) /\ r[(b + j) + n] = y[b + j]
      BY <1>3, <3>3
    <3> QED BY <3>1, <3>3, <3>4, <3>5
  <2> QED BY <1>3, <2>1, <2>2
<1>5. ASSUME NEW i \in 1..Len(r), r[i].role = "tool"
      PROVE  \E a \in 1..i : r[a].role = "assistant" /\ i - a \in DOMAIN r[a].calls
  <2>1. CASE i \in 1..n /\ r[i] = x[i]
    <3>1. PICK a \in 1..i : x[a].role = "assistant" /\ i - a \in DOMAIN x[a].calls
      BY <1>1, <1>2, <1>5, <2>1 DEF Batched
    <3>2. a \in 1..n
      BY <1>2, <2>1
    <3>3. r[a] = x[a]
      BY <1>3, <3>2
    <3> QED BY <3>1, <3>3
  <2>2. CASE i - n \in 1..l /\ i > n /\ r[i] = y[i - n]
    <3> DEFINE k == i - n
    <3>1. k \in 1..l /\ r[i] = y[k]
      BY <2>2
    <3>2. k + n = i /\ k \in Int
      BY <1>2
    <3> HIDE DEF k
    <3>3. PICK a \in 1..k : y[a].role = "assistant" /\ k - a \in DOMAIN y[a].calls
      BY <1>1, <1>2, <1>5, <3>1 DEF Batched
    <3>4. a \in 1..l /\ a + n \in 1..i /\ i - (a + n) = k - a
      BY <1>2, <3>1, <3>2
    <3>5. r[a + n] = y[a]
      BY <1>3, <3>4
    <3> QED BY <3>3, <3>4, <3>5
  <2> QED BY <1>3, <2>1, <2>2
<1>6. /\ \A i \in 1..n : x[i].role = "tool" => x[i].calls[1] \in Ids(x)
      /\ \A i \in 1..l : y[i].role = "tool" => y[i].calls[1] \in Ids(y)
      /\ \A i \in 1..Len(r) : r[i].role = "tool" => r[i].calls[1] \in Ids(r)
  BY <1>2 DEF Ids
<1>7. ASSUME NEW i \in 1..Len(r), NEW k \in 1..Len(r), r[i].role = "tool", r[k].role = "tool", r[i].calls = r[k].calls
      PROVE  i = k
  <2>1. CASE (i \in 1..n /\ r[i] = x[i]) /\ (k \in 1..n /\ r[k] = x[k])
    BY <1>1, <1>2, <1>7, <2>1 DEF OneAnswer
  <2>2. CASE (i - n \in 1..l /\ r[i] = y[i - n]) /\ (k - n \in 1..l /\ r[k] = y[k - n])
    <3> DEFINE a == i - n
               b == k - n
    <3>1. a \in DOMAIN y /\ b \in DOMAIN y /\ r[i] = y[a] /\ r[k] = y[b]
      BY <1>2, <2>2
    <3>2. a + n = i /\ b + n = k
      BY <1>2
    <3> HIDE DEF a, b
    <3>3. a = b
      BY <1>1, <1>7, <3>1 DEF OneAnswer
    <3> QED BY <3>2, <3>3
  <2>3. CASE (i \in 1..n /\ r[i] = x[i]) /\ (k - n \in 1..l /\ r[k] = y[k - n])
    BY <1>6, <1>7, <2>3
  <2>4. CASE (i - n \in 1..l /\ r[i] = y[i - n]) /\ (k \in 1..n /\ r[k] = x[k])
    BY <1>6, <1>7, <2>4
  <2> QED BY <1>3, <2>1, <2>2, <2>3, <2>4
<1>8. Whole(r)
  <2>1. Batched(r)
    <3>1. ASSUME NEW a \in DOMAIN r, r[a].role = "assistant", NEW j \in DOMAIN r[a].calls
          PROVE  a + j \in DOMAIN r /\ r[a + j].role = "tool" /\ r[a + j].calls = <<r[a].calls[j]>>
      <4>1. DOMAIN r = 1..Len(r)
        BY <1>2
      <4>2. a \in 1..Len(r)
        BY <3>1, <4>1
      <4> QED BY <1>4, <3>1, <4>1, <4>2
    <3>2. \A i \in DOMAIN r : r[i].role = "tool" =>
            \E a \in 1..i : r[a].role = "assistant" /\ i - a \in DOMAIN r[a].calls
      BY <1>2, <1>5
    <3> QED BY <3>1, <3>2 DEF Batched
  <2>2. OneAnswer(r)
    BY <1>2, <1>7 DEF OneAnswer
  <2> QED BY <1>2, <2>1, <2>2 DEF Whole
<1>9. ASSUME NEW k \in Ids(r) PROVE k \in Ids(x) \/ k \in Ids(y)
  <2>1. PICK i \in 1..Len(r) : r[i].role = "tool" /\ k = r[i].calls[1]
    BY <1>2 DEF Ids
  <2>2. CASE i \in 1..n /\ r[i] = x[i]
    BY <1>6, <2>1, <2>2
  <2>3. CASE i - n \in 1..l /\ r[i] = y[i - n]
    BY <1>6, <2>1, <2>3
  <2> QED BY <1>3, <2>2, <2>3
<1>10. ASSUME NEW k \in Ids(x) PROVE k \in Ids(r)
  <2>1. PICK i \in 1..n : x[i].role = "tool" /\ k = x[i].calls[1]
    BY <1>2 DEF Ids
  <2>2. i \in 1..Len(r) /\ r[i] = x[i]
    BY <1>3
  <2> QED BY <1>6, <2>1, <2>2
<1>11. ASSUME NEW k \in Ids(y) PROVE k \in Ids(r)
  <2>1. PICK i \in 1..l : y[i].role = "tool" /\ k = y[i].calls[1]
    BY <1>2 DEF Ids
  <2>2. i + n \in 1..Len(r) /\ r[i + n] = y[i]
    BY <1>3
  <2> QED BY <1>6, <2>1, <2>2
<1> QED BY <1>8, <1>9, <1>10, <1>11

\* What is stored stays old when messages follow, and there is at least one unit more.
LEMMA JoinedOld ==
  ASSUME NEW x, Whole(x), NEW y, Whole(y), NEW r, r = x \o y, Len(x) # 0, Len(y) # 0,
         StoredAreOld(x), \A i \in 1..Len(y) : ~y[i].stored
  PROVE  /\ StoredAreOld(r)
         /\ Cardinality(After(Heads(x), 1)) \in Nat /\ Cardinality(After(Heads(r), 1)) \in Nat
         /\ Cardinality(After(Heads(x), 1)) + 1 <= Cardinality(After(Heads(r), 1))
<1>1. x \in Seq(Messages) /\ y \in Seq(Messages) /\ Batched(y) /\ OneAnswer(y)
  BY DEF Whole
<1> DEFINE n == Len(x)
           l == Len(y)
<1>2. /\ r \in Seq(Messages) /\ n \in Nat /\ l \in Nat /\ Len(r) = n + l /\ n # 0 /\ l # 0 /\ Len(r) \in Nat
      /\ DOMAIN r = 1..Len(r) /\ DOMAIN x = 1..n /\ DOMAIN y = 1..l
  BY <1>1, Joined, MessageParts
<1>3. /\ \A i \in 1..Len(r) : \/ i \in 1..n /\ r[i] = x[i]
                              \/ i - n \in 1..l /\ i > n /\ r[i] = y[i - n]
      /\ \A i \in 1..n : i \in 1..Len(r) /\ r[i] = x[i]
      /\ \A i \in 1..l : i + n \in 1..Len(r) /\ r[i + n] = y[i]
  BY <1>1, JoinedAt
<1>4. /\ \A i \in Heads(x) : i \in 1..n /\ i \in Heads(r)
      /\ \A i \in Openers(x) : i \in 1..n /\ i \in Openers(r)
      /\ \A i \in Heads(r) : i \in 1..Len(r)
      /\ \A i \in Openers(r) : i \in 1..Len(r)
  <2> HIDE DEF n, l
  <2> QED BY <1>2, <1>3 DEF Heads, Openers
<1>5. n + 1 \in Heads(r)
  <2>1. 1 \in 1..l /\ y[1].role # "tool"
    <3>1. 1 \in Heads(y)
      BY <1>1, <1>2, WholeIsCanonical
    <3> QED BY <1>2, <3>1 DEF Heads
  <2>2. 1 + n \in 1..Len(r) /\ r[1 + n] = y[1] /\ 1 + n = n + 1
    BY <1>2, <1>3, <2>1
  <2> HIDE DEF n, l
  <2> QED BY <1>2, <2>1, <2>2 DEF Heads
<1>6. ASSUME NEW A, NEW B, NEW m \in Int, \A i \in A : i \in 1..n /\ i \in B, \A i \in B : i \in 1..Len(r)
      PROVE  /\ Cardinality(After(A, m)) <= Cardinality(After(B, m))
             /\ Cardinality(After(A, m)) \in Nat /\ Cardinality(After(B, m)) \in Nat
             /\ \A k \in B : k \notin A /\ k > m => Cardinality(After(A, m)) + 1 <= Cardinality(After(B, m))
  <2>1. /\ IsFiniteSet(After(A, m)) /\ Cardinality(After(A, m)) \in Nat
        /\ IsFiniteSet(After(B, m)) /\ Cardinality(After(B, m)) \in Nat
    BY <1>2, <1>6, CountType
  <2>2. After(A, m) \in SUBSET After(B, m)
    BY <1>6 DEF After
  <2>3. Cardinality(After(A, m)) <= Cardinality(After(B, m))
    BY <2>1, <2>2, FS_Subset
  <2>4. ASSUME NEW k \in B, k \notin A, k > m PROVE Cardinality(After(A, m)) + 1 <= Cardinality(After(B, m))
    <3>1. k \notin After(A, m) /\ k \in After(B, m)
      BY <2>4 DEF After
    <3>2. Cardinality(After(A, m) \union {k}) = Cardinality(After(A, m)) + 1
      BY <2>1, <3>1, FS_AddElement
    <3>3. After(A, m) \union {k} \in SUBSET After(B, m)
      BY <2>2, <3>1
    <3>4. Cardinality(After(A, m) \union {k}) <= Cardinality(After(B, m))
      BY <2>1, <3>3, FS_Subset
    <3> QED BY <3>2, <3>4
  <2> QED BY <2>1, <2>3, <2>4
<1>7. StoredAreOld(r)
  <2>1. ASSUME NEW i \in 1..Len(r), r[i].stored
        PROVE  r[i].role = "tool" /\ RecentToolUnits <= Cardinality(After(Openers(r), i))
    <3>1. i \in 1..n /\ r[i] = x[i]
      BY <1>3, <2>1
    <3>2. r[i].role = "tool" /\ RecentToolUnits <= Cardinality(After(Openers(x), i))
      BY <1>2, <2>1, <3>1 DEF StoredAreOld
    <3>3. /\ Cardinality(After(Openers(x), i)) <= Cardinality(After(Openers(r), i))
          /\ Cardinality(After(Openers(x), i)) \in Nat /\ Cardinality(After(Openers(r), i)) \in Nat
      <4>1. i \in Int /\ \A k \in Openers(x) : k \in 1..n /\ k \in Openers(r)
        BY <1>4
      <4>2. \A k \in Openers(r) : k \in 1..Len(r)
        BY <1>4
      <4> HIDE DEF n
      <4> QED BY <1>6, <4>1, <4>2
    <3> QED BY <3>2, <3>3, CompactionBounds
  <2> QED BY <1>2, <2>1 DEF StoredAreOld
<1>8. /\ Cardinality(After(Heads(x), 1)) \in Nat /\ Cardinality(After(Heads(r), 1)) \in Nat
      /\ Cardinality(After(Heads(x), 1)) + 1 <= Cardinality(After(Heads(r), 1))
  <2>1. n + 1 \notin Heads(x) /\ n + 1 > 1 /\ 1 \in Int
    BY <1>2, <1>4
  <2> HIDE DEF n
  <2> QED BY <1>4, <1>5, <1>6, <2>1
<1> QED BY <1>7, <1>8

\* What is kept of a transcript stands in its order, at the rank of its position.
LEMMA OnlyKept ==
  ASSUME NEW h \in Seq(Messages), NEW kept, \A i \in kept : i \in 1..Len(h), NEW r, r = Only(h, kept)
  PROVE  /\ r \in Seq(Messages) /\ Len(r) = Cardinality(kept) /\ Len(r) \in Nat
         /\ \A i \in kept : Count(kept, i) \in 1..Len(r) /\ r[Count(kept, i)] = h[i]
<1> DEFINE rank == [i \in kept |-> Cardinality({j \in kept : j <= i})]
           N == Cardinality(kept)
           Pos(n) == CHOOSE i \in kept : rank[i] = n
<1>1. Len(h) \in Nat /\ N \in Nat /\ \A i \in 1..Len(h) : h[i] \in Messages
  BY MessageParts, PositionsFinite
<1>2. \A i \in kept : rank[i] = Count(kept, i) /\ i \in Int /\ 0 < i
  <2>1. \A i \in kept : i \in Int /\ 0 < i
    OBVIOUS
  <2> QED BY <2>1 DEF Count, Upto
<1>3. r = [n \in 1..N |-> h[Pos(n)]]
  BY DEF Only
<1>4. ASSUME NEW i \in kept, NEW j \in kept, Count(kept, i) = Count(kept, j) PROVE i = j
  <2>1. ASSUME NEW k \in kept, NEW l \in kept, k < l PROVE Count(kept, k) < Count(kept, l)
    <3>1. k \in Int
      BY <1>2
    <3> QED BY <1>1, <2>1, <3>1, CountRises
  <2>2. Count(kept, i) \in Int /\ i \in Int /\ j \in Int
    BY <1>1, <1>2, CountType
  <2> QED BY <1>4, <2>1, <2>2
<1>5. ASSUME NEW i \in kept PROVE Count(kept, i) \in 1..N
  <2>1. Count(kept, i) \in 0..N /\ i \in Int /\ 0 < i
    BY <1>1, <1>2, CountType
  <2>2. Count(kept, 0) = 0 /\ 0 \in Int
    <3>1. 0 \in Int /\ 0 <= 0
      OBVIOUS
    <3> QED BY <1>1, <3>1, CountEnds, Zenon
  <2>3. Count(kept, 0) < Count(kept, i)
    BY <1>1, <2>1, <2>2, CountRises
  <2> QED BY <1>1, <2>1, <2>2, <2>3
<1> HIDE DEF rank
<1>6. ASSUME NEW n \in 1..N PROVE Pos(n) \in kept /\ Count(kept, Pos(n)) = n
  <2>1. \E i \in kept : rank[i] = n
    BY <1>1, <1>2, CountReached
  <2>2. Pos(n) \in kept /\ rank[Pos(n)] = n
    BY <2>1
  <2> HIDE DEF Pos
  <2> QED BY <1>2, <2>2
<1> HIDE DEF Pos, N
<1>7. \A n \in 1..N : r[n] = h[Pos(n)] /\ r[n] \in Messages
  BY <1>1, <1>3, <1>6
<1>8. r \in [1..N -> Messages]
  BY <1>3, <1>7
<1>9. r \in Seq(Messages) /\ Len(r) = N
  BY <1>1, <1>8
<1>10. ASSUME NEW i \in kept PROVE Count(kept, i) \in 1..N /\ r[Count(kept, i)] = h[i]
  <2>1. Pos(Count(kept, i)) = i
    BY <1>4, <1>5, <1>6
  <2> QED BY <1>5, <1>7, <2>1
<1> QED BY <1>1, <1>9, <1>10 DEF N

\* Only these messages are kept.
LEMMA OnlyThese ==
  ASSUME NEW h \in Seq(Messages), NEW kept, \A i \in kept : i \in 1..Len(h), NEW r, r = Only(h, kept),
         NEW n \in 1..Len(r)
  PROVE  \E i \in kept : n = Count(kept, i) /\ r[n] = h[i]
<1>1. Len(h) \in Nat
  BY MessageParts
<1>2. n \in 1..Cardinality(kept)
  BY OnlyKept
<1>3. PICK i \in kept : Count(kept, i) = n
  BY <1>1, <1>2, CountReached
<1>4. r[Count(kept, i)] = h[i]
  BY OnlyKept
<1> QED BY <1>3, <1>4

\* Dropping messages that are no part of a batch leaves the batches whole.
LEMMA OnlyWhole ==
  ASSUME NEW h, Whole(h), NEW kept, \A i \in kept : i \in 1..Len(h),
         \A i \in 1..Len(h) : h[i].role \in {"assistant", "tool"} => i \in kept,
         NEW r, r = Only(h, kept)
  PROVE  Whole(r) /\ \A k : k \in Ids(r) <=> k \in Ids(h)
<1>1. h \in Seq(Messages) /\ Batched(h) /\ OneAnswer(h) /\ Len(h) \in Nat /\ DOMAIN h = 1..Len(h)
  BY MessageParts DEF Whole
<1> DEFINE C(i) == Count(kept, i)
<1>2. /\ r \in Seq(Messages) /\ Len(r) \in Nat /\ DOMAIN r = 1..Len(r)
      /\ \A i \in kept : C(i) \in 1..Len(r) /\ r[C(i)] = h[i] /\ i \in Int
      /\ \A n \in 1..Len(r) : \E i \in kept : n = C(i) /\ r[n] = h[i]
  <2>1. r \in Seq(Messages) /\ Len(r) \in Nat /\ DOMAIN r = 1..Len(r)
    BY <1>1, OnlyKept, MessageParts
  <2>2. \A i \in kept : C(i) \in 1..Len(r) /\ r[C(i)] = h[i] /\ i \in Int
    BY <1>1, OnlyKept
  <2>3. \A n \in 1..Len(r) : \E i \in kept : n = C(i) /\ r[n] = h[i]
    BY <1>1, OnlyThese
  <2> QED BY <2>1, <2>2, <2>3
\* The answers of a batch keep their distance to it.
<1>3. ASSUME NEW a \in 1..Len(h), h[a].role = "assistant", NEW j \in 1..Len(h[a].calls)
      PROVE  /\ a \in kept /\ a + j \in kept /\ C(a + j) = C(a) + j /\ C(a) \in Nat /\ j \in Nat
             /\ h[a + j].role = "tool" /\ h[a + j].calls = <<h[a].calls[j]>>
  <2>1. a \in kept /\ a \in Int /\ j \in Nat /\ Len(h[a].calls) \in Nat
    BY <1>1, <1>3, MessageParts
  <2>2. ASSUME NEW x \in a + 1..a + j PROVE x \in kept
    <3>1. x \in a + 1..a + Len(h[a].calls)
      BY <2>1
    <3>2. x \in 1..Len(h) /\ h[x].role = "tool"
      BY <1>1, <1>3, <3>1, AnswersOfBatch
    <3> QED BY <3>2
  <2>3. C(a + j) = C(a) + j
    <3>1. /\ Len(h) \in Nat /\ \A i \in kept : i \in 1..Len(h)
          /\ a \in Int /\ j \in Nat /\ \A x \in a + 1..a + j : x \in kept
      BY <1>1, <2>1, <2>2
    <3> QED BY <3>1, FullCount
  <2>4. a + j \in a + 1..a + j /\ a + j \in a + 1..a + Len(h[a].calls) /\ (a + j) - a = j
    BY <2>1
  <2>5. h[a + j].role = "tool" /\ h[a + j].calls = <<h[a].calls[j]>>
    <3>1. h[a + j].role = "tool" /\ h[a + j].calls = <<h[a].calls[(a + j) - a]>>
      BY <1>1, <1>3, <2>4, AnswersOfBatch
    <3> QED BY <2>4, <3>1
  <2> QED BY <1>2, <2>1, <2>2, <2>3, <2>4, <2>5
<1> HIDE DEF C
<1>4. \A i \in 1..Len(h) : Len(h[i].calls) \in Nat /\ DOMAIN h[i].calls = 1..Len(h[i].calls)
  BY <1>1, MessageParts
<1>5. ASSUME NEW b \in 1..Len(r), r[b].role = "assistant", NEW j \in DOMAIN r[b].calls
      PROVE  b + j \in 1..Len(r) /\ r[b + j].role = "tool" /\ r[b + j].calls = <<r[b].calls[j]>>
  <2>1. PICK a \in kept : b = C(a) /\ r[b] = h[a]
    BY <1>2
  <2>2. a \in 1..Len(h) /\ h[a].role = "assistant" /\ j \in 1..Len(h[a].calls)
    BY <1>4, <1>5, <2>1
  <2>3. a + j \in kept /\ C(a + j) = C(a) + j /\ h[a + j].role = "tool" /\ h[a + j].calls = <<h[a].calls[j]>>
    BY <1>3, <2>2
  <2>4. C(a + j) \in 1..Len(r) /\ r[C(a + j)] = h[a + j]
    BY <1>2, <2>3
  <2> QED BY <2>1, <2>3, <2>4
<1>6. ASSUME NEW n \in 1..Len(r), r[n].role = "tool"
      PROVE  \E b \in 1..n : r[b].role = "assistant" /\ n - b \in DOMAIN r[b].calls
  <2>1. PICK i \in kept : n = C(i) /\ r[n] = h[i]
    BY <1>2
  <2>2. i \in 1..Len(h) /\ h[i].role = "tool" /\ i \in Int
    BY <1>2, <1>6, <2>1
  <2>3. PICK a \in 1..i - 1 : h[a].role = "assistant" /\ i <= a + Len(h[a].calls)
    BY <1>1, <2>2, AnswersOfBatch
  <2> DEFINE j == i - a
  <2>4. a \in 1..Len(h) /\ a \in Int /\ Len(h[a].calls) \in Nat
    BY <1>1, <1>4, <2>2, <2>3
  <2>5. j \in 1..Len(h[a].calls) /\ a + j = i
    BY <2>2, <2>3, <2>4
  <2> HIDE DEF j
  <2>6. a \in kept /\ C(a + j) = C(a) + j /\ C(a) \in Nat /\ j \in Nat
    BY <1>3, <2>3, <2>4, <2>5
  <2>7. C(a) \in 1..Len(r) /\ r[C(a)] = h[a]
    BY <1>2, <2>6
  <2>8. n = C(a) + j
    BY <2>1, <2>5, <2>6
  <2>9. C(a) \in 1..n /\ n - C(a) = j
    BY <2>6, <2>7, <2>8
  <2>10. j \in DOMAIN h[a].calls
    BY <1>4, <2>4, <2>5
  <2>11. r[C(a)].role = "assistant" /\ n - C(a) \in DOMAIN r[C(a)].calls
    BY <2>3, <2>7, <2>9, <2>10
  <2> QED BY <2>9, <2>11
<1>7. ASSUME NEW m \in 1..Len(r), NEW n \in 1..Len(r), r[m].role = "tool", r[n].role = "tool", r[m].calls = r[n].calls
      PROVE  m = n
  <2>1. PICK i \in kept : m = C(i) /\ r[m] = h[i]
    BY <1>2
  <2>2. PICK k \in kept : n = C(k) /\ r[n] = h[k]
    BY <1>2
  <2>3. i = k
    BY <1>1, <1>7, <2>1, <2>2 DEF OneAnswer
  <2> QED BY <2>1, <2>2, <2>3
<1>8. Whole(r)
  <2>1. Batched(r)
    <3>1. \A a \in DOMAIN r : r[a].role = "assistant" =>
            \A j \in DOMAIN r[a].calls :
              a + j \in DOMAIN r /\ r[a + j].role = "tool" /\ r[a + j].calls = <<r[a].calls[j]>>
      BY <1>2, <1>5
    <3>2. \A i \in DOMAIN r : r[i].role = "tool" =>
            \E a \in 1..i : r[a].role = "assistant" /\ i - a \in DOMAIN r[a].calls
      BY <1>2, <1>6
    <3> QED BY <3>1, <3>2 DEF Batched
  <2>2. OneAnswer(r)
    BY <1>2, <1>7 DEF OneAnswer
  <2> QED BY <1>2, <2>1, <2>2 DEF Whole
<1>9. ASSUME NEW k \in Ids(r) PROVE k \in Ids(h)
  <2>1. PICK n \in 1..Len(r) : r[n].role = "tool" /\ k = r[n].calls[1]
    BY <1>2 DEF Ids
  <2>2. PICK i \in kept : r[n] = h[i]
    BY <1>2
  <2>3. i \in DOMAIN h /\ h[i].role = "tool" /\ k = h[i].calls[1]
    BY <1>1, <2>1, <2>2
  <2> QED BY <2>3 DEF Ids
<1>10. ASSUME NEW k \in Ids(h) PROVE k \in Ids(r)
  <2>1. PICK i \in 1..Len(h) : h[i].role = "tool" /\ k = h[i].calls[1]
    BY <1>1 DEF Ids
  <2>2. i \in kept
    BY <2>1
  <2>3. C(i) \in DOMAIN r /\ r[C(i)].role = "tool" /\ k = r[C(i)].calls[1]
    BY <1>2, <2>1, <2>2
  <2> QED BY <2>3 DEF Ids
<1> QED BY <1>8, <1>9, <1>10

\* What follows a kept message of certain messages follows it in what is kept.
LEMMA OnlyAfter ==
  ASSUME NEW h \in Seq(Messages), NEW kept, \A i \in kept : i \in 1..Len(h), NEW r, r = Only(h, kept),
         NEW A, \A i \in A : i \in kept, NEW B, \A n \in B : n \in 1..Len(r),
         \A i \in kept : Count(kept, i) \in B <=> i \in A, NEW k \in kept
  PROVE  /\ Cardinality(After(B, Count(kept, k))) = Cardinality(After(A, k))
         /\ Cardinality(After(A, k)) \in Nat
<1> DEFINE m == Count(kept, k)
           f == [i \in After(A, k) |-> Count(kept, i)]
<1>1. Len(h) \in Nat /\ \A i \in kept : i \in Int
  BY MessageParts
<1>2. /\ \A i \in kept : Count(kept, i) \in Int
      /\ \A i, j \in kept : i < j => Count(kept, i) < Count(kept, j)
  <2>1. \A i \in kept : Count(kept, i) \in Int
    <3>1. Cardinality(kept) \in Nat
      BY <1>1, PositionsFinite
    <3>2. \A i \in kept : Count(kept, i) \in 0..Cardinality(kept)
      BY <1>1, CountType
    <3> QED BY <3>1, <3>2
  <2>2. \A i, j \in kept : i < j => Count(kept, i) < Count(kept, j)
    BY <1>1, CountRises
  <2> QED BY <2>1, <2>2
<1>3. IsFiniteSet(After(A, k)) /\ Cardinality(After(A, k)) \in Nat
  <2>1. k \in Int /\ \A i \in A : i \in 1..Len(h)
    BY <1>1
  <2> QED BY <1>1, <2>1, CountType
<1>4. ASSUME NEW i \in After(A, k) PROVE i \in kept /\ Count(kept, i) \in After(B, m)
  <2>1. i \in kept /\ i \in A /\ i > k /\ i \in Int /\ k \in Int
    BY <1>1 DEF After
  <2>2. Count(kept, i) \in B /\ m < Count(kept, i)
    BY <1>2, <2>1
  <2> HIDE DEF m
  <2>3. m \in Int /\ Count(kept, i) \in Int
    BY <1>2, <2>1 DEF m
  <2> QED BY <2>1, <2>2, <2>3 DEF After
<1>5. ASSUME NEW n \in After(B, m) PROVE \E i \in After(A, k) : Count(kept, i) = n
  <2>1. n \in B /\ n > m /\ n \in 1..Len(r)
    BY DEF After
  <2>2. PICK i \in kept : n = Count(kept, i)
    BY <2>1, OnlyThese
  <2>3. i \in A
    BY <2>1, <2>2
  <2>4. i > k
    <3>1. ~(i < k) /\ i # k /\ i \in Int /\ k \in Int
      <4>1. i \in Int /\ k \in Int /\ n \in Int /\ m \in Int
        BY <1>1, <1>2, <2>2
      <4>2. ~(n < m) /\ n # m
        BY <2>1, <4>1
      <4> QED BY <1>2, <2>2, <4>1, <4>2
    <3> QED BY <3>1
  <2> QED BY <2>2, <2>3, <2>4 DEF After
<1>6. f \in [After(A, k) -> After(B, m)] /\ \A i \in After(A, k) : f[i] = Count(kept, i)
  BY <1>4
<1> HIDE DEF f, m
<1>7. ASSUME NEW i \in After(A, k), NEW j \in After(A, k), f[i] = f[j] PROVE i = j
  <2>1. i \in kept /\ j \in kept /\ i \in Int /\ j \in Int /\ Count(kept, i) = Count(kept, j) /\ Count(kept, i) \in Int
    BY <1>1, <1>2, <1>4, <1>6, <1>7
  <2>2. ~(i < j) /\ ~(j < i)
    BY <1>2, <2>1
  <2> QED BY <2>1, <2>2
<1>8. \A n \in After(B, m) : \E i \in After(A, k) : f[i] = n
  BY <1>5, <1>6
<1>9. f \in Bijection(After(A, k), After(B, m))
  BY <1>6, <1>7, <1>8 DEF Bijection, Injection, Surjection, IsInjective
<1>10. Cardinality(After(B, m)) = Cardinality(After(A, k))
  BY <1>3, <1>9, FS_Bijection DEF ExistsBijection
<1> QED BY <1>3, <1>10 DEF m

-----------------------------------------------------------------------------
(* How the live transcript is extended.                                    *)

\* Messages that are neither a call nor the answer to one are whole.
LEMMA PlainIsWhole ==
  ASSUME NEW h \in Seq(Messages),
         \A i \in 1..Len(h) : /\ h[i].role # "tool" /\ ~h[i].stored
                              /\ h[i].role = "assistant" => h[i].calls = <<>>
  PROVE  Whole(h) /\ StoredAreOld(h) /\ \A k : k \notin Ids(h)
<1>1. Len(h) \in Nat /\ DOMAIN h = 1..Len(h)
  BY MessageParts
<1>2. \A a \in 1..Len(h) : h[a].role = "assistant" => DOMAIN h[a].calls = {}
  OBVIOUS
<1>3. Batched(h)
  BY <1>1, <1>2 DEF Batched
<1>4. OneAnswer(h) /\ StoredAreOld(h)
  BY <1>1 DEF OneAnswer, StoredAreOld
<1>5. \A k : k \notin Ids(h)
  BY <1>1 DEF Ids
<1> QED BY <1>3, <1>4, <1>5 DEF Whole

\* A transcript that differs in what is stored only has the same calls, units and plans.
LEMMA SameShape ==
  ASSUME NEW h, Whole(h), Len(h) # 0, NEW r, Alike(r, 0, h, 0)
  PROVE  /\ Whole(r) /\ Len(r) = Len(h)
         /\ \A i \in 1..Len(h) : r[i].role = h[i].role /\ r[i].calls = h[i].calls
         /\ \A k : k \in Ids(r) <=> k \in Ids(h)
         /\ Heads(r) = Heads(h) /\ (OnePlan(h) => OnePlan(r)) /\ (NoPlan(h) => NoPlan(r))
<1>1. /\ h \in Seq(Messages) /\ Batched(h) /\ OneAnswer(h) /\ r \in Seq(Messages)
      /\ Len(h) \in Nat /\ DOMAIN h = 1..Len(h) /\ Len(r) \in Nat /\ DOMAIN r = 1..Len(r)
      /\ Len(r) - 0 = Len(h) - 0
  <2>1. h \in Seq(Messages) /\ Batched(h) /\ OneAnswer(h) /\ r \in Seq(Messages) /\ Len(r) - 0 = Len(h) - 0
    BY DEF Whole, Alike
  <2> QED BY <2>1, MessageParts
<1>2. Len(r) = Len(h)
  <2>1. \A n \in Nat : n - 0 = n
    OBVIOUS
  <2>2. Len(r) - 0 = Len(r) /\ Len(h) - 0 = Len(h)
    BY <1>1, <2>1
  <2> QED BY <1>1, <2>2
<1>3. ASSUME NEW i \in 1..Len(h) PROVE r[i].role = h[i].role /\ r[i].calls = h[i].calls
  <2>1. i \in 0 + 1..Len(r) /\ i - 0 + 0 = i
    BY <1>1, <1>2
  <2>2. r[i].role = h[i - 0 + 0].role /\ r[i].calls = h[i - 0 + 0].calls
    BY <2>1 DEF Alike
  <2> QED BY <2>1, <2>2
<1>4. Batched(r) /\ OneAnswer(r)
  <2>1. Boundary(h, 0)
    <3>1. 1 \in Heads(h) /\ 0 + 1 = 1
      BY <1>1, WholeIsCanonical
    <3> QED BY <3>1 DEF Boundary
  <2>2. \A k \in 1..0 : Plain(r[k])
    OBVIOUS
  <2> QED BY <1>1, <2>1, <2>2, AlikeWhole
<1>5. \A k : k \in Ids(r) <=> k \in Ids(h)
  <2>1. ASSUME NEW k \in Ids(r) PROVE k \in Ids(h)
    <3>1. PICK i \in 1..Len(h) : r[i].role = "tool" /\ k = r[i].calls[1]
      BY <1>1, <1>2 DEF Ids
    <3>2. i \in DOMAIN h /\ h[i].role = "tool" /\ k = h[i].calls[1]
      BY <1>1, <1>3, <3>1
    <3> QED BY <3>2 DEF Ids
  <2>2. ASSUME NEW k \in Ids(h) PROVE k \in Ids(r)
    <3>1. PICK i \in 1..Len(h) : h[i].role = "tool" /\ k = h[i].calls[1]
      BY <1>1 DEF Ids
    <3>2. i \in DOMAIN r /\ r[i].role = "tool" /\ k = r[i].calls[1]
      BY <1>1, <1>2, <1>3, <3>1
    <3> QED BY <3>2 DEF Ids
  <2> QED BY <2>1, <2>2
<1>6. Heads(r) = Heads(h)
  <2>1. \A i : i \in Heads(r) <=> i \in Heads(h)
    BY <1>1, <1>2, <1>3 DEF Heads
  <2> QED BY <2>1
<1>7. (OnePlan(h) => OnePlan(r)) /\ (NoPlan(h) => NoPlan(r))
  BY <1>1, <1>2, <1>3 DEF OnePlan, NoPlan
<1> QED BY <1>1, <1>2, <1>3, <1>4, <1>5, <1>6, <1>7 DEF Whole

\* r is x with y behind it, and has one unit more at least.
Longer(x, y, r) ==
  /\ Len(r) = Len(x) + Len(y) /\ Len(x) \in Nat /\ Len(y) \in Nat
  /\ Cardinality(After(Heads(x), 1)) \in Nat /\ Cardinality(After(Heads(r), 1)) \in Nat
  /\ Cardinality(After(Heads(x), 1)) + 1 <= Cardinality(After(Heads(r), 1))

\* What the runtime appends keeps the transcript proper when its calls are the next ones.
LEMMA Appended ==
  ASSUME NEW x, NEW n \in Nat, Proper(x, n), NEW y, Whole(y), Len(y) # 0, \A i \in 1..Len(y) : ~y[i].stored,
         NEW m \in Nat, \A k : k \in Ids(y) <=> k \in n + 1..n + m,
         \/ NoPlan(x) /\ OnePlan(y)
         \/ NoPlan(y),
         NEW r, r = x \o y
  PROVE  Proper(r, n + m) /\ Longer(x, y, r) /\ (NoPlan(x) /\ NoPlan(y) => NoPlan(r))
<1>1. /\ Whole(x) /\ StoredAreOld(x) /\ Len(x) # 0 /\ x[1] = Prompt /\ OnePlan(x)
      /\ \A k : k \in Ids(x) <=> k \in 1..n
      /\ x \in Seq(Messages) /\ y \in Seq(Messages)
  BY DEF Proper, Whole
<1>2. Whole(r) /\ \A k : k \in Ids(r) <=> k \in Ids(x) \/ k \in Ids(y)
  <2>1. \A k \in Ids(x) : k \notin Ids(y)
    <3>1. \A k \in 1..n : ~(k \in n + 1..n + m)
      OBVIOUS
    <3> QED BY <1>1, <3>1
  <2> QED BY <1>1, <2>1, JoinedWhole
<1>3. /\ StoredAreOld(r)
      /\ Cardinality(After(Heads(x), 1)) \in Nat /\ Cardinality(After(Heads(r), 1)) \in Nat
      /\ Cardinality(After(Heads(x), 1)) + 1 <= Cardinality(After(Heads(r), 1))
  BY <1>1, JoinedOld
<1>4. \A k : k \in Ids(r) <=> k \in 1..n + m
  <2>1. \A k : k \in 1..n + m <=> k \in 1..n \/ k \in n + 1..n + m
    OBVIOUS
  <2> QED BY <1>1, <1>2, <2>1
<1> DEFINE lx == Len(x)
           ly == Len(y)
<1>5. /\ r \in Seq(Messages) /\ Len(r) = lx + ly /\ lx \in Nat /\ ly \in Nat
      /\ DOMAIN r = 1..Len(r) /\ DOMAIN x = 1..lx /\ DOMAIN y = 1..ly
  BY <1>1, Joined, MessageParts
<1>6. /\ \A i \in 1..Len(r) : \/ i \in 1..lx /\ r[i] = x[i]
                              \/ i - lx \in 1..ly /\ i > lx /\ r[i] = y[i - lx]
      /\ \A i \in 1..lx : i \in 1..Len(r) /\ r[i] = x[i]
  BY <1>1, JoinedAt
<1> HIDE DEF lx, ly
<1>7. r[1] = Prompt /\ Len(r) # 0
  <2>1. 1 \in 1..lx /\ Len(r) # 0
    BY <1>1, <1>5 DEF lx
  <2> QED BY <1>1, <1>6, <2>1
<1>8. NoPlan(x) /\ NoPlan(y) => NoPlan(r)
  BY <1>5, <1>6 DEF NoPlan
<1>9. OnePlan(r)
  <2>1. ASSUME NEW i \in 1..Len(r), NEW k \in 1..Len(r), r[i].role = "plan", r[k].role = "plan" PROVE i = k
    <3>1. CASE NoPlan(x) /\ OnePlan(y)
      <4> DEFINE a == i - lx
                 b == k - lx
      <4>1. a \in DOMAIN y /\ b \in DOMAIN y /\ r[i] = y[a] /\ r[k] = y[b]
        BY <1>5, <1>6, <2>1, <3>1 DEF NoPlan
      <4>2. a + lx = i /\ b + lx = k
        BY <1>5
      <4> HIDE DEF a, b
      <4>3. a = b
        BY <2>1, <3>1, <4>1 DEF OnePlan
      <4> QED BY <4>2, <4>3
    <3>2. CASE NoPlan(y)
      <4>1. i \in DOMAIN x /\ k \in DOMAIN x /\ r[i] = x[i] /\ r[k] = x[k]
        BY <1>5, <1>6, <2>1, <3>2 DEF NoPlan
      <4> QED BY <1>1, <2>1, <4>1 DEF OnePlan
    <3> QED BY <3>1, <3>2
  <2> QED BY <1>5, <2>1 DEF OnePlan
<1>10. Proper(r, n + m)
  BY <1>2, <1>3, <1>4, <1>7, <1>9 DEF Proper
<1>11. Len(r) = Len(x) + Len(y) /\ Len(x) \in Nat /\ Len(y) \in Nat
  BY <1>5 DEF lx, ly
<1> QED BY <1>3, <1>8, <1>10, <1>11 DEF Longer

\* One message before others.
LEMMA JoinedToOne ==
  ASSUME NEW x \in Seq(Messages), Len(x) = 1, NEW y \in Seq(Messages), NEW b, b = x \o y
  PROVE  b \in Seq(Messages) /\ Len(b) = Len(y) + 1 /\ Len(y) \in Nat /\ b[1] = x[1]
<1>1. b \in Seq(Messages) /\ Len(b) = Len(x) + Len(y) /\ Len(y) \in Nat
  BY Joined
<1>2. \A k \in 1..Len(x) : b[k] = x[k]
  BY JoinedFirst
<1>3. 1 \in 1..Len(x)
  OBVIOUS
<1>4. b[1] = x[1]
  BY <1>2, <1>3
<1>5. Len(b) = Len(y) + 1
  BY <1>1
<1> QED BY <1>1, <1>4, <1>5

\* A batch and its answers, after n calls.
BatchOf(n, s) ==
  <<Msg("assistant", [i \in 1..s |-> n + i])>> \o [i \in 1..s |-> Msg("tool", <<n + i>>)]

\* Such a batch is whole, and its answers are those of the new calls.
LEMMA BatchIsWhole ==
  ASSUME NEW n \in Nat, NEW s \in Nat \ {0}, NEW b, b = BatchOf(n, s)
  PROVE  /\ Whole(b) /\ Len(b) # 0 /\ NoPlan(b) /\ \A i \in 1..Len(b) : ~b[i].stored
         /\ \A k : k \in Ids(b) <=> k \in n + 1..n + s
<1> DEFINE ids == [i \in 1..s |-> n + i]
           call == <<Msg("assistant", ids)>>
           answers == [i \in 1..s |-> Msg("tool", <<n + i>>)]
<1>1. ids \in Seq(Nat) /\ Len(ids) = s /\ DOMAIN ids = 1..s /\ \A i \in 1..s : ids[i] = n + i
  OBVIOUS
<1> HIDE DEF ids
<1>2. Msg("assistant", ids) \in Messages /\ \A i \in 1..s : Msg("tool", <<n + i>>) \in Messages
  BY <1>1 DEF Msg, Messages, Roles
<1>3. call \in Seq(Messages) /\ Len(call) = 1 /\ call[1] = Msg("assistant", ids)
  BY <1>2
<1>4. answers \in Seq(Messages) /\ Len(answers) = s /\ \A i \in 1..s : answers[i] = Msg("tool", <<n + i>>)
  <2>1. answers \in [1..s -> Messages] /\ \A i \in 1..s : answers[i] = Msg("tool", <<n + i>>)
    BY <1>2
  <2> HIDE DEF answers
  <2>2. s \in Nat
    OBVIOUS
  <2>3. answers \in Seq(Messages) /\ Len(answers) = s
    BY <2>1, <2>2
  <2> QED BY <2>1, <2>3
<1>5. b = call \o answers
  BY DEF ids, BatchOf
<1> HIDE DEF call, answers
<1>6. b \in Seq(Messages) /\ Len(b) = s + 1 /\ DOMAIN b = 1..s + 1
  <2>1. b \in Seq(Messages) /\ Len(b) = Len(call) + Len(answers)
    BY <1>3, <1>4, <1>5, Joined
  <2>2. Len(b) = s + 1
    BY <1>3, <1>4, <2>1
  <2> QED BY <2>1, <2>2, MessageParts
<1>7. /\ b[1].role = "assistant" /\ b[1].calls = ids /\ ~b[1].stored
      /\ \A j \in 1..s : /\ b[1 + j].role = "tool" /\ b[1 + j].calls = <<n + j>> /\ ~b[1 + j].stored
  <2>1. b[1] = Msg("assistant", ids)
    <3>1. call \in Seq(Messages) /\ answers \in Seq(Messages) /\ b = call \o answers /\ Len(call) = 1
      BY <1>3, <1>4, <1>5
    <3>2. b[1] = call[1]
      BY <3>1, JoinedToOne
    <3> QED BY <1>3, <3>1, <3>2
  <2>2. ASSUME NEW j \in 1..s PROVE b[1 + j] = Msg("tool", <<n + j>>)
    <3>1. 1 + j \in Len(call) + 1..Len(call) + Len(answers) /\ (1 + j) - Len(call) = j
      BY <1>3, <1>4
    <3>2. b[1 + j] = answers[(1 + j) - Len(call)]
      BY <1>3, <1>4, <1>5, <3>1, JoinedSecond
    <3> QED BY <1>4, <3>1, <3>2
  <2>3. b[1].role = "assistant" /\ b[1].calls = ids /\ ~b[1].stored
    BY <2>1 DEF Msg
  <2>4. ASSUME NEW j \in 1..s
        PROVE  b[1 + j].role = "tool" /\ b[1 + j].calls = <<n + j>> /\ ~b[1 + j].stored
    <3>1. b[1 + j] = Msg("tool", <<n + j>>)
      BY <2>2
    <3> QED BY <3>1 DEF Msg
  <2> HIDE DEF ids
  <2> QED BY <2>3, <2>4
<1>8. ASSUME NEW i \in 1..s + 1, i # 1 PROVE i - 1 \in 1..s /\ 1 + (i - 1) = i /\ i \in Int
  BY <1>8
<1>9. ASSUME NEW i \in 1..s + 1, i # 1 PROVE b[i].role = "tool" /\ b[i].calls = <<n + (i - 1)>> /\ ~b[i].stored
  <2> DEFINE j == i - 1
  <2>1. j \in 1..s /\ 1 + j = i
    BY <1>8, <1>9
  <2> HIDE DEF j
  <2>2. b[1 + j].role = "tool" /\ b[1 + j].calls = <<n + j>> /\ ~b[1 + j].stored
    BY <1>7, <2>1
  <2> QED BY <2>1, <2>2 DEF j
<1>10. Batched(b)
  <2>1. ASSUME NEW a \in DOMAIN b, b[a].role = "assistant", NEW j \in DOMAIN b[a].calls
        PROVE  a + j \in DOMAIN b /\ b[a + j].role = "tool" /\ b[a + j].calls = <<b[a].calls[j]>>
    <3>1. a = 1
      BY <1>6, <1>9, <2>1
    <3>2. j \in 1..s /\ b[a].calls[j] = n + j
      BY <1>1, <1>7, <2>1, <3>1
    <3>3. 1 + j \in DOMAIN b
      BY <1>6, <3>2
    <3> QED BY <1>7, <3>1, <3>2, <3>3
  <2>2. ASSUME NEW i \in DOMAIN b, b[i].role = "tool"
        PROVE  \E a \in 1..i : b[a].role = "assistant" /\ i - a \in DOMAIN b[a].calls
    <3>1. i \in 1..s + 1 /\ i # 1
      BY <1>6, <1>7, <2>2
    <3>2. 1 \in 1..i /\ i - 1 \in DOMAIN b[1].calls
      BY <1>1, <1>7, <1>8, <3>1
    <3> QED BY <1>7, <3>2
  <2> QED BY <2>1, <2>2 DEF Batched
<1>11. OneAnswer(b)
  <2>1. ASSUME NEW i \in DOMAIN b, NEW k \in DOMAIN b, b[i].role = "tool", b[k].role = "tool", b[i].calls = b[k].calls
        PROVE  i = k
    <3>1. i \in 1..s + 1 /\ i # 1 /\ k \in 1..s + 1 /\ k # 1
      BY <1>6, <1>7, <2>1
    <3>2. <<n + (i - 1)>> = <<n + (k - 1)>>
      BY <1>9, <2>1, <3>1
    <3>3. n + (i - 1) = n + (k - 1)
      BY <3>2
    <3> QED BY <3>1, <3>3
  <2> QED BY <2>1 DEF OneAnswer
<1>12. NoPlan(b) /\ \A i \in 1..Len(b) : ~b[i].stored
  BY <1>6, <1>7, <1>9 DEF NoPlan
<1>13. ASSUME NEW k \in Ids(b) PROVE k \in n + 1..n + s
  <2>1. PICK i \in 1..s + 1 : b[i].role = "tool" /\ k = b[i].calls[1]
    BY <1>6 DEF Ids
  <2>2. i # 1
    BY <1>7, <2>1
  <2>3. k = n + (i - 1)
    <3>1. b[i].calls = <<n + (i - 1)>>
      BY <1>9, <2>2
    <3>2. \A x : <<x>>[1] = x
      OBVIOUS
    <3> QED BY <2>1, <3>1, <3>2
  <2> QED BY <1>8, <2>2, <2>3
<1>14. ASSUME NEW k \in n + 1..n + s PROVE k \in Ids(b)
  <2> DEFINE j == k - n
  <2>1. j \in 1..s /\ n + j = k /\ 1 + j \in DOMAIN b
    BY <1>6
  <2> HIDE DEF j
  <2>2. b[1 + j].role = "tool" /\ b[1 + j].calls[1] = k
    <3>1. b[1 + j].role = "tool" /\ b[1 + j].calls = <<n + j>>
      BY <1>7, <2>1
    <3>2. \A x : <<x>>[1] = x
      OBVIOUS
    <3> QED BY <2>1, <3>1, <3>2
  <2> QED BY <2>1, <2>2 DEF Ids
<1>15. Len(b) # 0
  BY <1>6
<1> QED BY <1>6, <1>10, <1>11, <1>12, <1>13, <1>14, <1>15 DEF Whole

-----------------------------------------------------------------------------
(* A transcript without its plan, and the one loaded for the next run.     *)
\* A set with at most one member that S does not have.
LEMMA OneMore ==
  ASSUME NEW S, IsFiniteSet(S), NEW x, NEW T, \A y \in T : y \in S \/ y = x
  PROVE  IsFiniteSet(T) /\ Cardinality(T) \in Nat /\ Cardinality(S) \in Nat /\ Cardinality(T) <= Cardinality(S) + 1
<1>1. IsFiniteSet(S \union {x}) /\ (Cardinality(S \union {x}) = Cardinality(S) \/ Cardinality(S \union {x}) = Cardinality(S) + 1)
  BY FS_AddElement
<1>2. T \in SUBSET (S \union {x})
  OBVIOUS
<1>3. IsFiniteSet(T) /\ Cardinality(T) <= Cardinality(S \union {x})
  BY <1>1, <1>2, FS_Subset
<1>4. Cardinality(T) \in Nat /\ Cardinality(S) \in Nat /\ Cardinality(S \union {x}) \in Nat
  BY <1>1, <1>3, FS_CardinalityType
<1> QED BY <1>1, <1>3, <1>4

\* What is stored stays old in a part that has all batches.
LEMMA OnlyOld ==
  ASSUME NEW h, Whole(h), StoredAreOld(h), NEW kept, \A i \in kept : i \in 1..Len(h),
         \A i \in 1..Len(h) : h[i].role \in {"assistant", "tool"} => i \in kept,
         NEW r, r = Only(h, kept)
  PROVE  StoredAreOld(r)
<1>1. h \in Seq(Messages)
  BY DEF Whole
<1>2. /\ r \in Seq(Messages) /\ DOMAIN r = 1..Len(r)
      /\ \A i \in kept : Count(kept, i) \in 1..Len(r) /\ r[Count(kept, i)] = h[i]
  BY <1>1, OnlyKept, HeadPositions
<1>3. /\ \A i \in Openers(h) : i \in kept
      /\ \A n \in Openers(r) : n \in 1..Len(r)
      /\ \A i \in kept : i \in DOMAIN h
  BY <1>1, <1>2, HeadPositions DEF Openers
<1>4. \A i \in kept : Count(kept, i) \in Openers(r) <=> i \in Openers(h)
  BY <1>2, <1>3 DEF Openers
<1>5. ASSUME NEW n \in DOMAIN r, r[n].stored
      PROVE  r[n].role = "tool" /\ RecentToolUnits <= Cardinality(After(Openers(r), n))
  <2>1. PICK i \in kept : n = Count(kept, i) /\ r[n] = h[i]
    BY <1>1, <1>2, <1>5, OnlyThese
  <2>2. h[i].role = "tool" /\ RecentToolUnits <= Cardinality(After(Openers(h), i))
    BY <1>3, <1>5, <2>1 DEF StoredAreOld
  <2>3. Cardinality(After(Openers(r), Count(kept, i))) = Cardinality(After(Openers(h), i))
    BY <1>1, <1>3, <1>4, OnlyAfter
  <2> QED BY <2>1, <2>2, <2>3
<1> QED BY <1>5 DEF StoredAreOld

\* The first position of a set of positions is counted as one.
LEMMA FirstCount ==
  ASSUME NEW n \in Nat, NEW S, \A i \in S : i \in 1..n, 1 \in S
  PROVE  Count(S, 1) = 1
<1>1. 0 \in Int /\ 0 <= 0 /\ 0 < 1 /\ 1 = 0 + 1
  OBVIOUS
<1>2. Count(S, 0) = 0
  BY <1>1, CountEnds, Zenon
<1>3. Count(S, 1) = Count(S, 0) + 1
  BY <1>1, CountRises
<1> QED BY <1>2, <1>3

\* The older copy of the plan is removed: a proper transcript without a plan, with at most one
\* unit less.
LEMMA PlanRemoved ==
  ASSUME NEW n \in Nat, NEW h, Proper(h, n), NEW kept,
         \A i : i \in kept <=> i \in DOMAIN h /\ h[i].role # "plan", NEW r, r = Only(h, kept)
  PROVE  /\ Proper(r, n) /\ NoPlan(r)
         /\ Cardinality(After(Heads(h), 1)) \in Nat /\ Cardinality(After(Heads(r), 1)) \in Nat
         /\ Cardinality(After(Heads(h), 1)) <= Cardinality(After(Heads(r), 1)) + 1
<1>1. /\ h \in Seq(Messages) /\ Whole(h) /\ StoredAreOld(h) /\ Len(h) # 0 /\ h[1] = Prompt /\ OnePlan(h)
      /\ \A k : k \in Ids(h) <=> k \in 1..n
  BY DEF Proper, Whole
<1>2. /\ Len(h) \in Nat /\ DOMAIN h = 1..Len(h) /\ \A i \in Heads(h) : i \in 1..Len(h)
      /\ \A i \in 1..Len(h) : i \in Heads(h) <=> h[i].role # "tool"
  BY <1>1, HeadPositions
<1>3. /\ \A i \in kept : i \in 1..Len(h)
      /\ \A i \in 1..Len(h) : h[i].role \in {"assistant", "tool"} => i \in kept
  BY <1>2
<1>4. 1 \in kept
  BY <1>1, <1>2 DEF Prompt, Msg
<1>5. Whole(r) /\ StoredAreOld(r) /\ \A k : k \in Ids(r) <=> k \in Ids(h)
  BY <1>1, <1>3, OnlyWhole, OnlyOld
<1>6. /\ r \in Seq(Messages) /\ Len(r) \in Nat /\ DOMAIN r = 1..Len(r)
      /\ \A i \in kept : Count(kept, i) \in 1..Len(r) /\ r[Count(kept, i)] = h[i]
  BY <1>1, <1>3, OnlyKept, HeadPositions
<1>7. Count(kept, 1) = 1
  BY <1>2, <1>3, <1>4, FirstCount
<1>8. Len(r) # 0 /\ r[1] = Prompt
  <2>1. Count(kept, 1) \in 1..Len(r) /\ r[Count(kept, 1)] = h[1]
    BY <1>4, <1>6
  <2> QED BY <1>1, <1>6, <1>7, <2>1
<1>9. NoPlan(r) /\ OnePlan(r)
  <2>1. ASSUME NEW j \in DOMAIN r PROVE r[j].role # "plan"
    <3>1. PICK i \in kept : j = Count(kept, i) /\ r[j] = h[i]
      BY <1>1, <1>3, <1>6, OnlyThese
    <3> QED BY <3>1
  <2> QED BY <2>1 DEF NoPlan, OnePlan
<1>10. Proper(r, n)
  BY <1>1, <1>5, <1>8, <1>9 DEF Proper
<1> DEFINE A == {i \in kept : h[i].role # "tool"}
<1>11. /\ \A i \in A : i \in kept
       /\ \A j \in Heads(r) : j \in 1..Len(r)
       /\ \A i \in kept : Count(kept, i) \in Heads(r) <=> i \in A
       /\ \A i \in A : i \in 1..Len(h)
  BY <1>3, <1>6 DEF Heads
<1>12. \A i \in Heads(h) : i \in A \/ h[i].role = "plan"
  BY <1>2
<1> HIDE DEF A
<1>13. Cardinality(After(Heads(r), 1)) = Cardinality(After(A, 1)) /\ Cardinality(After(A, 1)) \in Nat
  <2>1. /\ Cardinality(After(Heads(r), Count(kept, 1))) = Cardinality(After(A, 1))
        /\ Cardinality(After(A, 1)) \in Nat
    BY <1>1, <1>3, <1>4, <1>11, OnlyAfter
  <2> QED BY <1>7, <2>1
<1>14. IsFiniteSet(After(A, 1))
  <2>1. 1 \in Int
    OBVIOUS
  <2> QED BY <1>2, <1>11, <2>1, CountType
<1>15. \E x : \A y \in After(Heads(h), 1) : y \in After(A, 1) \/ y = x
  <2>1. \A i, k \in Heads(h) : h[i].role = "plan" /\ h[k].role = "plan" => i = k
    BY <1>1, <1>2 DEF OnePlan
  <2>2. CASE \E x \in Heads(h) : h[x].role = "plan"
    <3>1. PICK x \in Heads(h) : h[x].role = "plan"
      BY <2>2
    <3> QED BY <1>12, <2>1, <3>1 DEF After
  <2>3. CASE \A x \in Heads(h) : h[x].role # "plan"
    BY <1>12, <2>3 DEF After
  <2> QED BY <2>2, <2>3
<1>16. PICK x : \A y \in After(Heads(h), 1) : y \in After(A, 1) \/ y = x
  BY <1>15
<1>17. /\ Cardinality(After(Heads(h), 1)) \in Nat
       /\ Cardinality(After(Heads(h), 1)) <= Cardinality(After(A, 1)) + 1
  BY <1>14, <1>16, OneMore
<1> QED BY <1>9, <1>10, <1>13, <1>17

\* A transcript in full.
Unstored(h) == [i \in DOMAIN h |-> [h[i] EXCEPT !.stored = FALSE]]
\* It has the same messages otherwise.
LEMMA InFull ==
  ASSUME NEW h, Whole(h), NEW r, r = Unstored(h)
  PROVE  /\ Whole(r) /\ Len(r) = Len(h) /\ Len(h) \in Nat /\ \A k : k \in Ids(r) <=> k \in Ids(h)
         /\ \A i \in 1..Len(r) : ~r[i].stored /\ r[i].role = h[i].role
<1>1. h \in Seq(Messages) /\ Len(h) \in Nat /\ DOMAIN h = 1..Len(h)
  BY HeadPositions DEF Whole
<1>2. /\ r \in Seq(Messages) /\ Len(r) = Len(h)
      /\ \A i \in 1..Len(h) : ~r[i].stored /\ r[i].role = h[i].role /\ r[i].calls = h[i].calls
  <2>1. ASSUME NEW i \in 1..Len(h)
        PROVE  /\ [h[i] EXCEPT !.stored = FALSE] \in Messages
               /\ ~[h[i] EXCEPT !.stored = FALSE].stored
               /\ [h[i] EXCEPT !.stored = FALSE].role = h[i].role
               /\ [h[i] EXCEPT !.stored = FALSE].calls = h[i].calls
    <3>1. h[i] \in Messages
      BY <1>1
    <3> HIDE DEF Messages
    <3>2. \A m : m \in Messages => /\ [m EXCEPT !.stored = FALSE] \in Messages
                                   /\ ~[m EXCEPT !.stored = FALSE].stored
                                   /\ [m EXCEPT !.stored = FALSE].role = m.role
                                   /\ [m EXCEPT !.stored = FALSE].calls = m.calls
      BY DEF Messages
    <3> QED BY <3>1, <3>2
  <2>2. r \in [1..Len(h) -> Messages] /\ \A i \in 1..Len(h) : r[i] = [h[i] EXCEPT !.stored = FALSE]
    BY <1>1, <2>1 DEF Unstored
  <2>3. r \in Seq(Messages) /\ Len(r) = Len(h)
    BY <1>1, <2>2
  <2> QED BY <2>1, <2>2, <2>3
<1>3. CASE Len(h) = 0
  <2> DEFINE g == r
  <2>1. Whole(g) /\ \A k : k \notin Ids(g)
    <3>1. g \in Seq(Messages) /\ Len(g) = 0
      BY <1>2, <1>3
    <3> HIDE DEF g
    <3>2. \A i \in 1..Len(g) : g[i].role # "tool" /\ ~g[i].stored /\ (g[i].role = "assistant" => g[i].calls = <<>>)
      BY <3>1
    <3> QED BY <3>1, <3>2, PlainIsWhole
  <2>2. \A k : k \notin Ids(h)
    BY <1>1, <1>3 DEF Ids
  <2> QED BY <1>1, <1>2, <2>1, <2>2
<1>4. CASE Len(h) # 0
  <2>1. Alike(r, 0, h, 0)
    <3>1. 0 \in 0..Len(r) /\ 0 \in 0..Len(h) /\ Len(r) - 0 = Len(h) - 0
      BY <1>1, <1>2
    <3>2. ASSUME NEW k \in 0 + 1..Len(r) PROVE k - 0 + 0 = k /\ k \in 1..Len(h)
      BY <1>1, <1>2
    <3>3. ASSUME NEW k \in 0 + 1..Len(r)
          PROVE  r[k].role = h[k - 0 + 0].role /\ r[k].calls = h[k - 0 + 0].calls
      BY <1>2, <3>2
    <3> QED BY <1>1, <1>2, <3>1, <3>3 DEF Alike
  <2> QED BY <1>1, <1>2, <1>4, <2>1, SameShape
<1> QED BY <1>3, <1>4

\* What loadTranscript() returns, behind the prompt: proper, without a plan, and not longer.
LEMMA LoadedIsProper ==
  ASSUME NEW n \in Nat, NEW h, Proper(h, n), NEW r, r = Reloaded(h)
  PROVE  Proper(r, n) /\ NoPlan(r) /\ Len(r) \in Nat /\ Len(r) <= Len(h)
<1>1. /\ Whole(h) /\ h \in Seq(Messages) /\ Len(h) # 0 /\ h[1] = Prompt
      /\ \A k : k \in Ids(h) <=> k \in 1..n
  BY DEF Proper, Whole
<1>2. Len(h) \in Nat /\ DOMAIN h = 1..Len(h)
  BY <1>1, HeadPositions
<1> DEFINE kept == {i \in 2..Len(h) : h[i].role \notin {"system", "plan"}}
<1>3. /\ \A i \in kept : i \in 1..Len(h) /\ i \in 2..Len(h) /\ h[i].role # "plan"
      /\ \A i \in 1..Len(h) : h[i].role \in {"assistant", "tool"} => i \in kept
  <2>1. h[1].role = "system"
    BY <1>1 DEF Prompt, Msg
  <2>2. ASSUME NEW i \in 1..Len(h), h[i].role \in {"assistant", "tool"} PROVE i \in kept
    <3>1. i # 1
      BY <2>1, <2>2
    <3>2. i \in 2..Len(h)
      BY <1>2, <3>1
    <3> QED BY <2>2, <3>2
  <2>3. \A i \in kept : i \in 1..Len(h) /\ i \in 2..Len(h) /\ h[i].role # "plan"
    BY <1>2
  <2> QED BY <2>2, <2>3
<1> DEFINE part == Only(h, kept)
           full == Unstored(part)
<1>4. r = <<Prompt>> \o full
  BY DEF Reloaded, Unstored
<1> HIDE DEF kept
<1>5. Whole(part) /\ \A k : k \in Ids(part) <=> k \in Ids(h)
  BY <1>1, <1>3, OnlyWhole
<1>6. Len(part) = Cardinality(kept) /\ Len(part) \in Nat /\ Len(part) <= Len(h) - 1
  <2>1. Len(part) = Cardinality(kept) /\ Len(part) \in Nat
    BY <1>1, <1>3, OnlyKept
  <2>2. 2 \in Int /\ Len(h) \in Int
    BY <1>2
  <2>3. IsFiniteSet(2..Len(h)) /\ Cardinality(2..Len(h)) = IF 2 > Len(h) THEN 0 ELSE Len(h) - 2 + 1
    BY <2>2, FS_Interval
  <2>4. kept \in SUBSET (2..Len(h))
    BY <1>3
  <2>5. Cardinality(kept) <= Cardinality(2..Len(h))
    BY <2>3, <2>4, FS_Subset
  <2> QED BY <1>1, <1>2, <2>1, <2>3, <2>5
<1>7. ASSUME NEW i \in 1..Len(part) PROVE part[i].role # "plan"
  <2>1. PICK k \in kept : i = Count(kept, k) /\ part[i] = h[k]
    BY <1>1, <1>3, <1>7, OnlyThese
  <2> QED BY <1>3, <2>1
<1> HIDE DEF part
<1>8. /\ Whole(full) /\ Len(full) = Len(part) /\ \A k : k \in Ids(full) <=> k \in Ids(part)
      /\ \A i \in 1..Len(full) : ~full[i].stored /\ full[i].role = part[i].role
  BY <1>5, InFull
<1> HIDE DEF full
<1> DEFINE one == <<Prompt>>
<1>9. one \in Seq(Messages) /\ Len(one) = 1 /\ one[1] = Prompt
  BY DEF Prompt, Msg, Messages, Roles
<1>10. Prompt.role = "system" /\ ~Prompt.stored
  BY DEF Prompt, Msg
<1>11. r = one \o full
  BY <1>4
<1> HIDE DEF one
<1>12. Whole(one) /\ \A k : k \notin Ids(one)
  <2>1. ASSUME NEW i \in 1..Len(one) PROVE one[i] = Prompt
    BY <1>9
  <2>2. \A i \in 1..Len(one) : one[i].role # "tool" /\ ~one[i].stored /\ (one[i].role = "assistant" => one[i].calls = <<>>)
    BY <1>10, <2>1
  <2> QED BY <1>9, <2>2, PlainIsWhole
<1>13. Whole(r) /\ \A k : k \in Ids(r) <=> k \in 1..n
  BY <1>1, <1>5, <1>8, <1>11, <1>12, JoinedWhole
<1>14. r \in Seq(Messages) /\ full \in Seq(Messages) /\ Len(r) = Len(full) + 1 /\ r[1] = Prompt
  <2>1. full \in Seq(Messages)
    BY <1>8 DEF Whole
  <2>2. one \in Seq(Messages) /\ Len(one) = 1
    BY <1>9
  <2>3. r \in Seq(Messages) /\ Len(r) = Len(full) + 1 /\ r[1] = one[1]
    BY <1>11, <2>1, <2>2, JoinedToOne, SMTT(20)
  <2> QED BY <1>9, <2>1, <2>3
<1>15. DOMAIN r = 1..Len(r) /\ Len(r) \in Nat
  BY <1>14, MessageParts
<1>16. ASSUME NEW i \in 1..Len(r) PROVE r[i].role # "plan" /\ ~r[i].stored
  <2>1. \/ i \in 1..Len(one) /\ r[i] = one[i]
        \/ i - Len(one) \in 1..Len(full) /\ r[i] = full[i - Len(one)]
    BY <1>9, <1>11, <1>14, <1>16, JoinedAt
  <2>2. CASE i \in 1..Len(one) /\ r[i] = one[i]
    <3>1. r[i] = Prompt
      BY <1>9, <2>2
    <3> QED BY <1>10, <3>1
  <2>3. CASE i - Len(one) \in 1..Len(full) /\ r[i] = full[i - Len(one)]
    BY <1>7, <1>8, <2>3
  <2> QED BY <2>1, <2>2, <2>3
<1>17. StoredAreOld(r) /\ NoPlan(r) /\ OnePlan(r)
  BY <1>15, <1>16 DEF StoredAreOld, NoPlan, OnePlan
<1>18. Len(r) # 0 /\ Len(r) <= Len(h)
  BY <1>2, <1>6, <1>8, <1>14
<1> QED BY <1>13, <1>14, <1>15, <1>17, <1>18 DEF Proper

-----------------------------------------------------------------------------
(* What a round leaves behind.                                             *)
\* The live transcript stays as it is, but for what moved to files.
LEMMA SentLive ==
  ASSUME NEW n \in Nat, NEW h, Proper(h, n), NEW msgs, NEW p, NEW c, Sends(msgs, p, h, c),
         NEW r, r = WriteBack(h, Pointers(msgs))
  PROVE  Proper(r, n) /\ Len(r) = Len(h) /\ Heads(r) = Heads(h)
<1>1. /\ Whole(h) /\ StoredAreOld(h) /\ Len(h) # 0 /\ h[1] = Prompt /\ OnePlan(h)
      /\ \A k : k \in Ids(h) <=> k \in 1..n
  BY DEF Proper
<1>2. Alike(r, 0, h, 0) /\ Whole(r) /\ StoredAreOld(r) /\ Len(r) = Len(h) /\ r[1] = h[1]
  BY <1>1, WrittenBack
<1>3. (\A k : k \in Ids(r) <=> k \in Ids(h)) /\ Heads(r) = Heads(h) /\ OnePlan(r)
  BY <1>1, <1>2, SameShape
<1> QED BY <1>1, <1>2, <1>3 DEF Proper

\* What is sent has whole batches only.
LEMMA SentChain ==
  ASSUME NEW h, Whole(h), NEW msgs, NEW p, NEW c, Sends(msgs, p, h, c)
  PROVE  Canonical(msgs) /\ \A u \in BuildUnits(msgs) : u.complete
<1>1. Whole(msgs) /\ Canonical(msgs)
  BY SentIsWhole
<1>2. msgs \in Seq(Messages) /\ Batched(msgs) /\ OneAnswer(msgs)
  BY <1>1 DEF Whole
<1>3. \A u \in BuildUnits(msgs) : u.complete
  BY <1>2, UnitsOfWhole
<1> QED BY <1>1, <1>3

\* Its newest batches are sent in full.
LEMMA SentNewest ==
  ASSUME NEW h, Whole(h), NEW msgs, NEW p, NEW c, Sends(msgs, p, h, c), NEW u \in BuildUnits(msgs), u.batch,
         Cardinality({v \in BuildUnits(msgs) : v.first > u.first /\ v.batch}) < RecentToolUnits,
         NEW i \in u.first..u.last
  PROVE  ~msgs[i].stored
<1>1. Whole(msgs)
  BY SentIsWhole
<1>2. StoredAreOld(msgs)
  BY DEF Sends
<1> QED BY <1>1, <1>2, NewestInFull

\* It ends with the window of the transcript, when enough units were left.
LEMMA SentWindow ==
  ASSUME NEW n \in Nat, NEW h, Proper(h, n), Len(h) >= 2, NEW msgs, NEW p, NEW c, Sends(msgs, p, h, c),
         NEW r, r = WriteBack(h, Pointers(msgs)),
         c # 1 => ProtectedRecent <= Cardinality(After(Heads(h), c))
  PROVE  EndsWith(msgs, LastUnits(Tail(r), ProtectedRecent))
<1>1. Whole(h) /\ StoredAreOld(h) /\ h[1] = Prompt
  BY DEF Proper
<1>2. /\ Whole(r) /\ Len(r) = Len(h) /\ r[1] = Prompt
      /\ \A k \in p + 1..Len(msgs) : msgs[k] = r[k - p + c]
  BY <1>1, WrittenBack
<1>3. Heads(r) = Heads(h)
  BY SentLive
<1>4. msgs \in Seq(Messages) /\ p \in 0..Len(msgs) /\ c \in 1..Len(r) /\ Len(msgs) - p = Len(r) - c /\ Len(r) >= 2
  <2>1. Len(msgs) \in Nat /\ p \in Nat /\ 2 <= p /\ p <= Len(msgs) /\ c \in 1..Len(h)
    BY <1>1, SentIsWhole
  <2>2. msgs \in Seq(Messages) /\ Len(msgs) - p = Len(h) - c
    BY DEF Sends, Alike
  <2> QED BY <1>2, <2>1, <2>2
<1>5. Copies(msgs, p, r, c)
  BY <1>2 DEF Copies
<1>6. c # 1 => ProtectedRecent <= Cardinality(After(Heads(r), c))
  BY <1>3
<1> QED BY <1>2, <1>4, <1>5, <1>6, WindowStays

\* A summary that is sent for a state covers at least one unit.
LEMMA SomeCovered ==
  ASSUME NEW h, Whole(h), Len(h) >= 2, h[1] = Prompt, NEW msgs, NEW p, Sends(msgs, p, h, 1),
         NEW s, StateTypeOK(s), s # NoState
  PROVE  LET n == CoveredUnits(BuildUnits(Tail(msgs)), s) IN n \in Nat /\ n # 0
<1> DEFINE t == Tail(msgs)
           units == BuildUnits(t)
<1>1. s.units \in Nat /\ s.messages \in Nat /\ s.units # 0 /\ (s.units = UnknownUnits => s.messages # 0)
  BY CompactionBounds DEF StateTypeOK, UnknownUnits
<1>2. /\ Whole(t) /\ Alike(t, p - 1, h, 1) /\ Len(t) \in Nat
      /\ \A i \in 1..p - 1 : i \in Heads(t)
  BY HistoryIsWhole
<1>3. t \in Seq(Messages) /\ Batched(t) /\ OneAnswer(t)
  BY <1>2 DEF Whole
<1>4. p \in Nat /\ 2 <= p
  BY SentIsWhole
<1>5. 2 \in Heads(t) /\ 1 \in Heads(t)
  <2>1. 1 \in Heads(t)
    BY <1>2, <1>4
  <2>2. CASE p > 2
    BY <1>2, <1>4, <2>1, <2>2
  <2>3. CASE p = 2
    <3>1. h \in Seq(Messages) /\ Len(h) \in Nat /\ 2 \in 1..Len(h) /\ h[2].role # "tool"
      <4>1. h \in Seq(Messages)
        BY DEF Whole
      <4>2. Len(h) \in Nat /\ \A i \in 1..Len(h) : i \in Heads(h) <=> h[i].role # "tool"
        BY <4>1, HeadPositions
      <4>3. 2 \in Heads(h)
        BY PromptIsUnit
      <4> QED BY <4>1, <4>2, <4>3
    <3>2. /\ Len(t) - 1 = Len(h) - 1
          /\ \A k \in 2..Len(t) : t[k].role = h[k].role
      <4>1. Alike(t, 1, h, 1)
        BY <1>2, <2>3
      <4>2. Len(t) - 1 = Len(h) - 1 /\ \A k \in 1 + 1..Len(t) : t[k].role = h[k - 1 + 1].role
        BY <4>1 DEF Alike
      <4>3. ASSUME NEW k \in 2..Len(t) PROVE k \in 1 + 1..Len(t) /\ k - 1 + 1 = k
        BY <4>3
      <4> QED BY <4>2, <4>3
    <3>3. 2 \in 1..Len(t) /\ 2 \in 2..Len(t)
      BY <1>2, <3>1, <3>2
    <3>4. 2 \in 1..Len(t) /\ t[2].role = h[2].role
      BY <3>2, <3>3
    <3> QED BY <1>3, <2>1, <3>1, <3>4, HeadPositions
  <2> QED BY <1>4, <2>2, <2>3
<1>6. Boundary(t, 1) /\ \A i \in Heads(t) : i \in 1..Len(t)
  <2>1. 1 + 1 = 2
    OBVIOUS
  <2> QED BY <1>3, <1>5, <2>1, HeadPositions DEF Boundary
<1>7. UnitsCovered(units, 1) = 1
  <2>1. Count(Heads(t), 1) = 1
    BY <1>2, <1>5, <1>6, FirstCount
  <2> QED BY <1>3, <1>6, <2>1, UnitsCounted
<1>8. IsFiniteSet(units) /\ \A m \in Nat : UnitsCovered(units, m) \in Nat
  BY <1>3, UnitsCounted
<1>9. ASSUME s.units = UnknownUnits PROVE UnitsCovered(units, s.messages) # 0
  <2>1. {u \in units : u.last <= 1} \in SUBSET {u \in units : u.last <= s.messages}
    <3>1. ASSUME NEW u \in units, u.last <= 1 PROVE u.last <= s.messages
      <4>1. u.last \in u.first..Len(t) /\ u.first \in Heads(t)
        BY <1>3, UnitsOfWhole
      <4>2. u.last \in Int
        BY <1>2, <1>6, <4>1
      <4>3. s.messages \in Nat /\ s.messages # 0
        BY <1>1, <1>9
      <4> QED BY <3>1, <4>2, <4>3
    <3> QED BY <3>1
  <2>2. {u \in units : u.last <= s.messages} \in SUBSET units
    OBVIOUS
  <2>3. IsFiniteSet({u \in units : u.last <= s.messages})
    BY <1>8, <2>2, FS_Subset
  <2>4. Cardinality({u \in units : u.last <= 1}) <= Cardinality({u \in units : u.last <= s.messages})
    BY <2>1, <2>3, FS_Subset
  <2>5. UnitsCovered(units, 1) <= UnitsCovered(units, s.messages)
    BY <2>4 DEF UnitsCovered
  <2> QED BY <1>1, <1>7, <1>8, <2>5
<1> QED BY <1>1, <1>8, <1>9 DEF CoveredUnits

\* The prompt is not counted among the units behind it.
LEMMA UnitsBehind ==
  ASSUME NEW h \in Seq(Messages), Len(h) # 0
  PROVE  Cardinality(After(Heads(h), 1)) \in Nat /\ Cardinality(After(Heads(h), 1)) <= Len(h) - 1
<1>1. Len(h) \in Nat /\ \A i \in Heads(h) : i \in 1..Len(h)
  BY HeadPositions
<1>2. 2 \in Int /\ Len(h) \in Int
  BY <1>1
<1>3. IsFiniteSet(2..Len(h)) /\ Cardinality(2..Len(h)) = IF 2 > Len(h) THEN 0 ELSE Len(h) - 2 + 1
  BY <1>2, FS_Interval
<1>4. After(Heads(h), 1) \in SUBSET (2..Len(h))
  BY <1>1 DEF After
<1>5. IsFiniteSet(After(Heads(h), 1)) /\ Cardinality(After(Heads(h), 1)) <= Cardinality(2..Len(h))
  BY <1>3, <1>4, FS_Subset
<1>6. Cardinality(After(Heads(h), 1)) \in Nat
  BY <1>5, FS_CardinalityType
<1> QED BY <1>1, <1>3, <1>5, <1>6

\* What follows a later unit is less.
LEMMA LaterIsLess ==
  ASSUME NEW h, Whole(h), NEW c \in 1..Len(h)
  PROVE  /\ Cardinality(After(Heads(h), c)) \in Nat /\ Cardinality(After(Heads(h), 1)) \in Nat
         /\ Cardinality(After(Heads(h), c)) <= Cardinality(After(Heads(h), 1))
<1>1. h \in Seq(Messages)
  BY DEF Whole
<1>2. Len(h) \in Nat /\ \A i \in Heads(h) : i \in 1..Len(h)
  BY <1>1, HeadPositions
<1>3. 1 \in Int /\ c \in Int /\ 1 <= c
  BY <1>2
<1> QED BY <1>2, <1>3, AfterShrinks

\* The summary of a state is sent; it hides what the state covers.
LEMMA AppliedSends ==
  ASSUME NEW h, Whole(h), Len(h) >= 2, h[1] = Prompt, NEW msgs, NEW p \in 2..3, Sends(msgs, p, h, 1),
         NEW s, StateTypeOK(s), NEW r, r = IfValid(ApplySummary(msgs, s), msgs)
  PROVE  \E q \in 2..3, c \in 1..Len(h) :
           /\ Sends(r, q, h, c) /\ (c # 1 => q = 2) /\ (s # NoState => r[2] = Summary)
           /\ /\ s # NoState /\ s.units # UnknownUnits
              /\ s.units + ProtectedRecent <= Cardinality(After(Heads(h), 1)) + 1
              /\ c # 1
              => ProtectedRecent <= Cardinality(After(Heads(h), c))
<1>1. Len(h) \in Nat /\ 1 \in 1..Len(h)
  BY SentIsWhole
<1>2. CASE s = NoState
  <2>1. ApplySummary(msgs, s) = msgs
    BY <1>2 DEF ApplySummary
  <2>2. r = msgs
    BY <2>1 DEF IfValid
  <2> QED BY <1>1, <1>2, <2>2
<1>3. CASE s # NoState
  <2> DEFINE n == CoveredUnits(BuildUnits(Tail(msgs)), s)
             x == ApplySummary(msgs, s)
             L == Cardinality(After(Heads(h), 1))
             size == p - 1 + L
  <2>1. n \in Nat /\ n # 0
    BY <1>3, SomeCovered
  <2>2. n = CoveredUnits(BuildUnits(Tail(msgs)), s)
    OBVIOUS
  <2>3. s.units # UnknownUnits => n = s.units
    BY DEF CoveredUnits
  <2> HIDE DEF n
  <2>4. \E q, c : /\ Sends(x, q, h, c) /\ x[2] = Summary
                  /\ \/ c = 1 /\ q > 2 /\ (n # 0 => q <= p)
                     \/ q = 2 /\ Cardinality(After(Heads(h), c)) = IF n <= size THEN size - n ELSE 0
    BY <1>3, <2>1, <2>2, SummarySends
  <2> HIDE DEF x
  <2>5. PICK q, c : /\ Sends(x, q, h, c) /\ x[2] = Summary
                    /\ \/ c = 1 /\ q > 2 /\ (n # 0 => q <= p)
                       \/ q = 2 /\ Cardinality(After(Heads(h), c)) = IF n <= size THEN size - n ELSE 0
    BY <2>4
  <2>6. Canonical(x) /\ q \in Nat /\ 2 <= q /\ c \in 1..Len(h)
    BY <2>5, SentIsWhole
  <2>7. r = x
    BY <2>6 DEF IfValid, x
  <2>8. q \in 2..3 /\ (c # 1 => q = 2)
    BY <2>1, <2>5, <2>6
  <2>9. L \in Nat
    BY <1>1, LaterIsLess
  <2>10. ASSUME s.units # UnknownUnits, s.units + ProtectedRecent <= L + 1, c # 1
         PROVE  ProtectedRecent <= Cardinality(After(Heads(h), c))
    <3>1. s.units = n
      BY <2>3, <2>10
    <3>2. ProtectedRecent \in Nat
      BY CompactionBounds
    <3>3. Cardinality(After(Heads(h), c)) = IF n <= size THEN size - n ELSE 0
      BY <2>5, <2>10
    <3>4. n + ProtectedRecent <= L + 1
      BY <2>10, <3>1
    <3>5. n <= size /\ ProtectedRecent <= size - n
      <4> HIDE DEF L
      <4> QED BY <2>1, <2>9, <3>2, <3>4
    <3> QED BY <3>3, <3>5
  <2> QED BY <1>3, <2>5, <2>6, <2>7, <2>8, <2>10
<1> QED BY <1>2, <1>3

\* What the collapse leaves is sent as before.
LEMMA FoldedSends ==
  ASSUME NEW h, Whole(h), NEW msgs, NEW p, NEW c, Sends(msgs, p, h, c), NEW large,
         NEW r, r = IfValid(Collapse(msgs, large, RecentToolUnits), msgs)
  PROVE  Sends(r, p, h, c) /\ r[2] = msgs[2]
<1> DEFINE x == Collapse(msgs, large, RecentToolUnits)
<1>1. Sends(x, p, h, c) /\ x[2] = msgs[2]
  BY CollapseSends
<1>2. Canonical(x)
  BY <1>1, SentIsWhole
<1>3. r = x
  BY <1>2 DEF IfValid
<1> QED BY <1>1, <1>3

\* A compaction leaves the protected units, and its state covers all others.
LEMMA ShortSends ==
  ASSUME NEW h, Whole(h), Len(h) \in 2..MaxLive, NEW msgs, NEW p \in 2..3, NEW c \in 1..Len(h),
         Sends(msgs, p, h, c), c # 1 => p = 2,
         NEW s, StateTypeOK(s), s.version < MaxVersion,
         NEW units, units = BuildUnits(Tail(msgs)), CanCompact(units, s),
         NEW next, next = Compacted(units, s),
         NEW r, r = IfValid(ApplySummary(msgs, next), msgs)
  PROVE  /\ StateTypeOK(next) /\ next # NoState /\ next # s
         /\ next.units + ProtectedRecent <= Cardinality(After(Heads(h), 1)) + 2
         /\ r[2] = Summary
         /\ \E q, d : Sends(r, q, h, d) /\ (d # 1 => ProtectedRecent <= Cardinality(After(Heads(h), d)))
<1> DEFINE t == Tail(msgs)
           A == Cardinality(After(Heads(h), c))
           L == Cardinality(After(Heads(h), 1))
           N == p - 1 + A
<1>1. /\ s \in [units : Nat, messages : Nat, version : 0..MaxVersion]
      /\ ProtectedRecent \in Nat /\ ProtectedRecent # 0 /\ MaxLive \in Nat /\ MaxVersion \in Nat
  BY CompactionBounds DEF StateTypeOK
<1>2. A \in Nat /\ L \in Nat /\ A <= L /\ L <= Len(h) - 1
  <2>1. h \in Seq(Messages) /\ Len(h) # 0
    BY DEF Whole
  <2> QED BY <2>1, UnitsBehind, LaterIsLess
<1>3. /\ Whole(t) /\ Len(t) \in Nat
      /\ Cardinality(Heads(t)) = N
  BY HistoryIsWhole
<1>4. t \in Seq(Messages) /\ Batched(t) /\ OneAnswer(t)
  BY <1>3 DEF Whole
<1>5. Cardinality(units) = N /\ \A m \in Nat : UnitsCovered(units, m) \in Nat
  BY <1>3, <1>4, UnitsCounted
<1>6. CoveredUnits(units, s) \in Nat
  BY <1>1, <1>5 DEF CoveredUnits
<1> HIDE DEF A, L
<1>7. /\ N > ProtectedRecent /\ ProtectedStart(units) = N - ProtectedRecent
      /\ N - ProtectedRecent \in Nat /\ N - ProtectedRecent # 0
  <2>1. N \in Nat
    BY <1>2
  <2>2. ProtectedStart(units) > CoveredUnits(units, s)
    BY DEF CanCompact
  <2>3. ProtectedStart(units) = IF N > ProtectedRecent THEN N - ProtectedRecent ELSE 0
    BY <1>5 DEF ProtectedStart
  <2> HIDE DEF N
  <2> QED BY <1>1, <1>6, <2>1, <2>2, <2>3
<1>8. N - ProtectedRecent <= MaxLive /\ N <= L + 2
  BY <1>1, <1>2
<1> DEFINE n == N - ProtectedRecent
<1>9. MessagesBefore(units, n) \in Nat
  <2>1. n \in Nat
    BY <1>7
  <2> HIDE DEF n, N
  <2>2. MessagesBefore(BuildUnits(t), n) \in 0..Len(t)
    BY <1>4, <2>1, CutAtUnits
  <2> QED BY <1>3, <2>2
<1>10. /\ next.units = n /\ next.messages = MessagesBefore(units, n) /\ next.version = s.version + 1
       /\ next = [units |-> n, messages |-> MessagesBefore(units, n), version |-> s.version + 1]
  BY <1>7 DEF Compacted
<1>11. n \in Nat /\ n # 0 /\ n <= MaxLive /\ n + ProtectedRecent <= L + 2
  BY <1>1, <1>2, <1>7, <1>8
<1>12. s.version \in Nat /\ s.version + 1 \in 0..MaxVersion /\ s.version + 1 # 0 /\ s.version + 1 # s.version
  BY <1>1
<1>13. StateTypeOK(next) /\ next # NoState /\ next # s
  <2> HIDE DEF n
  <2>1. next \in [units : Nat, messages : Nat, version : 0..MaxVersion]
    BY <1>9, <1>10, <1>11, <1>12
  <2>2. next.version # 0 /\ next.version # s.version /\ next.units # 0 /\ next.units <= MaxLive
    BY <1>10, <1>11, <1>12
  <2>3. NoState.version = 0
    BY DEF NoState
  <2>4. next # NoState /\ next # s
    BY <2>2, <2>3
  <2> QED BY <2>1, <2>2, <2>4 DEF StateTypeOK
<1>14. n = CoveredUnits(BuildUnits(Tail(msgs)), next)
  <2>1. next.units = n /\ n # UnknownUnits
    BY <1>1, <1>10, <1>11 DEF UnknownUnits
  <2> QED BY <2>1 DEF CoveredUnits
<1> HIDE DEF n
<1> DEFINE x == ApplySummary(msgs, next)
<1>15. \E q, d : /\ Sends(x, q, h, d) /\ x[2] = Summary
                 /\ \/ d = c /\ q > 2 /\ (n # 0 => q <= p)
                    \/ q = 2 /\ Cardinality(After(Heads(h), d)) = IF n <= N THEN N - n ELSE 0
  BY <1>11, <1>13, <1>14, SummarySends DEF A
<1> HIDE DEF x
<1>16. PICK q, d : /\ Sends(x, q, h, d) /\ x[2] = Summary
                   /\ \/ d = c /\ q > 2 /\ (n # 0 => q <= p)
                      \/ q = 2 /\ Cardinality(After(Heads(h), d)) = IF n <= N THEN N - n ELSE 0
  BY <1>15
<1>17. Canonical(x) /\ q \in Nat
  BY <1>16, SentIsWhole
<1>18. r = x
  BY <1>17 DEF IfValid, x
<1>19. ASSUME d # 1 PROVE ProtectedRecent <= Cardinality(After(Heads(h), d))
  <2>1. CASE d = c /\ q > 2 /\ (n # 0 => q <= p)
    BY <1>11, <1>17, <1>19, <2>1
  <2>2. CASE q = 2 /\ Cardinality(After(Heads(h), d)) = IF n <= N THEN N - n ELSE 0
    <3>1. n <= N /\ N - n = ProtectedRecent
      BY <1>1, <1>2 DEF n
    <3>2. Cardinality(After(Heads(h), d)) = ProtectedRecent
      BY <2>2, <3>1
    <3> QED BY <1>1, <3>2
  <2> QED BY <1>16, <2>1, <2>2
<1>20. next.units + ProtectedRecent <= L + 2
  BY <1>10, <1>11
<1> QED BY <1>13, <1>16, <1>18, <1>19, <1>20 DEF L

-----------------------------------------------------------------------------
(* The steps.                                                              *)
\* The parts of the invariant about the live transcript.
LEMMA LiveParts ==
  ASSUME LiveOK
  PROVE  /\ \E n \in Nat : Proper(live, n)
         /\ Whole(live) /\ StoredAreOld(live) /\ live[1] = Prompt
         /\ live \in Seq(Messages) /\ Len(live) \in 2..MaxLive /\ Len(live) >= 2 /\ Len(live) # 0
<1>1. MaxLive \in Nat
  BY CompactionBounds
<1>2. PICK n \in Nat : Proper(live, n)
  BY DEF LiveOK
<1>3. Len(live) \in 2..MaxLive
  BY DEF LiveOK
<1>4. Len(live) >= 2 /\ Len(live) # 0
  BY <1>1, <1>3
<1> QED BY <1>2, <1>3, <1>4 DEF Proper, Whole

\* The first transcript of a session, with no state or with one that an older version stored.
LEMMA InitHolds == CtxInit => CtxInv
<1> SUFFICES ASSUME CtxInit PROVE CtxInv
  OBVIOUS
<1>1. /\ live = <<Prompt, Msg("user", <<>>)>> /\ compiled = <<>> /\ state = committed
      /\ committed \in {NoState} \union {Legacy(n) : n \in LegacyCounts}
      /\ carried = TRUE /\ grown = TRUE
  BY DEF CtxInit
<1>2. live \in Seq(Messages) /\ Len(live) = 2 /\ live[1] = Prompt /\ live[2] = Msg("user", <<>>)
  BY <1>1 DEF Prompt, Msg, Messages, Roles
<1>3. ASSUME NEW i \in 1..Len(live)
      PROVE  /\ live[i].role # "tool" /\ ~live[i].stored /\ live[i].role # "plan"
             /\ live[i].role = "assistant" => live[i].calls = <<>>
  <2>1. i = 1 \/ i = 2
    BY <1>2
  <2> QED BY <1>2, <2>1 DEF Prompt, Msg
<1>4. Whole(live) /\ StoredAreOld(live) /\ \A k : k \notin Ids(live)
  BY <1>2, <1>3, PlainIsWhole
<1>5. Proper(live, 0)
  <2>1. \A k : k \in Ids(live) <=> k \in 1..0
    BY <1>4
  <2>2. OnePlan(live)
    BY <1>2, <1>3, MessageParts DEF OnePlan
  <2> QED BY <1>2, <1>4, <2>1, <2>2 DEF Proper
<1>6. LiveOK
  BY <1>2, <1>5, CompactionBounds DEF LiveOK
<1>7. StateTypeOK(state) /\ StateTypeOK(committed)
  <2>1. StateTypeOK(NoState)
    BY CompactionBounds DEF StateTypeOK, NoState
  <2>2. ASSUME NEW n \in LegacyCounts PROVE StateTypeOK(Legacy(n))
    BY CompactionBounds DEF StateTypeOK, Legacy, NoState, UnknownUnits
  <2> QED BY <1>1, <2>1, <2>2
<1>8. StateOK
  BY <1>1, <1>7 DEF StateOK
<1>9. ToolChainKept /\ RecentUnitsStay
  BY <1>1 DEF ToolChainKept, RecentUnitsStay
<1> QED BY <1>1, <1>6, <1>8, <1>9 DEF CtxInv

\* What a round sends and keeps.
LEMMA SendHolds ==
  ASSUME CtxInv, NEW msgs, NEW p, NEW c, Sends(msgs, p, live, c), NEW s, Send(msgs, s), StateTypeOK(s),
         s # NoState => msgs[2] = Summary,
         ~(carried /\ s = state) => /\ s # NoState
                                    /\ s.units + ProtectedRecent <= LiveUnits + 2
                                    /\ c # 1 => ProtectedRecent <= Cardinality(After(Heads(live), c))
  PROVE  CtxInv'
<1>1. LiveOK /\ StateOK /\ carried \in BOOLEAN
  BY DEF CtxInv
<1>2. /\ compiled' = msgs /\ state' = s /\ grown' = FALSE /\ carried' = (carried /\ s = state)
      /\ live' = WriteBack(live, Pointers(msgs)) /\ committed' = committed
  BY DEF Send
<1>3. PICK n \in Nat : Proper(live, n)
  BY <1>1, LiveParts
<1>4. Whole(live) /\ Len(live) \in 2..MaxLive /\ Len(live) >= 2
  BY <1>1, LiveParts
<1>5. Proper(live', n) /\ Len(live') = Len(live) /\ Heads(live') = Heads(live)
  BY <1>2, <1>3, SentLive
<1>6. LiveOK'
  BY <1>4, <1>5 DEF LiveOK
<1>7. LiveUnits' = LiveUnits
  BY <1>5 DEF LiveUnits
<1>8. StateOK'
  <2>1. StateTypeOK(state') /\ StateTypeOK(committed')
    BY <1>1, <1>2 DEF StateOK
  <2>2. ASSUME ~carried' PROVE state' # NoState /\ state'.units + ProtectedRecent <= LiveUnits' + 2
    BY <1>2, <1>7, <2>2
  <2> QED BY <1>2, <2>1, <2>2 DEF StateOK
<1>9. Canonical(msgs) /\ \A u \in BuildUnits(msgs) : u.complete
  BY <1>4, SentChain
<1>10. ToolChainKept'
  BY <1>2, <1>9 DEF ToolChainKept
<1>11. ASSUME ~carried' PROVE EndsWith(msgs, LastUnits(Tail(live'), ProtectedRecent))
  BY <1>2, <1>3, <1>4, <1>11, SentWindow
<1>12. ASSUME NEW u \in BuildUnits(msgs), u.batch,
              Cardinality({v \in BuildUnits(msgs) : v.first > u.first /\ v.batch}) < RecentToolUnits,
              NEW i \in u.first..u.last
       PROVE  ~msgs[i].stored
  BY <1>4, <1>12, SentNewest
<1>13. RecentUnitsStay'
  BY <1>2, <1>11, <1>12 DEF RecentUnitsStay, History
<1>14. carried' \in BOOLEAN /\ grown' \in BOOLEAN
  BY <1>1, <1>2
<1> QED BY <1>6, <1>8, <1>10, <1>13, <1>14 DEF CtxInv

\* A round: blocks, summary, collapse, and a compaction when the transcript is still too long.
LEMMA RoundHolds == CtxInv /\ Round => CtxInv'
<1> SUFFICES ASSUME CtxInv, Round PROVE CtxInv'
  OBVIOUS
<1>1. grown
  BY DEF Round
<1>2. PICK memory \in BOOLEAN, full \in BOOLEAN, large \in {{}, 1..Len(live) + 3} :
        (full => state.version < MaxVersion) /\ Compile(memory, large, full)
  BY DEF Round
<1>3. LiveOK /\ StateOK /\ carried \in BOOLEAN
  BY DEF CtxInv
<1>4. Whole(live) /\ StoredAreOld(live) /\ live[1] = Prompt /\ Len(live) >= 2 /\ Len(live) \in 2..MaxLive
  BY <1>3, LiveParts
<1>5. StateTypeOK(state) /\ (~carried => state # NoState /\ state.units + ProtectedRecent <= LiveUnits + 1)
  BY <1>1, <1>3 DEF StateOK
<1> DEFINE injected == Injected(live, memory)
           applied == IfValid(ApplySummary(injected, state), injected)
           folded == IfValid(Collapse(applied, large, RecentToolUnits), applied)
           units == BuildUnits(History(folded))
           next == Compacted(units, state)
           short == IfValid(ApplySummary(folded, next), folded)
<1>6. \/ full /\ CanCompact(units, state) /\ Send(short, next)
      \/ Send(folded, state)
  BY <1>2 DEF Compile
<1>7. units = BuildUnits(Tail(folded))
  BY DEF History
<1>8. next = Compacted(units, state) /\ short = IfValid(ApplySummary(folded, next), folded)
  OBVIOUS
<1> HIDE DEF short, next, units
<1>9. folded = IfValid(Collapse(applied, large, RecentToolUnits), applied)
  OBVIOUS
<1> HIDE DEF folded
<1>10. applied = IfValid(ApplySummary(injected, state), injected)
  OBVIOUS
<1> HIDE DEF applied
<1>11. PICK p \in 2..3 : Sends(injected, p, live, 1)
  BY <1>4, InjectedSends
<1> HIDE DEF injected
<1>12. PICK q \in 2..3, c \in 1..Len(live) :
         /\ Sends(applied, q, live, c) /\ (c # 1 => q = 2) /\ (state # NoState => applied[2] = Summary)
         /\ /\ state # NoState /\ state.units # UnknownUnits
            /\ state.units + ProtectedRecent <= Cardinality(After(Heads(live), 1)) + 1
            /\ c # 1
            => ProtectedRecent <= Cardinality(After(Heads(live), c))
  BY <1>4, <1>5, <1>10, <1>11, AppliedSends
<1>13. Sends(folded, q, live, c) /\ folded[2] = applied[2]
  BY <1>4, <1>9, <1>12, FoldedSends
<1>14. CASE Send(folded, state)
  <2>1. state # NoState => folded[2] = Summary
    BY <1>12, <1>13
  <2>2. ASSUME ~carried
        PROVE  /\ state # NoState /\ state.units + ProtectedRecent <= LiveUnits + 2
               /\ c # 1 => ProtectedRecent <= Cardinality(After(Heads(live), c))
    <3>1. /\ ProtectedRecent \in Nat /\ MaxLive \in Nat /\ ProtectedRecent # 0
      BY CompactionBounds
    <3>2. LiveUnits \in Nat /\ LiveUnits <= Len(live) - 1
      <4>1. live \in Seq(Messages) /\ Len(live) # 0
        BY <1>3, LiveParts
      <4> QED BY <4>1, UnitsBehind DEF LiveUnits
    <3>3. state # NoState /\ state.units + ProtectedRecent <= LiveUnits + 1 /\ state.units \in Nat
      BY <1>5, <2>2 DEF StateTypeOK
    <3>4. state.units # UnknownUnits /\ state.units + ProtectedRecent <= LiveUnits + 2
      BY <1>4, <3>1, <3>2, <3>3 DEF UnknownUnits
    <3>5. c # 1 => ProtectedRecent <= Cardinality(After(Heads(live), c))
      BY <1>12, <3>3, <3>4 DEF LiveUnits
    <3> QED BY <3>3, <3>4, <3>5
  <2> QED BY <1>5, <1>13, <1>14, <2>1, <2>2, SendHolds
<1>15. CASE full /\ CanCompact(units, state) /\ Send(short, next)
  <2>1. state.version < MaxVersion
    BY <1>2, <1>15
  <2>2. /\ StateTypeOK(next) /\ next # NoState /\ next # state
        /\ next.units + ProtectedRecent <= Cardinality(After(Heads(live), 1)) + 2
        /\ short[2] = Summary
        /\ \E x, d : Sends(short, x, live, d) /\ (d # 1 => ProtectedRecent <= Cardinality(After(Heads(live), d)))
    BY <1>4, <1>5, <1>7, <1>8, <1>12, <1>13, <1>15, <2>1, ShortSends
  <2>3. PICK x, d : Sends(short, x, live, d) /\ (d # 1 => ProtectedRecent <= Cardinality(After(Heads(live), d)))
    BY <2>2
  <2>4. next.units + ProtectedRecent <= LiveUnits + 2
    BY <2>2 DEF LiveUnits
  <2> QED BY <1>15, <2>2, <2>3, <2>4, SendHolds
<1> QED BY <1>6, <1>14, <1>15

\* What the runtime appends leaves a proper transcript with one unit more.
LEMMA GrowHolds ==
  ASSUME CtxInv, NEW msgs, Grow(msgs), NEW n \in Nat, Proper(msgs, n), Len(msgs) >= 2,
         LiveUnits + 1 <= Cardinality(After(Heads(msgs), 1))
  PROVE  CtxInv'
<1>1. LiveOK /\ StateOK /\ carried \in BOOLEAN /\ ToolChainKept
  BY DEF CtxInv
<1>2. /\ live' = msgs /\ grown' = TRUE /\ state' = state /\ committed' = committed
      /\ carried' = carried /\ compiled' = compiled /\ Len(msgs) <= MaxLive
  BY DEF Grow
<1>3. Len(msgs) \in 2..MaxLive
  <2>1. msgs \in Seq(Messages)
    BY DEF Proper, Whole
  <2>2. Len(msgs) \in Nat /\ MaxLive \in Nat
    BY <2>1, HeadPositions, CompactionBounds
  <2> QED BY <1>2, <2>2
<1>4. LiveOK'
  BY <1>2, <1>3 DEF LiveOK
<1>5. LiveUnits' = Cardinality(After(Heads(msgs), 1))
  BY <1>2 DEF LiveUnits
<1>6. LiveUnits \in Nat /\ LiveUnits' \in Nat
  <2>1. live \in Seq(Messages) /\ Len(live) # 0 /\ msgs \in Seq(Messages) /\ Len(msgs) # 0
    BY <1>1, LiveParts DEF Proper, Whole
  <2> QED BY <1>5, <2>1, UnitsBehind DEF LiveUnits
<1>7. StateOK'
  <2>1. StateTypeOK(state') /\ StateTypeOK(committed')
    BY <1>1, <1>2 DEF StateOK
  <2>2. ASSUME ~carried' PROVE state' # NoState /\ state'.units + ProtectedRecent <= LiveUnits' + 1
    <3>1. state # NoState /\ state.units + ProtectedRecent <= LiveUnits + (IF grown THEN 1 ELSE 2)
      BY <1>1, <1>2, <2>2 DEF StateOK
    <3>2. state.units \in Nat /\ ProtectedRecent \in Nat
      BY <1>1, CompactionBounds DEF StateOK, StateTypeOK
    <3>3. LiveUnits + 1 <= LiveUnits'
      BY <1>5
    <3>4. state.units + ProtectedRecent <= LiveUnits' + 1
      BY <1>6, <3>1, <3>2, <3>3
    <3> QED BY <1>2, <3>1, <3>4
  <2> QED BY <1>2, <2>1, <2>2 DEF StateOK
<1>8. ToolChainKept'
  BY <1>1, <1>2 DEF ToolChainKept
<1>9. RecentUnitsStay'
  BY <1>2 DEF RecentUnitsStay
<1>10. carried' \in BOOLEAN /\ grown' \in BOOLEAN
  BY <1>1, <1>2
<1> QED BY <1>4, <1>7, <1>8, <1>9, <1>10 DEF CtxInv

\* One message that is no call.
LEMMA OneMessage ==
  ASSUME NEW role \in Roles \ {"tool"}, NEW y, y = <<Msg(role, <<>>)>>
  PROVE  /\ Whole(y) /\ Len(y) # 0 /\ Len(y) = 1 /\ OnePlan(y) /\ \A i \in 1..Len(y) : ~y[i].stored
         /\ \A k : k \notin Ids(y)
         /\ role # "plan" => NoPlan(y)
<1>1. y \in Seq(Messages) /\ Len(y) = 1 /\ y[1] = Msg(role, <<>>)
  BY DEF Msg, Messages
<1>2. ASSUME NEW i \in 1..Len(y)
      PROVE  i = 1 /\ y[i].role = role /\ ~y[i].stored /\ y[i].calls = <<>>
  BY <1>1, <1>2 DEF Msg
<1>3. \A i \in 1..Len(y) : y[i].role # "tool" /\ ~y[i].stored /\ (y[i].role = "assistant" => y[i].calls = <<>>)
  BY <1>2
<1>4. Whole(y) /\ \A k : k \notin Ids(y)
  BY <1>1, <1>3, PlainIsWhole
<1>5. OnePlan(y) /\ (role # "plan" => NoPlan(y))
  BY <1>1, <1>2, MessageParts DEF OnePlan, NoPlan
<1> QED BY <1>1, <1>2, <1>4, <1>5

\* A clarification and its answer, or the answer of a run and the next message of the user.
LEMMA TwoMessages ==
  ASSUME NEW y, y = <<Msg("assistant", <<>>), Msg("user", <<>>)>>
  PROVE  /\ Whole(y) /\ Len(y) # 0 /\ Len(y) = 2 /\ NoPlan(y) /\ \A i \in 1..Len(y) : ~y[i].stored
         /\ \A k : k \notin Ids(y)
<1>1. y \in Seq(Messages) /\ Len(y) = 2 /\ y[1] = Msg("assistant", <<>>) /\ y[2] = Msg("user", <<>>)
  BY DEF Msg, Messages, Roles
<1>2. ASSUME NEW i \in 1..Len(y)
      PROVE  y[i].role # "tool" /\ y[i].role # "plan" /\ ~y[i].stored /\ y[i].calls = <<>>
  <2>1. i = 1 \/ i = 2
    BY <1>1
  <2> QED BY <1>1, <2>1 DEF Msg
<1> DEFINE z == y
<1>3. /\ z \in Seq(Messages)
      /\ \A i \in 1..Len(z) : z[i].role # "tool" /\ ~z[i].stored /\ (z[i].role = "assistant" => z[i].calls = <<>>)
  BY <1>1, <1>2
<1> HIDE DEF z
<1>4. Whole(z) /\ \A k : k \notin Ids(z)
  BY <1>3, PlainIsWhole
<1>5. z = y
  BY DEF z
<1>6. DOMAIN y = 1..Len(y)
  BY <1>1
<1>7. NoPlan(y)
  BY <1>2, <1>6 DEF NoPlan
<1> QED BY <1>1, <1>2, <1>4, <1>5, <1>7

\* What is appended when nothing was called: no call more.
LEMMA AppendedPlain ==
  ASSUME NEW x, NEW n \in Nat, Proper(x, n), NEW y, Whole(y), Len(y) # 0, \A i \in 1..Len(y) : ~y[i].stored,
         \A k : k \notin Ids(y), NoPlan(y) \/ (NoPlan(x) /\ OnePlan(y)), NEW r, r = x \o y
  PROVE  Proper(r, n) /\ Longer(x, y, r)
<1>1. 0 \in Nat /\ n + 0 = n /\ \A k : k \in Ids(y) <=> k \in n + 1..n + 0
  OBVIOUS
<1> DEFINE m == 0
<1>2. m \in Nat /\ \A k : k \in Ids(y) <=> k \in n + 1..n + m
  BY <1>1
<1>6. n + m = n
  BY <1>1
<1> HIDE DEF m
<1> DEFINE z == r
<1>3. z = x \o y /\ ((NoPlan(x) /\ OnePlan(y)) \/ NoPlan(y))
  OBVIOUS
<1> HIDE DEF z
<1>4. Proper(z, n + m) /\ Longer(x, y, z)
  BY <1>2, <1>3, Appended
<1>5. z = r
  BY DEF z
<1> QED BY <1>4, <1>5, <1>6

\* A batch of calls and their answers.
LEMMA AppendedBatch ==
  ASSUME NEW x, NEW n \in Nat, Proper(x, n), NEW s \in Nat \ {0}, NEW y, y = BatchOf(n, s), NEW r, r = x \o y
  PROVE  Proper(r, n + s) /\ Longer(x, y, r) /\ Len(y) # 0 /\ (NoPlan(x) => NoPlan(r))
<1>1. /\ Whole(y) /\ Len(y) # 0 /\ NoPlan(y) /\ \A i \in 1..Len(y) : ~y[i].stored
      /\ \A k : k \in Ids(y) <=> k \in n + 1..n + s
  BY BatchIsWhole
<1>2. s \in Nat
  OBVIOUS
<1> DEFINE b == y
<1>3. /\ Whole(b) /\ Len(b) # 0 /\ NoPlan(b) /\ (\A i \in 1..Len(b) : ~b[i].stored) /\ r = x \o b
      /\ \A k : k \in Ids(b) <=> k \in n + 1..n + s
  BY <1>1
<1>4. b = y
  OBVIOUS
<1> HIDE DEF b
<1>5. Proper(r, n + s) /\ Longer(x, b, r) /\ (NoPlan(x) /\ NoPlan(b) => NoPlan(r))
  BY <1>2, <1>3, Appended
<1> QED BY <1>3, <1>4, <1>5

\* The batch that follows a proper transcript.
LEMMA NextBatch ==
  ASSUME LiveOK, NEW n \in Nat, Proper(live, n), NEW s \in 1..2
  PROVE  Batch(s) = BatchOf(n, s) /\ s \in Nat \ {0}
<1>1. CallsSoFar = Ids(live)
  BY DEF CallsSoFar, Ids
<1>2. \A k : k \in CallsSoFar <=> k \in 1..n
  BY <1>1 DEF Proper
<1>3. CallsSoFar = 1..n
  BY <1>2
<1>4. Cardinality(CallsSoFar) = n
  <2>1. 1 \in Int /\ n \in Int
    OBVIOUS
  <2>2. Cardinality(1..n) = IF 1 > n THEN 0 ELSE n - 1 + 1
    BY <2>1, FS_Interval
  <2> QED BY <1>3, <2>2
<1> QED BY <1>4 DEF Batch, BatchOf

\* The runtime appends a batch, with or without a new plan, or messages without calls.
LEMMA ExtendHolds == CtxInv /\ Extend => CtxInv'
<1> SUFFICES ASSUME CtxInv, Extend PROVE CtxInv'
  OBVIOUS
<1>1. LiveOK
  BY DEF CtxInv
<1>2. PICK n \in Nat : Proper(live, n)
  BY <1>1, LiveParts
<1>3. Len(live) >= 2 /\ Len(live) # 0 /\ live \in Seq(Messages) /\ Len(live) \in Nat
  BY <1>1, LiveParts, HeadPositions
<1>4. ASSUME NEW s \in 1..2, Grow(live \o Batch(s)) PROVE CtxInv'
  <2> DEFINE y == BatchOf(n, s)
             r == live \o y
  <2>1. Grow(r) /\ s \in Nat \ {0}
    BY <1>1, <1>2, <1>4, NextBatch
  <2>a. y = BatchOf(n, s)
    OBVIOUS
  <2> HIDE DEF y
  <2>b. r = live \o y
    OBVIOUS
  <2> HIDE DEF r
  <2>2. Proper(r, n + s) /\ Longer(live, y, r)
    BY <1>2, <2>1, <2>a, <2>b, AppendedBatch
  <2>3. Len(r) >= 2 /\ n + s \in Nat
    BY <1>3, <2>1, <2>2 DEF Longer
  <2>4. LiveUnits + 1 <= Cardinality(After(Heads(r), 1))
    BY <2>2 DEF Longer, LiveUnits
  <2> QED BY <2>1, <2>2, <2>3, <2>4, GrowHolds
<1>5. ASSUME NEW s \in 1..2, Grow(WithoutPlan \o Batch(s) \o <<Msg("plan", <<>>)>>) PROVE CtxInv'
  <2> DEFINE kept == {i \in DOMAIN live : live[i].role # "plan"}
             w == Only(live, kept)
             y == BatchOf(n, s)
             x == w \o y
             plan == <<Msg("plan", <<>>)>>
             r == x \o plan
  <2>1. Grow(r) /\ s \in Nat \ {0}
    BY <1>1, <1>2, <1>5, NextBatch DEF WithoutPlan
  <2>2. \A i : i \in kept <=> i \in DOMAIN live /\ live[i].role # "plan"
    OBVIOUS
  <2> HIDE DEF kept
  <2>3. /\ Proper(w, n) /\ NoPlan(w)
        /\ Cardinality(After(Heads(live), 1)) \in Nat /\ Cardinality(After(Heads(w), 1)) \in Nat
        /\ Cardinality(After(Heads(live), 1)) <= Cardinality(After(Heads(w), 1)) + 1
    BY <1>2, <2>2, PlanRemoved
  <2> HIDE DEF w
  <2>a. y = BatchOf(n, s)
    OBVIOUS
  <2> HIDE DEF y
  <2>b. x = w \o y
    OBVIOUS
  <2> HIDE DEF x
  <2>4. Proper(x, n + s) /\ Longer(w, y, x) /\ Len(y) # 0 /\ NoPlan(x)
    BY <2>1, <2>3, <2>a, <2>b, AppendedBatch
  <2>5. "plan" \in Roles \ {"tool"}
    BY DEF Roles
  <2>6. /\ Whole(plan) /\ Len(plan) # 0 /\ Len(plan) = 1 /\ OnePlan(plan) /\ (\A i \in 1..Len(plan) : ~plan[i].stored)
        /\ \A k : k \notin Ids(plan)
    BY <2>5, OneMessage
  <2> HIDE DEF plan
  <2>7. n + s \in Nat /\ r = x \o plan
    BY <2>1
  <2> HIDE DEF r
  <2>8. Proper(r, n + s) /\ Longer(x, plan, r)
    BY <2>4, <2>6, <2>7, AppendedPlain
  <2>9. Len(r) >= 2
    BY <2>4, <2>6, <2>8 DEF Longer
  <2>10. LiveUnits + 1 <= Cardinality(After(Heads(r), 1))
    BY <2>3, <2>4, <2>8 DEF Longer, LiveUnits
  <2> QED BY <2>1, <2>7, <2>8, <2>9, <2>10, GrowHolds
<1>6. ASSUME Grow(live \o <<Msg("assistant", <<>>), Msg("user", <<>>)>>) PROVE CtxInv'
  <2> DEFINE y == <<Msg("assistant", <<>>), Msg("user", <<>>)>>
             r == live \o y
  <2>1. /\ Whole(y) /\ Len(y) # 0 /\ Len(y) = 2 /\ NoPlan(y) /\ \A i \in 1..Len(y) : ~y[i].stored
        /\ \A k : k \notin Ids(y)
    BY TwoMessages
  <2>2. Grow(r)
    BY <1>6
  <2> HIDE DEF y
  <2>3. Proper(r, n) /\ Longer(live, y, r)
    BY <1>2, <2>1, AppendedPlain
  <2> HIDE DEF r
  <2>4. Len(r) >= 2
    BY <1>3, <2>1, <2>3 DEF Longer
  <2>5. LiveUnits + 1 <= Cardinality(After(Heads(r), 1))
    BY <2>3 DEF Longer, LiveUnits
  <2> QED BY <2>2, <2>3, <2>4, <2>5, GrowHolds
<1>7. ASSUME NEW role \in {"user", "system"}, Grow(Append(live, Msg(role, <<>>))) PROVE CtxInv'
  <2> DEFINE y == <<Msg(role, <<>>)>>
             r == live \o y
  <2>1. role \in Roles \ {"tool"} /\ role # "plan"
    BY DEF Roles
  <2>2. /\ Whole(y) /\ Len(y) # 0 /\ Len(y) = 1 /\ NoPlan(y) /\ \A i \in 1..Len(y) : ~y[i].stored
        /\ \A k : k \notin Ids(y)
    BY <2>1, OneMessage
  <2>3. Grow(r)
    <3>1. Append(live, Msg(role, <<>>)) = live \o <<Msg(role, <<>>)>>
      <4>1. Msg(role, <<>>) \in Messages
        BY <2>1 DEF Msg, Messages
      <4> QED BY <1>3, <4>1
    <3> QED BY <1>7, <3>1
  <2> HIDE DEF y
  <2>4. Proper(r, n) /\ Longer(live, y, r)
    BY <1>2, <2>2, AppendedPlain
  <2> HIDE DEF r
  <2>5. Len(r) >= 2
    BY <1>3, <2>2, <2>4 DEF Longer
  <2>6. LiveUnits + 1 <= Cardinality(After(Heads(r), 1))
    BY <2>4 DEF Longer, LiveUnits
  <2> QED BY <2>3, <2>4, <2>5, <2>6, GrowHolds
<1> QED BY <1>4, <1>5, <1>6, <1>7 DEF Extend

\* The next run of the session.
LEMMA NextRunHolds == CtxInv /\ NextRun => CtxInv'
<1> SUFFICES ASSUME CtxInv, NextRun PROVE CtxInv'
  OBVIOUS
<1>1. LiveOK /\ StateOK
  BY DEF CtxInv
<1>2. /\ live' = Reloaded(live) \o <<Msg("assistant", <<>>), Msg("user", <<>>)>>
      /\ committed' = state /\ carried' = TRUE /\ grown' = TRUE /\ compiled' = <<>> /\ state' = state
      /\ Len(live) + 2 <= MaxLive
  BY DEF NextRun
<1>3. PICK n \in Nat : Proper(live, n)
  BY <1>1, LiveParts
<1>4. Len(live) \in Nat
  BY <1>1, LiveParts, HeadPositions
<1> DEFINE x == Reloaded(live)
           y == <<Msg("assistant", <<>>), Msg("user", <<>>)>>
<1>5. Proper(x, n) /\ NoPlan(x) /\ Len(x) \in Nat /\ Len(x) <= Len(live)
  BY <1>3, LoadedIsProper
<1>6. live' = x \o y
  BY <1>2
<1> HIDE DEF x
<1>7. /\ Whole(y) /\ Len(y) # 0 /\ Len(y) = 2 /\ NoPlan(y) /\ \A i \in 1..Len(y) : ~y[i].stored
      /\ \A k : k \notin Ids(y)
  BY TwoMessages
<1> HIDE DEF y
<1>8. Proper(live', n) /\ Len(live') = Len(x) + Len(y)
  <2> DEFINE r == x \o y
  <2>1. Proper(r, n) /\ Longer(x, y, r)
    BY <1>5, <1>7, AppendedPlain
  <2> QED BY <1>6, <2>1 DEF Longer
<1>9. Len(live') \in 2..MaxLive
  <2>1. MaxLive \in Nat
    BY CompactionBounds
  <2> QED BY <1>2, <1>4, <1>5, <1>7, <1>8, <2>1
<1>10. LiveOK'
  BY <1>8, <1>9 DEF LiveOK
<1>11. StateOK'
  BY <1>1, <1>2 DEF StateOK
<1>12. ToolChainKept' /\ RecentUnitsStay'
  BY <1>2 DEF ToolChainKept, RecentUnitsStay
<1> QED BY <1>2, <1>10, <1>11, <1>12 DEF CtxInv

\* The invariant says what the types say.
LEMMA CtxInvTypes == CtxInv => CtxTypeOK
<1> SUFFICES ASSUME CtxInv PROVE CtxTypeOK
  OBVIOUS
<1>1. LiveOK /\ StateOK /\ carried \in BOOLEAN /\ grown \in BOOLEAN
  BY DEF CtxInv
<1>2. live \in Seq(Messages) /\ Len(live) \in 2..MaxLive
  BY <1>1, LiveParts
<1>3. \A i \in DOMAIN live : live[i].role \in Roles /\ live[i].stored \in BOOLEAN
  BY <1>2, MessageParts
<1>4. Len(live) <= MaxLive
  BY <1>2, CompactionBounds
<1>5. \A s \in {state, committed} : s.units \in Nat /\ s.messages \in Nat /\ s.version \in 0..MaxVersion
  BY <1>1 DEF StateOK, StateTypeOK
<1> QED BY <1>1, <1>3, <1>4, <1>5 DEF CtxTypeOK

-----------------------------------------------------------------------------
(* The theorems.                                                           *)
\* The inductive invariant holds: proper transcripts, states that leave the window, and both
\* properties of what was sent last (compileRound(), and what the runtime and loadTranscript()
\* do between two rounds).
THEOREM CompactionInvariant == CtxSpec => []CtxInv
<1>1. CtxInit => CtxInv
  BY InitHolds
<1>2. CtxInv /\ [CtxNext]_ctxVars => CtxInv'
  <2> SUFFICES ASSUME CtxInv, [CtxNext]_ctxVars PROVE CtxInv'
    OBVIOUS
  <2>1. CASE Round
    BY <2>1, RoundHolds
  <2>2. CASE Extend
    BY <2>2, ExtendHolds
  <2>3. CASE NextRun
    BY <2>3, NextRunHolds
  <2>4. CASE UNCHANGED ctxVars
    BY <2>4 DEF ctxVars, CtxInv, LiveOK, LiveUnits, StateOK, ToolChainKept, RecentUnitsStay
  <2> QED BY <2>1, <2>2, <2>3, <2>4 DEF CtxNext
<1> QED BY <1>1, <1>2, PTL DEF CtxSpec

\* The live transcript and both states have their types, whatever a session does.
THEOREM CompactionTypes == CtxSpec => []CtxTypeOK
BY CompactionInvariant, CtxInvTypes, PTL

\* No tool message is ever sent without its call, no batch is cut, and a summary that exists is
\* sent, so the rollback of applyIfValid() is never taken: for every length of the transcript,
\* every size of a batch's answers that the runtime appends, and every state of an older version.
THEOREM NoChainIsBroken == CtxSpec => []ToolChainKept
<1>1. CtxInv => ToolChainKept
  BY DEF CtxInv
<1> QED BY <1>1, CompactionInvariant, PTL

\* A state of this run never hides the protected units, and the newest batches are sent in full.
THEOREM RecentUnitsAreSent == CtxSpec => []RecentUnitsStay
<1>1. CtxInv => RecentUnitsStay
  BY DEF CtxInv
<1> QED BY <1>1, CompactionInvariant, PTL

------------------------------------------------------------------------------
(* Rounds with the model (ModelRound).                                     *)
\* The pieces of a kind that were streamed, and the first n pieces of a call's arguments.
Streamed(kind) == {p \in Said(kind) : p[2] <= streamed[p[1]]}
Arguments(i, n) == [k \in 1..n |-> <<i, k + 1>>]

\* The types of what is put together: blocks and calls.
Piece == Nat \X Nat
BlockType ==
  [kind : {"reasoning", "text"}, place : Nat, body : Seq(Piece), phase : Phases \cup {"pending"}]
CallType == [item : Nat, name : STRING, args : Seq(Piece \cup {"closed"}), place : Nat]

\* The types of a round, and that the model may say what it says.
RoundShape ==
  /\ RoundTypeOK /\ Allowed(output)
  /\ streamed \in [Items -> Nat] /\ label \in [Items -> Phases]
  /\ blocks \in Seq(BlockType) /\ held \in Seq(CallType) /\ visible \in Seq(Piece)

\* Text and reasoning are streamed one item after the other.
OneByOne ==
  /\ \A i, j \in Items : ~IsCall(i) /\ ~IsCall(j) /\ j < i /\ streamed[i] > 0 => streamed[j] = output[j].size
  /\ wire = "chat" => opened = {} /\ \A i \in Items : label[i] = "none"
  /\ wire = "responses" =>
       /\ \A i \in opened : \A j \in Items : j < i => j \in opened
       /\ \A i \in opened : \A j \in Items : ~IsCall(i) /\ ~IsCall(j) /\ j < i => j \in closed
       /\ \A i \in closed : streamed[i] = output[i].size
       /\ \A i \in closed : output[i].kind = "text" /\ output[i].phase # "none" => label[i] = output[i].phase
       /\ \A i \in Items : streamed[i] > 0 => i \in opened
       /\ \A i \in opened : IsCall(i) => streamed[i] > 0

\* The visible text is the text that was streamed, in its order.
VisibleIsStreamed ==
  InTurn(visible) /\ \A p : p \in Range(visible) <=> p \in Streamed("text")

\* The blocks are what was streamed of text and reasoning: each piece in a block of its kind, in its
\* order; a block of an item with the responses protocol, one block of a kind with the chat protocol.
BlocksAreStreamed ==
  /\ \A n \in DOMAIN blocks : blocks[n].body # <<>> /\ InTurn(blocks[n].body)
  /\ \A kind \in {"text", "reasoning"} : \A n \in ShownOf(kind) :
       \A p \in Range(blocks[n].body) : p \in Streamed(kind)
  /\ \A m, n \in DOMAIN blocks : m < n /\ blocks[m].kind = blocks[n].kind =>
       \A p \in Range(blocks[m].body), q \in Range(blocks[n].body) : Before(p, q)
  /\ \A kind \in {"text", "reasoning"} : \A p \in Streamed(kind) :
       \E n \in DOMAIN blocks : blocks[n].kind = kind /\ p \in Range(blocks[n].body)
  /\ \A n \in DOMAIN blocks : wire = "responses" =>
       /\ blocks[n].place \in Items /\ blocks[n].kind = output[blocks[n].place].kind
       /\ \A p \in Range(blocks[n].body) : p[1] = blocks[n].place
  /\ \A m, n \in DOMAIN blocks : wire = "chat" /\ m # n => blocks[m].kind # blocks[n].kind

\* The phase of a text block is the label that its item was closed with.
PhasesAreGiven ==
  \A n \in DOMAIN blocks :
    /\ wire = "chat" => blocks[n].phase = "none"
    /\ wire = "responses" /\ blocks[n].kind = "text" =>
         /\ label[blocks[n].place] = "none" => blocks[n].phase = "pending"
         /\ blocks[n].place \in closed /\ label[blocks[n].place] # "none" =>
              blocks[n].phase = label[blocks[n].place]

\* A call is held as soon as it was announced, once, with the arguments streamed so far.
CallsAreStreamed ==
  /\ \A n \in DOMAIN held :
       /\ held[n].item \in Items /\ IsCall(held[n].item)
       /\ held[n].name = output[held[n].item].name
       /\ streamed[held[n].item] > 0
       /\ held[n].args = Arguments(held[n].item, streamed[held[n].item] - 1)
  /\ \A m, n \in DOMAIN held : m < n => held[m].item # held[n].item
  /\ wire = "responses" => \A m, n \in DOMAIN held : m < n => held[m].item < held[n].item
  /\ \A i \in Items : IsCall(i) /\ streamed[i] > 0 => Held(i) # {}

\* No two things that are told have one place; the next place of the chat protocol is behind them.
PlacesDiffer ==
  /\ \A m, n \in DOMAIN blocks : m # n => blocks[m].place # blocks[n].place
  /\ \A m, n \in DOMAIN held : m # n => held[m].place # held[n].place
  /\ \A m \in DOMAIN blocks, n \in DOMAIN held : blocks[m].place # held[n].place
  /\ wire = "chat" =>
       /\ \A n \in DOMAIN blocks : blocks[n].place < NextPlace
       /\ \A n \in DOMAIN held : held[n].place < NextPlace
  /\ wire = "responses" => \A n \in DOMAIN held : held[n].place = held[n].item

\* What is known of a round is what was streamed of it.
AsStreamed ==
  /\ OneByOne /\ VisibleIsStreamed /\ BlocksAreStreamed /\ PhasesAreGiven
  /\ CallsAreStreamed /\ PlacesDiffer

\* The inductive invariant of ModelRound.
Running == stage \in {"streaming", "ended"}
RoundInv ==
  /\ RoundShape
  /\ Running =>
       /\ AsStreamed
       /\ stage = "ended" /\ finish = "stop" => AllDone
       /\ stage = "streaming" => finish = "none"
  /\ ~Running => RoundIsAsSaid

------------------------------------------------------------------------------
(* Items and pieces *)

\* What the model says: items in a sequence, of which some pieces were streamed.
LEMMA OutputItems ==
  ASSUME NEW o \in Outputs
  PROVE  /\ Len(o) \in Nat /\ DOMAIN o = 1..Len(o)
         /\ \A i \in DOMAIN o :
              /\ i \in Nat /\ i \in Int /\ 0 < i
              /\ o[i].size \in Nat /\ 0 < o[i].size /\ o[i].kind \in {"reasoning", "text", "call"}
              /\ o[i].name \in STRING /\ o[i].phase \in Phases
<1>1. o \in Seq(ItemType)
  BY RoundBounds
<1>2. Len(o) \in Nat /\ DOMAIN o = 1..Len(o) /\ \A i \in DOMAIN o : o[i] \in ItemType
  BY <1>1
<1> QED BY <1>2 DEF ItemType

\* The same of the items of this attempt, and how much of them was streamed.
LEMMA ItemsAre ==
  ASSUME RoundShape
  PROVE  /\ Len(output) \in Nat /\ Items = 1..Len(output)
         /\ \A i \in Items :
              /\ i \in Nat /\ i \in Int /\ 0 < i
              /\ output[i].size \in Nat /\ 0 < output[i].size
              /\ output[i].kind \in {"reasoning", "text", "call"}
              /\ output[i].name \in STRING /\ output[i].phase \in Phases
              /\ streamed[i] \in Nat /\ streamed[i] <= output[i].size
<1>1. /\ Len(output) \in Nat /\ Items = 1..Len(output)
      /\ \A i \in Items :
           /\ i \in Nat /\ i \in Int /\ 0 < i
           /\ output[i].size \in Nat /\ 0 < output[i].size
           /\ output[i].kind \in {"reasoning", "text", "call"}
           /\ output[i].name \in STRING /\ output[i].phase \in Phases
  BY OutputItems DEF RoundShape, RoundTypeOK, Items
<1>2. ASSUME NEW i \in Items PROVE streamed[i] \in Nat /\ streamed[i] <= output[i].size
  <2>1. streamed[i] \in 0..output[i].size /\ output[i].size \in Nat
    BY <1>1 DEF RoundShape, RoundTypeOK
  <2> QED BY <2>1
<1> QED BY <1>1, <1>2

\* Which pieces are said, and which are streamed.
LEMMA InSaid ==
  ASSUME RoundShape, NEW kind, NEW p
  PROVE  p \in Said(kind) <=> /\ p \in Piece /\ p[1] \in Items /\ output[p[1]].kind = kind
                              /\ p[2] \in 1..output[p[1]].size
<1>1. p \in Said(kind) <=> \E i \in Items : output[i].kind = kind /\ \E k \in 1..output[i].size : p = <<i, k>>
  BY DEF Said, SaidBy
<1>2. ASSUME NEW i \in Items, NEW k \in 1..output[i].size, output[i].kind = kind, p = <<i, k>>
      PROVE  /\ p \in Piece /\ p[1] \in Items /\ output[p[1]].kind = kind
             /\ p[2] \in 1..output[p[1]].size
  <2>1. i \in Nat /\ k \in Nat /\ p[1] = i /\ p[2] = k
    BY <1>2, ItemsAre
  <2> QED BY <1>2, <2>1 DEF Piece
<1>3. ASSUME p \in Piece, p[1] \in Items, output[p[1]].kind = kind, p[2] \in 1..output[p[1]].size
      PROVE  \E i \in Items : output[i].kind = kind /\ \E k \in 1..output[i].size : p = <<i, k>>
  <2>1. p = <<p[1], p[2]>>
    BY <1>3 DEF Piece
  <2> QED BY <1>3, <2>1
<1> QED BY <1>1, <1>2, <1>3

\* A piece was streamed when it is not behind what its item has come to.
LEMMA InStreamed ==
  ASSUME RoundShape, NEW kind, NEW p
  PROVE  p \in Streamed(kind) <=> /\ p \in Piece /\ p[1] \in Items /\ output[p[1]].kind = kind
                                  /\ p[2] \in 1..streamed[p[1]]
<1>1. p \in Streamed(kind) <=> p \in Said(kind) /\ p[2] <= streamed[p[1]]
  BY DEF Streamed
<1>2. ASSUME p[1] \in Items, p \in Piece
      PROVE  p[2] \in 1..output[p[1]].size /\ p[2] <= streamed[p[1]] <=> p[2] \in 1..streamed[p[1]]
  <2>1. /\ streamed[p[1]] \in Nat /\ output[p[1]].size \in Nat /\ streamed[p[1]] <= output[p[1]].size
    BY <1>2, ItemsAre
  <2>2. p[2] \in Nat
    BY <1>2 DEF Piece
  <2> QED BY <2>1, <2>2
<1> QED BY <1>1, <1>2, InSaid

\* Before is an order.
LEMMA BeforeOrders ==
  ASSUME NEW p \in Piece, NEW q \in Piece, NEW r \in Piece
  PROVE  /\ Before(p, q) /\ Before(q, r) => Before(p, r)
         /\ p = q \/ Before(p, q) \/ Before(q, p)
         /\ ~(Before(p, q) /\ Before(q, p)) /\ ~Before(p, p)
<1>1. /\ p[1] \in Nat /\ p[2] \in Nat /\ q[1] \in Nat /\ q[2] \in Nat /\ r[1] \in Nat /\ r[2] \in Nat
      /\ p = <<p[1], p[2]>> /\ q = <<q[1], q[2]>>
  BY DEF Piece
<1> QED BY <1>1 DEF Before

\* A piece that comes after all others is appended.
LEMMA AppendInTurn ==
  ASSUME NEW s \in Seq(Piece), NEW p \in Piece, InTurn(s), \A q \in Range(s) : Before(q, p),
         NEW r, r = Append(s, p)
  PROVE  /\ r \in Seq(Piece) /\ r # <<>> /\ InTurn(r)
         /\ \A q : q \in Range(r) <=> q \in Range(s) \/ q = p
<1>1. /\ Len(s) \in Nat /\ DOMAIN s = 1..Len(s) /\ r \in Seq(Piece) /\ Len(r) = Len(s) + 1
      /\ DOMAIN r = 1..Len(s) + 1 /\ r[Len(s) + 1] = p
      /\ \A n \in 1..Len(s) : r[n] = s[n]
  OBVIOUS
<1>2. r # <<>>
  BY <1>1
<1>3. ASSUME NEW m \in DOMAIN r, NEW n \in DOMAIN r, m < n PROVE Before(r[m], r[n])
  <2>1. m \in 1..Len(s) /\ r[m] = s[m] /\ s[m] \in Range(s)
    BY <1>1, <1>3 DEF Range
  <2>2. CASE n = Len(s) + 1
    BY <1>1, <2>1, <2>2
  <2>3. CASE n \in 1..Len(s)
    BY <1>1, <1>3, <2>1, <2>3 DEF InTurn
  <2> QED BY <1>1, <2>2, <2>3
<1>4. ASSUME NEW q PROVE q \in Range(r) <=> q \in Range(s) \/ q = p
  <2>1. q \in Range(r) <=> \E n \in 1..Len(s) + 1 : q = r[n]
    BY <1>1 DEF Range
  <2>2. q \in Range(s) <=> \E n \in 1..Len(s) : q = s[n]
    BY <1>1 DEF Range
  <2>3. Len(s) + 1 \in 1..Len(s) + 1
    BY <1>1
  <2>4. \A n \in 1..Len(s) + 1 : n \in 1..Len(s) \/ n = Len(s) + 1
    BY <1>1
  <2>5. \A n \in 1..Len(s) : n \in 1..Len(s) + 1
    BY <1>1
  <2> QED BY <1>1, <2>1, <2>2, <2>3, <2>4, <2>5
<1> QED BY <1>1, <1>2, <1>3, <1>4 DEF InTurn

\* The same after a step that streams more.
LEMMA InStreamedNext ==
  ASSUME RoundShape, output' = output, \A j \in Items : streamed'[j] \in Nat /\ streamed'[j] <= output[j].size,
         NEW kind, NEW p
  PROVE  p \in Streamed(kind)' <=> /\ p \in Piece /\ p[1] \in Items /\ output[p[1]].kind = kind
                                   /\ p[2] \in 1..streamed'[p[1]]
<1>1. p \in Streamed(kind)' <=> p \in Said(kind) /\ p[2] <= streamed'[p[1]]
  BY DEF Streamed, Said, SaidBy, Items
<1>2. ASSUME p[1] \in Items, p \in Piece
      PROVE  p[2] \in 1..output[p[1]].size /\ p[2] <= streamed'[p[1]] <=> p[2] \in 1..streamed'[p[1]]
  <2>1. /\ streamed'[p[1]] \in Nat /\ output[p[1]].size \in Nat /\ streamed'[p[1]] <= output[p[1]].size
    BY <1>2, ItemsAre
  <2>2. p[2] \in Nat
    BY <1>2 DEF Piece
  <2> QED BY <2>1, <2>2
<1> QED BY <1>1, <1>2, InSaid

\* What GrowBlock() makes of the blocks.
BlocksGrow(kind, place, piece, phase) ==
  /\ blocks' \in Seq(BlockType) /\ visible' \in Seq(Piece)
  /\ Len(blocks) \in Nat /\ DOMAIN blocks = 1..Len(blocks)
  /\ \A n \in DOMAIN blocks :
       /\ n \in DOMAIN blocks'
       /\ blocks'[n].kind = blocks[n].kind /\ blocks'[n].place = blocks[n].place
       /\ n \notin BlocksAt(kind, place) => blocks'[n] = blocks[n]
       /\ n \in BlocksAt(kind, place) =>
            /\ blocks'[n].body = Append(blocks[n].body, piece) /\ blocks'[n].phase = phase
            /\ blocks[n].kind = kind /\ blocks[n].place = place
  /\ BlocksAt(kind, place) # {} => Len(blocks') = Len(blocks) /\ DOMAIN blocks' = 1..Len(blocks)
  /\ BlocksAt(kind, place) = {} =>
       /\ Len(blocks') = Len(blocks) + 1 /\ DOMAIN blocks' = 1..Len(blocks) + 1
       /\ blocks'[Len(blocks) + 1] =
            [kind |-> kind, place |-> place, body |-> <<piece>>, phase |-> phase]

\* GrowBlock() does that.
LEMMA GrowBlockIs ==
  ASSUME RoundShape, NEW kind \in {"reasoning", "text"}, NEW place \in Nat, NEW piece \in Piece,
         NEW phase \in Phases \cup {"pending"}, GrowBlock(kind, place, piece, phase)
  PROVE  BlocksGrow(kind, place, piece, phase)
<1>1. /\ blocks \in Seq(BlockType) /\ visible \in Seq(Piece) /\ Len(blocks) \in Nat
      /\ DOMAIN blocks = 1..Len(blocks) /\ \A n \in DOMAIN blocks : blocks[n] \in BlockType
  BY DEF RoundShape
<1>2. visible' \in Seq(Piece)
  <2>1. visible' = IF kind = "text" THEN Append(visible, piece) ELSE visible
    BY DEF GrowBlock
  <2>2. Append(visible, piece) \in Seq(Piece)
    BY <1>1
  <2> QED BY <1>1, <2>1, <2>2
<1>3. CASE BlocksAt(kind, place) = {}
  <2> DEFINE new == [kind |-> kind, place |-> place, body |-> <<piece>>, phase |-> phase]
  <2>1. new \in BlockType
    BY DEF BlockType
  <2>2. blocks' = Append(blocks, new)
    BY <1>3 DEF GrowBlock
  <2> HIDE DEF new
  <2>3. /\ blocks' \in Seq(BlockType) /\ Len(blocks') = Len(blocks) + 1
        /\ DOMAIN blocks' = 1..Len(blocks) + 1 /\ blocks'[Len(blocks) + 1] = new
        /\ \A n \in DOMAIN blocks : n \in DOMAIN blocks' /\ blocks'[n] = blocks[n]
    BY <1>1, <2>1, <2>2
  <2> QED BY <1>1, <1>2, <1>3, <2>3 DEF new, BlocksGrow
<1>4. CASE BlocksAt(kind, place) # {}
  <2>1. blocks' = [n \in DOMAIN blocks |->
                     IF n \in BlocksAt(kind, place)
                     THEN [blocks[n] EXCEPT !.body = Append(@, piece), !.phase = phase]
                     ELSE blocks[n]]
    BY <1>4 DEF GrowBlock
  <2>2. ASSUME NEW n \in DOMAIN blocks
        PROVE  /\ blocks'[n] \in BlockType
               /\ blocks'[n].kind = blocks[n].kind /\ blocks'[n].place = blocks[n].place
               /\ n \notin BlocksAt(kind, place) => blocks'[n] = blocks[n]
               /\ n \in BlocksAt(kind, place) =>
                    /\ blocks'[n].body = Append(blocks[n].body, piece) /\ blocks'[n].phase = phase
                    /\ blocks[n].kind = kind /\ blocks[n].place = place
    <3>1. CASE n \notin BlocksAt(kind, place)
      BY <1>1, <2>1, <3>1
    <3>2. CASE n \in BlocksAt(kind, place)
      <4>1. blocks'[n] = [blocks[n] EXCEPT !.body = Append(@, piece), !.phase = phase]
        BY <2>1, <3>2
      <4>2. blocks[n].kind = kind /\ blocks[n].place = place
        BY <3>2 DEF BlocksAt
      <4>3. blocks[n] \in BlockType /\ Append(blocks[n].body, piece) \in Seq(Piece)
        BY <1>1 DEF BlockType
      <4> QED BY <3>2, <4>1, <4>2, <4>3 DEF BlockType
    <3> QED BY <3>1, <3>2
  <2>3. blocks' \in [1..Len(blocks) -> BlockType]
    BY <1>1, <2>1, <2>2
  <2>4. blocks' \in Seq(BlockType) /\ Len(blocks') = Len(blocks) /\ DOMAIN blocks' = 1..Len(blocks)
    BY <1>1, <2>3
  <2> QED BY <1>1, <1>2, <1>4, <2>2, <2>4 DEF BlocksGrow
<1> QED BY <1>3, <1>4

\* The next piece of an item that is not a call comes after everything of such items that was streamed.
LEMMA NextIsLast ==
  ASSUME RoundShape, OneByOne, NEW i \in Items, ~IsCall(i), streamed[i] < output[i].size,
         NEW kind \in {"reasoning", "text"}, NEW p \in Streamed(kind)
  PROVE  Before(p, <<i, streamed[i] + 1>>) /\ p[1] \in Items /\ p[1] <= i
<1>1. p \in Piece /\ p[1] \in Items /\ output[p[1]].kind = kind /\ p[2] \in 1..streamed[p[1]]
  BY InStreamed
<1>2. /\ p[1] \in Int /\ i \in Int /\ streamed[i] \in Nat /\ output[i].size \in Nat /\ streamed[p[1]] \in Nat
  BY <1>1, ItemsAre
<1>3. ~IsCall(p[1]) /\ streamed[p[1]] > 0
  BY <1>1, <1>2 DEF IsCall
<1>4. ~(i < p[1])
  BY <1>1, <1>2, <1>3 DEF OneByOne
<1>5. p[2] \in Int
  BY <1>1
<1> DEFINE q == <<i, streamed[i] + 1>>
<1>6. q[1] = i /\ q[2] = streamed[i] + 1
  OBVIOUS
<1> HIDE DEF q
<1>7. Before(p, q)
  <2>1. CASE p[1] < i
    BY <1>6, <2>1 DEF Before
  <2>2. CASE p[1] = i
    BY <1>1, <1>2, <1>5, <1>6, <2>2 DEF Before
  <2> QED BY <1>2, <1>4, <2>1, <2>2
<1> QED BY <1>1, <1>2, <1>4, <1>7 DEF q

\* What is not empty has a piece.
LEMMA SomePiece == ASSUME NEW s \in Seq(Piece), s # <<>> PROVE \E p \in Range(s) : p = s[1] /\ 1 \in DOMAIN s
<1>1. 1 \in DOMAIN s
  OBVIOUS
<1> QED BY <1>1 DEF Range

\* Once a piece is told, what is visible and the blocks are again what was streamed.
LEMMA PieceTold ==
  ASSUME RoundShape, OneByOne, VisibleIsStreamed, BlocksAreStreamed, PlacesDiffer,
         wire \in {"chat", "responses"}, UNCHANGED <<wire, output>>,
         NEW i \in Items, ~IsCall(i), streamed[i] < output[i].size,
         NEW place \in Nat, NEW phase \in Phases \cup {"pending"},
         GrowBlock(output[i].kind, place, <<i, streamed[i] + 1>>, phase),
         \A j \in Items : streamed'[j] = IF j = i THEN streamed[i] + 1 ELSE streamed[j],
         wire = "chat" => \A n \in ShownOf(output[i].kind) : blocks[n].place = place,
         wire = "responses" => place = i
  PROVE  VisibleIsStreamed' /\ BlocksAreStreamed'
<1> DEFINE piece == <<i, streamed[i] + 1>>
           kind == output[i].kind
           L == Len(blocks)
           at == BlocksAt(kind, place)
<1>1. /\ kind \in {"reasoning", "text"} /\ i \in Int /\ i \in Nat
      /\ streamed[i] \in Nat /\ output[i].size \in Nat
  BY ItemsAre DEF IsCall
<1>2. piece \in Piece /\ piece[1] = i /\ piece[2] = streamed[i] + 1
  BY <1>1 DEF Piece
<1>3. \A j \in Items : streamed'[j] \in Nat /\ streamed'[j] <= output[j].size
  <2>1. streamed[i] + 1 \in Nat /\ streamed[i] + 1 <= output[i].size
    BY <1>1
  <2>2. \A j \in Items : streamed[j] \in Nat /\ streamed[j] <= output[j].size
    BY ItemsAre
  <2> QED BY <2>1, <2>2
<1>4. ASSUME NEW p, NEW k
      PROVE  p \in Streamed(k)' <=> p \in Streamed(k) \/ (p = piece /\ k = kind)
  <2>1. p \in Streamed(k)' <=> /\ p \in Piece /\ p[1] \in Items /\ output[p[1]].kind = k
                               /\ p[2] \in 1..streamed'[p[1]]
    BY <1>3, InStreamedNext
  <2>2. p \in Streamed(k) <=> /\ p \in Piece /\ p[1] \in Items /\ output[p[1]].kind = k
                              /\ p[2] \in 1..streamed[p[1]]
    BY InStreamed
  <2>3. CASE p \in Piece /\ p[1] = i
    <3>1. p[2] \in Nat /\ p = <<p[1], p[2]>>
      BY <2>3 DEF Piece
    <3>2. p = piece <=> p[2] = streamed[i] + 1
      BY <2>3, <3>1
    <3>3. p[2] \in 1..streamed[i] + 1 <=> p[2] \in 1..streamed[i] \/ p[2] = streamed[i] + 1
      BY <1>1, <3>1
    <3>4. streamed'[i] = streamed[i] + 1
      OBVIOUS
    <3> QED BY <2>1, <2>2, <2>3, <3>2, <3>3, <3>4
  <2>4. CASE ~(p \in Piece /\ p[1] = i)
    <3>1. p # piece
      BY <1>2, <2>4
    <3>2. p[1] \in Items /\ p[1] # i => streamed'[p[1]] = streamed[p[1]]
      OBVIOUS
    <3> QED BY <2>1, <2>2, <2>4, <3>1, <3>2
  <2> QED BY <2>3, <2>4
<1>5. \A k \in {"reasoning", "text"} : \A p \in Streamed(k) : Before(p, piece) /\ p[1] \in Items /\ p[1] <= i
  BY NextIsLast
<1>6. GrowBlock(kind, place, piece, phase)
  OBVIOUS
<1>0. /\ blocks \in Seq(BlockType) /\ visible \in Seq(Piece)
      /\ \A n \in DOMAIN blocks : blocks[n].body \in Seq(Piece) /\ blocks[n].body # <<>>
  <2>1. blocks \in Seq(BlockType) /\ visible \in Seq(Piece)
    BY DEF RoundShape
  <2>2. \A n \in DOMAIN blocks : blocks[n] \in BlockType
    BY <2>1
  <2> QED BY <2>1, <2>2 DEF BlockType, BlocksAreStreamed
<1>7. VisibleIsStreamed'
  <2>1. CASE kind = "text"
    <3>1. visible' = Append(visible, piece)
      BY <1>6, <2>1 DEF GrowBlock
    <3>2. InTurn(visible) /\ \A q \in Range(visible) : Before(q, piece)
      BY <1>5 DEF VisibleIsStreamed
    <3> HIDE DEF piece, kind
    <3>3. InTurn(visible') /\ \A q : q \in Range(visible') <=> q \in Range(visible) \/ q = piece
      BY <1>0, <1>2, <3>1, <3>2, AppendInTurn
    <3>4. \A p : p \in Range(visible') <=> p \in Streamed("text")'
      BY <1>4, <2>1, <3>3 DEF VisibleIsStreamed
    <3> QED BY <3>3, <3>4 DEF VisibleIsStreamed
  <2>2. CASE kind # "text"
    <3>1. visible' = visible
      BY <1>6, <2>2 DEF GrowBlock
    <3> HIDE DEF piece, kind
    <3>2. \A p : p \in Streamed("text")' <=> p \in Streamed("text")
      BY <1>4, <2>2
    <3> QED BY <3>1, <3>2 DEF VisibleIsStreamed
  <2> QED BY <2>1, <2>2
<1> HIDE DEF piece, kind
<1>8. /\ blocks' \in Seq(BlockType)
      /\ L \in Nat /\ DOMAIN blocks = 1..L
      /\ \A n \in DOMAIN blocks :
           /\ n \in DOMAIN blocks'
           /\ blocks'[n].kind = blocks[n].kind /\ blocks'[n].place = blocks[n].place
           /\ n \notin at => blocks'[n] = blocks[n]
           /\ n \in at => /\ blocks'[n].body = Append(blocks[n].body, piece) /\ blocks'[n].phase = phase
                          /\ blocks[n].kind = kind /\ blocks[n].place = place
      /\ at # {} => Len(blocks') = L /\ DOMAIN blocks' = 1..L
      /\ at = {} => /\ Len(blocks') = L + 1 /\ DOMAIN blocks' = 1..L + 1
                    /\ blocks'[L + 1] = [kind |-> kind, place |-> place, body |-> <<piece>>, phase |-> phase]
  BY <1>1, <1>2, <1>6, GrowBlockIs DEF BlocksGrow
\* Of that kind, the block that grows is the last one, and without it the kind is new or the item.
<1>9. ASSUME NEW n \in DOMAIN blocks, blocks[n].kind = kind, n \notin at
      PROVE  wire = "responses" /\ \A m \in at : n < m
  <2>1. blocks[n].place # place
    BY <1>9 DEF BlocksAt
  <2>2. wire = "responses" /\ place = i
    BY <1>9, <2>1 DEF ShownOf, kind
  <2>3. ASSUME NEW m \in at PROVE n < m
    <3>1. m \in DOMAIN blocks /\ blocks[m].kind = kind /\ blocks[m].place = i
      BY <2>2 DEF BlocksAt
    <3>2. ASSUME m < n PROVE FALSE
      <4>2. PICK p \in Range(blocks[m].body) : p = blocks[m].body[1]
        BY <1>0, <3>1, SomePiece
      <4>3. PICK q \in Range(blocks[n].body) : q = blocks[n].body[1]
        BY <1>0, <1>9, SomePiece
      <4>4. Before(p, q)
        BY <1>9, <3>1, <3>2, <4>2, <4>3 DEF BlocksAreStreamed
      <4>5. p[1] = i /\ q[1] = blocks[n].place /\ q \in Streamed(kind)
        BY <1>1, <1>9, <2>2, <3>1, <4>2, <4>3 DEF BlocksAreStreamed, ShownOf
      <4>6. q[1] <= i /\ q[1] \in Items /\ q[1] # i
        BY <1>1, <1>5, <2>1, <2>2, <4>5
      <4>7. q[1] \in Int
        BY <4>6, ItemsAre
      <4> QED BY <1>1, <4>4, <4>5, <4>6, <4>7 DEF Before
    <3>3. m # n /\ m \in Int /\ n \in Int
      BY <1>8, <1>9, <3>1
    <3> QED BY <3>2, <3>3
  <2> QED BY <2>2, <2>3
<1>10. ASSUME NEW m \in at, NEW n \in at PROVE m = n
  <2>1. m \in DOMAIN blocks /\ n \in DOMAIN blocks /\ blocks[m].place = blocks[n].place
    BY DEF BlocksAt
  <2> QED BY <2>1 DEF PlacesDiffer
\* What a block holds after the step.
<1>11. ASSUME NEW n \in DOMAIN blocks
       PROVE  /\ blocks'[n].body \in Seq(Piece) /\ blocks'[n].body # <<>> /\ InTurn(blocks'[n].body)
              /\ n \in at => \A q : q \in Range(blocks'[n].body) <=> q \in Range(blocks[n].body) \/ q = piece
              /\ n \notin at => \A q : q \in Range(blocks'[n].body) <=> q \in Range(blocks[n].body)
  <2>1. CASE n \in at
    <3>1. blocks'[n].body = Append(blocks[n].body, piece) /\ blocks[n].kind = kind
      BY <1>8, <2>1
    <3>2. InTurn(blocks[n].body) /\ \A q \in Range(blocks[n].body) : Before(q, piece)
      BY <1>1, <1>5, <3>1 DEF BlocksAreStreamed, ShownOf
    <3>3. blocks[n].body \in Seq(Piece)
      BY <1>0
    <3>4. /\ blocks'[n].body \in Seq(Piece) /\ blocks'[n].body # <<>> /\ InTurn(blocks'[n].body)
          /\ \A q : q \in Range(blocks'[n].body) <=> q \in Range(blocks[n].body) \/ q = piece
      <4> DEFINE old == blocks[n].body
                 new == blocks'[n].body
      <4>1. old \in Seq(Piece) /\ InTurn(old) /\ (\A q \in Range(old) : Before(q, piece)) /\ new = Append(old, piece)
        BY <3>1, <3>2, <3>3
      <4> HIDE DEF old, new
      <4>2. new \in Seq(Piece) /\ new # <<>> /\ InTurn(new)
        BY <1>2, <4>1, AppendInTurn
      <4>3. \A q : q \in Range(new) <=> q \in Range(old) \/ q = piece
        BY <1>2, <4>1, AppendInTurn
      <4> QED BY <4>2, <4>3 DEF old, new
    <3> QED BY <2>1, <3>4
  <2>2. CASE n \notin at
    <3>1. blocks'[n] = blocks[n]
      BY <1>8, <2>2
    <3> QED BY <1>0, <2>2, <3>1 DEF BlocksAreStreamed
  <2> QED BY <2>1, <2>2
<1>12. ASSUME at = {}
       PROVE  /\ L + 1 \in DOMAIN blocks' /\ blocks'[L + 1].kind = kind /\ blocks'[L + 1].place = place
              /\ blocks'[L + 1].body \in Seq(Piece) /\ blocks'[L + 1].body # <<>>
              /\ InTurn(blocks'[L + 1].body)
              /\ \A q : q \in Range(blocks'[L + 1].body) <=> q = piece
  <2>1. /\ L + 1 \in DOMAIN blocks' /\ blocks'[L + 1].kind = kind /\ blocks'[L + 1].place = place
        /\ blocks'[L + 1].body = <<piece>>
    BY <1>8, <1>12
  <2>2. <<piece>> \in Seq(Piece) /\ <<piece>> # <<>> /\ DOMAIN <<piece>> = {1} /\ <<piece>>[1] = piece
    BY <1>2
  <2>3. InTurn(<<piece>>)
    BY <2>2 DEF InTurn
  <2>4. \A q : q \in Range(<<piece>>) <=> q = piece
    BY <2>2 DEF Range
  <2> QED BY <2>1, <2>2, <2>3, <2>4
<1>13. \A n \in DOMAIN blocks' : n \in DOMAIN blocks \/ (n = L + 1 /\ at = {})
  BY <1>8
<1>14. ASSUME NEW n \in DOMAIN blocks'
       PROVE  /\ blocks'[n].body # <<>> /\ InTurn(blocks'[n].body)
              /\ \A k \in {"text", "reasoning"} : blocks'[n].kind = k =>
                   \A p \in Range(blocks'[n].body) : p \in Streamed(k)'
  <2>1. CASE n \in DOMAIN blocks
    <3>1. blocks'[n].kind = blocks[n].kind
      BY <1>8, <2>1
    <3>2. ASSUME NEW k \in {"text", "reasoning"}, blocks[n].kind = k, NEW p \in Range(blocks'[n].body)
          PROVE  p \in Streamed(k)'
      <4>1. CASE p \in Range(blocks[n].body)
        BY <1>4, <2>1, <3>2, <4>1 DEF BlocksAreStreamed, ShownOf
      <4>2. CASE p = piece /\ n \in at
        <5>1. blocks[n].kind = kind
          BY <1>8, <2>1, <4>2
        <5> QED BY <1>4, <3>2, <4>2, <5>1
      <4> QED BY <1>11, <2>1, <4>1, <4>2
    <3> QED BY <1>11, <2>1, <3>1, <3>2
  <2>2. CASE n = L + 1 /\ at = {}
    <3>1. \A k : blocks'[n].kind = k => k = kind
      BY <1>12, <2>2
    <3>2. \A p \in Range(blocks'[n].body) : p = piece
      BY <1>12, <2>2
    <3>3. \A k : k = kind => piece \in Streamed(k)'
      BY <1>4
    <3> QED BY <1>12, <2>2, <3>1, <3>2, <3>3
  <2> QED BY <1>13, <2>1, <2>2
<1>15. ASSUME NEW m \in DOMAIN blocks', NEW n \in DOMAIN blocks', m < n, blocks'[m].kind = blocks'[n].kind,
              NEW p \in Range(blocks'[m].body), NEW q \in Range(blocks'[n].body)
       PROVE  Before(p, q)
  <2>1. m \in Int /\ n \in Int
    BY <1>8
  <2>2. CASE n = L + 1 /\ at = {}
    <3>1. m \in DOMAIN blocks
      BY <1>8, <1>13, <1>15, <2>1, <2>2
    <3>2. q = piece /\ blocks[m].kind = kind /\ m \notin at /\ p \in Range(blocks[m].body)
      BY <1>8, <1>11, <1>12, <1>15, <2>2, <3>1
    <3>3. p \in Streamed(kind)
      BY <1>1, <3>1, <3>2 DEF BlocksAreStreamed, ShownOf
    <3> QED BY <1>1, <1>5, <3>2, <3>3
  <2>3. CASE n \in DOMAIN blocks
    <3>1. m \in DOMAIN blocks
      BY <1>8, <1>13, <1>15, <2>1, <2>3
    <3>2. blocks[m].kind = blocks[n].kind
      BY <1>8, <1>15, <2>3, <3>1
    <3>3. CASE m \in at
      <4>1. blocks[n].kind = kind /\ n \in at
        <5>1. blocks[n].kind = kind
          BY <1>8, <3>1, <3>2, <3>3
        <5>2. ASSUME n \notin at PROVE FALSE
          BY <1>9, <1>15, <2>1, <2>3, <3>3, <5>1, <5>2
        <5> QED BY <5>1, <5>2
      <4> QED BY <1>10, <1>15, <2>1, <3>3, <4>1
    <3>4. CASE m \notin at
      <4>1. p \in Range(blocks[m].body)
        BY <1>11, <3>1, <3>4
      <4>2. CASE q \in Range(blocks[n].body)
        BY <1>15, <2>3, <3>1, <3>2, <4>1, <4>2 DEF BlocksAreStreamed
      <4>3. CASE q = piece /\ n \in at
        <5>1. p \in Streamed(kind)
          <6>1. blocks[m].kind = kind
            BY <1>8, <2>3, <3>2, <4>3
          <6> QED BY <1>1, <3>1, <4>1, <6>1 DEF BlocksAreStreamed, ShownOf
        <5> QED BY <1>1, <1>5, <4>3, <5>1
      <4> QED BY <1>11, <2>3, <4>2, <4>3
    <3> QED BY <3>3, <3>4
  <2> QED BY <1>13, <2>2, <2>3
<1>16. ASSUME NEW k \in {"text", "reasoning"}, NEW p \in Streamed(k)'
       PROVE  \E n \in DOMAIN blocks' : blocks'[n].kind = k /\ p \in Range(blocks'[n].body)
  <2>1. CASE p \in Streamed(k)
    <3>1. PICK n \in DOMAIN blocks : blocks[n].kind = k /\ p \in Range(blocks[n].body)
      BY <2>1 DEF BlocksAreStreamed
    <3> QED BY <1>8, <1>11, <3>1
  <2>2. CASE p = piece /\ k = kind
    <3>1. CASE at = {}
      BY <1>12, <2>2, <3>1
    <3>2. CASE at # {}
      <4>1. PICK n \in at : TRUE
        BY <3>2
      <4>2. n \in DOMAIN blocks
        BY DEF BlocksAt
      <4> QED BY <1>8, <1>11, <2>2, <4>1, <4>2
    <3> QED BY <3>1, <3>2
  <2> QED BY <1>4, <2>1, <2>2
<1>17. ASSUME NEW n \in DOMAIN blocks', wire = "responses"
       PROVE  /\ blocks'[n].place \in Items /\ blocks'[n].kind = output[blocks'[n].place].kind
              /\ \A p \in Range(blocks'[n].body) : p[1] = blocks'[n].place
  <2>1. CASE n \in DOMAIN blocks
    <3>1. blocks'[n].kind = blocks[n].kind /\ blocks'[n].place = blocks[n].place
      BY <1>8, <2>1
    <3>2. ASSUME NEW p \in Range(blocks'[n].body) PROVE p[1] = blocks[n].place
      <4>1. CASE p \in Range(blocks[n].body)
        BY <1>17, <2>1, <4>1 DEF BlocksAreStreamed
      <4>2. CASE p = piece /\ n \in at
        BY <1>2, <1>8, <1>17, <2>1, <4>2
      <4> QED BY <1>11, <2>1, <4>1, <4>2
    <3> QED BY <1>17, <2>1, <3>1, <3>2 DEF BlocksAreStreamed
  <2>2. CASE n = L + 1 /\ at = {}
    BY <1>2, <1>12, <1>17, <2>2 DEF kind
  <2> QED BY <1>13, <2>1, <2>2
<1>18. ASSUME NEW m \in DOMAIN blocks', NEW n \in DOMAIN blocks', wire = "chat", m # n
       PROVE  blocks'[m].kind # blocks'[n].kind
  <2>1. ASSUME at = {}, NEW k \in DOMAIN blocks PROVE blocks[k].kind # kind
    BY <1>9, <1>18, <2>1
  <2>2. CASE m \in DOMAIN blocks /\ n \in DOMAIN blocks
    BY <1>8, <1>18, <2>2 DEF BlocksAreStreamed
  <2> QED BY <1>8, <1>12, <1>13, <1>18, <2>1, <2>2
<1>19. BlocksAreStreamed'
  <2>1. \A k \in {"text", "reasoning"} : \A n \in ShownOf(k)' :
          \A p \in Range(blocks'[n].body) : p \in Streamed(k)'
    BY <1>14 DEF ShownOf
  <2>2. /\ \A n \in DOMAIN blocks' : wire' = "responses" =>
             /\ blocks'[n].place \in DOMAIN output' /\ blocks'[n].kind = output'[blocks'[n].place].kind
             /\ \A p \in Range(blocks'[n].body) : p[1] = blocks'[n].place
        /\ \A m, n \in DOMAIN blocks' : wire' = "chat" /\ m # n => blocks'[m].kind # blocks'[n].kind
    BY <1>17, <1>18 DEF Items
  <2> QED BY <1>14, <1>15, <1>16, <2>1, <2>2 DEF BlocksAreStreamed, Items
<1> QED BY <1>7, <1>19

------------------------------------------------------------------------------
(* Calls *)

\* The arguments of a call, piece by piece, up to the whole of them.
LEMMA ArgumentsAre ==
  ASSUME NEW i \in Nat, NEW n \in Nat
  PROVE  /\ Arguments(i, n) \in Seq(Piece \cup {"closed"}) /\ Arguments(i, n) \in Seq(Piece)
         /\ n = 0 => Arguments(i, n) = <<>>
         /\ Append(Arguments(i, n), <<i, n + 2>>) = Arguments(i, n + 1)
<1> DEFINE s == Arguments(i, n)
           t == Arguments(i, n + 1)
<1>1. s = [k \in 1..n |-> <<i, k + 1>>] /\ t = [k \in 1..n + 1 |-> <<i, k + 1>>]
  BY DEF Arguments
<1>2. \A k \in 1..n + 1 : <<i, k + 1>> \in Piece
  BY DEF Piece
<1>3. /\ s \in [1..n -> Piece] /\ DOMAIN s = 1..n /\ \A k \in 1..n : s[k] = <<i, k + 1>>
      /\ t \in [1..n + 1 -> Piece] /\ DOMAIN t = 1..n + 1 /\ \A k \in 1..n + 1 : t[k] = <<i, k + 1>>
  <2>1. \A k \in 1..n : k \in 1..n + 1
    OBVIOUS
  <2> QED BY <1>1, <1>2, <2>1
<1> HIDE DEF s, t
<1>4. s \in Seq(Piece) /\ s \in Seq(Piece \cup {"closed"}) /\ Len(s) = n /\ t \in Seq(Piece)
  BY <1>3
<1>5. n = 0 => s = <<>>
  BY <1>4
<1>6. <<i, n + 2>> \in Piece
  BY DEF Piece
<1>7. Append(s, <<i, n + 2>>) = t
  <2> DEFINE p == <<i, n + 2>>
             r == Append(s, p)
  <2>1. p \in Piece /\ p = <<i, (n + 1) + 1>>
    BY <1>6
  <2> HIDE DEF p
  <2>2. DOMAIN r = 1..n + 1 /\ r \in [1..n + 1 -> Piece] /\ r[n + 1] = p /\ \A k \in 1..n : r[k] = s[k]
    <3>1. r \in Seq(Piece) /\ Len(r) = n + 1 /\ DOMAIN r = 1..n + 1
      BY <1>4, <2>1
    <3>2. r[n + 1] = p /\ \A k \in 1..n : r[k] = s[k]
      BY <1>4, <2>1
    <3> HIDE DEF r
    <3> QED BY <3>1, <3>2
  <2> HIDE DEF r
  <2>3. ASSUME NEW k \in 1..n + 1 PROVE r[k] = t[k]
    <3>1. CASE k \in 1..n
      BY <1>3, <2>2, <3>1
    <3>2. CASE k = n + 1
      BY <1>3, <2>1, <2>2, <3>2
    <3> QED BY <3>1, <3>2
  <2>4. r = t
    BY <1>3, <2>2, <2>3
  <2> QED BY <2>4 DEF r, p
<1> QED BY <1>4, <1>5, <1>7 DEF s, t

\* The pieces of a call after the first are its arguments.
LEMMA WholeArguments ==
  ASSUME NEW i, NEW n \in Nat, output[i].size = n + 1
  PROVE  Tail(Pieces(i)) = Arguments(i, n)
<1> DEFINE s == Pieces(i)
           S == {<<i, k>> : k \in 1..n + 1}
           t == Tail(s)
<1>1. s = [k \in 1..n + 1 |-> <<i, k>>]
  BY DEF Pieces
<1>2. s \in [1..n + 1 -> S] /\ \A k \in 1..n : s[k + 1] = <<i, k + 1>>
  BY <1>1
<1> HIDE DEF S
<1>3. s \in Seq(S) /\ Len(s) = n + 1
  BY <1>2
<1> HIDE DEF s
<1>4. t \in Seq(S) /\ Len(t) = n /\ \A k \in 1..n : t[k] = s[k + 1]
  BY <1>3
<1> HIDE DEF t
<1>5. DOMAIN t = 1..n /\ t \in [1..n -> S]
  BY <1>4
<1>6. t = [k \in 1..n |-> <<i, k + 1>>]
  BY <1>2, <1>4, <1>5
<1> QED BY <1>6 DEF Arguments, s, t

\* What is held of each call.
LEMMA HeldAre ==
  ASSUME RoundShape
  PROVE  /\ held \in Seq(CallType) /\ Len(held) \in Nat /\ DOMAIN held = 1..Len(held)
         /\ \A n \in DOMAIN held :
              /\ held[n] \in CallType /\ held[n].item \in Nat /\ held[n].name \in STRING
              /\ held[n].args \in Seq(Piece \cup {"closed"}) /\ held[n].place \in Nat
<1>1. held \in Seq(CallType)
  BY DEF RoundShape
<1>2. Len(held) \in Nat /\ DOMAIN held = 1..Len(held) /\ \A n \in DOMAIN held : held[n] \in CallType
  BY <1>1
<1> QED BY <1>1, <1>2 DEF CallType

\* What is told of each block.
LEMMA BlocksAre ==
  ASSUME RoundShape
  PROVE  /\ blocks \in Seq(BlockType) /\ Len(blocks) \in Nat /\ DOMAIN blocks = 1..Len(blocks)
         /\ \A n \in DOMAIN blocks :
              /\ blocks[n] \in BlockType /\ blocks[n].kind \in {"reasoning", "text"}
              /\ blocks[n].place \in Nat /\ blocks[n].body \in Seq(Piece)
              /\ blocks[n].phase \in Phases \cup {"pending"}
<1>1. blocks \in Seq(BlockType)
  BY DEF RoundShape
<1>2. Len(blocks) \in Nat /\ DOMAIN blocks = 1..Len(blocks) /\ \A n \in DOMAIN blocks : blocks[n] \in BlockType
  BY <1>1
<1> QED BY <1>1, <1>2 DEF BlockType

\* A call that is held gets more arguments.
LEMMA CallGrown ==
  ASSUME RoundShape, CallsAreStreamed, PlacesDiffer, UNCHANGED <<wire, output, blocks>>,
         NEW i \in Items, IsCall(i), NEW v \in Nat, 0 < v, Held(i) # {},
         \A j \in Items : streamed'[j] = IF j = i THEN v ELSE streamed[j],
         held' = [n \in DOMAIN held |->
                    IF n \in Held(i)
                    THEN [item |-> i, name |-> output[i].name, args |-> Arguments(i, v - 1),
                          place |-> held[n].place]
                    ELSE held[n]]
  PROVE  held' \in Seq(CallType) /\ CallsAreStreamed' /\ PlacesDiffer'
<1> DEFINE L == Len(held)
<1>1. /\ L \in Nat /\ DOMAIN held = 1..L
      /\ \A n \in 1..L : held[n] \in CallType /\ held[n].item \in Nat /\ held[n].place \in Nat
  BY HeldAre
<1>2. i \in Nat /\ v - 1 \in Nat /\ output[i].name \in STRING
  BY ItemsAre
<1>3. ASSUME NEW n \in 1..L
      PROVE  /\ held'[n] \in CallType /\ held'[n].item = held[n].item /\ held'[n].place = held[n].place
             /\ n \in Held(i) => /\ held[n].item = i /\ held'[n].name = output[i].name
                                 /\ held'[n].args = Arguments(i, v - 1)
             /\ n \notin Held(i) => held'[n] = held[n] /\ held[n].item # i
  <2>1. CASE n \in Held(i)
    <3> DEFINE c == [item |-> i, name |-> output[i].name, args |-> Arguments(i, v - 1), place |-> held[n].place]
    <3>1. c \in CallType
      BY <1>1, <1>2, ArgumentsAre DEF CallType
    <3>2. held'[n] = c /\ held[n].item = i
      BY <1>1, <2>1 DEF Held
    <3> QED BY <2>1, <3>1, <3>2
  <2>2. CASE n \notin Held(i)
    BY <1>1, <2>2 DEF Held
  <2> QED BY <2>1, <2>2
<1>4. DOMAIN held' = 1..L /\ held' \in Seq(CallType) /\ Len(held') = L
  <2>1. DOMAIN held' = 1..L
    BY <1>1
  <2>2. held' \in [1..L -> CallType]
    BY <1>1, <1>3, <2>1
  <2> QED BY <1>1, <2>1, <2>2
<1> HIDE DEF L
<1>5. CallsAreStreamed'
  <2>1. ASSUME NEW n \in 1..L
        PROVE  /\ held'[n].item \in Items /\ IsCall(held'[n].item)
               /\ held'[n].name = output[held'[n].item].name
               /\ streamed'[held'[n].item] > 0
               /\ held'[n].args = Arguments(held'[n].item, streamed'[held'[n].item] - 1)
    <3>1. CASE n \in Held(i)
      <4>1. /\ held'[n].item = i /\ held'[n].name = output[i].name /\ held'[n].args = Arguments(i, v - 1)
            /\ streamed'[i] = v
        BY <1>3, <3>1
      <4> QED BY <4>1
    <3>2. CASE n \notin Held(i)
      <4>1. /\ held[n].item \in Items /\ IsCall(held[n].item)
            /\ held[n].name = output[held[n].item].name
            /\ streamed[held[n].item] > 0
            /\ held[n].args = Arguments(held[n].item, streamed[held[n].item] - 1)
        BY <1>1 DEF CallsAreStreamed
      <4>2. held'[n] = held[n] /\ held[n].item # i
        BY <1>3, <3>2
      <4>3. streamed'[held[n].item] = streamed[held[n].item]
        BY <4>1, <4>2
      <4> QED BY <4>1, <4>2, <4>3
    <3> QED BY <3>1, <3>2
  <2>2. /\ \A m, n \in 1..L : m < n => held'[m].item # held'[n].item
        /\ wire = "responses" => \A m, n \in 1..L : m < n => held'[m].item < held'[n].item
    <3>1. \A n \in 1..L : held'[n].item = held[n].item
      BY <1>3
    <3>2. /\ \A m, n \in 1..L : m < n => held[m].item # held[n].item
          /\ wire = "responses" => \A m, n \in 1..L : m < n => held[m].item < held[n].item
      BY <1>1 DEF CallsAreStreamed
    <3>3. ASSUME NEW m \in 1..L, NEW n \in 1..L, m < n
          PROVE  held'[m].item # held'[n].item /\ (wire = "responses" => held'[m].item < held'[n].item)
      <4>1. held'[m].item = held[m].item /\ held'[n].item = held[n].item
        BY <3>1
      <4>2. held[m].item # held[n].item /\ (wire = "responses" => held[m].item < held[n].item)
        BY <3>2, <3>3
      <4> QED BY <4>1, <4>2
    <3> QED BY <3>3
  <2>3. ASSUME NEW j \in Items, IsCall(j), streamed'[j] > 0 PROVE Held(j)' # {}
    <3>1. Held(j) # {}
      BY <2>3 DEF CallsAreStreamed
    <3>2. PICK n \in 1..L : held[n].item = j
      BY <1>1, <3>1 DEF Held
    <3> QED BY <1>3, <1>4, <3>2 DEF Held
  <2>4. Items' = Items /\ (\A j : IsCall(j)' <=> IsCall(j)) /\ wire' = wire
    BY DEF Items, IsCall
  <2> QED BY <1>4, <2>1, <2>2, <2>3, <2>4 DEF CallsAreStreamed, Items, IsCall
<1>6. PlacesDiffer'
  <2>1. NextPlace' = NextPlace
    BY <1>4 DEF NextPlace, L
  <2> QED BY <1>1, <1>3, <1>4, <2>1 DEF PlacesDiffer
<1> QED BY <1>4, <1>5, <1>6

\* A call is held for the first time.
LEMMA CallHeld ==
  ASSUME RoundShape, CallsAreStreamed, PlacesDiffer, UNCHANGED <<wire, output, blocks>>,
         wire \in {"chat", "responses"},
         NEW i \in Items, IsCall(i), Held(i) = {}, NEW place \in Nat,
         \A j \in Items : streamed'[j] = IF j = i THEN 1 ELSE streamed[j],
         wire = "chat" => place = NextPlace,
         wire = "responses" =>
           /\ place = i /\ \A n \in DOMAIN held : held[n].item < i
           /\ \A n \in DOMAIN blocks : blocks[n].place # i,
         held' = Append(held, [item |-> i, name |-> output[i].name, args |-> <<>>, place |-> place])
  PROVE  held' \in Seq(CallType) /\ CallsAreStreamed' /\ PlacesDiffer'
<1> DEFINE L == Len(held)
           c == [item |-> i, name |-> output[i].name, args |-> <<>>, place |-> place]
<1>1. /\ held \in Seq(CallType) /\ L \in Nat /\ DOMAIN held = 1..L
      /\ \A n \in 1..L : held[n] \in CallType /\ held[n].item \in Nat /\ held[n].place \in Nat
  BY HeldAre
<1>2. i \in Nat /\ output[i].name \in STRING /\ 0 \in Nat
  BY ItemsAre
<1>3. c \in CallType /\ c.item = i /\ c.name = output[i].name /\ c.args = Arguments(i, 1 - 1) /\ c.place = place
  <2>1. Arguments(i, 0) = <<>> /\ <<>> \in Seq(Piece \cup {"closed"})
    BY <1>2, ArgumentsAre
  <2>2. c \in CallType
    BY <1>2, <2>1 DEF CallType
  <2> QED BY <2>1, <2>2
<1> HIDE DEF c
<1>4. /\ held' \in Seq(CallType) /\ Len(held') = L + 1 /\ DOMAIN held' = 1..L + 1
      /\ held'[L + 1] = c /\ \A n \in 1..L : held'[n] = held[n]
  BY <1>1, <1>3 DEF c
<1> HIDE DEF L
<1>5. ASSUME NEW n \in 1..L PROVE held[n].item # i
  BY <1>1, <1>5 DEF Held
<1>6. \A n \in 1..L + 1 : n \in 1..L \/ n = L + 1
  BY <1>1
<1>7. CallsAreStreamed'
  <2>1. ASSUME NEW n \in 1..L + 1
        PROVE  /\ held'[n].item \in Items /\ IsCall(held'[n].item)
               /\ held'[n].name = output[held'[n].item].name
               /\ streamed'[held'[n].item] > 0
               /\ held'[n].args = Arguments(held'[n].item, streamed'[held'[n].item] - 1)
    <3>1. CASE n = L + 1
      BY <1>3, <1>4, <3>1
    <3>2. CASE n \in 1..L
      <4>1. /\ held[n].item \in Items /\ IsCall(held[n].item)
            /\ held[n].name = output[held[n].item].name
            /\ streamed[held[n].item] > 0
            /\ held[n].args = Arguments(held[n].item, streamed[held[n].item] - 1)
        BY <1>1, <3>2 DEF CallsAreStreamed
      <4>2. held'[n] = held[n] /\ held[n].item # i
        BY <1>4, <1>5, <3>2
      <4>3. streamed'[held[n].item] = streamed[held[n].item]
        BY <4>1, <4>2
      <4> QED BY <4>1, <4>2, <4>3
    <3> QED BY <1>6, <3>1, <3>2
  <2>2. ASSUME NEW m \in 1..L + 1, NEW n \in 1..L + 1, m < n
        PROVE  held'[m].item # held'[n].item /\ (wire = "responses" => held'[m].item < held'[n].item)
    <3>1. m \in 1..L
      BY <1>1, <2>2
    <3>2. held'[m] = held[m] /\ held[m].item # i
      BY <1>4, <1>5, <3>1
    <3>3. CASE n = L + 1
      BY <1>1, <1>3, <1>4, <3>1, <3>2, <3>3
    <3>4. CASE n \in 1..L
      <4>1. held'[n] = held[n]
        BY <1>4, <3>4
      <4>2. held[m].item # held[n].item /\ (wire = "responses" => held[m].item < held[n].item)
        BY <1>1, <2>2, <3>1, <3>4 DEF CallsAreStreamed
      <4> QED BY <3>2, <4>1, <4>2
    <3> QED BY <1>6, <3>3, <3>4
  <2>3. ASSUME NEW j \in Items, IsCall(j), streamed'[j] > 0 PROVE Held(j)' # {}
    <3>1. CASE j = i
      <4>1. L + 1 \in DOMAIN held' /\ held'[L + 1].item = j
        BY <1>1, <1>3, <1>4, <3>1
      <4> QED BY <4>1 DEF Held
    <3>2. CASE j # i
      <4>1. Held(j) # {}
        BY <2>3, <3>2 DEF CallsAreStreamed
      <4>2. PICK n \in 1..L : held[n].item = j
        BY <1>1, <4>1 DEF Held
      <4>3. n \in DOMAIN held' /\ held'[n].item = j
        BY <1>1, <1>4, <4>2
      <4> QED BY <4>3 DEF Held
    <3> QED BY <3>1, <3>2
  <2>4. Items' = Items /\ (\A j : IsCall(j)' <=> IsCall(j)) /\ wire' = wire
    BY DEF Items, IsCall
  <2> QED BY <1>4, <2>1, <2>2, <2>3, <2>4 DEF CallsAreStreamed, Items, IsCall
<1>8. PlacesDiffer'
  <2>1. NextPlace' = NextPlace + 1 /\ NextPlace \in Nat /\ \A n \in DOMAIN blocks : blocks[n].place \in Nat
    BY <1>1, <1>4, BlocksAre DEF NextPlace, L
  <2>2. /\ \A n \in 1..L : held[n].place # place
        /\ \A n \in DOMAIN blocks : blocks[n].place # place
    <3>1. CASE wire = "chat"
      <4>1. /\ \A n \in DOMAIN blocks : blocks[n].place < NextPlace
            /\ \A n \in 1..L : held[n].place < NextPlace
        BY <1>1, <3>1 DEF PlacesDiffer
      <4> QED BY <1>1, <2>1, <3>1, <4>1
    <3>2. CASE wire = "responses"
      <4>1. \A n \in 1..L : held[n].place = held[n].item
        BY <1>1, <3>2 DEF PlacesDiffer
      <4>2. place = i /\ \A n \in DOMAIN blocks : blocks[n].place # i
        BY <3>2
      <4> QED BY <1>5, <4>1, <4>2
    <3> QED BY <3>1, <3>2
  <2>3. \A m, n \in 1..L + 1 : m # n => held'[m].place # held'[n].place
    <3>1. \A m, n \in 1..L : m # n => held[m].place # held[n].place
      BY <1>1 DEF PlacesDiffer
    <3> QED BY <1>3, <1>4, <1>6, <2>2, <3>1
  <2>4. \A m \in DOMAIN blocks, n \in 1..L + 1 : blocks[m].place # held'[n].place
    <3>1. \A m \in DOMAIN blocks, n \in 1..L : blocks[m].place # held[n].place
      BY <1>1 DEF PlacesDiffer
    <3> QED BY <1>3, <1>4, <1>6, <2>2, <3>1
  <2>5. wire = "chat" => /\ \A n \in DOMAIN blocks : blocks[n].place < NextPlace'
                         /\ \A n \in 1..L + 1 : held'[n].place < NextPlace'
    <3>1. wire = "chat" => /\ place = NextPlace /\ \A n \in DOMAIN blocks : blocks[n].place < NextPlace
                           /\ \A n \in 1..L : held[n].place < NextPlace
      BY <1>1 DEF PlacesDiffer
    <3>2. ASSUME wire = "chat", NEW n \in 1..L + 1 PROVE held'[n].place < NextPlace'
      BY <1>1, <1>3, <1>4, <1>6, <2>1, <3>1, <3>2
    <3>3. ASSUME wire = "chat", NEW n \in DOMAIN blocks PROVE blocks[n].place < NextPlace'
      <4>1. blocks[n].place < NextPlace /\ blocks[n].place \in Nat
        BY <2>1, <3>1, <3>3
      <4> QED BY <2>1, <4>1
    <3> QED BY <3>2, <3>3
  <2>6. wire = "responses" => \A n \in 1..L + 1 : held'[n].place = held'[n].item
    <3>1. wire = "responses" => place = i /\ \A n \in 1..L : held[n].place = held[n].item
      BY <1>1 DEF PlacesDiffer
    <3> QED BY <1>3, <1>4, <1>6, <3>1
  <2>7. wire' = wire /\ blocks' = blocks /\ \A m, n \in DOMAIN blocks : m # n => blocks[m].place # blocks[n].place
    BY DEF PlacesDiffer
  <2> QED BY <1>4, <2>3, <2>4, <2>5, <2>6, <2>7 DEF PlacesDiffer
<1> QED BY <1>4, <1>7, <1>8

------------------------------------------------------------------------------
(* Steps while the model speaks *)

\* A block that grows or is new has a place of its own.
LEMMA PlacesAfterPiece ==
  ASSUME RoundShape, BlocksAreStreamed, CallsAreStreamed, PlacesDiffer,
         wire \in {"chat", "responses"}, UNCHANGED <<wire, output, held>>,
         NEW i \in Items, ~IsCall(i), NEW kind \in {"reasoning", "text"}, kind = output[i].kind,
         NEW place \in Nat, NEW piece \in Piece, NEW phase \in Phases \cup {"pending"},
         GrowBlock(kind, place, piece, phase),
         wire = "chat" /\ BlocksAt(kind, place) = {} => place = NextPlace,
         wire = "responses" => place = i
  PROVE  PlacesDiffer'
<1> DEFINE L == Len(blocks)
           at == BlocksAt(kind, place)
<1>1. /\ L \in Nat /\ DOMAIN blocks = 1..L /\ \A n \in 1..L : blocks[n].place \in Nat
      /\ Len(held) \in Nat /\ DOMAIN held = 1..Len(held) /\ \A n \in DOMAIN held : held[n].place \in Nat
  BY HeldAre, BlocksAre
<1>2. /\ \A n \in 1..L : n \in DOMAIN blocks' /\ blocks'[n].place = blocks[n].place
      /\ at # {} => Len(blocks') = L /\ DOMAIN blocks' = 1..L
      /\ at = {} => Len(blocks') = L + 1 /\ DOMAIN blocks' = 1..L + 1 /\ blocks'[L + 1].place = place
  <2>1. /\ \A n \in DOMAIN blocks : n \in DOMAIN blocks' /\ blocks'[n].place = blocks[n].place
        /\ at # {} => Len(blocks') = L /\ DOMAIN blocks' = 1..L
    BY GrowBlockIs DEF BlocksGrow
  <2>2. at = {} => /\ Len(blocks') = L + 1 /\ DOMAIN blocks' = 1..L + 1
                   /\ blocks'[L + 1] = [kind |-> kind, place |-> place, body |-> <<piece>>, phase |-> phase]
    BY GrowBlockIs DEF BlocksGrow
  <2> QED BY <1>1, <2>1, <2>2
<1>3. ASSUME at = {}
      PROVE  /\ \A n \in 1..L : blocks[n].place # place
             /\ \A n \in DOMAIN held : held[n].place # place
  <2>1. CASE wire = "chat"
    <3>1. place = NextPlace /\ NextPlace \in Nat
      BY <1>1, <1>3, <2>1 DEF NextPlace
    <3> QED BY <1>1, <2>1, <3>1 DEF PlacesDiffer
  <2>2. CASE wire = "responses"
    <3>1. ASSUME NEW n \in 1..L, blocks[n].place = place PROVE FALSE
      <4>1. blocks[n].kind = kind
        BY <1>1, <2>2, <3>1 DEF BlocksAreStreamed
      <4> QED BY <1>1, <1>3, <3>1, <4>1 DEF BlocksAt
    <3>2. ASSUME NEW n \in DOMAIN held PROVE held[n].place # place
      <4>1. held[n].place = held[n].item /\ IsCall(held[n].item)
        BY <2>2 DEF PlacesDiffer, CallsAreStreamed
      <4> QED BY <2>2, <4>1
    <3> QED BY <3>1, <3>2
  <2> QED BY <2>1, <2>2
<1> HIDE DEF L
<1>4. NextPlace = L + Len(held) /\ NextPlace' = Len(blocks') + Len(held)
  BY DEF NextPlace, L
<1>5. \A n \in DOMAIN blocks' : n \in 1..L \/ (at = {} /\ n = L + 1)
  BY <1>1, <1>2
<1>6. \A m, n \in DOMAIN blocks' : m # n => blocks'[m].place # blocks'[n].place
  <2>1. \A m, n \in 1..L : m # n => blocks[m].place # blocks[n].place
    BY <1>1 DEF PlacesDiffer
  <2> QED BY <1>2, <1>3, <1>5, <2>1
<1>7. \A m \in DOMAIN blocks', n \in DOMAIN held : blocks'[m].place # held[n].place
  <2>1. \A m \in 1..L, n \in DOMAIN held : blocks[m].place # held[n].place
    BY <1>1 DEF PlacesDiffer
  <2> QED BY <1>2, <1>3, <1>5, <2>1
<1>8. ASSUME wire = "chat"
      PROVE  /\ \A n \in DOMAIN blocks' : blocks'[n].place < NextPlace'
             /\ \A n \in DOMAIN held : held[n].place < NextPlace'
  <2>1. /\ \A n \in 1..L : blocks[n].place < NextPlace
        /\ \A n \in DOMAIN held : held[n].place < NextPlace
    BY <1>1, <1>8 DEF PlacesDiffer
  <2>2. CASE at = {}
    <3>1. place = NextPlace /\ NextPlace' = NextPlace + 1 /\ NextPlace \in Nat
      <4>1. place = NextPlace
        BY <1>8, <2>2
      <4>2. Len(blocks') = L + 1
        BY <1>2, <2>2
      <4>3. L \in Nat /\ Len(held) \in Nat
        BY <1>1
      <4>4. NextPlace' = (L + 1) + Len(held)
        BY <1>4, <4>2
      <4> QED BY <1>4, <4>1, <4>3, <4>4
    <3>2. ASSUME NEW n \in DOMAIN blocks' PROVE blocks'[n].place < NextPlace'
      <4>1. CASE n \in 1..L
        BY <1>1, <1>2, <2>1, <3>1, <4>1
      <4>2. CASE n = L + 1
        BY <1>2, <2>2, <3>1, <4>2
      <4> QED BY <1>5, <4>1, <4>2
    <3> QED BY <1>1, <2>1, <3>1, <3>2
  <2>3. CASE at # {}
    BY <1>2, <1>4, <2>1, <2>3
  <2> QED BY <2>2, <2>3
<1>9. wire' = wire /\ held' = held
  OBVIOUS
<1> QED BY <1>6, <1>7, <1>8, <1>9 DEF PlacesDiffer

\* On the wire with chunks, a kind has one block.
LEMMA ChatPlaceIs ==
  ASSUME RoundShape, BlocksAreStreamed, wire = "chat", NEW kind
  PROVE  /\ ChatPlace(kind) \in Nat
         /\ \A n \in ShownOf(kind) : blocks[n].place = ChatPlace(kind)
         /\ BlocksAt(kind, ChatPlace(kind)) = {} => ChatPlace(kind) = NextPlace
<1> DEFINE here == {blocks[n].place : n \in {m \in DOMAIN blocks : blocks[m].kind = kind}}
<1>1. ChatPlace(kind) = IF here = {} THEN NextPlace ELSE CHOOSE p \in here : TRUE
  BY DEF ChatPlace
<1>2. NextPlace \in Nat /\ \A n \in DOMAIN blocks : blocks[n].place \in Nat
  BY HeldAre, BlocksAre DEF NextPlace
<1>3. CASE here = {}
  <2>1. ShownOf(kind) = {}
    BY <1>3 DEF ShownOf
  <2> QED BY <1>1, <1>2, <1>3, <2>1
<1>4. CASE here # {}
  <2>1. ChatPlace(kind) \in here
    BY <1>1, <1>4
  <2>2. PICK m \in DOMAIN blocks : blocks[m].kind = kind /\ blocks[m].place = ChatPlace(kind)
    BY <2>1
  <2>3. \A n \in ShownOf(kind) : n = m
    BY <2>2 DEF ShownOf, BlocksAreStreamed
  <2>4. m \in BlocksAt(kind, ChatPlace(kind))
    BY <2>2 DEF BlocksAt
  <2> QED BY <1>2, <2>2, <2>3, <2>4
<1> QED BY <1>3, <1>4

\* Phases of a block that grows: none on one wire, what DeltaPhase() says on the other.
LEMMA PhasesAfterPiece ==
  ASSUME RoundShape, BlocksAreStreamed, PhasesAreGiven, UNCHANGED <<wire, label, closed>>,
         NEW kind \in {"reasoning", "text"},
         NEW place \in Nat, NEW piece \in Piece, NEW phase \in Phases \cup {"pending"},
         GrowBlock(kind, place, piece, phase),
         wire = "chat" => phase = "none",
         wire = "responses" /\ kind = "text" =>
           place \notin closed /\ (label[place] = "none" => phase = "pending")
  PROVE  PhasesAreGiven'
<1> DEFINE L == Len(blocks)
           at == BlocksAt(kind, place)
           Right(n) ==
             /\ wire = "chat" => blocks'[n].phase = "none"
             /\ wire = "responses" /\ blocks'[n].kind = "text" =>
                  /\ label[blocks'[n].place] = "none" => blocks'[n].phase = "pending"
                  /\ blocks'[n].place \in closed /\ label[blocks'[n].place] # "none" =>
                       blocks'[n].phase = label[blocks'[n].place]
<1>9. BlocksGrow(kind, place, piece, phase)
  BY GrowBlockIs
<1>0. \A n \in DOMAIN blocks :
        /\ n \in DOMAIN blocks'
        /\ blocks'[n].kind = blocks[n].kind /\ blocks'[n].place = blocks[n].place
        /\ n \notin BlocksAt(kind, place) => blocks'[n] = blocks[n]
        /\ n \in BlocksAt(kind, place) =>
             /\ blocks'[n].body = Append(blocks[n].body, piece) /\ blocks'[n].phase = phase
             /\ blocks[n].kind = kind /\ blocks[n].place = place
  BY <1>9 DEF BlocksGrow
<1>1. ASSUME NEW n \in DOMAIN blocks PROVE Right(n)
  <2>1. /\ blocks'[n].kind = blocks[n].kind /\ blocks'[n].place = blocks[n].place
        /\ n \notin at => blocks'[n] = blocks[n]
        /\ n \in at => blocks'[n].phase = phase /\ blocks[n].kind = kind /\ blocks[n].place = place
    BY <1>0
  <2>2. CASE n \in at
    BY <2>1, <2>2
  <2>3. CASE n \notin at
    BY <2>1, <2>3 DEF PhasesAreGiven
  <2> QED BY <2>2, <2>3
<1>2. ASSUME at = {} PROVE Right(L + 1)
  <2>1. blocks'[L + 1] = [kind |-> kind, place |-> place, body |-> <<piece>>, phase |-> phase]
    BY <1>2, <1>9 DEF BlocksGrow
  <2>2. blocks'[L + 1].kind = kind /\ blocks'[L + 1].place = place /\ blocks'[L + 1].phase = phase
    BY <2>1
  <2> QED BY <2>2
<1>3. \A n \in DOMAIN blocks' : n \in DOMAIN blocks \/ (at = {} /\ n = L + 1)
  <2>1. L \in Nat /\ DOMAIN blocks = 1..L
    BY BlocksAre
  <2>2. at # {} => DOMAIN blocks' = 1..L
    BY <1>9 DEF BlocksGrow
  <2>3. at = {} => DOMAIN blocks' = 1..L + 1
    BY <1>9 DEF BlocksGrow
  <2> QED BY <2>1, <2>2, <2>3
<1>4. \A n \in DOMAIN blocks' : Right(n)
  BY <1>1, <1>2, <1>3
<1> QED BY <1>4 DEF PhasesAreGiven

\* The types after a step within an attempt.
LEMMA ShapeAfter ==
  ASSUME RoundShape, UNCHANGED <<requestVars, output>>,
         streamed' \in [Items -> Nat], \A j \in Items : streamed'[j] \in Nat /\ streamed'[j] <= output[j].size,
         closed' \subseteq opened', opened' \subseteq Items,
         finish' \in {"none", "stop", "max_output_tokens", "content_filter"},
         stage' \in {"streaming", "ended", "failed", "clarifies", "calls", "answers"},
         label' \in [Items -> Phases],
         blocks' \in Seq(BlockType), held' \in Seq(CallType), visible' \in Seq(Piece)
  PROVE  RoundShape'
<1>1. /\ wire' = wire /\ finalOnly' = finalOnly /\ recoveries' = recoveries /\ output' = output
      /\ Items' = Items /\ (Allowed(output)' <=> Allowed(output))
  BY DEF requestVars, Items, Allowed
<1>2. RoundTypeOK /\ Allowed(output)
  BY DEF RoundShape
<1>3. \A j \in Items : streamed'[j] \in 0..output[j].size
  <2>1. ASSUME NEW j \in Items PROVE streamed'[j] \in 0..output[j].size
    <3>1. streamed'[j] \in Nat /\ streamed'[j] <= output[j].size /\ output[j].size \in Nat
      BY ItemsAre
    <3> QED BY <3>1
  <2> QED BY <2>1
<1>4. RoundTypeOK'
  BY <1>1, <1>2, <1>3 DEF RoundTypeOK
<1> QED BY <1>1, <1>2, <1>4 DEF RoundShape

\* A step on calls leaves what is told as it was.
LEMMA NothingTold ==
  ASSUME RoundShape, VisibleIsStreamed, BlocksAreStreamed, PhasesAreGiven,
         wire \in {"chat", "responses"}, UNCHANGED <<wire, output, blocks, visible, label>>,
         \A j \in Items : streamed'[j] \in Nat /\ streamed'[j] <= output[j].size,
         \A j \in Items : ~IsCall(j) => streamed'[j] = streamed[j] /\ (j \in closed' => j \in closed)
  PROVE  VisibleIsStreamed' /\ BlocksAreStreamed' /\ PhasesAreGiven'
<1>1. ASSUME NEW k \in {"text", "reasoning"}, NEW p PROVE p \in Streamed(k)' <=> p \in Streamed(k)
  <2>1. p \in Streamed(k)' <=> /\ p \in Piece /\ p[1] \in Items /\ output[p[1]].kind = k
                               /\ p[2] \in 1..streamed'[p[1]]
    BY InStreamedNext
  <2>2. p \in Streamed(k) <=> /\ p \in Piece /\ p[1] \in Items /\ output[p[1]].kind = k
                              /\ p[2] \in 1..streamed[p[1]]
    BY InStreamed
  <2>3. p[1] \in Items /\ output[p[1]].kind = k => streamed'[p[1]] = streamed[p[1]]
    BY DEF IsCall
  <2> QED BY <2>1, <2>2, <2>3
<1>2. \A n : blocks'[n] = blocks[n] /\ DOMAIN blocks' = DOMAIN blocks /\ Items' = Items
  BY DEF Items
<1>3. VisibleIsStreamed'
  BY <1>1 DEF VisibleIsStreamed
<1>4. BlocksAreStreamed'
  <2>1. \A k \in {"text", "reasoning"} : ShownOf(k)' = ShownOf(k)
    BY DEF ShownOf
  <2>2. \A k \in {"text", "reasoning"} : \A n \in ShownOf(k)' : \A p \in Range(blocks'[n].body) : p \in Streamed(k)'
    BY <1>1, <1>2, <2>1 DEF BlocksAreStreamed
  <2>3. \A k \in {"text", "reasoning"} : \A p \in Streamed(k)' :
          \E n \in DOMAIN blocks' : blocks'[n].kind = k /\ p \in Range(blocks'[n].body)
    BY <1>1 DEF BlocksAreStreamed
  <2> QED BY <1>2, <2>2, <2>3 DEF BlocksAreStreamed
<1>5. PhasesAreGiven'
  <2>1. ASSUME NEW n \in DOMAIN blocks
        PROVE  /\ wire = "chat" => blocks[n].phase = "none"
               /\ wire = "responses" /\ blocks[n].kind = "text" =>
                    /\ label[blocks[n].place] = "none" => blocks[n].phase = "pending"
                    /\ blocks[n].place \in closed' /\ label[blocks[n].place] # "none" =>
                         blocks[n].phase = label[blocks[n].place]
    <3>1. wire = "responses" /\ blocks[n].kind = "text" /\ blocks[n].place \in closed' =>
            blocks[n].place \in closed
      BY DEF BlocksAreStreamed, IsCall
    <3> QED BY <3>1 DEF PhasesAreGiven
  <2> QED BY <2>1 DEF PhasesAreGiven
<1> QED BY <1>3, <1>4, <1>5

\* A step on text or reasoning leaves the calls as they were.
LEMMA CallsKept ==
  ASSUME RoundShape, CallsAreStreamed, UNCHANGED <<wire, output, held>>,
         \A j \in Items : IsCall(j) => streamed'[j] = streamed[j]
  PROVE  CallsAreStreamed'
<1>1. Items' = Items /\ (\A j : IsCall(j)' <=> IsCall(j)) /\ (\A j : Held(j)' = Held(j))
  BY DEF Items, IsCall, Held
<1>2. ASSUME NEW n \in DOMAIN held
      PROVE  /\ held[n].item \in Items /\ IsCall(held[n].item)
             /\ held[n].name = output[held[n].item].name
             /\ streamed'[held[n].item] > 0
             /\ held[n].args = Arguments(held[n].item, streamed'[held[n].item] - 1)
  BY DEF CallsAreStreamed
<1>3. \A j \in Items : IsCall(j) /\ streamed'[j] > 0 => Held(j) # {}
  BY DEF CallsAreStreamed
<1>4. /\ \A m, n \in DOMAIN held : m < n => held[m].item # held[n].item
      /\ wire = "responses" => \A m, n \in DOMAIN held : m < n => held[m].item < held[n].item
  BY DEF CallsAreStreamed
<1> QED BY <1>1, <1>2, <1>3, <1>4 DEF CallsAreStreamed, Items, IsCall

\* Whether the next thing to stream is a piece of one item or all of a call, what is streamed comes
\* item after item.
LEMMA OneByOneKept ==
  ASSUME RoundShape, OneByOne, UNCHANGED <<wire, output, label>>, wire = "chat" => opened' = {},
         NEW i \in Items, NEW v \in Nat, v <= output[i].size,
         \A j \in Items : streamed'[j] = IF j = i THEN v ELSE streamed[j], streamed[i] <= v,
         ~IsCall(i) => \A j \in Items : j < i => IsCall(j) \/ streamed[j] = output[j].size
  PROVE  /\ \A a, b \in Items : ~IsCall(a) /\ ~IsCall(b) /\ b < a /\ streamed'[a] > 0 =>
              streamed'[b] = output[b].size
         /\ wire = "chat" => opened' = {} /\ \A j \in Items : label'[j] = "none"
<1>1. ASSUME NEW a \in Items, NEW b \in Items, ~IsCall(a), ~IsCall(b), b < a, streamed'[a] > 0
      PROVE  streamed'[b] = output[b].size
  <2>1. a \in Int /\ b \in Int /\ output[i].size \in Nat /\ streamed[i] \in Nat
    BY ItemsAre
  <2>2. CASE a = i
    <3>1. b # i /\ streamed[b] = output[b].size
      BY <1>1, <2>1, <2>2
    <3> QED BY <3>1
  <2>3. CASE a # i
    <3>1. streamed[b] = output[b].size
      BY <1>1, <2>3 DEF OneByOne
    <3>2. b = i => v = output[i].size
      BY <2>1, <3>1
    <3> QED BY <3>1, <3>2
  <2> QED BY <2>2, <2>3
<1> QED BY <1>1 DEF OneByOne

\* A call with other arguments.
LEMMA CallWithArguments ==
  ASSUME NEW c \in CallType, NEW a
  PROVE  [c EXCEPT !.args = a] = [item |-> c.item, name |-> c.name, args |-> a, place |-> c.place]
BY DEF CallType

\* A call that is held gets the next piece of its arguments.
LEMMA CallLonger ==
  ASSUME RoundShape, CallsAreStreamed, PlacesDiffer, UNCHANGED <<wire, output, blocks>>,
         NEW i \in Items, IsCall(i), Held(i) # {},
         \A j \in Items : streamed'[j] = IF j = i THEN streamed[i] + 1 ELSE streamed[j],
         held' = LongerCall(i, <<i, streamed[i] + 1>>)
  PROVE  held' \in Seq(CallType) /\ CallsAreStreamed' /\ PlacesDiffer'
<1> DEFINE v == streamed[i] + 1
           piece == <<i, v>>
<1>1. PICK m \in DOMAIN held : held[m].item = i
  BY DEF Held
<1>2. i \in Nat /\ streamed[i] \in Nat
  BY ItemsAre
<1>3. 0 < streamed[i] /\ v \in Nat /\ 0 < v /\ v - 1 = (streamed[i] - 1) + 1 /\ streamed[i] - 1 \in Nat
  BY <1>1, <1>2 DEF CallsAreStreamed
<1>4. ASSUME NEW n \in Held(i)
      PROVE  [held[n] EXCEPT !.args = Append(@, piece)]
               = [item |-> i, name |-> output[i].name, args |-> Arguments(i, v - 1), place |-> held[n].place]
  <2>1. /\ n \in DOMAIN held /\ held[n].item = i /\ held[n].name = output[i].name
        /\ held[n].args = Arguments(i, streamed[i] - 1)
    BY DEF Held, CallsAreStreamed
  <2>2. held[n] \in CallType
    BY <2>1, HeldAre
  <2>3. Append(Arguments(i, streamed[i] - 1), <<i, (streamed[i] - 1) + 2>>) = Arguments(i, (streamed[i] - 1) + 1)
    BY <1>2, <1>3, ArgumentsAre
  <2>4. (streamed[i] - 1) + 2 = streamed[i] + 1
    BY <1>2
  <2>5. Append(held[n].args, piece) = Arguments(i, v - 1)
    BY <1>3, <2>1, <2>3, <2>4
  <2>6. \A a : [held[n] EXCEPT !.args = a]
                 = [item |-> held[n].item, name |-> held[n].name, args |-> a, place |-> held[n].place]
    BY <2>2, CallWithArguments
  <2> QED BY <2>1, <2>5, <2>6
<1>5. held' = [n \in DOMAIN held |-> IF n \in Held(i) THEN [held[n] EXCEPT !.args = Append(@, piece)] ELSE held[n]]
  BY DEF LongerCall
<1>6. \A j \in Items : streamed'[j] = IF j = i THEN v ELSE streamed[j]
  OBVIOUS
<1> HIDE DEF v, piece
<1>7. held' = [n \in DOMAIN held |->
                IF n \in Held(i)
                THEN [item |-> i, name |-> output[i].name, args |-> Arguments(i, v - 1),
                      place |-> held[n].place]
                ELSE held[n]]
  BY <1>4, <1>5
<1> QED BY <1>3, <1>6, <1>7, CallGrown

\* What a step on the wire with chunks leaves.
LEMMA ChatChunkKeeps ==
  ASSUME RoundShape, AsStreamed, NEW i \in Items, ChatChunk(i)
  PROVE  RoundShape' /\ AsStreamed'
<1> DEFINE piece == <<i, streamed[i] + 1>>
           kind == output[i].kind
<1>1. /\ wire = "chat" /\ stage = "streaming" /\ UNCHANGED <<requestVars, output, opened, closed, label, finish, stage>>
      /\ wire' = wire /\ i \notin AllStreamed /\ Advance(i)
      /\ IsCall(i) \/ \A j \in Items : j < i => IsCall(j) \/ j \in AllStreamed
  BY DEF ChatChunk, Turn, requestVars
<1>2. /\ i \in Nat /\ streamed[i] \in Nat /\ output[i].size \in Nat /\ streamed[i] < output[i].size
      /\ output[i].name \in STRING /\ kind \in {"reasoning", "text", "call"}
  <2>1. /\ i \in Nat /\ streamed[i] \in Nat /\ output[i].size \in Nat /\ streamed[i] <= output[i].size
        /\ output[i].name \in STRING /\ kind \in {"reasoning", "text", "call"}
    BY ItemsAre
  <2>2. streamed[i] # output[i].size
    BY <1>1 DEF AllStreamed
  <2> QED BY <2>1, <2>2
<1>3. /\ streamed' \in [Items -> Nat]
      /\ \A j \in Items : streamed'[j] = IF j = i THEN streamed[i] + 1 ELSE streamed[j]
  BY <1>1, <1>2 DEF Advance, RoundShape
<1>4. \A j \in Items : streamed'[j] \in Nat /\ streamed'[j] <= output[j].size
  <2>1. streamed[i] + 1 \in Nat /\ streamed[i] + 1 <= output[i].size
    BY <1>2
  <2> QED BY <1>3, <2>1, ItemsAre
<1>5. OneByOne'
  <2> DEFINE v == streamed[i] + 1
  <2>1. v \in Nat /\ v <= output[i].size /\ streamed[i] <= v
    BY <1>2
  <2>2. \A j \in Items : streamed'[j] = IF j = i THEN v ELSE streamed[j]
    BY <1>3
  <2>3. ~IsCall(i) => \A j \in Items : j < i => IsCall(j) \/ streamed[j] = output[j].size
    BY <1>1 DEF AllStreamed
  <2>4. wire = "chat" => opened' = {}
    BY <1>1 DEF AsStreamed, OneByOne
  <2> HIDE DEF v
  <2>5. /\ \A a, b \in Items : ~IsCall(a) /\ ~IsCall(b) /\ b < a /\ streamed'[a] > 0 =>
              streamed'[b] = output[b].size
        /\ wire = "chat" => opened' = {} /\ \A j \in Items : label'[j] = "none"
    BY <1>1, <2>1, <2>2, <2>3, <2>4, OneByOneKept DEF AsStreamed
  <2>6. wire' = "chat" /\ Items' = Items /\ (\A j : IsCall(j)' <=> IsCall(j)) /\ output' = output
    BY <1>1 DEF Items, IsCall
  <2> QED BY <2>5, <2>6, <1>1 DEF OneByOne
<1>6. ASSUME IsCall(i)
      PROVE  /\ held' \in Seq(CallType) /\ blocks' \in Seq(BlockType) /\ visible' \in Seq(Piece)
             /\ VisibleIsStreamed' /\ BlocksAreStreamed' /\ PhasesAreGiven' /\ CallsAreStreamed' /\ PlacesDiffer'
  <2>1. AddFragment(i, piece) /\ UNCHANGED <<blocks, visible>>
    BY <1>6 DEF ChatChunk
  <2>2. VisibleIsStreamed' /\ BlocksAreStreamed' /\ PhasesAreGiven'
    <3>1. \A j \in Items : ~IsCall(j) => streamed'[j] = streamed[j] /\ (j \in closed' => j \in closed)
      BY <1>1, <1>3, <1>6
    <3> QED BY <1>1, <1>4, <2>1, <3>1, NothingTold DEF AsStreamed
  <2>3. CASE Held(i) = {}
    <3>1. streamed[i] = 0
      BY <1>2, <1>6, <2>3 DEF AsStreamed, CallsAreStreamed
    <3>2. \A j \in Items : streamed'[j] = IF j = i THEN 1 ELSE streamed[j]
      BY <1>3, <3>1
    <3>3. held' = Append(held, [item |-> i, name |-> output[i].name, args |-> <<>>, place |-> NextPlace])
      BY <2>1, <2>3 DEF AddFragment
    <3>4. NextPlace \in Nat
      BY HeldAre, BlocksAre DEF NextPlace
    <3> HIDE DEF piece, kind
    <3>5. held' \in Seq(CallType) /\ CallsAreStreamed' /\ PlacesDiffer'
      BY <1>1, <1>6, <2>1, <2>3, <3>2, <3>3, <3>4, CallHeld DEF AsStreamed
    <3> QED BY <2>1, <2>2, <3>5 DEF RoundShape
  <2>4. CASE Held(i) # {}
    <3>1. held' = LongerCall(i, piece)
      BY <2>1, <2>4 DEF AddFragment
    <3>2. held' \in Seq(CallType) /\ CallsAreStreamed' /\ PlacesDiffer'
      BY <1>1, <1>3, <1>6, <2>1, <2>4, <3>1, CallLonger DEF AsStreamed
    <3> QED BY <2>1, <2>2, <3>2 DEF RoundShape
  <2> QED BY <2>3, <2>4
<1>7. ASSUME ~IsCall(i)
      PROVE  /\ held' \in Seq(CallType) /\ blocks' \in Seq(BlockType) /\ visible' \in Seq(Piece)
             /\ VisibleIsStreamed' /\ BlocksAreStreamed' /\ PhasesAreGiven' /\ CallsAreStreamed' /\ PlacesDiffer'
  <2>1. GrowBlock(kind, ChatPlace(kind), piece, "none") /\ held' = held
    BY <1>7 DEF ChatChunk
  <2>2. kind \in {"reasoning", "text"} /\ piece \in Piece
    BY <1>2, <1>7 DEF IsCall, Piece
  <2>3. /\ ChatPlace(kind) \in Nat
        /\ \A n \in ShownOf(kind) : blocks[n].place = ChatPlace(kind)
        /\ BlocksAt(kind, ChatPlace(kind)) = {} => ChatPlace(kind) = NextPlace
    BY <1>1, ChatPlaceIs DEF AsStreamed
  <2>4. "none" \in Phases \cup {"pending"}
    BY DEF Phases
  <2>5. VisibleIsStreamed' /\ BlocksAreStreamed'
    BY <1>1, <1>2, <1>3, <1>7, <2>1, <2>3, <2>4, PieceTold DEF AsStreamed
  <2>6. CallsAreStreamed'
    <3>1. \A j \in Items : IsCall(j) => streamed'[j] = streamed[j]
      BY <1>3, <1>7
    <3> QED BY <1>1, <2>1, <3>1, CallsKept DEF AsStreamed
  <2> HIDE DEF piece
  <2>7. PlacesDiffer'
    <3>1. kind = output[i].kind
      OBVIOUS
    <3> HIDE DEF kind
    <3> QED BY <1>1, <1>7, <2>1, <2>2, <2>3, <2>4, <3>1, PlacesAfterPiece DEF AsStreamed
  <2> HIDE DEF kind
  <2>8. PhasesAreGiven'
    BY <1>1, <2>1, <2>2, <2>3, <2>4, PhasesAfterPiece DEF AsStreamed
  <2>9. blocks' \in Seq(BlockType) /\ visible' \in Seq(Piece)
    <3>1. BlocksGrow(kind, ChatPlace(kind), piece, "none")
      BY <2>1, <2>2, <2>3, <2>4, GrowBlockIs
    <3> QED BY <3>1 DEF BlocksGrow
  <2>10. held' \in Seq(CallType)
    BY <2>1 DEF RoundShape
  <2> QED BY <2>5, <2>6, <2>7, <2>8, <2>9, <2>10
<1>8. /\ held' \in Seq(CallType) /\ blocks' \in Seq(BlockType) /\ visible' \in Seq(Piece)
      /\ VisibleIsStreamed' /\ BlocksAreStreamed' /\ PhasesAreGiven' /\ CallsAreStreamed' /\ PlacesDiffer'
  BY <1>6, <1>7
<1>9. RoundShape'
  <2>1. /\ closed' \subseteq opened' /\ opened' \subseteq Items
        /\ finish' \in {"none", "stop", "max_output_tokens", "content_filter"}
        /\ stage' \in {"streaming", "ended", "failed", "clarifies", "calls", "answers"}
        /\ label' \in [Items -> Phases]
    BY <1>1 DEF RoundShape, RoundTypeOK
  <2> QED BY <1>1, <1>3, <1>4, <1>8, <2>1, ShapeAfter
<1> QED BY <1>5, <1>8, <1>9 DEF AsStreamed

\* Items are announced, streamed and concluded one after the other.
LEMMA ItemsOneByOne ==
  ASSUME RoundShape, OneByOne, wire = "responses", UNCHANGED <<wire, output>>, NEW i \in Items,
         \A j \in Items : j # i => streamed'[j] = streamed[j] /\ label'[j] = label[j],
         streamed'[i] \in Nat, streamed[i] <= streamed'[i], streamed'[i] <= output[i].size,
         opened' = opened \cup {i}, \A j \in Items : j < i => j \in opened,
         closed \subseteq closed', closed' \subseteq closed \cup {i},
         ~IsCall(i) => \A j \in Items : j < i => IsCall(j) \/ j \in closed,
         i \in closed' => /\ streamed'[i] = output[i].size
                          /\ output[i].kind = "text" /\ output[i].phase # "none" => label'[i] = output[i].phase,
         IsCall(i) => streamed'[i] > 0
  PROVE  OneByOne'
<1>1. /\ opened \subseteq Items /\ closed \subseteq opened
      /\ Items' = Items /\ (\A j : IsCall(j)' <=> IsCall(j)) /\ wire' = "responses" /\ output' = output
  BY DEF RoundShape, RoundTypeOK, Items, IsCall
<1>2. /\ \A a, b \in Items : ~IsCall(a) /\ ~IsCall(b) /\ b < a /\ streamed[a] > 0 => streamed[b] = output[b].size
      /\ \A a \in opened : \A b \in Items : b < a => b \in opened
      /\ \A a \in opened : \A b \in Items : ~IsCall(a) /\ ~IsCall(b) /\ b < a => b \in closed
      /\ \A a \in closed : streamed[a] = output[a].size
      /\ \A a \in closed : output[a].kind = "text" /\ output[a].phase # "none" => label[a] = output[a].phase
      /\ \A a \in Items : streamed[a] > 0 => a \in opened
      /\ \A a \in opened : IsCall(a) => streamed[a] > 0
  BY DEF OneByOne
<1>3. i \in Int /\ streamed[i] \in Nat /\ output[i].size \in Nat
  BY ItemsAre
<1>4. ASSUME NEW a \in Items, NEW b \in Items, ~IsCall(a), ~IsCall(b), b < a, streamed'[a] > 0
      PROVE  streamed'[b] = output[b].size
  <2>1. a \in Int /\ b \in Int
    BY ItemsAre
  <2>2. CASE a = i
    BY <1>1, <1>2, <1>4, <2>1, <2>2
  <2>3. CASE a # i
    <3>1. streamed[b] = output[b].size
      BY <1>2, <1>4, <2>3
    <3> QED BY <1>3, <3>1
  <2> QED BY <2>2, <2>3
<1>5. \A a \in opened' : \A b \in Items : b < a => b \in opened'
  BY <1>2
<1>6. \A a \in opened' : \A b \in Items : ~IsCall(a) /\ ~IsCall(b) /\ b < a => b \in closed'
  BY <1>2
<1>7. ASSUME NEW a \in closed'
      PROVE  /\ streamed'[a] = output[a].size
             /\ output[a].kind = "text" /\ output[a].phase # "none" => label'[a] = output[a].phase
  BY <1>1, <1>2
<1>8. \A a \in Items : streamed'[a] > 0 => a \in opened'
  BY <1>2
<1>9. \A a \in opened' : IsCall(a) => streamed'[a] > 0
  BY <1>1, <1>2
<1> QED BY <1>1, <1>4, <1>5, <1>6, <1>7, <1>8, <1>9 DEF OneByOne

\* A text or a reasoning that is announced has no block, nor has a call.
LEMMA UnopenedUntold ==
  ASSUME RoundShape, AsStreamed, wire = "responses", NEW i \in Items, i \notin opened
  PROVE  /\ streamed[i] = 0 /\ Held(i) = {} /\ \A n \in DOMAIN blocks : blocks[n].place # i
         /\ \A n \in DOMAIN held : held[n].item < i
<1>1. streamed[i] = 0
  <2>1. streamed[i] \in Nat /\ ~(streamed[i] > 0)
    BY ItemsAre DEF AsStreamed, OneByOne
  <2> QED BY <2>1
<1>2. ASSUME NEW n \in DOMAIN held PROVE held[n].item < i
  <2>1. held[n].item \in Items /\ held[n].item \in opened
    BY DEF AsStreamed, CallsAreStreamed, OneByOne
  <2>2. held[n].item # i /\ ~(i < held[n].item)
    BY <2>1 DEF AsStreamed, OneByOne
  <2>3. held[n].item \in Int /\ i \in Int
    BY <2>1, ItemsAre
  <2> QED BY <2>2, <2>3
<1>3. Held(i) = {}
  <2>1. i \in Int
    BY ItemsAre
  <2> QED BY <1>2, <2>1 DEF Held
<1>4. ASSUME NEW n \in DOMAIN blocks, blocks[n].place = i PROVE FALSE
  <2>1. blocks[n].body \in Seq(Piece) /\ blocks[n].kind \in {"reasoning", "text"} /\ blocks[n].body # <<>>
    BY BlocksAre DEF AsStreamed, BlocksAreStreamed
  <2>2. PICK p \in Range(blocks[n].body) : p = blocks[n].body[1]
    BY <2>1, SomePiece
  <2>3. p[1] = i /\ p \in Streamed(blocks[n].kind)
    BY <1>4, <2>1 DEF AsStreamed, BlocksAreStreamed, ShownOf
  <2>4. p[2] \in 1..streamed[i]
    BY <2>3, InStreamed
  <2> QED BY <1>1, <2>4
<1> QED BY <1>1, <1>2, <1>3, <1>4

\* Nothing told depends on what is announced or concluded, only on what is streamed.
LEMMA SameStreamed ==
  ASSUME VisibleIsStreamed, BlocksAreStreamed, UNCHANGED <<wire, output, streamed, blocks, visible>>
  PROVE  VisibleIsStreamed' /\ BlocksAreStreamed'
<1>1. /\ wire' = wire /\ output' = output /\ streamed' = streamed /\ blocks' = blocks /\ visible' = visible
      /\ Items' = Items /\ \A k : Streamed(k)' = Streamed(k) /\ ShownOf(k)' = ShownOf(k)
  BY DEF Items, Streamed, Said, SaidBy, ShownOf
<1>2. VisibleIsStreamed'
  BY <1>1 DEF VisibleIsStreamed
<1>3. BlocksAreStreamed'
  BY <1>1 DEF BlocksAreStreamed
<1> QED BY <1>2, <1>3

\* What response.output_item.added leaves.
LEMMA ItemAddedKeeps ==
  ASSUME RoundShape, AsStreamed, NEW i \in Items, ItemAdded(i)
  PROVE  RoundShape' /\ AsStreamed'
<1>1. /\ wire = "responses" /\ stage = "streaming" /\ i \notin opened /\ opened' = opened \cup {i}
      /\ \A j \in Items : j < i => j \in opened
      /\ UNCHANGED <<requestVars, output, closed, blocks, finish, stage, visible>> /\ wire' = wire
      /\ IsCall(i) \/ \A j \in Items : j < i => IsCall(j) \/ j \in closed
  BY DEF ItemAdded, Turn, requestVars
<1>2. /\ i \in Nat /\ output[i].size \in Nat /\ 0 < output[i].size /\ output[i].phase \in Phases
  BY ItemsAre
<1>3. /\ streamed[i] = 0 /\ Held(i) = {} /\ \A n \in DOMAIN blocks : blocks[n].place # i
      /\ \A n \in DOMAIN held : held[n].item < i
  BY <1>1, UnopenedUntold
<1>4. /\ streamed \in [Items -> Nat] /\ label \in [Items -> Phases] /\ held \in Seq(CallType)
      /\ blocks \in Seq(BlockType) /\ visible \in Seq(Piece) /\ opened \subseteq Items /\ closed \subseteq opened
  BY DEF RoundShape, RoundTypeOK
<1>5. ASSUME IsCall(i)
      PROVE  /\ streamed' = [streamed EXCEPT ![i] = 1] /\ label' = label
             /\ held' \in Seq(CallType)
             /\ VisibleIsStreamed' /\ BlocksAreStreamed' /\ PhasesAreGiven' /\ CallsAreStreamed' /\ PlacesDiffer'
  <2>1. SetCall(i, <<>>) /\ streamed' = [streamed EXCEPT ![i] = 1] /\ label' = label
    BY <1>5 DEF ItemAdded
  <2>2. held' = Append(held, [item |-> i, name |-> output[i].name, args |-> <<>>, place |-> i])
    BY <1>3, <2>1 DEF SetCall
  <2>3. \A j \in Items : streamed'[j] = IF j = i THEN 1 ELSE streamed[j]
    BY <1>4, <2>1
  <2>4. held' \in Seq(CallType) /\ CallsAreStreamed' /\ PlacesDiffer'
    BY <1>1, <1>2, <1>3, <1>5, <2>2, <2>3, CallHeld DEF AsStreamed
  <2>5. VisibleIsStreamed' /\ BlocksAreStreamed' /\ PhasesAreGiven'
    <3>1. \A j \in Items : streamed'[j] \in Nat /\ streamed'[j] <= output[j].size
      BY <1>2, <2>3, ItemsAre
    <3>2. \A j \in Items : ~IsCall(j) => streamed'[j] = streamed[j] /\ (j \in closed' => j \in closed)
      BY <1>1, <1>5, <2>3
    <3> QED BY <1>1, <2>1, <3>1, <3>2, NothingTold DEF AsStreamed
  <2> QED BY <2>1, <2>4, <2>5
<1>6. ASSUME ~IsCall(i)
      PROVE  /\ streamed' = streamed /\ label' \in [Items -> Phases] /\ \A j \in Items : j # i => label'[j] = label[j]
             /\ held' \in Seq(CallType)
             /\ VisibleIsStreamed' /\ BlocksAreStreamed' /\ PhasesAreGiven' /\ CallsAreStreamed' /\ PlacesDiffer'
  <2>1. PICK p \in Provisional(i) : label' = [label EXCEPT ![i] = p]
    BY <1>6 DEF ItemAdded
  <2>2. UNCHANGED <<held, streamed>>
    BY <1>6 DEF ItemAdded
  <2>3. p \in Phases
    BY <1>2 DEF Provisional, Phases
  <2>4. label' \in [Items -> Phases] /\ \A j \in Items : j # i => label'[j] = label[j]
    BY <1>4, <2>1, <2>3
  <2>5. VisibleIsStreamed' /\ BlocksAreStreamed'
    BY <1>1, <2>2, SameStreamed DEF AsStreamed
  <2>6. CallsAreStreamed'
    BY <1>1, <2>2, CallsKept DEF AsStreamed
  <2>7. PlacesDiffer'
    BY <1>1, <2>2 DEF AsStreamed, PlacesDiffer, NextPlace
  <2>8. PhasesAreGiven'
    <3>1. ASSUME NEW n \in DOMAIN blocks, blocks[n].kind = "text"
          PROVE  label'[blocks[n].place] = label[blocks[n].place]
      <4>1. blocks[n].place \in Items /\ blocks[n].place # i
        BY <1>1, <1>3 DEF AsStreamed, BlocksAreStreamed
      <4> QED BY <2>4, <4>1
    <3> QED BY <1>1, <3>1 DEF AsStreamed, PhasesAreGiven
  <2> QED BY <1>4, <2>2, <2>4, <2>5, <2>6, <2>7, <2>8
<1>7. /\ streamed' \in [Items -> Nat] /\ label' \in [Items -> Phases] /\ held' \in Seq(CallType)
      /\ \A j \in Items : j # i => streamed'[j] = streamed[j] /\ label'[j] = label[j]
      /\ streamed'[i] \in Nat /\ streamed[i] <= streamed'[i] /\ streamed'[i] <= output[i].size
      /\ IsCall(i) => streamed'[i] > 0
      /\ VisibleIsStreamed' /\ BlocksAreStreamed' /\ PhasesAreGiven' /\ CallsAreStreamed' /\ PlacesDiffer'
  <2>1. CASE IsCall(i)
    <3>1. streamed'[i] = 1 /\ streamed' \in [Items -> Nat] /\ \A j \in Items : j # i => streamed'[j] = streamed[j]
      BY <1>4, <1>5, <2>1
    <3> QED BY <1>2, <1>3, <1>4, <1>5, <2>1, <3>1
  <2>2. CASE ~IsCall(i)
    BY <1>2, <1>3, <1>4, <1>6, <2>2
  <2> QED BY <2>1, <2>2
<1>8. OneByOne'
  <2>1. closed \subseteq closed' /\ closed' \subseteq closed \cup {i} /\ i \notin closed'
    BY <1>1, <1>4
  <2> QED BY <1>1, <1>7, <2>1, ItemsOneByOne DEF AsStreamed
<1>9. RoundShape'
  <2>1. /\ closed' \subseteq opened' /\ opened' \subseteq Items
        /\ finish' \in {"none", "stop", "max_output_tokens", "content_filter"}
        /\ stage' \in {"streaming", "ended", "failed", "clarifies", "calls", "answers"}
        /\ blocks' \in Seq(BlockType) /\ visible' \in Seq(Piece)
    BY <1>1, <1>4 DEF RoundShape, RoundTypeOK
  <2>2. \A j \in Items : streamed'[j] \in Nat /\ streamed'[j] <= output[j].size
    BY <1>7, ItemsAre
  <2> QED BY <1>1, <1>7, <2>1, <2>2, ShapeAfter
<1> QED BY <1>7, <1>8, <1>9 DEF AsStreamed

\* What the deltas of response.output_text, .reasoning_text and .function_call_arguments leave.
LEMMA ItemDeltaKeeps ==
  ASSUME RoundShape, AsStreamed, NEW i \in Items, ItemDelta(i)
  PROVE  RoundShape' /\ AsStreamed'
<1> DEFINE piece == <<i, streamed[i] + 1>>
           kind == output[i].kind
<1>1. /\ wire = "responses" /\ stage = "streaming" /\ i \in opened /\ i \notin closed /\ i \notin AllStreamed
      /\ Advance(i) /\ wire' = wire
      /\ UNCHANGED <<requestVars, output, opened, closed, label, finish, stage>>
  BY DEF ItemDelta, requestVars
<1>2. /\ i \in Nat /\ streamed[i] \in Nat /\ output[i].size \in Nat /\ streamed[i] < output[i].size
      /\ kind \in {"reasoning", "text", "call"}
  <2>1. /\ i \in Nat /\ streamed[i] \in Nat /\ output[i].size \in Nat /\ streamed[i] <= output[i].size
        /\ kind \in {"reasoning", "text", "call"}
    BY ItemsAre
  <2>2. streamed[i] # output[i].size
    BY <1>1 DEF AllStreamed
  <2> QED BY <2>1, <2>2
<1>3. /\ streamed' \in [Items -> Nat]
      /\ \A j \in Items : streamed'[j] = IF j = i THEN streamed[i] + 1 ELSE streamed[j]
  BY <1>1, <1>2 DEF Advance, RoundShape
<1>4. \A j \in Items : streamed'[j] \in Nat /\ streamed'[j] <= output[j].size
  <2>1. streamed[i] + 1 \in Nat /\ streamed[i] + 1 <= output[i].size
    BY <1>2
  <2> QED BY <1>3, <2>1, ItemsAre
<1>5. OneByOne'
  <2>1. streamed'[i] \in Nat /\ streamed[i] <= streamed'[i] /\ streamed'[i] <= output[i].size /\ streamed'[i] > 0
    BY <1>2, <1>3
  <2>2. \A j \in Items : j # i => streamed'[j] = streamed[j] /\ label'[j] = label[j]
    BY <1>1, <1>3
  <2>3. /\ opened' = opened \cup {i} /\ closed \subseteq closed' /\ closed' \subseteq closed \cup {i} /\ i \notin closed'
    BY <1>1
  <2>4. /\ \A j \in Items : j < i => j \in opened
        /\ ~IsCall(i) => \A j \in Items : j < i => IsCall(j) \/ j \in closed
    BY <1>1 DEF AsStreamed, OneByOne
  <2> QED BY <1>1, <2>1, <2>2, <2>3, <2>4, ItemsOneByOne DEF AsStreamed
<1>6. ASSUME IsCall(i)
      PROVE  /\ held' \in Seq(CallType) /\ blocks' \in Seq(BlockType) /\ visible' \in Seq(Piece)
             /\ VisibleIsStreamed' /\ BlocksAreStreamed' /\ PhasesAreGiven' /\ CallsAreStreamed' /\ PlacesDiffer'
  <2>1. held' = LongerCall(i, piece) /\ UNCHANGED <<blocks, visible>>
    BY <1>6 DEF ItemDelta
  <2>2. VisibleIsStreamed' /\ BlocksAreStreamed' /\ PhasesAreGiven'
    <3>1. \A j \in Items : ~IsCall(j) => streamed'[j] = streamed[j] /\ (j \in closed' => j \in closed)
      BY <1>1, <1>3, <1>6
    <3> QED BY <1>1, <1>4, <2>1, <3>1, NothingTold DEF AsStreamed
  <2>3. Held(i) # {}
    BY <1>1, <1>6 DEF AsStreamed, CallsAreStreamed, OneByOne
  <2>4. held' \in Seq(CallType) /\ CallsAreStreamed' /\ PlacesDiffer'
    BY <1>1, <1>3, <1>6, <2>1, <2>3, CallLonger DEF AsStreamed
  <2> QED BY <2>1, <2>2, <2>4 DEF RoundShape
<1>7. ASSUME ~IsCall(i)
      PROVE  /\ held' \in Seq(CallType) /\ blocks' \in Seq(BlockType) /\ visible' \in Seq(Piece)
             /\ VisibleIsStreamed' /\ BlocksAreStreamed' /\ PhasesAreGiven' /\ CallsAreStreamed' /\ PlacesDiffer'
  <2> DEFINE phase == DeltaPhase(i)
  <2>1. GrowBlock(kind, i, piece, phase) /\ held' = held
    BY <1>7 DEF ItemDelta
  <2>2. kind \in {"reasoning", "text"} /\ piece \in Piece
    BY <1>2, <1>7 DEF IsCall, Piece
  <2>3. phase \in Phases \cup {"pending"} /\ (kind = "text" /\ label[i] = "none" => phase = "pending")
    BY DEF DeltaPhase, Phases, RoundShape
  <2> HIDE DEF phase
  <2>4. VisibleIsStreamed' /\ BlocksAreStreamed'
    BY <1>1, <1>2, <1>3, <1>7, <2>1, <2>3, PieceTold DEF AsStreamed
  <2>5. CallsAreStreamed'
    <3>1. \A j \in Items : IsCall(j) => streamed'[j] = streamed[j]
      BY <1>3, <1>7
    <3> QED BY <1>1, <2>1, <3>1, CallsKept DEF AsStreamed
  <2> HIDE DEF piece
  <2>6. PlacesDiffer'
    <3>1. kind = output[i].kind
      OBVIOUS
    <3> HIDE DEF kind
    <3> QED BY <1>1, <1>2, <1>7, <2>1, <2>2, <2>3, <3>1, PlacesAfterPiece DEF AsStreamed
  <2> HIDE DEF kind
  <2>7. PhasesAreGiven'
    BY <1>1, <1>2, <2>1, <2>2, <2>3, PhasesAfterPiece DEF AsStreamed
  <2>8. blocks' \in Seq(BlockType) /\ visible' \in Seq(Piece)
    <3>1. BlocksGrow(kind, i, piece, phase)
      BY <1>2, <2>1, <2>2, <2>3, GrowBlockIs
    <3> QED BY <3>1 DEF BlocksGrow
  <2>9. held' \in Seq(CallType)
    BY <2>1 DEF RoundShape
  <2> QED BY <2>4, <2>5, <2>6, <2>7, <2>8, <2>9
<1>8. /\ held' \in Seq(CallType) /\ blocks' \in Seq(BlockType) /\ visible' \in Seq(Piece)
      /\ VisibleIsStreamed' /\ BlocksAreStreamed' /\ PhasesAreGiven' /\ CallsAreStreamed' /\ PlacesDiffer'
  BY <1>6, <1>7
<1>9. RoundShape'
  <2>1. /\ closed' \subseteq opened' /\ opened' \subseteq Items
        /\ finish' \in {"none", "stop", "max_output_tokens", "content_filter"}
        /\ stage' \in {"streaming", "ended", "failed", "clarifies", "calls", "answers"}
        /\ label' \in [Items -> Phases]
    BY <1>1 DEF RoundShape, RoundTypeOK
  <2> QED BY <1>1, <1>3, <1>4, <1>8, <2>1, ShapeAfter
<1> QED BY <1>5, <1>8, <1>9 DEF AsStreamed

\* Blocks that only change their phase hold what was streamed, each at its place.
LEMMA Relabelled ==
  ASSUME BlocksAreStreamed, UNCHANGED <<wire, output, streamed>>,
         DOMAIN blocks' = DOMAIN blocks, Len(blocks') = Len(blocks),
         \A n \in DOMAIN blocks : /\ blocks'[n].kind = blocks[n].kind /\ blocks'[n].place = blocks[n].place
                                  /\ blocks'[n].body = blocks[n].body
  PROVE  /\ BlocksAreStreamed' /\ \A k : ShownOf(k)' = ShownOf(k)
         /\ PlacesDiffer /\ held' = held => PlacesDiffer'
<1>1. /\ wire' = wire /\ output' = output /\ streamed' = streamed /\ Items' = Items
      /\ held' = held => NextPlace' = NextPlace
      /\ \A k : Streamed(k)' = Streamed(k)
  BY DEF Items, Streamed, Said, SaidBy, NextPlace
<1>2. \A k : ShownOf(k)' = ShownOf(k)
  <2>1. ASSUME NEW k, NEW n PROVE n \in ShownOf(k)' <=> n \in ShownOf(k)
    BY DEF ShownOf
  <2> QED BY <2>1 DEF ShownOf
<1>3. PlacesDiffer /\ held' = held => PlacesDiffer'
  BY <1>1 DEF PlacesDiffer
<1>4. BlocksAreStreamed'
  <2>1. \A kind \in {"text", "reasoning"} : \A n \in ShownOf(kind)' :
          \A p \in Range(blocks'[n].body) : p \in Streamed(kind)'
    BY <1>1, <1>2 DEF BlocksAreStreamed, ShownOf
  <2>2. \A kind \in {"text", "reasoning"} : \A p \in Streamed(kind)' :
          \E n \in DOMAIN blocks' : blocks'[n].kind = kind /\ p \in Range(blocks'[n].body)
    BY <1>1 DEF BlocksAreStreamed
  <2>3. /\ \A n \in DOMAIN blocks' : blocks'[n].body # <<>> /\ InTurn(blocks'[n].body)
        /\ \A m, n \in DOMAIN blocks' : m < n /\ blocks'[m].kind = blocks'[n].kind =>
             \A p \in Range(blocks'[m].body), q \in Range(blocks'[n].body) : Before(p, q)
        /\ \A n \in DOMAIN blocks' : wire = "responses" =>
             /\ blocks'[n].place \in Items /\ blocks'[n].kind = output[blocks'[n].place].kind
             /\ \A p \in Range(blocks'[n].body) : p[1] = blocks'[n].place
        /\ \A m, n \in DOMAIN blocks' : wire = "chat" /\ m # n => blocks'[m].kind # blocks'[n].kind
    BY DEF BlocksAreStreamed
  <2> QED BY <1>1, <2>1, <2>2, <2>3 DEF BlocksAreStreamed
<1> QED BY <1>2, <1>3, <1>4

\* What response.output_item.done leaves.
LEMMA ItemDoneKeeps ==
  ASSUME RoundShape, AsStreamed, NEW i \in Items, ItemDone(i)
  PROVE  RoundShape' /\ AsStreamed'
<1>1. /\ wire = "responses" /\ stage = "streaming" /\ i \in opened /\ i \notin closed
      /\ IsCall(i) \/ i \in AllStreamed
      /\ closed' = closed \cup {i} /\ streamed' = [streamed EXCEPT ![i] = output[i].size]
      /\ UNCHANGED <<requestVars, output, opened, finish, stage, visible>> /\ wire' = wire
  BY DEF ItemDone, requestVars
<1>2. /\ i \in Nat /\ streamed[i] \in Nat /\ output[i].size \in Nat /\ streamed[i] <= output[i].size
      /\ 0 < output[i].size /\ output[i].phase \in Phases
  BY ItemsAre
<1>3. /\ streamed \in [Items -> Nat] /\ label \in [Items -> Phases] /\ held \in Seq(CallType)
      /\ blocks \in Seq(BlockType) /\ visible \in Seq(Piece) /\ opened \subseteq Items /\ closed \subseteq opened
  BY DEF RoundShape, RoundTypeOK
<1>4. /\ streamed' \in [Items -> Nat]
      /\ \A j \in Items : streamed'[j] = IF j = i THEN output[i].size ELSE streamed[j]
  BY <1>1, <1>2, <1>3
<1>5. \A j \in Items : streamed'[j] \in Nat /\ streamed'[j] <= output[j].size
  BY <1>2, <1>4, ItemsAre
<1>6. ASSUME IsCall(i)
      PROVE  /\ label' \in [Items -> Phases] /\ \A j \in Items : j # i => label'[j] = label[j]
             /\ output[i].kind = "text" /\ output[i].phase # "none" => label'[i] = output[i].phase
             /\ held' \in Seq(CallType) /\ blocks' \in Seq(BlockType)
             /\ VisibleIsStreamed' /\ BlocksAreStreamed' /\ PhasesAreGiven' /\ CallsAreStreamed' /\ PlacesDiffer'
  <2>1. SetCall(i, DoneArguments(i)) /\ UNCHANGED <<blocks, label>>
    BY <1>6 DEF ItemDone
  <2>2. VisibleIsStreamed' /\ BlocksAreStreamed' /\ PhasesAreGiven'
    <3>1. \A j \in Items : ~IsCall(j) => streamed'[j] = streamed[j] /\ (j \in closed' => j \in closed)
      BY <1>1, <1>4, <1>6
    <3> QED BY <1>1, <1>5, <2>1, <3>1, NothingTold DEF AsStreamed
  <2>3. Held(i) # {}
    BY <1>1, <1>6 DEF AsStreamed, CallsAreStreamed, OneByOne
  <2> DEFINE v == output[i].size
  <2>4. v \in Nat /\ 0 < v /\ v - 1 \in Nat /\ output[i].size = (v - 1) + 1
    BY <1>2
  <2>5. DoneArguments(i) = Arguments(i, v - 1)
    BY <2>4, WholeArguments DEF DoneArguments
  <2>6. \A n \in Held(i) : held[n].place = i
    BY <1>1 DEF Held, AsStreamed, PlacesDiffer
  <2>7. held' = [n \in DOMAIN held |->
                   IF n \in Held(i)
                   THEN [item |-> i, name |-> output[i].name, args |-> DoneArguments(i), place |-> i]
                   ELSE held[n]]
    BY <2>1, <2>3 DEF SetCall
  <2>8. held' = [n \in DOMAIN held |->
                   IF n \in Held(i)
                   THEN [item |-> i, name |-> output[i].name, args |-> Arguments(i, v - 1),
                         place |-> held[n].place]
                   ELSE held[n]]
    BY <2>5, <2>6, <2>7
  <2>9. \A j \in Items : streamed'[j] = IF j = i THEN v ELSE streamed[j]
    BY <1>4
  <2> HIDE DEF v
  <2>10. held' \in Seq(CallType) /\ CallsAreStreamed' /\ PlacesDiffer'
    BY <1>1, <1>6, <2>1, <2>3, <2>4, <2>8, <2>9, CallGrown DEF AsStreamed
  <2> QED BY <1>3, <1>6, <2>1, <2>2, <2>10 DEF IsCall
<1>7. ASSUME ~IsCall(i)
      PROVE  /\ label' \in [Items -> Phases] /\ \A j \in Items : j # i => label'[j] = label[j]
             /\ output[i].kind = "text" /\ output[i].phase # "none" => label'[i] = output[i].phase
             /\ held' \in Seq(CallType) /\ blocks' \in Seq(BlockType)
             /\ VisibleIsStreamed' /\ BlocksAreStreamed' /\ PhasesAreGiven' /\ CallsAreStreamed' /\ PlacesDiffer'
  <2> DEFINE phase == IF output[i].phase # "none" THEN output[i].phase ELSE label[i]
  <2>1. label' = [label EXCEPT ![i] = phase] /\ blocks' = Labelled(i, phase) /\ held' = held
    BY <1>7 DEF ItemDone
  <2>2. phase \in Phases /\ (output[i].phase # "none" => phase = output[i].phase)
        /\ (phase = "none" => label[i] = "none")
    BY <1>2, <1>3
  <2> HIDE DEF phase
  <2>3. /\ label' \in [Items -> Phases] /\ label'[i] = phase
        /\ \A j \in Items : j # i => label'[j] = label[j]
    BY <1>3, <2>1, <2>2
  <2>4. streamed' = streamed
    <3>1. streamed[i] = output[i].size
      BY <1>1, <1>7 DEF AllStreamed
    <3> QED BY <1>1, <1>3, <3>1
  <2>5. /\ Len(blocks) \in Nat /\ DOMAIN blocks = 1..Len(blocks)
        /\ \A n \in DOMAIN blocks : blocks[n] \in BlockType
    BY BlocksAre
  <2>6. ASSUME NEW n \in DOMAIN blocks
        PROVE  /\ blocks'[n] \in BlockType
               /\ blocks'[n].kind = blocks[n].kind /\ blocks'[n].place = blocks[n].place
               /\ blocks'[n].body = blocks[n].body
               /\ n \in BlocksAt("text", i) /\ phase # "none" => blocks'[n].phase = phase
               /\ n \notin BlocksAt("text", i) \/ phase = "none" => blocks'[n] = blocks[n]
    <3>1. blocks'[n] = IF n \in BlocksAt("text", i) /\ phase # "none" THEN [blocks[n] EXCEPT !.phase = phase]
                       ELSE blocks[n]
      BY <2>1 DEF Labelled
    <3> QED BY <2>2, <2>5, <3>1 DEF BlockType
  <2>7. DOMAIN blocks' = DOMAIN blocks /\ blocks' \in Seq(BlockType) /\ Len(blocks') = Len(blocks)
    <3>1. DOMAIN blocks' = DOMAIN blocks
      BY <2>1 DEF Labelled
    <3>2. blocks' \in [1..Len(blocks) -> BlockType]
      BY <2>1, <2>5, <2>6 DEF Labelled
    <3> QED BY <2>5, <3>1, <3>2
  <2>8. BlocksAreStreamed' /\ PlacesDiffer'
    BY <1>1, <2>1, <2>4, <2>6, <2>7, Relabelled DEF AsStreamed
  <2>9. CallsAreStreamed'
    BY <1>1, <2>1, <2>4, CallsKept DEF AsStreamed
  <2>10. VisibleIsStreamed'
    BY <1>1, <2>4 DEF AsStreamed, VisibleIsStreamed, Streamed, Said, SaidBy, Items
  <2>11. PhasesAreGiven'
    <3>1. ASSUME NEW n \in DOMAIN blocks, blocks[n].kind = "text"
          PROVE  /\ label'[blocks[n].place] = "none" => blocks'[n].phase = "pending"
                 /\ blocks[n].place \in closed' /\ label'[blocks[n].place] # "none" =>
                      blocks'[n].phase = label'[blocks[n].place]
      <4>1. blocks[n].place \in Items
        BY <1>1, <3>1 DEF AsStreamed, BlocksAreStreamed
      <4>2. /\ label[blocks[n].place] = "none" => blocks[n].phase = "pending"
            /\ blocks[n].place \in closed /\ label[blocks[n].place] # "none" =>
                 blocks[n].phase = label[blocks[n].place]
        BY <1>1, <3>1 DEF AsStreamed, PhasesAreGiven
      <4>3. CASE blocks[n].place = i
        <5>1. n \in BlocksAt("text", i)
          BY <3>1, <4>3 DEF BlocksAt
        <5> QED BY <2>2, <2>3, <2>6, <4>2, <4>3, <5>1
      <4>4. CASE blocks[n].place # i
        <5>1. n \notin BlocksAt("text", i)
          BY <4>4 DEF BlocksAt
        <5> QED BY <1>1, <2>3, <2>6, <4>1, <4>2, <4>4, <5>1
      <4> QED BY <4>3, <4>4
    <3>2. wire' = "responses" /\ DOMAIN blocks' = DOMAIN blocks
      BY <1>1, <2>7
    <3> QED BY <2>6, <3>1, <3>2 DEF PhasesAreGiven
  <2> QED BY <1>7, <2>1, <2>2, <2>3, <2>7, <2>8, <2>9, <2>10, <2>11, <1>3
<1>8. /\ label' \in [Items -> Phases] /\ \A j \in Items : j # i => label'[j] = label[j]
      /\ output[i].kind = "text" /\ output[i].phase # "none" => label'[i] = output[i].phase
      /\ held' \in Seq(CallType) /\ blocks' \in Seq(BlockType)
      /\ VisibleIsStreamed' /\ BlocksAreStreamed' /\ PhasesAreGiven' /\ CallsAreStreamed' /\ PlacesDiffer'
  BY <1>6, <1>7
<1>9. OneByOne'
  <2>1. /\ streamed'[i] \in Nat /\ streamed[i] <= streamed'[i] /\ streamed'[i] <= output[i].size
        /\ streamed'[i] > 0 /\ streamed'[i] = output[i].size
    BY <1>2, <1>4
  <2>2. \A j \in Items : j # i => streamed'[j] = streamed[j] /\ label'[j] = label[j]
    BY <1>4, <1>8
  <2>3. opened' = opened \cup {i} /\ closed \subseteq closed' /\ closed' \subseteq closed \cup {i}
    BY <1>1
  <2>4. /\ \A j \in Items : j < i => j \in opened
        /\ ~IsCall(i) => \A j \in Items : j < i => IsCall(j) \/ j \in closed
    BY <1>1 DEF AsStreamed, OneByOne
  <2> QED BY <1>1, <1>8, <2>1, <2>2, <2>3, <2>4, ItemsOneByOne DEF AsStreamed
<1>10. RoundShape'
  <2>1. /\ closed' \subseteq opened' /\ opened' \subseteq Items
        /\ finish' \in {"none", "stop", "max_output_tokens", "content_filter"}
        /\ stage' \in {"streaming", "ended", "failed", "clarifies", "calls", "answers"}
        /\ visible' \in Seq(Piece)
    BY <1>1, <1>3 DEF RoundShape, RoundTypeOK
  <2> QED BY <1>1, <1>4, <1>5, <1>8, <2>1, ShapeAfter
<1> QED BY <1>8, <1>9, <1>10 DEF AsStreamed

------------------------------------------------------------------------------
(* Steps at which an attempt begins or ends *)

\* A round of which nothing was said yet.
Fresh ==
  /\ wire \in {"chat", "responses"} /\ finalOnly \in BOOLEAN /\ recoveries \in 0..MaxRecoveries
  /\ output \in Outputs /\ Allowed(output)
  /\ streamed = [i \in Items |-> 0] /\ opened = {} /\ closed = {}
  /\ label = [i \in Items |-> "none"]
  /\ blocks = <<>> /\ held = <<>> /\ finish = "none" /\ stage = "streaming" /\ visible = <<>>

\* Of such a round everything is known that is said of it.
LEMMA FreshIs == Fresh => RoundInv
<1> SUFFICES ASSUME Fresh PROVE RoundInv
  OBVIOUS
<1>1. /\ blocks \in Seq(BlockType) /\ held \in Seq(CallType) /\ visible \in Seq(Piece)
      /\ DOMAIN blocks = {} /\ DOMAIN held = {} /\ DOMAIN visible = {} /\ Range(visible) = {}
  BY DEF Fresh, Range
<1>2. \A i \in Items : streamed[i] = 0 /\ label[i] = "none" /\ 0 \in 0..output[i].size
  <2>1. \A i \in Items : output[i].size \in Nat
    BY OutputItems DEF Fresh, Items
  <2> QED BY <2>1 DEF Fresh
<1>3. RoundShape
  <2>1. RoundTypeOK
    BY <1>2 DEF Fresh, RoundTypeOK
  <2>2. streamed \in [Items -> Nat] /\ label \in [Items -> Phases]
    BY DEF Fresh, Phases
  <2> QED BY <1>1, <2>1, <2>2 DEF RoundShape, Fresh
<1>4. \A kind, p : p \notin Streamed(kind)
  <2>1. ASSUME NEW kind, NEW p \in Streamed(kind) PROVE FALSE
    <3>1. p[1] \in Items /\ p[2] \in 1..streamed[p[1]]
      BY <1>3, InStreamed
    <3>2. streamed[p[1]] = 0
      BY <1>2, <3>1
    <3> QED BY <3>1, <3>2
  <2> QED BY <2>1
<1>5. OneByOne
  BY <1>2 DEF OneByOne, Fresh
<1>6. VisibleIsStreamed
  BY <1>1, <1>4 DEF VisibleIsStreamed, InTurn
<1>7. BlocksAreStreamed
  BY <1>1, <1>4 DEF BlocksAreStreamed, ShownOf
<1>8. PhasesAreGiven /\ PlacesDiffer
  BY <1>1 DEF PhasesAreGiven, PlacesDiffer
<1>9. CallsAreStreamed
  BY <1>1, <1>2 DEF CallsAreStreamed
<1>10. stage = "streaming" /\ finish = "none"
  BY DEF Fresh
<1> QED BY <1>3, <1>5, <1>6, <1>7, <1>8, <1>9, <1>10 DEF RoundInv, AsStreamed, Running

\* Asked again, the model begins anew.
LEMMA AskAgainKeeps ==
  ASSUME RoundInv, AskAgain
  PROVE  RoundInv'
<1>1. PICK o \in Outputs : Allowed(o) /\ Started(o)
  BY DEF AskAgain
<1>2. /\ wire' = wire /\ finalOnly' = finalOnly /\ visible' = <<>>
      /\ wire \in {"chat", "responses"} /\ finalOnly \in BOOLEAN
  BY DEF AskAgain, RoundInv, RoundShape, RoundTypeOK
<1>3. recoveries' \in 0..MaxRecoveries
  BY RoundBounds DEF AskAgain, RoundInv, RoundShape, RoundTypeOK
<1>4. output' = o /\ Items' = DOMAIN o /\ Allowed(output)'
  BY <1>1, <1>2 DEF Started, Items, Allowed
<1>5. Fresh'
  BY <1>1, <1>2, <1>3, <1>4 DEF Fresh, Started
<1>6. (Fresh => RoundInv)'
  BY FreshIs, PTL
<1> QED BY <1>5, <1>6

\* Two sequences after one another.
LEMMA JoinedIs ==
  ASSUME NEW K \in Nat, NEW L \in Nat, NEW a \in [1..K -> Nat], NEW b \in [1..L -> Nat]
  PROVE  DOMAIN (a \o b) = 1..K + L /\ \A n \in 1..K + L : (a \o b)[n] = IF n <= K THEN a[n] ELSE b[n - K]
<1>1. a \in Seq(Nat) /\ Len(a) = K
  OBVIOUS
<1>2. b \in Seq(Nat) /\ Len(b) = L
  OBVIOUS
<1>3. /\ a \o b \in Seq(Nat) /\ Len(a \o b) = K + L
      /\ \A n \in 1..Len(a) + Len(b) : (a \o b)[n] = IF n <= Len(a) THEN a[n] ELSE b[n - Len(a)]
  BY <1>1, <1>2, ConcatProperties
<1> QED BY <1>1, <1>2, <1>3

\* The places of blocks and calls are all different.
PlacesApart ==
  /\ \A m, n \in DOMAIN blocks : m # n => blocks[m].place # blocks[n].place
  /\ \A m, n \in DOMAIN held : m # n => held[m].place # held[n].place
  /\ \A m \in DOMAIN blocks, n \in DOMAIN held : blocks[m].place # held[n].place

\* No two things that are told have one place.
LEMMA TakenDiffer == RoundShape /\ PlacesApart => IsInjective(PlacesTaken)
<1> SUFFICES ASSUME RoundShape, PlacesApart PROVE IsInjective(PlacesTaken)
  OBVIOUS
<1> DEFINE a == [n \in DOMAIN blocks |-> blocks[n].place]
           b == [n \in DOMAIN held |-> held[n].place]
           K == Len(blocks)
           L == Len(held)
           t == a \o b
<1>1. /\ K \in Nat /\ DOMAIN blocks = 1..K /\ \A n \in 1..K : blocks[n].place \in Nat
      /\ L \in Nat /\ DOMAIN held = 1..L /\ \A n \in 1..L : held[n].place \in Nat
  BY HeldAre, BlocksAre
<1>2. /\ a \in [1..K -> Nat] /\ \A n \in 1..K : a[n] = blocks[n].place
      /\ b \in [1..L -> Nat] /\ \A n \in 1..L : b[n] = held[n].place
  BY <1>1
<1>3. PlacesTaken = t
  BY DEF PlacesTaken
<1> HIDE DEF a, b
<1>4. /\ \A m, n \in 1..K : m # n => a[m] # a[n]
      /\ \A m, n \in 1..L : m # n => b[m] # b[n]
      /\ \A m \in 1..K, n \in 1..L : a[m] # b[n]
  <2>1. /\ \A m, n \in 1..K : m # n => blocks[m].place # blocks[n].place
        /\ \A m, n \in 1..L : m # n => held[m].place # held[n].place
        /\ \A m \in 1..K, n \in 1..L : blocks[m].place # held[n].place
    BY <1>1 DEF PlacesApart
  <2> HIDE DEF K, L
  <2> QED BY <1>2, <2>1
<1> HIDE DEF K, L
<1>5. DOMAIN t = 1..K + L /\ \A n \in 1..K + L : t[n] = IF n <= K THEN a[n] ELSE b[n - K]
  BY <1>1, <1>2, JoinedIs
<1> HIDE DEF t
<1>7. ASSUME NEW m \in 1..K + L, NEW n \in 1..K + L, m < n PROVE t[m] # t[n]
  <2>1. CASE n <= K
    BY <1>1, <1>4, <1>5, <1>7, <2>1
  <2>2. CASE m <= K /\ ~(n <= K)
    <3>1. m \in 1..K /\ n - K \in 1..L
      BY <1>1, <2>2
    <3> QED BY <1>4, <1>5, <2>2, <3>1
  <2>3. CASE ~(m <= K)
    <3>1. m - K \in 1..L /\ n - K \in 1..L /\ m - K # n - K /\ ~(n <= K)
      BY <1>1, <1>7, <2>3
    <3> QED BY <1>4, <1>5, <2>3, <3>1
  <2> QED BY <1>1, <2>1, <2>2, <2>3
<1>8. \A m, n \in 1..K + L : m < n \/ n < m \/ m = n
  BY <1>1
<1> QED BY <1>3, <1>5, <1>7, <1>8 DEF IsInjective

\* What is visible is the beginning of what the model says.
LEMMA VisibleBegins ==
  ASSUME RoundShape, OneByOne, VisibleIsStreamed
  PROVE  IsBeginning(visible, Said("text"))
<1>1. \A n \in DOMAIN visible : visible[n] \in Streamed("text")
  BY DEF VisibleIsStreamed, Range
<1>2. \A n \in DOMAIN visible : visible[n] \in Said("text")
  BY <1>1 DEF Streamed
<1>3. ASSUME NEW n \in DOMAIN visible, NEW p \in Said("text"), Before(p, visible[n])
      PROVE  p \in Range(visible)
  <2> DEFINE q == visible[n]
  <2>1. /\ p \in Piece /\ p[1] \in Items /\ output[p[1]].kind = "text" /\ p[2] \in 1..output[p[1]].size
    BY InSaid
  <2>2. /\ q \in Piece /\ q[1] \in Items /\ output[q[1]].kind = "text" /\ q[2] \in 1..streamed[q[1]]
    BY <1>1, InStreamed
  <2>3. /\ p[1] \in Int /\ q[1] \in Int /\ p[2] \in Int /\ q[2] \in Int
        /\ streamed[p[1]] \in Nat /\ streamed[q[1]] \in Nat /\ output[p[1]].size \in Nat
    BY <2>1, <2>2, ItemsAre
  <2>4. p[2] <= streamed[p[1]]
    <3>1. CASE p[1] < q[1]
      <4>1. streamed[p[1]] = output[p[1]].size
        BY <2>1, <2>2, <2>3, <3>1 DEF OneByOne, IsCall
      <4> QED BY <2>1, <2>3, <4>1
    <3>2. CASE p[1] = q[1] /\ p[2] < q[2]
      BY <2>2, <2>3, <3>2
    <3> QED BY <1>3, <3>1, <3>2 DEF Before
  <2> QED BY <2>4 DEF Streamed, VisibleIsStreamed
<1> QED BY <1>2, <1>3 DEF IsBeginning, VisibleIsStreamed

\* While the round runs, nothing is said of it that is not so.
LEMMA InvIsAsSaid == RoundInv => RoundIsAsSaid
<1> SUFFICES ASSUME RoundInv, Running PROVE RoundIsAsSaid
  BY DEF RoundInv
<1>1. IsInjective(PlacesTaken) /\ IsBeginning(visible, Said("text"))
  BY TakenDiffer, VisibleBegins DEF RoundInv, AsStreamed, PlacesDiffer, PlacesApart
<1> QED BY <1>1 DEF RoundIsAsSaid, Running

\* A round that fails keeps its text or loses all of it.
LEMMA FailedRound ==
  ASSUME RoundInv, Running, RoundFailed, visible' \in {<<>>, visible}
  PROVE  RoundInv'
<1>1. /\ stage' = "failed" /\ wire' = wire /\ finalOnly' = finalOnly /\ recoveries' = recoveries
      /\ output' = output /\ streamed' = streamed /\ opened' = opened /\ closed' = closed
      /\ label' = label /\ blocks' = blocks /\ held' = held /\ finish' = finish
  BY DEF RoundFailed, requestVars, wireVars
<1>2. IsInjective(PlacesTaken) /\ IsBeginning(visible, Said("text"))
  BY InvIsAsSaid DEF RoundIsAsSaid
<1>3. PlacesTaken' = PlacesTaken /\ Said("text")' = Said("text")
  BY <1>1 DEF PlacesTaken, Said, SaidBy, Items
<1>4. DOMAIN <<>> = {} /\ <<>> \in Seq(Piece)
  OBVIOUS
<1>5. IsBeginning(visible', Said("text"))
  BY <1>2, <1>4 DEF IsBeginning, InTurn
<1>6. RoundIsAsSaid'
  BY <1>1, <1>2, <1>3, <1>5 DEF RoundIsAsSaid
<1>7. RoundShape'
  BY <1>1, <1>4 DEF RoundInv, RoundShape, RoundTypeOK, Items, Allowed
<1> QED BY <1>1, <1>6, <1>7 DEF RoundInv, Running

\* The stream ends.
LEMMA StreamEndsKeeps ==
  ASSUME RoundInv, StreamEnds
  PROVE  RoundInv'
<1>1. /\ stage = "streaming" /\ stage' = "ended" /\ wire' = wire /\ finalOnly' = finalOnly
      /\ recoveries' = recoveries /\ output' = output /\ streamed' = streamed /\ opened' = opened
      /\ closed' = closed /\ label' = label /\ blocks' = blocks /\ held' = held /\ visible' = visible
      /\ (finish' = "stop" => AllDone) /\ finish' \in {"stop", "max_output_tokens", "content_filter", "none"}
  BY DEF StreamEnds, requestVars, wireVars
<1>2. RoundShape'
  BY <1>1 DEF RoundInv, RoundShape, RoundTypeOK, Items, Allowed
<1>3. AllDone' <=> AllDone
  BY <1>1 DEF AllDone, AllStreamed, Items
<1>4. AsStreamed'
  <2>1. AsStreamed
    BY <1>1 DEF RoundInv, Running
  <2>2. /\ Items' = Items /\ (\A j : IsCall(j)' <=> IsCall(j)) /\ (\A j : Held(j)' = Held(j))
        /\ NextPlace' = NextPlace /\ (\A k : Streamed(k)' = Streamed(k) /\ ShownOf(k)' = ShownOf(k))
    BY <1>1 DEF Items, IsCall, Held, NextPlace, Streamed, Said, SaidBy, ShownOf
  <2>3. OneByOne'
    BY <1>1, <2>1, <2>2 DEF AsStreamed, OneByOne
  <2>4. VisibleIsStreamed'
    BY <1>1, <2>1, <2>2 DEF AsStreamed, VisibleIsStreamed
  <2>5. BlocksAreStreamed'
    BY <1>1, <2>1, <2>2 DEF AsStreamed, BlocksAreStreamed
  <2>6. PhasesAreGiven' /\ PlacesDiffer'
    BY <1>1, <2>1, <2>2 DEF AsStreamed, PhasesAreGiven, PlacesDiffer
  <2>7. CallsAreStreamed'
    BY <1>1, <2>1, CallsKept DEF AsStreamed, RoundInv
  <2> QED BY <2>3, <2>4, <2>5, <2>6, <2>7 DEF AsStreamed
<1> QED BY <1>1, <1>2, <1>3, <1>4 DEF RoundInv, Running

\* A round that breaks off, is refused or breaks the protocol keeps what was shown, or takes it back.
LEMMA FailuresKeep ==
  ASSUME RoundInv, WireBreaks \/ AdapterThrows \/ RoundRejected
  PROVE  RoundInv'
<1>1. Running /\ RoundFailed /\ visible' \in {<<>>, visible}
  BY DEF WireBreaks, AdapterThrows, RoundRejected, Thrown, Concluding, Running
<1> QED BY <1>1, FailedRound

------------------------------------------------------------------------------
(* The calls of the model, in order *)

\* What InOrder() makes of some of the calls: each of them once, at pos, by their items.
Ordered(calls, pos) ==
  /\ Cardinality(calls) \in Nat /\ pos \in [1..Cardinality(calls) -> calls]
  /\ InOrder(calls) = [k \in 1..Cardinality(calls) |-> held[pos[k]]]
  /\ \A j, k \in 1..Cardinality(calls) : j < k => held[pos[j]].item < held[pos[k]].item
  /\ \A n \in calls : \E k \in 1..Cardinality(calls) : pos[k] = n

\* Where the calls are sorted to.
LEMMA SortPlaces ==
  ASSUME RoundShape, CallsAreStreamed
  PROVE  /\ \A n \in DOMAIN held : SortPlace(n) \in 1..Len(output) + Len(held)
         /\ \A m, n \in DOMAIN held : SortPlace(m) < SortPlace(n) <=> held[m].item < held[n].item
         /\ \A m, n \in DOMAIN held : SortPlace(m) = SortPlace(n) => m = n
         /\ Len(output) \in Nat /\ Len(held) \in Nat
<1>1. /\ Len(output) \in Nat /\ Len(held) \in Nat /\ DOMAIN held = 1..Len(held)
      /\ \A n \in DOMAIN held : held[n].item \in 1..Len(output) /\ held[n].item \in Int /\ n \in Int
      /\ wire \in {"chat", "responses"}
  <2>1. Len(output) \in Nat /\ Items = 1..Len(output)
    BY ItemsAre
  <2>2. Len(held) \in Nat /\ DOMAIN held = 1..Len(held)
    BY HeldAre
  <2>3. \A n \in DOMAIN held : held[n].item \in Items
    BY DEF CallsAreStreamed
  <2> QED BY <2>1, <2>2, <2>3 DEF RoundShape, RoundTypeOK
<1>2. ASSUME NEW m \in DOMAIN held, NEW n \in DOMAIN held, held[m].item = held[n].item PROVE m = n
  <2>1. ~(m < n) /\ ~(n < m)
    BY <1>2 DEF CallsAreStreamed
  <2> QED BY <1>1, <2>1
<1>3. CASE wire = "chat"
  <2>1. \A n \in DOMAIN held : SortPlace(n) = held[n].item
    BY <1>3 DEF SortPlace
  <2> QED BY <1>1, <1>2, <2>1
<1>4. CASE wire = "responses"
  <2>1. \A n \in DOMAIN held : SortPlace(n) = n
    BY <1>4 DEF SortPlace
  <2>2. \A m, n \in DOMAIN held : m < n => held[m].item < held[n].item
    BY <1>4 DEF CallsAreStreamed
  <2>3. \A m, n \in DOMAIN held : m < n \/ n < m \/ m = n
    BY <1>1
  <2> QED BY <1>1, <2>1, <2>2, <2>3
<1> QED BY <1>1, <1>3, <1>4

\* The calls are put in the model's order, none left out and none twice.
LEMMA InOrderIs ==
  ASSUME RoundShape, CallsAreStreamed, NEW calls, calls \subseteq DOMAIN held
  PROVE  \E pos : Ordered(calls, pos)
<1> DEFINE B == Len(output) + Len(held)
           places == {SortPlace(n) : n \in calls}
           rank == [n \in calls |-> Cardinality({p \in places : p <= SortPlace(n)})]
           N == Cardinality(calls)
           pos == [k \in 1..N |-> CHOOSE n \in calls : rank[n] = k]
<1>1. /\ B \in Nat
      /\ \A n \in calls : SortPlace(n) \in 1..B /\ SortPlace(n) \in Int
      /\ \A m, n \in calls : SortPlace(m) < SortPlace(n) <=> held[m].item < held[n].item
      /\ \A m, n \in calls : SortPlace(m) = SortPlace(n) => m = n
  <2>1. /\ Len(output) \in Nat /\ Len(held) \in Nat
        /\ \A n \in calls : SortPlace(n) \in 1..Len(output) + Len(held)
        /\ \A m, n \in calls : SortPlace(m) < SortPlace(n) <=> held[m].item < held[n].item
        /\ \A m, n \in calls : SortPlace(m) = SortPlace(n) => m = n
    BY SortPlaces
  <2> QED BY <2>1
<1>2. InOrder(calls) = [k \in 1..N |-> held[CHOOSE n \in calls : rank[n] = k]]
  BY DEF InOrder
<1>3. /\ \A n \in calls : rank[n] = Count(places, SortPlace(n)) /\ SortPlace(n) \in places
      /\ \A p \in places : p \in 1..B /\ \E n \in calls : SortPlace(n) = p
  BY <1>1 DEF Count, Upto
<1>4. IsFiniteSet(calls) /\ N \in Nat
  <2>1. Len(held) \in Nat /\ \A n \in calls : n \in 1..Len(held)
    BY HeldAre
  <2> QED BY <2>1, PositionsFinite
<1>5. Cardinality(places) = N
  <2> DEFINE f == [n \in calls |-> SortPlace(n)]
  <2>1. f \in [calls -> places] /\ \A n \in calls : f[n] = SortPlace(n)
    OBVIOUS
  <2> HIDE DEF f, places
  <2>2. f \in Bijection(calls, places)
    BY <1>1, <1>3, <2>1 DEF Bijection, Injection, Surjection, IsInjective
  <2> QED BY <1>4, <2>2, FS_Bijection DEF ExistsBijection
<1> HIDE DEF rank, places, B, N
<1>6. ASSUME NEW m \in calls, NEW n \in calls, SortPlace(m) < SortPlace(n) PROVE rank[m] < rank[n]
  <2>1. Count(places, SortPlace(m)) < Count(places, SortPlace(n))
    BY <1>1, <1>3, <1>6, CountRises
  <2> QED BY <1>3, <2>1
<1>7. \A n \in calls : rank[n] \in 1..N /\ rank[n] \in Int
  <2>1. ASSUME NEW n \in calls PROVE Count(places, SortPlace(n)) \in 1..N
    <3>1. SortPlace(n) \in Int /\ 0 \in Int /\ 0 < SortPlace(n) /\ SortPlace(n) \in places
      BY <1>1, <1>3
    <3>2. Count(places, SortPlace(n)) \in 0..N
      BY <1>1, <1>3, <1>5, <3>1, CountType
    <3>3. Count(places, 0) = 0
      <4>1. 0 \in Int /\ 0 <= 0
        OBVIOUS
      <4> QED BY <1>1, <1>3, <4>1, CountEnds, Zenon
    <3>4. Count(places, 0) < Count(places, SortPlace(n))
      BY <1>1, <1>3, <3>1, CountRises
    <3> QED BY <1>4, <3>2, <3>3, <3>4
  <2> QED BY <1>3, <1>4, <2>1
<1>8. ASSUME NEW m \in calls, NEW n \in calls, rank[m] = rank[n] PROVE m = n
  <2>1. ~(SortPlace(m) < SortPlace(n)) /\ ~(SortPlace(n) < SortPlace(m))
    BY <1>6, <1>7, <1>8
  <2> QED BY <1>1, <2>1
<1>9. ASSUME NEW k \in 1..N PROVE pos[k] \in calls /\ rank[pos[k]] = k
  <2>1. k \in 1..Cardinality(places)
    BY <1>5
  <2>2. PICK p \in places : Count(places, p) = k
    BY <1>1, <1>3, <2>1, CountReached
  <2>3. \E n \in calls : rank[n] = k
    BY <1>3, <2>2
  <2>4. pos[k] = CHOOSE n \in calls : rank[n] = k
    OBVIOUS
  <2> HIDE DEF pos
  <2> QED BY <2>3, <2>4
<1>10. InOrder(calls) = [k \in 1..N |-> held[pos[k]]] /\ pos \in [1..N -> calls]
  <2>1. \A k \in 1..N : pos[k] = CHOOSE n \in calls : rank[n] = k
    OBVIOUS
  <2>2. DOMAIN pos = 1..N /\ pos = [k \in 1..N |-> pos[k]]
    OBVIOUS
  <2> HIDE DEF pos
  <2> QED BY <1>2, <1>9, <2>1, <2>2
<1> HIDE DEF pos
<1>11. ASSUME NEW j \in 1..N, NEW k \in 1..N, j < k PROVE held[pos[j]].item < held[pos[k]].item
  <2>1. pos[j] \in calls /\ pos[k] \in calls /\ rank[pos[j]] = j /\ rank[pos[k]] = k /\ j \in Int /\ k \in Int
    BY <1>9
  <2>2. ~(SortPlace(pos[k]) < SortPlace(pos[j]))
    BY <1>6, <1>11, <2>1
  <2>3. SortPlace(pos[k]) # SortPlace(pos[j])
    BY <1>1, <1>11, <2>1
  <2> QED BY <1>1, <2>1, <2>2, <2>3
<1>12. ASSUME NEW n \in calls PROVE \E k \in 1..N : pos[k] = n
  BY <1>7, <1>8, <1>9
<1>13. Ordered(calls, pos)
  BY <1>4, <1>10, <1>11, <1>12 DEF Ordered, N
<1> QED BY <1>13

------------------------------------------------------------------------------
(* The round is accepted *)

\* What the runtime takes of the calls that are held: t[k] is the call at pos[k], with arguments
\* of its own only.
TakenFrom(t, pos) ==
  LET calls == DOMAIN held \ Clarifications
  IN /\ t \in Seq(CallType) /\ Len(t) = Cardinality(calls) /\ DOMAIN t = 1..Cardinality(calls)
     /\ \A k \in DOMAIN t :
          /\ pos[k] \in DOMAIN held
          /\ t[k].item = held[pos[k]].item /\ t[k].place = held[pos[k]].place
          /\ \A a \in DOMAIN t[k].args : t[k].args[a] \in {<<t[k].item, a + 1>>, "closed"}

\* The arguments of a call that is held are its own.
LEMMA HeldArguments ==
  ASSUME RoundShape, CallsAreStreamed, NEW n \in DOMAIN held
  PROVE  /\ held[n] \in CallType /\ held[n].args \in Seq(Piece \cup {"closed"})
         /\ \A a \in DOMAIN held[n].args : held[n].args[a] = <<held[n].item, a + 1>>
<1>1. held[n] \in CallType /\ held[n].args \in Seq(Piece \cup {"closed"})
  BY HeldAre
<1>2. held[n].args = Arguments(held[n].item, streamed[held[n].item] - 1)
  BY DEF CallsAreStreamed
<1> QED BY <1>1, <1>2 DEF Arguments

\* The calls the runtime makes are those that are held, clarifications aside.
LEMMA BusinessTaken ==
  ASSUME RoundShape, CallsAreStreamed, NEW pos, Ordered(DOMAIN held \ Clarifications, pos)
  PROVE  /\ TakenFrom(Business, pos)
         /\ \A k \in DOMAIN Business : Business[k] = held[pos[k]]
<1> DEFINE calls == DOMAIN held \ Clarifications
           N == Cardinality(calls)
<1>1. /\ N \in Nat /\ pos \in [1..N -> calls] /\ Business = [k \in 1..N |-> held[pos[k]]]
  BY DEF Ordered, Business
<1>2. /\ DOMAIN Business = 1..N
      /\ \A k \in 1..N : pos[k] \in DOMAIN held /\ Business[k] = held[pos[k]]
  BY <1>1
<1>3. ASSUME NEW k \in 1..N
      PROVE  /\ Business[k] \in CallType
             /\ \A a \in DOMAIN Business[k].args : Business[k].args[a] = <<Business[k].item, a + 1>>
  <2>1. pos[k] \in DOMAIN held /\ Business[k] = held[pos[k]]
    BY <1>2
  <2>2. /\ held[pos[k]] \in CallType
        /\ \A a \in DOMAIN held[pos[k]].args : held[pos[k]].args[a] = <<held[pos[k]].item, a + 1>>
    BY <2>1, HeldArguments
  <2> QED BY <2>1, <2>2
<1> HIDE DEF N
<1>4. Business \in [1..N -> CallType]
  BY <1>1, <1>3
<1>5. Business \in Seq(CallType) /\ Len(Business) = N
  BY <1>1, <1>4
<1> QED BY <1>2, <1>3, <1>5 DEF TakenFrom, N

\* Closing what was cut off changes nothing else.
LEMMA RecoveredTaken ==
  ASSUME RoundShape, CallsAreStreamed, NEW pos, Ordered(DOMAIN held \ Clarifications, pos), NEW salvaged
  PROVE  TakenFrom(Recovered(salvaged), pos)
<1> DEFINE t == Recovered(salvaged)
           N == Cardinality(DOMAIN held \ Clarifications)
<1>1. TakenFrom(Business, pos) /\ \A k \in DOMAIN Business : Business[k] = held[pos[k]]
  BY BusinessTaken
<1>2. /\ DOMAIN Business = 1..N /\ N \in Nat
      /\ \A k \in 1..N : pos[k] \in DOMAIN held /\ Business[k] = held[pos[k]]
  BY <1>1 DEF TakenFrom, Ordered
<1>3. t = [n \in DOMAIN Business |->
             IF Business[n].item \in salvaged THEN [Business[n] EXCEPT !.args = Append(@, "closed")]
             ELSE Business[n]]
  BY DEF Recovered
<1> HIDE DEF t, N
<1>4. ASSUME NEW k \in 1..N
      PROVE  /\ t[k] \in CallType /\ t[k].item = held[pos[k]].item /\ t[k].place = held[pos[k]].place
             /\ \A a \in DOMAIN t[k].args : t[k].args[a] \in {<<t[k].item, a + 1>>, "closed"}
  <2> DEFINE c == Business[k]
             s == Append(c.args, "closed")
  <2>1. /\ c = held[pos[k]] /\ c \in CallType /\ c.args \in Seq(Piece \cup {"closed"})
        /\ \A a \in DOMAIN c.args : c.args[a] = <<c.item, a + 1>>
    BY <1>2, HeldArguments
  <2>2. CASE c.item \in salvaged
    <3>1. t[k] = [c EXCEPT !.args = s]
      BY <1>2, <1>3, <2>2
    <3>2. /\ s \in Seq(Piece \cup {"closed"}) /\ \A a \in DOMAIN s : s[a] \in {<<c.item, a + 1>>, "closed"}
      <4> DEFINE old == c.args
      <4>1. old \in Seq(Piece \cup {"closed"}) /\ "closed" \in Piece \cup {"closed"} /\ s = Append(old, "closed")
            /\ \A a \in DOMAIN old : old[a] = <<c.item, a + 1>>
        BY <2>1
      <4> HIDE DEF old, s
      <4>2. /\ s \in Seq(Piece \cup {"closed"}) /\ Len(old) \in Nat /\ DOMAIN old = 1..Len(old)
            /\ DOMAIN s = 1..Len(old) + 1 /\ s[Len(old) + 1] = "closed" /\ \A a \in 1..Len(old) : s[a] = old[a]
        BY <4>1
      <4>3. \A a \in 1..Len(old) + 1 : a \in 1..Len(old) \/ a = Len(old) + 1
        BY <4>2
      <4> QED BY <4>1, <4>2, <4>3
    <3> HIDE DEF c, s
    <3>3. t[k] = [item |-> c.item, name |-> c.name, args |-> s, place |-> c.place]
      BY <2>1, <3>1, CallWithArguments
    <3>4. c.item \in Nat /\ c.name \in STRING /\ c.place \in Nat
      BY <2>1 DEF CallType
    <3> QED BY <2>1, <3>2, <3>3, <3>4 DEF CallType
  <2>3. CASE c.item \notin salvaged
    <3>1. t[k] = c
      BY <1>2, <1>3, <2>3
    <3> QED BY <2>1, <3>1
  <2> QED BY <2>2, <2>3
<1>5. DOMAIN t = 1..N /\ t \in [1..N -> CallType]
  BY <1>2, <1>3, <1>4
<1>6. t \in Seq(CallType) /\ Len(t) = N
  BY <1>2, <1>5
<1> QED BY <1>2, <1>4, <1>5, <1>6 DEF TakenFrom, t, N

\* Settling the last text changes its phase and nothing else.
LEMMA SettledIs ==
  ASSUME RoundShape
  PROVE  /\ Settled \in Seq(BlockType) /\ DOMAIN Settled = DOMAIN blocks /\ Len(Settled) = Len(blocks)
         /\ \A n \in DOMAIN blocks :
              /\ Settled[n].kind = blocks[n].kind /\ Settled[n].place = blocks[n].place
              /\ Settled[n].body = blocks[n].body
              /\ blocks[n].phase # "pending" => Settled[n].phase = blocks[n].phase
              /\ n \in Texts /\ n = LastText /\ blocks[n].phase = "pending" =>
                   Settled[n].phase = IF Business # <<>> THEN "commentary" ELSE "final_answer"
<1> DEFINE phase == IF Business # <<>> THEN "commentary" ELSE "final_answer"
<1>1. /\ Len(blocks) \in Nat /\ DOMAIN blocks = 1..Len(blocks)
      /\ \A n \in DOMAIN blocks : blocks[n] \in BlockType
  BY BlocksAre
<1>2. phase \in Phases
  BY DEF Phases
<1>3. DOMAIN Settled = DOMAIN blocks
      /\ \A n \in DOMAIN blocks :
           Settled[n] = IF n \in Texts /\ n = LastText /\ blocks[n].phase = "pending"
                        THEN [blocks[n] EXCEPT !.phase = phase] ELSE blocks[n]
  BY DEF Settled
<1> HIDE DEF phase
<1>4. ASSUME NEW n \in DOMAIN blocks
      PROVE  /\ Settled[n] \in BlockType
             /\ Settled[n].kind = blocks[n].kind /\ Settled[n].place = blocks[n].place
             /\ Settled[n].body = blocks[n].body
             /\ blocks[n].phase # "pending" => Settled[n].phase = blocks[n].phase
             /\ n \in Texts /\ n = LastText /\ blocks[n].phase = "pending" => Settled[n].phase = phase
  BY <1>1, <1>2, <1>3 DEF BlockType
<1>5. Settled \in [1..Len(blocks) -> BlockType]
  <2>1. Settled = [n \in DOMAIN blocks |-> Settled[n]]
    BY DEF Settled
  <2> QED BY <1>1, <1>4, <2>1
<1>6. Settled \in Seq(BlockType) /\ Len(Settled) = Len(blocks)
  BY <1>1, <1>5
<1> QED BY <1>3, <1>4, <1>6 DEF phase

\* When the provider says that the round is finished, all of it was streamed.
LEMMA AllWasStreamed ==
  ASSUME RoundShape, AsStreamed, AllDone
  PROVE  /\ \A i \in Items : streamed[i] = output[i].size
         /\ \A k : Streamed(k) = Said(k)
         /\ Range(visible) = Said("text") /\ ShownWhole("text") /\ ShownWhole("reasoning")
<1>1. \A i \in Items : streamed[i] = output[i].size
  <2>1. CASE wire = "chat"
    BY <2>1 DEF AllDone, AllStreamed
  <2>2. CASE wire # "chat"
    <3>1. Items = closed /\ wire = "responses"
      BY <2>2 DEF AllDone, RoundShape, RoundTypeOK
    <3> QED BY <3>1 DEF AsStreamed, OneByOne
  <2> QED BY <2>1, <2>2
<1>2. ASSUME NEW k, NEW p PROVE p \in Streamed(k) <=> p \in Said(k)
  <2>1. p \in Streamed(k) <=> /\ p \in Piece /\ p[1] \in Items /\ output[p[1]].kind = k
                              /\ p[2] \in 1..streamed[p[1]]
    BY InStreamed
  <2>2. p \in Said(k) <=> /\ p \in Piece /\ p[1] \in Items /\ output[p[1]].kind = k
                          /\ p[2] \in 1..output[p[1]].size
    BY InSaid
  <2> QED BY <1>1, <2>1, <2>2
<1>3. \A k : Streamed(k) = Said(k)
  BY <1>2
<1>4. Range(visible) = Said("text")
  BY <1>2 DEF AsStreamed, VisibleIsStreamed
<1>5. ASSUME NEW kind \in {"text", "reasoning"} PROVE ShownWhole(kind)
  <2>1. \A n \in ShownOf(kind) : n \in DOMAIN blocks /\ blocks[n].kind = kind
    BY DEF ShownOf
  <2>2. \A n \in ShownOf(kind) : InTurn(blocks[n].body)
    BY <2>1 DEF AsStreamed, BlocksAreStreamed
  <2>3. \A m, n \in ShownOf(kind) : m < n =>
          \A p \in Range(blocks[m].body), q \in Range(blocks[n].body) : Before(p, q)
    BY <2>1 DEF AsStreamed, BlocksAreStreamed
  <2>4. ASSUME NEW p
        PROVE  p \in UNION {Range(blocks[n].body) : n \in ShownOf(kind)} <=> p \in Said(kind)
    <3>1. p \in UNION {Range(blocks[n].body) : n \in ShownOf(kind)} <=>
            \E n \in ShownOf(kind) : p \in Range(blocks[n].body)
      OBVIOUS
    <3>2. (\E n \in ShownOf(kind) : p \in Range(blocks[n].body)) => p \in Streamed(kind)
      BY DEF AsStreamed, BlocksAreStreamed
    <3>3. p \in Streamed(kind) => \E n \in ShownOf(kind) : p \in Range(blocks[n].body)
      BY DEF AsStreamed, BlocksAreStreamed, ShownOf
    <3> QED BY <1>2, <3>1, <3>2, <3>3
  <2>5. UNION {Range(blocks[n].body) : n \in ShownOf(kind)} = Said(kind)
    BY <2>4
  <2> QED BY <2>2, <2>3, <2>5 DEF ShownWhole
<1> QED BY <1>1, <1>3, <1>4, <1>5

\* What is shown whole stays so while blocks only change their phase.
LEMMA ShownStays ==
  ASSUME NEW kind, ShownWhole(kind), output' = output, ShownOf(kind)' = ShownOf(kind),
         \A n \in ShownOf(kind) : blocks'[n].body = blocks[n].body
  PROVE  ShownWhole(kind)'
<1>1. Said(kind)' = Said(kind)
  BY DEF Said, SaidBy, Items
<1>2. {Range(blocks'[n].body) : n \in ShownOf(kind)} = {Range(blocks[n].body) : n \in ShownOf(kind)}
  OBVIOUS
<1> QED BY <1>1, <1>2 DEF ShownWhole

\* In a round that is finished, every text that bears a label has its phase, and the others are pending.
LEMMA PhasesInTheEnd ==
  ASSUME RoundShape, AsStreamed, AllDone, NEW n \in Texts
  PROVE  /\ wire = "chat" => blocks[n].phase = "none"
         /\ wire = "responses" =>
              /\ GivenPhase(blocks[n]) # "none" =>
                   blocks[n].phase = GivenPhase(blocks[n]) /\ blocks[n].phase # "pending"
              /\ GivenPhase(blocks[n]) = "none" => blocks[n].phase = "pending"
<1>1. n \in DOMAIN blocks /\ blocks[n].kind = "text"
  BY DEF Texts
<1>2. wire = "chat" => blocks[n].phase = "none"
  BY <1>1 DEF AsStreamed, PhasesAreGiven
<1>3. ASSUME wire = "responses"
      PROVE  /\ GivenPhase(blocks[n]) # "none" =>
                  blocks[n].phase = GivenPhase(blocks[n]) /\ blocks[n].phase # "pending"
             /\ GivenPhase(blocks[n]) = "none" => blocks[n].phase = "pending"
  <2> DEFINE i == blocks[n].place
  <2>1. /\ i \in Items /\ output[i].kind = "text" /\ \A p \in Range(blocks[n].body) : p[1] = i
        /\ blocks[n].body # <<>>
    BY <1>1, <1>3 DEF AsStreamed, BlocksAreStreamed
  <2>2. blocks[n].body \in Seq(Piece)
    BY <1>1, BlocksAre
  <2>3. PICK p \in Range(blocks[n].body) : p = blocks[n].body[1]
    BY <2>1, <2>2, SomePiece
  <2>4. blocks[n].body[1][1] = i
    BY <2>1, <2>3
  <2>5. i \in closed /\ label[i] \in Phases
    BY <1>3, <2>1 DEF AllDone, RoundShape
  <2>6. output[i].phase # "none" => label[i] = output[i].phase
    BY <1>3, <2>1, <2>5 DEF AsStreamed, OneByOne
  <2>7. GivenPhase(blocks[n]) = label[i]
    BY <2>4, <2>6 DEF GivenPhase
  <2>8. /\ label[i] = "none" => blocks[n].phase = "pending"
        /\ label[i] # "none" => blocks[n].phase = label[i]
    BY <1>1, <1>3, <2>5 DEF AsStreamed, PhasesAreGiven
  <2>9. label[i] # "pending"
    BY <2>5 DEF Phases
  <2> QED BY <2>7, <2>8, <2>9
<1> QED BY <1>2, <1>3

\* The calls of a round that is finished: every one the model makes, whole and in its order.
LEMMA BusinessIsWhole ==
  ASSUME RoundShape, AsStreamed, AllDone, Clarifications = {}
  PROVE  /\ \A m, n \in DOMAIN Business : m < n => Business[m].item < Business[n].item
         /\ {Business[n].item : n \in DOMAIN Business} = SaidBy("call")
         /\ \A n \in DOMAIN Business : IsWhole(Business[n])
         /\ Business = <<>> <=> SaidBy("call") = {}
<1>1. DOMAIN held \ Clarifications = DOMAIN held /\ DOMAIN held \ Clarifications \subseteq DOMAIN held
  OBVIOUS
<1>2. PICK pos : Ordered(DOMAIN held \ Clarifications, pos)
  BY <1>1, InOrderIs DEF AsStreamed
<1> DEFINE N == Cardinality(DOMAIN held \ Clarifications)
<1>3. /\ TakenFrom(Business, pos) /\ \A k \in DOMAIN Business : Business[k] = held[pos[k]]
  BY <1>2, BusinessTaken DEF AsStreamed
<1>4. /\ DOMAIN Business = 1..N /\ N \in Nat /\ Len(Business) = N /\ Business \in Seq(CallType)
      /\ \A k \in 1..N : pos[k] \in DOMAIN held /\ Business[k] = held[pos[k]]
      /\ \A j, k \in 1..N : j < k => held[pos[j]].item < held[pos[k]].item
      /\ \A n \in DOMAIN held : \E k \in 1..N : pos[k] = n
  BY <1>1, <1>2, <1>3 DEF TakenFrom, Ordered
<1> HIDE DEF N
<1>5. \A i \in Items : streamed[i] = output[i].size
  BY AllWasStreamed
<1>6. ASSUME NEW n \in DOMAIN held
      PROVE  held[n].item \in SaidBy("call") /\ IsWhole(held[n])
  <2> DEFINE i == held[n].item
             v == output[i].size - 1
  <2>1. i \in Items /\ IsCall(i) /\ held[n].args = Arguments(i, streamed[i] - 1)
    BY DEF AsStreamed, CallsAreStreamed
  <2>2. v \in Nat /\ output[i].size = v + 1 /\ streamed[i] = output[i].size
    <3>1. output[i].size \in Nat /\ 0 < output[i].size
      BY <2>1, ItemsAre
    <3> QED BY <1>5, <2>1, <3>1
  <2>3. Tail(Pieces(i)) = Arguments(i, v)
    BY <2>2, WholeArguments
  <2>4. i \in SaidBy("call")
    BY <2>1 DEF SaidBy, IsCall
  <2> QED BY <2>1, <2>2, <2>3, <2>4 DEF IsWhole
<1>7. ASSUME NEW i \in SaidBy("call") PROVE \E k \in 1..N : Business[k].item = i
  <2>1. i \in Items /\ IsCall(i) /\ 0 < output[i].size
    BY ItemsAre DEF SaidBy, IsCall
  <2>2. streamed[i] > 0
    <3>1. output[i].size \in Nat
      BY <2>1, ItemsAre
    <3> QED BY <1>5, <2>1, <3>1
  <2>3. Held(i) # {}
    BY <2>1, <2>2 DEF AsStreamed, CallsAreStreamed
  <2>4. PICK n \in DOMAIN held : held[n].item = i
    BY <2>3 DEF Held
  <2>5. PICK k \in 1..N : pos[k] = n
    BY <1>4, Zenon
  <2>6. Business[k] = held[n]
    BY <1>4, <2>5, Zenon
  <2> QED BY <2>4, <2>6
<1>8. \A m, n \in DOMAIN Business : m < n => Business[m].item < Business[n].item
  <2>1. DOMAIN Business = 1..N /\ \A k \in 1..N : Business[k] = held[pos[k]]
    BY <1>4
  <2>2. \A j, k \in 1..N : j < k => held[pos[j]].item < held[pos[k]].item
    BY <1>4, Zenon
  <2>3. ASSUME NEW m \in 1..N, NEW n \in 1..N, m < n PROVE Business[m].item < Business[n].item
    <3>1. held[pos[m]].item < held[pos[n]].item
      BY <2>2, <2>3
    <3> QED BY <2>1, <3>1
  <2> QED BY <2>1, <2>3
<1>9. {Business[n].item : n \in DOMAIN Business} = SaidBy("call")
  <2>1. ASSUME NEW i PROVE i \in {Business[n].item : n \in DOMAIN Business} <=> i \in SaidBy("call")
    <3>1. i \in {Business[n].item : n \in DOMAIN Business} <=> \E n \in 1..N : Business[n].item = i
      BY <1>4
    <3> QED BY <1>4, <1>6, <1>7, <3>1
  <2> QED BY <2>1
<1>10. \A n \in DOMAIN Business : IsWhole(Business[n])
  BY <1>4, <1>6
<1>11. Business = <<>> <=> SaidBy("call") = {}
  <2>1. Business = <<>> <=> N = 0
    BY <1>4
  <2>2. N = 0 => SaidBy("call") = {}
    BY <1>7
  <2>3. ASSUME N # 0 PROVE SaidBy("call") # {}
    <3>1. 1 \in 1..N
      BY <1>4, <2>3
    <3> QED BY <1>4, <1>6, <3>1
  <2> QED BY <2>1, <2>2, <2>3
<1> QED BY <1>8, <1>9, <1>10, <1>11

\* What is accepted is as the model said.
LEMMA AcceptKeeps ==
  ASSUME RoundInv, Concluding, NEW pos, Ordered(DOMAIN held \ Clarifications, pos),
         NEW t, TakenFrom(t, pos), Accept(t), finish = "stop" => t = Business
  PROVE  RoundInv'
<1> DEFINE calls == DOMAIN held \ Clarifications
           N == Cardinality(calls)
<1>1. /\ held' = t /\ blocks' = Settled /\ wire' = wire /\ finalOnly' = finalOnly /\ recoveries' = recoveries
      /\ output' = output /\ streamed' = streamed /\ opened' = opened /\ closed' = closed
      /\ label' = label /\ finish' = finish /\ visible' = visible
      /\ stage' \in {"clarifies", "calls", "answers"}
      /\ Clarifications # {} => stage' = "clarifies"
  BY DEF Accept, requestVars, wireVars
<1>2. stage = "ended" /\ RoundShape /\ AsStreamed /\ (finish = "stop" => AllDone)
  BY DEF Concluding, RoundInv, Running
<1>3. /\ blocks' \in Seq(BlockType) /\ DOMAIN blocks' = DOMAIN blocks /\ Len(blocks') = Len(blocks)
      /\ \A n \in DOMAIN blocks :
           /\ blocks'[n].kind = blocks[n].kind /\ blocks'[n].place = blocks[n].place
           /\ blocks'[n].body = blocks[n].body
           /\ blocks[n].phase # "pending" => blocks'[n].phase = blocks[n].phase
           /\ n \in Texts /\ n = LastText /\ blocks[n].phase = "pending" =>
                blocks'[n].phase = IF Business # <<>> THEN "commentary" ELSE "final_answer"
  BY <1>1, <1>2, SettledIs
<1>4. /\ held' \in Seq(CallType) /\ N \in Nat /\ DOMAIN held' = 1..N
      /\ \A k \in 1..N :
           /\ pos[k] \in DOMAIN held
           /\ held'[k].item = held[pos[k]].item /\ held'[k].place = held[pos[k]].place
           /\ \A a \in DOMAIN held'[k].args : held'[k].args[a] \in {<<held'[k].item, a + 1>>, "closed"}
  BY <1>1 DEF TakenFrom, Ordered
<1>5. RoundShape'
  BY <1>1, <1>2, <1>3, <1>4 DEF RoundShape, RoundTypeOK, Items, Allowed
<1>6. PlacesApart'
  <2>1. ASSUME NEW j \in 1..N, NEW k \in 1..N, j # k PROVE held'[j].place # held'[k].place
    <3>1. pos[j] # pos[k]
      <4>1. \A a, b \in 1..N : a < b => held[pos[a]].item < held[pos[b]].item
        BY DEF Ordered
      <4>2. \A a \in 1..N : held[pos[a]].item \in Int
        <5>1. \A n \in DOMAIN held : held[n].item \in Int
          BY <1>2, HeldAre
        <5> QED BY <1>4, <5>1
      <4>3. j < k \/ k < j
        BY <1>4, <2>1
      <4>4. held[pos[j]].item < held[pos[k]].item \/ held[pos[k]].item < held[pos[j]].item
        BY <4>1, <4>3
      <4> QED BY <4>2, <4>4
    <3>2. \A m, n \in DOMAIN held : m # n => held[m].place # held[n].place
      BY <1>2 DEF AsStreamed, PlacesDiffer
    <3>3. /\ pos[j] \in DOMAIN held /\ held'[j].place = held[pos[j]].place
          /\ pos[k] \in DOMAIN held /\ held'[k].place = held[pos[k]].place
      BY <1>4
    <3>4. held[pos[j]].place # held[pos[k]].place
      BY <3>1, <3>2, <3>3
    <3> QED BY <3>3, <3>4
  <2>2. \A m, n \in DOMAIN blocks : m # n => blocks'[m].place # blocks'[n].place
    BY <1>2, <1>3 DEF AsStreamed, PlacesDiffer
  <2>3. ASSUME NEW m \in DOMAIN blocks, NEW k \in 1..N PROVE blocks'[m].place # held'[k].place
    <3>1. \A n \in DOMAIN held : blocks[m].place # held[n].place
      BY <1>2 DEF AsStreamed, PlacesDiffer
    <3>2. pos[k] \in DOMAIN held /\ held'[k].place = held[pos[k]].place /\ blocks'[m].place = blocks[m].place
      BY <1>3, <1>4
    <3>3. blocks[m].place # held[pos[k]].place
      BY <3>1, <3>2
    <3> QED BY <3>2, <3>3
  <2> HIDE DEF N
  <2> QED BY <1>3, <1>4, <2>1, <2>2, <2>3 DEF PlacesApart
<1>7. IsInjective(PlacesTaken)'
  <2>1. (RoundShape /\ PlacesApart => IsInjective(PlacesTaken))'
    BY TakenDiffer, PTL
  <2> QED BY <1>5, <1>6, <2>1
<1>8. IsBeginning(visible, Said("text"))'
  <2>1. IsBeginning(visible, Said("text"))
    BY <1>2, VisibleBegins DEF AsStreamed
  <2>2. Said("text")' = Said("text")
    BY <1>1 DEF Said, SaidBy, Items
  <2> QED BY <1>1, <2>1, <2>2
<1>9. \A n \in DOMAIN held' : \A k \in DOMAIN held'[n].args :
        held'[n].args[k] \in {<<held'[n].item, k + 1>>, "closed"}
  BY <1>4
<1>10. ASSUME stage' \in {"calls", "answers"}, finish' = "stop"
       PROVE  /\ Range(visible') = Said("text")' /\ ShownWhole("text")' /\ ShownWhole("reasoning")'
              /\ \A m, n \in DOMAIN held' : m < n => held'[m].item < held'[n].item
              /\ {held'[n].item : n \in DOMAIN held'} = SaidBy("call")'
              /\ \A n \in DOMAIN held' : IsWhole(held[n])'
              /\ \A n \in Texts' : PhaseIsRight(n)'
  <2>1. AllDone /\ Clarifications = {} /\ held' = Business
    BY <1>1, <1>2, <1>10
  <2>2. /\ \A k : Streamed(k) = Said(k)
        /\ Range(visible) = Said("text") /\ ShownWhole("text") /\ ShownWhole("reasoning")
    BY <1>2, <2>1, AllWasStreamed
  <2>3. BlocksAreStreamed' /\ \A k : ShownOf(k)' = ShownOf(k)
    BY <1>1, <1>2, <1>3, Relabelled DEF AsStreamed
  <2>4. /\ Said("text")' = Said("text") /\ SaidBy("call")' = SaidBy("call") /\ Items' = Items
    BY <1>1 DEF Said, SaidBy, Items
  <2>5. ShownWhole("text")' /\ ShownWhole("reasoning")'
    <3>1. \A k : \A n \in ShownOf(k) : blocks'[n].body = blocks[n].body
      BY <1>3 DEF ShownOf
    <3> QED BY <1>1, <2>2, <2>3, <3>1, ShownStays
  <2>6. /\ \A m, n \in DOMAIN Business : m < n => Business[m].item < Business[n].item
        /\ {Business[n].item : n \in DOMAIN Business} = SaidBy("call")
        /\ \A n \in DOMAIN Business : IsWhole(Business[n])
        /\ Business = <<>> <=> SaidBy("call") = {}
    BY <1>2, <2>1, BusinessIsWhole
  <2>7. \A n \in DOMAIN held' : IsWhole(held[n])'
    <3>1. \A c : IsWhole(c) <=> c.args = Tail(Pieces(c.item))
      BY DEF IsWhole
    <3>2. \A n : IsWhole(held[n])' <=> held'[n].args = Tail(Pieces(held'[n].item))
      BY <1>1 DEF IsWhole, Pieces
    <3> QED BY <2>1, <2>6, <3>1, <3>2
  <2>8. Texts' = Texts /\ LastText' = LastText
    <3>1. Texts' = Texts
      <4>1. \A n : n \in Texts' <=> n \in Texts
        BY <1>3 DEF Texts
      <4> QED BY <4>1
    <3> QED BY <3>1 DEF LastText
  <2>9. ASSUME NEW n \in Texts PROVE PhaseIsRight(n)'
    <3>1. n \in DOMAIN blocks
      BY DEF Texts
    <3>2. /\ wire = "chat" => blocks[n].phase = "none"
          /\ wire = "responses" =>
               /\ GivenPhase(blocks[n]) # "none" =>
                    blocks[n].phase = GivenPhase(blocks[n]) /\ blocks[n].phase # "pending"
               /\ GivenPhase(blocks[n]) = "none" => blocks[n].phase = "pending"
      BY <1>2, <2>1, PhasesInTheEnd
    <3>3. GivenPhase(blocks[n])' = GivenPhase(blocks[n])
      BY <1>1, <1>3, <3>1 DEF GivenPhase
    <3>4. /\ blocks[n].phase # "pending" => blocks'[n].phase = blocks[n].phase
          /\ n = LastText /\ blocks[n].phase = "pending" =>
               blocks'[n].phase = IF Business # <<>> THEN "commentary" ELSE "final_answer"
      BY <1>3, <3>1
    <3>5. wire = "chat" => blocks'[n].phase = "none"
      BY <3>2, <3>4
    <3>6. wire # "chat" /\ GivenPhase(blocks[n]) # "none" => blocks'[n].phase = GivenPhase(blocks[n])
      BY <1>2, <3>2, <3>4 DEF RoundShape, RoundTypeOK
    <3>7. wire # "chat" /\ GivenPhase(blocks[n]) = "none" /\ n = LastText =>
            blocks'[n].phase = IF SaidBy("call") = {} THEN "final_answer" ELSE "commentary"
      BY <1>2, <2>6, <3>2, <3>4 DEF RoundShape, RoundTypeOK
    <3> QED BY <1>1, <2>4, <2>8, <3>3, <3>5, <3>6, <3>7 DEF PhaseIsRight
  <2> QED BY <1>1, <2>1, <2>2, <2>4, <2>5, <2>6, <2>7, <2>8, <2>9
<1>11. RoundIsAsSaid'
  BY <1>7, <1>8, <1>9, <1>10 DEF RoundIsAsSaid
<1> QED BY <1>1, <1>5, <1>11 DEF RoundInv, Running

\* The round is accepted, with what could be recovered of it when it was cut off.
LEMMA RoundAcceptedKeeps ==
  ASSUME RoundInv, RoundAccepted
  PROVE  RoundInv'
<1>1. Concluding /\ RoundShape /\ CallsAreStreamed
  BY DEF RoundAccepted, Concluding, RoundInv, Running, AsStreamed
<1>2. PICK pos : Ordered(DOMAIN held \ Clarifications, pos)
  <2>1. DOMAIN held \ Clarifications \subseteq DOMAIN held
    OBVIOUS
  <2> QED BY <1>1, <2>1, InOrderIs
<1>3. CASE Truncated
  <2>1. PICK salvaged \in Salvages : Accept(Recovered(salvaged))
    BY <1>3 DEF RoundAccepted
  <2>2. TakenFrom(Recovered(salvaged), pos)
    BY <1>1, <1>2, RecoveredTaken
  <2>3. finish # "stop"
    BY <1>3 DEF Truncated
  <2> QED BY <1>1, <1>2, <2>1, <2>2, <2>3, AcceptKeeps
<1>4. CASE ~Truncated
  <2>1. Accept(Business)
    BY <1>4 DEF RoundAccepted
  <2>2. TakenFrom(Business, pos)
    BY <1>1, <1>2, BusinessTaken
  <2> QED BY <1>1, <1>2, <2>1, <2>2, AcceptKeeps
<1> QED BY <1>3, <1>4

------------------------------------------------------------------------------
(* The theorems *)

\* At the beginning nothing was said.
LEMMA RoundBegins == RoundInit => RoundInv
<1> SUFFICES ASSUME RoundInit PROVE RoundInv
  OBVIOUS
<1>1. 0 \in 0..MaxRecoveries
  BY RoundBounds
<1>2. Fresh
  BY <1>1 DEF RoundInit, Fresh
<1> QED BY <1>2, FreshIs

\* Every step of the round keeps what is known of it.
LEMMA RoundSteps == RoundInv /\ [RoundNext]_roundVars => RoundInv'
<1> SUFFICES ASSUME RoundInv, [RoundNext]_roundVars PROVE RoundInv'
  OBVIOUS
<1>1. ASSUME NEW i \in Items, ChatChunk(i) PROVE RoundInv'
  <2>1. stage = "streaming" /\ stage' = stage /\ finish' = finish
    BY <1>1 DEF ChatChunk
  <2>2. RoundShape' /\ AsStreamed'
    BY <1>1, <2>1, ChatChunkKeeps DEF RoundInv, Running
  <2> QED BY <2>1, <2>2 DEF RoundInv, Running
<1>2. ASSUME NEW i \in Items, ItemAdded(i) PROVE RoundInv'
  <2>1. stage = "streaming" /\ stage' = stage /\ finish' = finish
    BY <1>2 DEF ItemAdded
  <2>2. RoundShape' /\ AsStreamed'
    BY <1>2, <2>1, ItemAddedKeeps DEF RoundInv, Running
  <2> QED BY <2>1, <2>2 DEF RoundInv, Running
<1>3. ASSUME NEW i \in Items, ItemDelta(i) PROVE RoundInv'
  <2>1. stage = "streaming" /\ stage' = stage /\ finish' = finish
    BY <1>3 DEF ItemDelta
  <2>2. RoundShape' /\ AsStreamed'
    BY <1>3, <2>1, ItemDeltaKeeps DEF RoundInv, Running
  <2> QED BY <2>1, <2>2 DEF RoundInv, Running
<1>4. ASSUME NEW i \in Items, ItemDone(i) PROVE RoundInv'
  <2>1. stage = "streaming" /\ stage' = stage /\ finish' = finish
    BY <1>4 DEF ItemDone
  <2>2. RoundShape' /\ AsStreamed'
    BY <1>4, <2>1, ItemDoneKeeps DEF RoundInv, Running
  <2> QED BY <2>1, <2>2 DEF RoundInv, Running
<1>5. ASSUME StreamEnds PROVE RoundInv'
  BY <1>5, StreamEndsKeeps
<1>6. ASSUME WireBreaks \/ AdapterThrows \/ RoundRejected PROVE RoundInv'
  BY <1>6, FailuresKeep
<1>7. ASSUME RoundAccepted PROVE RoundInv'
  BY <1>7, RoundAcceptedKeeps
<1>8. ASSUME AskAgain PROVE RoundInv'
  BY <1>8, AskAgainKeeps
<1>9. ASSUME UNCHANGED roundVars PROVE RoundInv'
  <2>1. /\ wire' = wire /\ finalOnly' = finalOnly /\ recoveries' = recoveries /\ output' = output
        /\ streamed' = streamed /\ opened' = opened /\ closed' = closed /\ label' = label
        /\ blocks' = blocks /\ held' = held /\ finish' = finish /\ stage' = stage /\ visible' = visible
    BY <1>9 DEF roundVars, requestVars, wireVars
  <2>2. /\ Items' = Items /\ (\A j : IsCall(j)' <=> IsCall(j)) /\ (\A j : Held(j)' = Held(j))
        /\ NextPlace' = NextPlace /\ Texts' = Texts
        /\ \A k : /\ Streamed(k)' = Streamed(k) /\ ShownOf(k)' = ShownOf(k)
                 /\ Said(k)' = Said(k) /\ SaidBy(k)' = SaidBy(k)
    BY <2>1 DEF Items, IsCall, Held, NextPlace, Streamed, Said, SaidBy, ShownOf, Texts
  <2>3. RoundShape'
    BY <1>9, <2>1 DEF RoundInv, RoundShape, RoundTypeOK, Items, Allowed
  <2>4. AsStreamed => OneByOne' /\ VisibleIsStreamed' /\ BlocksAreStreamed' /\ PhasesAreGiven' /\ PlacesDiffer'
    BY <2>1, <2>2 DEF AsStreamed, OneByOne, VisibleIsStreamed, BlocksAreStreamed, PhasesAreGiven, PlacesDiffer
  <2>5. AsStreamed => CallsAreStreamed'
    BY <2>1, CallsKept DEF AsStreamed, RoundInv
  <2>6. AllDone' <=> AllDone
    BY <2>1 DEF AllDone, AllStreamed, Items
  <2>7. RoundIsAsSaid'
    <3>1. RoundIsAsSaid
      BY InvIsAsSaid
    <3>2. PlacesTaken' = PlacesTaken /\ LastText' = LastText
      BY <2>1, <2>2 DEF PlacesTaken, LastText
    <3>3. \A k : ShownWhole(k)' <=> ShownWhole(k)
      BY <2>1, <2>2 DEF ShownWhole
    <3>4. \A n : (PhaseIsRight(n)' <=> PhaseIsRight(n)) /\ (IsWhole(held[n])' <=> IsWhole(held[n]))
      BY <2>1, <2>2, <3>2 DEF PhaseIsRight, GivenPhase, IsWhole, Pieces
    <3> QED BY <2>1, <2>2, <3>1, <3>2, <3>3, <3>4 DEF RoundIsAsSaid
  <2> QED BY <2>1, <2>3, <2>4, <2>5, <2>6, <2>7 DEF RoundInv, Running, AsStreamed
<1> QED BY <1>1, <1>2, <1>3, <1>4, <1>5, <1>6, <1>7, <1>8, <1>9 DEF RoundNext

\* The types of a round, for every sequence of items the model may say.
THEOREM RoundTypes == RoundSpec => []RoundTypeOK
<1>1. RoundInv => RoundTypeOK
  BY DEF RoundInv, RoundShape
<1> QED BY <1>1, RoundBegins, RoundSteps, PTL DEF RoundSpec

\* Whatever the order in which the pieces arrive on either wire, wherever the stream breaks off and
\* however often the model is asked again, a round comes out as the model said it.
THEOREM RoundsAreAsSaid == RoundSpec => []RoundIsAsSaid
BY InvIsAsSaid, RoundBegins, RoundSteps, PTL DEF RoundSpec
==============================================================================
