------------------------- MODULE PendingInputsProofs -------------------------
(***************************************************************************)
(* What holds of pending inputs for every number of inputs and runs, and   *)
(* for every choice of the switches of PendingInputs: a text the user      *)
(* typed is used once at most, only after it was consumed, and a text that *)
(* was consumed or cancelled stays so.  The inductive invariant says who   *)
(* may hold a consumed row that has not been used yet.                     *)
(*                                                                         *)
(* What holds only of some of the switches: a session whose requests wait  *)
(* for a run and whose process lives leaves no steer behind; and when,     *)
(* besides, no run fails and none comes between, nothing that was consumed *)
(* is lost and the queue is taken from its front.                          *)
(***************************************************************************)
EXTENDS PendingInputs, FiniteSetTheorems, WellFoundedInduction, TLAPS

\* Rows a claimant has consumed and not used yet.
Hand(c) == IF pc[c] \in {"applying", "launch"} THEN batch[c] ELSE {}

\* What a claimant holds is consumed, unused and in no other hand.
HandsAreExclusive ==
  \A c \in Claimants : \A i \in Hand(c) :
    /\ status[i] = "consumed" /\ applied[i] = {} /\ launched[i] = 0
    /\ \A d \in Claimants : i \in Hand(d) => d = c

\* UsedOnce without counting.
UsesAreSingle ==
  \A i \in Inputs :
    /\ status[i] # "consumed" => applied[i] = {} /\ launched[i] = 0
    /\ launched[i] = 0 \/ (launched[i] = 1 /\ applied[i] = {})
    /\ \A r, q \in applied[i] : r = q

\* An input is inserted once, and a claim of a follow-up is for one row.
ClaimsAreSingle ==
  /\ \A i \in submitting : status[i] = "none"
  /\ \A c \in Claimants : pc[c] = "claimRead" => \A i, j \in batch[c] : i = j

IInv == TypeOK /\ HandsAreExclusive /\ UsesAreSingle /\ ClaimsAreSingle

-----------------------------------------------------------------------------
(* The number of a new input *)

\* A finite nonempty family of naturals has a greatest member.
LEMMA GreatestExists ==
  ASSUME NEW S, IsFiniteSet(S), S # {}, NEW f \in [S -> Nat]
  PROVE  \E j \in S : \A k \in S : f[j] >= f[k]
<1> DEFINE Bad(U) == U # {} /\ \A j \in U : \E k \in U : ~(f[j] >= f[k])
           Sizes == {n \in Nat : \E U \in SUBSET S : Bad(U) /\ Cardinality(U) = n}
<1>1. SUFFICES ASSUME Bad(S) PROVE FALSE
  OBVIOUS
<1>2. Sizes # {}
  BY <1>1, FS_CardinalityType
<1>3. PICK n \in Sizes : \A m \in Sizes : ~(<<m, n>> \in OpToRel(<, Nat))
  <2>1. Sizes \subseteq Nat
    OBVIOUS
  <2> HIDE DEF Sizes
  <2> QED BY <1>2, <2>1, NatLessThanWellFounded, WFMin, Zenon
<1>4. \A m \in Sizes : ~(m < n)
  <2>1. \A x, y \in Nat : x < y => <<x, y>> \in OpToRel(<, Nat)
    BY Zenon DEF OpToRel
  <2>2. Sizes \subseteq Nat
    OBVIOUS
  <2> HIDE DEF Sizes
  <2> QED BY <1>3, <2>1, <2>2, Zenon
<1>5. PICK U \in SUBSET S : Bad(U) /\ Cardinality(U) = n
  OBVIOUS
<1>6. PICK u \in U : TRUE
  BY <1>5
<1>7. IsFiniteSet(U)
  BY FS_Subset
<1>8. IsFiniteSet(U \ {u}) /\ Cardinality(U \ {u}) = n - 1 /\ n - 1 \in Nat
  <2>1. IsFiniteSet(U \ {u}) /\ Cardinality(U \ {u}) = Cardinality(U) - 1
    BY <1>7, FS_RemoveElement
  <2>2. Cardinality(U \ {u}) \in Nat
    BY <2>1, FS_CardinalityType
  <2> QED BY <1>5, <2>1, <2>2
<1>9. Bad(U \ {u})
  <2>1. U # {u}
    BY <1>5
  <2>2. ASSUME NEW j \in U \ {u}, \A k \in U \ {u} : f[j] >= f[k] PROVE FALSE
    <3>1. CASE f[j] >= f[u]
      BY <1>5, <2>2, <3>1
    <3>2. CASE f[u] >= f[j]
      <4>1. \A k \in U : f[u] >= f[k]
        BY <2>2, <3>2
      <4> QED BY <1>5, <1>6, <4>1
    <3> QED BY <1>6, <3>1, <3>2
  <2> QED BY <1>6, <2>1, <2>2
<1>10. n - 1 \in Sizes
  BY <1>8, <1>9
<1> QED BY <1>4, <1>8, <1>10

\* The sequence that submit() computes is a number.
LEMMA NextSequenceType ==
  ASSUME TypeOK, NEW i \in Inputs
  PROVE  NextSequence \in Nat
<1>1. PICK j \in Inputs : \A k \in Inputs : seq[j] >= seq[k]
  BY PendingBounds, GreatestExists DEF PendingBounds, TypeOK
<1> DEFINE numbers == {seq[k] : k \in Inputs}
<1>2. \E x \in numbers : \A y \in numbers : x >= y
  BY <1>1
<1>3. Max(numbers) \in numbers
  BY <1>2 DEF Max
<1>4. numbers \subseteq Nat
  BY DEF TypeOK
<1> QED BY <1>3, <1>4 DEF NextSequence

-----------------------------------------------------------------------------
(* The steps, one by one *)

\* A request keeps every type.
LEMMA RequestType ==
  ASSUME TypeOK, NEW i \in Inputs, Request(i)
  PROVE  TypeOK'
<1> USE DEF TypeOK, rows, session, uses
<1>1. CASE SubmitCheck(i)
  BY <1>1, NextSequenceType DEF SubmitCheck
<1>2. CASE SubmitInsert(i)
  BY <1>2 DEF SubmitInsert, SetStatus, Statuses
<1>3. CASE Promote(i)
  BY <1>3 DEF Promote, SetKind, Kinds
<1>4. CASE Demote(i)
  BY <1>4 DEF Demote, SetKind, Kinds
<1>5. CASE Cancel(i)
  BY <1>5 DEF Cancel, SetStatus, Statuses
<1>6. CASE Send(i)
  BY <1>6 DEF Send, SetStatus, Statuses, Points, Claimants
<1> QED BY <1>1, <1>2, <1>3, <1>4, <1>5, <1>6 DEF Request

\* A step of an executor keeps every type.
LEMMA ExecuteType ==
  ASSUME TypeOK, NEW r \in Runs, Execute(r)
  PROVE  TypeOK'
<1> USE DEF TypeOK, rows, session, uses, Claimants, Points
<1>0. ASSUME NEW from, NEW to \in Points, DemoteBatch(r, from, to) PROVE TypeOK'
  BY <1>0 DEF DemoteBatch, Step, SetKind, Kinds
<1>1. CASE SteersRead(r)
  BY <1>1 DEF SteersRead, Step, Pending
<1>2. CASE SteersTake(r)
  <2>1. /\ status' \in [Inputs -> Statuses]
        /\ UNCHANGED <<kind, seq, submitting, given, session, uses>>
    BY <1>2 DEF SteersTake, SetStatus, Statuses
  <2>2. pc' \in [Claimants -> Points] /\ batch' \in [Claimants -> SUBSET Inputs]
    BY <1>2 DEF SteersTake
  <2> QED BY <2>1, <2>2
<1>3. CASE ApplySteer(r)
  <2>1. PICK i \in batch[r] : /\ applied' = [applied EXCEPT ![i] = @ \cup {r}]
                              /\ batch' = [batch EXCEPT ![r] = @ \ {i}]
    BY <1>3 DEF ApplySteer, Firsts
  <2>2. pc' \in [Claimants -> Points]
    BY <1>3 DEF ApplySteer
  <2> QED BY <1>3, <2>1, <2>2 DEF ApplySteer
<1>4. CASE FinalRead(r)
  BY <1>4 DEF FinalRead, Step, Pending
<1>5. CASE FinalDemote(r) \/ Demoted(r)
  BY <1>0, <1>5 DEF FinalDemote, Demoted
<1>6. CASE Complete(r)
  BY <1>6 DEF Complete
<1>7. CASE Fail(r)
  BY <1>7 DEF Fail
<1>8. CASE Stop(r)
  BY <1>8 DEF Stop
<1>9. CASE DemoteRead(r)
  BY <1>9 DEF DemoteRead, Step, Pending
<1> QED BY <1>1, <1>2, <1>3, <1>4, <1>5, <1>6, <1>7, <1>8, <1>9 DEF Execute

\* The next run is numbered within the bound.
LEMMA NewRunType ==
  ASSUME TypeOK, last < MaxRuns, NewRun
  PROVE  /\ last + 1 \in Runs
         /\ active' \in Runs \cup {0} /\ last' \in Runs \cup {0}
         /\ ended' \in [Runs -> {"no", "completed", "failed"}]
BY PendingBounds DEF PendingBounds, TypeOK, NewRun, Runs

\* A step of a claim of follow-ups keeps every type.
LEMMA ClaimType ==
  ASSUME TypeOK, NEW c \in Claimants, Claim(c)
  PROVE  TypeOK'
<1> USE DEF TypeOK, rows, session, uses
<1>1. CASE ClaimRead(c)
  <2>1. batch' \in [Claimants -> SUBSET Inputs] /\ pc' \in [Claimants -> Points]
    BY <1>1 DEF ClaimRead, NextFollowUps, Firsts, Pending, Points
  <2> QED BY <1>1, <2>1 DEF ClaimRead
<1>2. CASE ClaimTake(c)
  <2>1. /\ status' \in [Inputs -> Statuses]
        /\ UNCHANGED <<kind, seq, submitting, given, session, uses>>
    BY <1>2 DEF ClaimTake, SetStatus, Statuses
  <2>2. pc' \in [Claimants -> Points] /\ batch' \in [Claimants -> SUBSET Inputs]
    BY <1>2 DEF ClaimTake, Points
  <2> QED BY <2>1, <2>2
<1>3. CASE Launch(c)
  <2>1. last < MaxRuns /\ NewRun
    BY <1>3 DEF Launch
  <2>2. launched' \in [Inputs -> Nat]
    BY <1>3 DEF Launch
  <2>3. pc' \in [Claimants -> Points] /\ batch' \in [Claimants -> SUBSET Inputs]
    BY <1>3, <2>1, NewRunType DEF Launch, Points, Claimants
  <2> QED BY <1>3, <2>1, <2>2, <2>3, NewRunType DEF Launch
<1>4. CASE LaunchRefused(c)
  BY <1>4 DEF LaunchRefused, Points
<1> QED BY <1>1, <1>2, <1>3, <1>4 DEF Claim

\* Every variable has its type, in every reachable state.
LEMMA StepType == TypeOK /\ [Next]_vars => TypeOK'
<1> SUFFICES ASSUME TypeOK, [Next]_vars PROVE TypeOK' OBVIOUS
<1> USE DEF TypeOK, rows, session, uses
<1>1. CASE Resume
  BY <1>1 DEF Resume, Points, Claimants
<1>2. CASE Create
  <2>1. last < MaxRuns /\ NewRun
    BY <1>2 DEF Create
  <2>2. pc' \in [Claimants -> Points]
    BY <1>2 DEF Create, Points
  <2> QED BY <1>2, <2>1, <2>2, NewRunType DEF Create
<1>3. CASE Crash
  BY <1>3 DEF Crash, Points, Claimants
<1>4. CASE UNCHANGED vars
  BY <1>4 DEF vars
<1> QED BY <1>1, <1>2, <1>3, <1>4, RequestType, ExecuteType, ClaimType DEF Next

-----------------------------------------------------------------------------
(* Hands and uses *)

\* A step that uses nothing, hands nobody anything and settles no settled row.
Idle ==
  /\ UNCHANGED uses
  /\ \A c \in Claimants : Hand(c)' \subseteq Hand(c)
  /\ \A i \in Inputs : status'[i] = status[i] \/ status[i] \in {"none", "pending"}
  /\ \A i \in submitting' : status'[i] = "none"
  /\ \A c \in Claimants : pc'[c] = "claimRead" => \A i, j \in batch'[c] : i = j

\* Claimant c consumes rows that were pending and holds them.
Takes(c) ==
  /\ UNCHANGED <<submitting, uses>>
  /\ \A i \in Hand(c)' : status[i] = "pending"
  /\ status' = [i \in Inputs |-> IF i \in Hand(c)' THEN "consumed" ELSE status[i]]
  /\ pc' = [pc EXCEPT ![c] = IF @ = "steersRead" THEN "applying" ELSE "launch"]
  /\ \A d \in Claimants : d # c => batch'[d] = batch[d]

\* A step that hands nobody anything keeps the hands and the uses.
LEMMA IdleKeeps ==
  ASSUME IInv, Idle
  PROVE  HandsAreExclusive' /\ UsesAreSingle' /\ ClaimsAreSingle'
<1> USE DEF IInv, Idle, uses
<1>1. HandsAreExclusive'
  <2> SUFFICES ASSUME NEW c \in Claimants, NEW i \in Hand(c)'
               PROVE  /\ status'[i] = "consumed" /\ applied'[i] = {} /\ launched'[i] = 0
                      /\ \A d \in Claimants : i \in Hand(d)' => d = c
    BY DEF HandsAreExclusive
  <2>1. i \in Hand(c)
    OBVIOUS
  <2>2. i \in Inputs
    BY <2>1 DEF Hand, TypeOK
  <2> QED BY <2>1, <2>2 DEF HandsAreExclusive
<1>2. UsesAreSingle'
  BY DEF UsesAreSingle
<1>3. ClaimsAreSingle'
  BY DEF ClaimsAreSingle
<1> QED BY <1>1, <1>2, <1>3

\* A claimant that consumes pending rows keeps the hands exclusive and the uses single.
LEMMA TakesKeeps ==
  ASSUME IInv, TypeOK', NEW c \in Claimants, Takes(c)
  PROVE  HandsAreExclusive' /\ UsesAreSingle' /\ ClaimsAreSingle'
<1> USE DEF IInv, Takes, uses
<1>1. \A d \in Claimants : d # c => Hand(d)' = Hand(d)
  BY DEF Hand, TypeOK
<1>2. \A d \in Claimants : Hand(d) \subseteq Inputs /\ Hand(d)' \subseteq Inputs
  BY DEF Hand, TypeOK
<1>3. HandsAreExclusive'
  BY <1>1, <1>2 DEF HandsAreExclusive, UsesAreSingle
<1>4. UsesAreSingle'
  BY DEF UsesAreSingle
<1>5. ClaimsAreSingle'
  <2>1. pc'[c] # "claimRead" /\ \A d \in Claimants : d # c => pc'[d] = pc[d]
    BY DEF TypeOK
  <2>2. \A i \in submitting : i \in Inputs /\ status'[i] = "none"
    BY <1>2 DEF ClaimsAreSingle, TypeOK
  <2> QED BY <2>1, <2>2 DEF ClaimsAreSingle
<1> QED BY <1>3, <1>4, <1>5

\* A request hands nobody anything, but for a follow-up that is sent.
LEMMA RequestKeeps ==
  ASSUME IInv, NEW i \in Inputs, Request(i)
  PROVE  Idle \/ Takes(User)
<1> USE DEF IInv, TypeOK, ClaimsAreSingle, rows, session, uses, SetStatus, Hand
<1>1. CASE SubmitCheck(i)
  BY <1>1 DEF SubmitCheck, Idle
<1>2. CASE SubmitInsert(i)
  BY <1>2 DEF SubmitInsert, Idle
<1>3. CASE Promote(i) \/ Demote(i)
  BY <1>3 DEF Promote, Demote, Idle
<1>4. CASE Cancel(i)
  BY <1>4 DEF Cancel, AllPending, Pending, Idle
<1>5. CASE Send(i)
  BY <1>5 DEF Send, Pending, Takes, Claimants
<1> QED BY <1>1, <1>2, <1>3, <1>4, <1>5 DEF Request

\* An executor takes what was pending or hands nobody anything, when it applies nothing.
LEMMA ExecuteKeeps ==
  ASSUME IInv, TypeOK', NEW r \in Runs, Execute(r), ~ApplySteer(r)
  PROVE  Idle \/ Takes(r)
<1> USE DEF IInv, TypeOK, ClaimsAreSingle, rows, session, uses, Hand, Claimants, Step
<1>0. ASSUME NEW from, NEW to \in {"answering", "claim"}, DemoteBatch(r, from, to) PROVE Idle
  BY <1>0 DEF DemoteBatch, Idle
<1>1. CASE SteersRead(r) \/ FinalRead(r) \/ DemoteRead(r)
  BY <1>1 DEF SteersRead, FinalRead, DemoteRead, Idle
<1>2. CASE SteersTake(r)
  <2>1. CASE StillSteers(r) = batch[r]
    BY <1>2, <2>1 DEF SteersTake, SetStatus, StillSteers, Pending, Takes
  <2>2. CASE StillSteers(r) # batch[r]
    BY <1>2, <2>2 DEF SteersTake, SetStatus, StillSteers, Pending, Idle
  <2> QED BY <2>1, <2>2
<1>3. CASE FinalDemote(r) \/ Demoted(r)
  BY <1>0, <1>3 DEF FinalDemote, Demoted
<1>4. CASE Complete(r) \/ Fail(r) \/ Stop(r)
  BY <1>4 DEF Complete, Fail, Stop, Idle
<1> QED BY <1>1, <1>2, <1>3, <1>4 DEF Execute

\* The steer that is applied leaves the hand it was in.
LEMMA ApplyKeeps ==
  ASSUME IInv, TypeOK', NEW r \in Runs, ApplySteer(r)
  PROVE  HandsAreExclusive' /\ UsesAreSingle' /\ ClaimsAreSingle'
<1> USE DEF IInv
<1>1. PICK i \in batch[r] : /\ applied' = [applied EXCEPT ![i] = @ \cup {r}]
                            /\ batch' = [batch EXCEPT ![r] = @ \ {i}]
  BY DEF ApplySteer, Firsts
<1>2. /\ r \in Claimants /\ pc[r] = "applying" /\ i \in Hand(r) /\ i \in Inputs
      /\ \A c \in Claimants : pc'[c] = pc[c] \/ (c = r /\ pc'[c] = "loop")
      /\ UNCHANGED <<status, submitting, launched>>
  BY <1>1 DEF ApplySteer, TypeOK, Claimants, Hand, rows
<1>3. \A c \in Claimants : Hand(c)' \subseteq Hand(c) \ {i}
  BY <1>1, <1>2 DEF Hand, TypeOK, HandsAreExclusive
<1>4. \A j \in Inputs : j # i => applied'[j] = applied[j]
  BY <1>1 DEF TypeOK
<1>5. HandsAreExclusive'
  <2>1. \A c \in Claimants : Hand(c) \subseteq Inputs
    BY DEF Hand, TypeOK
  <2> QED BY <1>2, <1>3, <1>4, <2>1 DEF HandsAreExclusive
<1>6. UsesAreSingle'
  <2>1. status[i] = "consumed" /\ applied[i] = {} /\ launched[i] = 0
    BY <1>2 DEF HandsAreExclusive
  <2>2. applied'[i] = {r}
    BY <1>1, <1>2, <2>1 DEF TypeOK
  <2> QED BY <1>2, <1>4, <2>1, <2>2 DEF UsesAreSingle
<1>7. ClaimsAreSingle'
  BY <1>1, <1>2 DEF ClaimsAreSingle, TypeOK
<1> QED BY <1>5, <1>6, <1>7

\* A claim takes what was pending or hands nobody anything, when it launches nothing.
LEMMA ClaimKeeps ==
  ASSUME IInv, TypeOK', NEW c \in Claimants, Claim(c), ~Launch(c)
  PROVE  Idle \/ Takes(c)
<1> USE DEF IInv, TypeOK, ClaimsAreSingle, rows, session, uses, Hand
<1>1. CASE ClaimRead(c)
  BY <1>1 DEF ClaimRead, Idle
<1>2. CASE ClaimTake(c)
  <2>1. CASE StillPending(c) # {}
    BY <1>2, <2>1 DEF ClaimTake, SetStatus, StillPending, AllPending, Pending, Takes
  <2>2. CASE StillPending(c) = {}
    BY <1>2, <2>2 DEF ClaimTake, SetStatus, Idle
  <2> QED BY <2>1, <2>2
<1>3. CASE LaunchRefused(c)
  BY <1>3 DEF LaunchRefused, Idle
<1> QED BY <1>1, <1>2, <1>3 DEF Claim

\* What is launched leaves the hand it was in.
LEMMA LaunchKeeps ==
  ASSUME IInv, TypeOK', NEW c \in Claimants, Launch(c)
  PROVE  HandsAreExclusive' /\ UsesAreSingle' /\ ClaimsAreSingle'
<1> USE DEF IInv
<1>1. /\ Hand(c) = batch[c] /\ batch[c] \subseteq Inputs
      /\ launched' = [i \in Inputs |-> launched[i] + (IF i \in batch[c] THEN 1 ELSE 0)]
      /\ batch' = [batch EXCEPT ![c] = {}]
      /\ \A d \in Claimants : pc'[d] = pc[d] \/ pc'[d] \in {"over", "loop"}
      /\ UNCHANGED <<status, submitting, applied>>
  BY DEF Launch, Hand, TypeOK, rows
<1>2. \A d \in Claimants : Hand(d)' \subseteq Hand(d) \ batch[c]
  BY <1>1 DEF Hand, TypeOK, HandsAreExclusive
<1>3. HandsAreExclusive'
  <2>1. \A d \in Claimants : Hand(d) \subseteq Inputs
    BY DEF Hand, TypeOK
  <2> QED BY <1>1, <1>2, <2>1 DEF HandsAreExclusive, TypeOK
<1>4. UsesAreSingle'
  BY <1>1 DEF UsesAreSingle, HandsAreExclusive, TypeOK
<1>5. ClaimsAreSingle'
  BY <1>1 DEF ClaimsAreSingle, TypeOK
<1> QED BY <1>3, <1>4, <1>5

\* Every step uses nothing, takes what was pending, or uses what was in hand.
LEMMA StepEffect ==
  ASSUME IInv, TypeOK', [Next]_vars
  PROVE  \/ Idle \/ \E c \in Claimants : Takes(c) \/ Launch(c)
         \/ \E r \in Runs : ApplySteer(r)
<1> USE DEF IInv, TypeOK, ClaimsAreSingle, rows, session, uses, Hand
<1>1. CASE Resume
  BY <1>1 DEF Resume, Idle
<1>2. CASE Create
  BY <1>2 DEF Create, Idle
<1>3. CASE Crash
  BY <1>3 DEF Crash, Idle
<1>4. CASE UNCHANGED vars
  BY <1>4 DEF vars, Idle
<1>5. User \in Claimants /\ Runs \subseteq Claimants
  BY DEF Claimants
<1> HIDE DEF IInv, TypeOK, ClaimsAreSingle, Hand
<1> QED BY <1>1, <1>2, <1>3, <1>4, <1>5, RequestKeeps, ExecuteKeeps, ClaimKeeps DEF Next

-----------------------------------------------------------------------------
(* Invariance *)

\* Nothing has been submitted.
LEMMA InitIInv == Init => IInv
BY PendingBounds
   DEF PendingBounds, Init, IInv, TypeOK, HandsAreExclusive, UsesAreSingle, ClaimsAreSingle,
       Hand, Claimants, Statuses, Kinds, Points, Runs, User

\* Every step keeps the invariant.
LEMMA StepIInv == IInv /\ [Next]_vars => IInv'
<1> SUFFICES ASSUME IInv, [Next]_vars PROVE IInv' OBVIOUS
<1>1. TypeOK'
  BY StepType DEF IInv
<1>2. HandsAreExclusive' /\ UsesAreSingle' /\ ClaimsAreSingle'
  BY <1>1, StepEffect, IdleKeeps, TakesKeeps, LaunchKeeps, ApplyKeeps
<1> QED BY <1>1, <1>2 DEF IInv

\* The inductive invariant holds of every reachable state.
THEOREM Invariance == Spec => []IInv
<1> QED BY InitIInv, StepIInv, PTL DEF Spec

\* Every row, claim and counter has its type.
THEOREM TypeCorrect == Spec => []TypeOK
<1>1. IInv => TypeOK BY DEF IInv
<1> QED BY <1>1, Invariance, PTL

\* However requests, claims of steers and claims of follow-ups race, an input is
\* used once at most, and only after it was consumed.
THEOREM InputsAreUsedOnce == Spec => []UsedOnce
<1>1. IInv => UsedOnce
  <2> SUFFICES ASSUME IInv, NEW i \in Inputs
               PROVE  Cardinality(applied[i]) + launched[i]
                        <= (IF status[i] = "consumed" THEN 1 ELSE 0)
    BY DEF UsedOnce
  <2>1. CASE applied[i] = {}
    <3>1. Cardinality(applied[i]) = 0
      BY <2>1, FS_EmptySet
    <3> QED BY <2>1, <3>1 DEF IInv, UsesAreSingle
  <2>2. CASE applied[i] # {}
    <3>1. PICK r \in applied[i] : applied[i] = {r}
      BY <2>2 DEF IInv, UsesAreSingle
    <3>2. Cardinality(applied[i]) = 1
      BY <3>1, FS_Singleton
    <3> QED BY <2>2, <3>2 DEF IInv, UsesAreSingle
  <2> QED BY <2>1, <2>2
<1> QED BY <1>1, Invariance, PTL

\* What was cancelled is not executed, and what was executed is not offered again.
THEOREM SettledInputsStay == Spec => SettledStays
<1>1. IInv /\ [Next]_vars
        => [\A i \in Inputs :
              status[i] \in {"consumed", "cancelled"} => status'[i] = status[i]]_vars
  <2> SUFFICES ASSUME IInv, [Next]_vars, NEW i \in Inputs,
                      status[i] \in {"consumed", "cancelled"}
               PROVE  status'[i] = status[i]
    OBVIOUS
  <2>1. TypeOK'
    BY StepType DEF IInv
  <2>2. CASE Idle
    BY <2>2 DEF Idle
  <2>3. ASSUME NEW c \in Claimants, Takes(c) PROVE status'[i] = status[i]
    BY <2>3 DEF Takes
  <2>4. ASSUME NEW c \in Claimants, Launch(c) PROVE status'[i] = status[i]
    BY <2>4 DEF Launch, rows
  <2>5. ASSUME NEW r \in Runs, ApplySteer(r) PROVE status'[i] = status[i]
    BY <2>5 DEF ApplySteer, rows
  <2> QED BY <2>1, <2>2, <2>3, <2>4, <2>5, StepEffect
<1> QED BY <1>1, Invariance, PTL DEF Spec, SettledStays


-----------------------------------------------------------------------------
(* Runs in their order *)

Working == {"loop", "steersRead", "applying", "finalRead", "answering"}
Finishing == {"ended", "demoteRead", "claim", "claimRead", "launch"}

\* A run that has not begun is off, a run that completed works no more, the user only claims, and
\* what was not submitted is not a steer.
RunsInOrder ==
  /\ \A r \in Runs : r > last => pc[r] = "off" /\ ended[r] = "no"
  /\ active # 0 => active = last
  /\ \A r \in Runs : ended[r] = "completed" => pc[r] \notin Working
  /\ pc[User] \in {"over", "claim", "claimRead", "launch"}
  /\ last = 0 => pc[User] = "over"
  /\ \A i \in Inputs : status[i] = "none" => kind[i] = "follow_up"

\* The runs and the user are claimants, and none is both.
LEMMA ClaimantFacts ==
  /\ MaxRuns \in Nat /\ Runs \subseteq Claimants /\ User \in Claimants /\ User \notin Runs /\ User = 0
  /\ \A r \in Runs : r \in Nat /\ r # 0
  /\ \A c \in Claimants : c = User \/ c \in Runs
BY PendingBounds DEF PendingBounds, Claimants, Runs, User

\* No step breaks the order of the runs.
LEMMA StepOrder ==
  ASSUME TypeOK, RunsInOrder, [Next]_vars
  PROVE  RunsInOrder'
<1> USE ClaimantFacts DEF RunsInOrder, TypeOK, rows, session, uses, Working
<1>1. ASSUME NEW i \in Inputs, Request(i) PROVE RunsInOrder'
  <2>1. CASE SubmitCheck(i)
    BY <2>1 DEF SubmitCheck
  <2>2. CASE SubmitInsert(i)
    BY <2>2 DEF SubmitInsert, SetStatus
  <2>3. CASE Promote(i)
    BY <2>3 DEF Promote, SetKind, Pending
  <2>4. CASE Demote(i)
    BY <2>4 DEF Demote, SetKind, Pending
  <2>5. CASE Cancel(i)
    BY <2>5 DEF Cancel, SetStatus
  <2>6. CASE Send(i)
    BY <2>6 DEF Send, SetStatus
  <2> QED BY <1>1, <2>1, <2>2, <2>3, <2>4, <2>5, <2>6 DEF Request
<1>2. CASE Resume
  BY <1>2 DEF Resume
<1>3. ASSUME NewRun, last < MaxRuns, NEW c \in Claimants, UNCHANGED rows,
             pc' = [pc EXCEPT ![last + 1] = "loop"] \/ pc' = [pc EXCEPT ![c] = "over", ![last + 1] = "loop"],
             pc[c] # "off"
      PROVE  RunsInOrder'
  <2>1. last + 1 \in Runs /\ last + 1 \in Claimants /\ last + 1 # User /\ last \in Nat
    BY <1>3, NewRunType
  <2>2. \A r \in Runs : r > last + 1 => pc'[r] = "off" /\ ended'[r] = "no"
    BY <1>3, <2>1 DEF NewRun
  <2>3. \A r \in Runs : ended'[r] = "completed" => pc'[r] \notin Working
    <3>1. ended[last + 1] = "no"
      BY <2>1
    <3> QED BY <1>3, <2>1, <3>1 DEF NewRun
  <2>4. pc'[User] \in {"over", "claim", "claimRead", "launch"}
    BY <1>3, <2>1
  <2> QED BY <1>3, <2>1, <2>2, <2>3, <2>4 DEF NewRun
<1>4. CASE Create
  BY <1>3, <1>4 DEF Create
<1>5. CASE Crash
  BY <1>5 DEF Crash
<1>6. ASSUME NEW r \in Runs, Execute(r) PROVE RunsInOrder'
  <2>1. CASE SteersRead(r)
    BY <2>1 DEF SteersRead, Step
  <2>2. CASE SteersTake(r)
    BY <2>2 DEF SteersTake, SetStatus
  <2>3. CASE ApplySteer(r)
    BY <2>3 DEF ApplySteer
  <2>4. CASE FinalRead(r)
    BY <2>4 DEF FinalRead, Step
  <2>5. CASE FinalDemote(r) \/ Demoted(r)
    BY <2>5 DEF FinalDemote, Demoted, DemoteBatch, Step, SetKind
  <2>6. CASE Complete(r)
    BY <2>6 DEF Complete
  <2>7. CASE Fail(r)
    BY <2>7 DEF Fail
  <2>8. CASE Stop(r)
    BY <2>8 DEF Stop
  <2>9. CASE DemoteRead(r)
    BY <2>9 DEF DemoteRead, Step
  <2> QED BY <1>6, <2>1, <2>2, <2>3, <2>4, <2>5, <2>6, <2>7, <2>8, <2>9 DEF Execute
<1>7. ASSUME NEW c \in Claimants, Claim(c) PROVE RunsInOrder'
  <2>1. CASE ClaimRead(c)
    BY <2>1 DEF ClaimRead
  <2>2. CASE ClaimTake(c)
    BY <2>2 DEF ClaimTake, SetStatus
  <2>3. CASE Launch(c)
    BY <1>3, <2>3 DEF Launch
  <2>4. CASE LaunchRefused(c)
    BY <2>4 DEF LaunchRefused
  <2> QED BY <1>7, <2>1, <2>2, <2>3, <2>4 DEF Claim
<1>8. CASE UNCHANGED vars
  BY <1>8 DEF vars
<1> QED BY <1>1, <1>2, <1>4, <1>5, <1>6, <1>7, <1>8 DEF Next

-----------------------------------------------------------------------------
(* No steer is left behind *)

\* What a run demotes at its end is all that waits for one, and after that none does.
SteersDemoted ==
  /\ \A r \in Runs : pc[r] = "demoteRead" => Pending("steer") \subseteq batch[r]
  /\ IdleSessionHasNoSteer

\* When no request lands inside a transaction and the process lives, the steers of a run that
\* completed are demoted.
LEMMA StepDemotes ==
  ASSUME ~Overlaps, ~Crashes, TypeOK, ClaimsAreSingle, RunsInOrder, SteersDemoted, [Next]_vars
  PROVE  SteersDemoted'
<1> USE ClaimantFacts DEF RunsInOrder, TypeOK, rows, session, uses
<1>0. ASSUME Pending("steer")' \subseteq Pending("steer"), UNCHANGED session \/ active' # 0,
             \A r \in Runs : {pc[r], pc'[r]} \intersect {"ended", "demoteRead"} # {}
                               => pc'[r] = pc[r] /\ batch'[r] = batch[r]
      PROVE  SteersDemoted'
  <2>1. \A r \in Runs : pc'[r] = "demoteRead" => Pending("steer")' \subseteq batch'[r]
    BY <1>0 DEF SteersDemoted
  <2>2. ASSUME active' = 0, last' # 0, ended'[last'] = "completed", pc'[last'] \notin {"ended", "demoteRead"}
        PROVE  Pending("steer")' = {}
    <3>1. active = 0 /\ last # 0 /\ ended[last] = "completed" /\ last \in Runs /\ last' = last
      BY <1>0, <2>2
    <3>2. pc[last] \notin {"ended", "demoteRead"}
      BY <1>0, <2>2, <3>1
    <3> QED BY <1>0, <3>1, <3>2 DEF SteersDemoted, IdleSessionHasNoSteer
  <2> QED BY <2>1, <2>2 DEF SteersDemoted, IdleSessionHasNoSteer
<1>1. ASSUME NEW i \in Inputs, Request(i) PROVE SteersDemoted'
  <2>1. CASE SubmitCheck(i)
    BY <1>0, <2>1 DEF SubmitCheck, Pending
  <2>2. CASE SubmitInsert(i)
    <3>1. status[i] = "none"
      BY <2>2 DEF SubmitInsert, ClaimsAreSingle
    <3>2. Pending("steer")' \subseteq Pending("steer")
      BY <2>2, <3>1 DEF SubmitInsert, SetStatus, Pending
    <3> QED BY <1>0, <2>2, <3>2 DEF SubmitInsert
  <2>3. CASE Promote(i)
    <3>1. Quiet /\ active # 0 /\ UNCHANGED <<session, pc>>
      BY <2>3 DEF Promote, MayRequest
    <3>2. \A r \in Runs : pc'[r] # "demoteRead"
      BY <3>1 DEF Quiet, Midway
    <3> QED BY <3>1, <3>2 DEF SteersDemoted, IdleSessionHasNoSteer
  <2>4. CASE Demote(i)
    BY <1>0, <2>4 DEF Demote, SetKind, Pending
  <2>5. CASE Cancel(i)
    BY <1>0, <2>5 DEF Cancel, SetStatus, Pending
  <2>6. CASE Send(i)
    BY <1>0, <2>6 DEF Send, SetStatus, Pending
  <2> QED BY <1>1, <2>1, <2>2, <2>3, <2>4, <2>5, <2>6 DEF Request
<1>2. CASE Resume
  BY <1>0, <1>2 DEF Resume, Pending
<1>3. CASE Create
  <2>1. last + 1 \in Runs /\ last + 1 # 0 /\ pc[last + 1] = "off" /\ active' = last + 1
    BY <1>3, NewRunType DEF Create, NewRun
  <2>2. \A r \in Runs : pc'[r] = IF r = last + 1 THEN "loop" ELSE pc[r]
    BY <1>3 DEF Create
  <2> QED BY <1>0, <1>3, <2>1, <2>2 DEF Create, Pending
<1>4. ASSUME NEW r \in Runs, Execute(r) PROVE SteersDemoted'
  <2>1. CASE SteersRead(r)
    BY <1>0, <2>1 DEF SteersRead, Step, Pending
  <2>2. CASE SteersTake(r)
    BY <1>0, <2>2 DEF SteersTake, SetStatus, Pending
  <2>3. CASE ApplySteer(r)
    BY <1>0, <2>3 DEF ApplySteer, Pending
  <2>4. CASE FinalRead(r)
    BY <1>0, <2>4 DEF FinalRead, Step, Pending
  <2>5. CASE FinalDemote(r)
    BY <1>0, <2>5 DEF FinalDemote, DemoteBatch, Step, SetKind, Pending
  <2>6. CASE Demoted(r)
    <3>1. Pending("steer") \subseteq batch[r]
      BY <2>6 DEF Demoted, DemoteBatch, Step, SteersDemoted
    <3>2. Pending("steer")' = {}
      BY <2>6, <3>1 DEF Demoted, DemoteBatch, SetKind, StillSteers, Pending
    <3> QED BY <3>2 DEF SteersDemoted, IdleSessionHasNoSteer
  <2>7. CASE Complete(r)
    <3>1. last' = r /\ pc'[r] = "ended" /\ UNCHANGED <<rows, batch>> /\ \A q \in Runs : q # r => pc'[q] = pc[q]
      BY <2>7 DEF Complete
    <3>2. Pending("steer")' = Pending("steer")
      BY <3>1 DEF Pending
    <3> QED BY <3>1, <3>2 DEF SteersDemoted, IdleSessionHasNoSteer
  <2>8. CASE Fail(r)
    <3>1. last' = r /\ ended'[r] = "failed" /\ UNCHANGED <<rows, batch, pc>>
      BY <2>8 DEF Fail
    <3>2. Pending("steer")' = Pending("steer")
      BY <3>1 DEF Pending
    <3> QED BY <3>1, <3>2 DEF SteersDemoted, IdleSessionHasNoSteer
  <2>9. CASE Stop(r)
    BY <1>0, <2>9 DEF Stop, Pending
  <2>10. CASE DemoteRead(r)
    <3>1. /\ pc[r] = "ended" /\ pc'[r] = "demoteRead" /\ batch'[r] = Pending("steer") /\ UNCHANGED <<rows, session>>
          /\ \A q \in Runs : q # r => pc'[q] = pc[q] /\ batch'[q] = batch[q]
      BY <2>10 DEF DemoteRead, Step
    <3>2. Pending("steer")' = Pending("steer")
      BY <3>1 DEF Pending
    <3>3. \A q \in Runs : pc'[q] = "demoteRead" => Pending("steer")' \subseteq batch'[q]
      BY <3>1, <3>2 DEF SteersDemoted
    <3>4. last # 0 /\ pc'[last] \notin {"ended", "demoteRead"} => pc[last] \notin {"ended", "demoteRead"}
      BY <3>1
    <3> QED BY <3>1, <3>2, <3>3, <3>4 DEF SteersDemoted, IdleSessionHasNoSteer
  <2> QED BY <1>4, <2>1, <2>2, <2>3, <2>4, <2>5, <2>6, <2>7, <2>8, <2>9, <2>10 DEF Execute
<1>5. ASSUME NEW c \in Claimants, Claim(c) PROVE SteersDemoted'
  <2>1. CASE ClaimRead(c)
    BY <1>0, <2>1 DEF ClaimRead, Pending
  <2>2. CASE ClaimTake(c)
    BY <1>0, <2>2 DEF ClaimTake, SetStatus, Pending
  <2>3. CASE Launch(c)
    <3>1. last + 1 \in Runs /\ last + 1 # 0 /\ pc[last + 1] = "off" /\ active' = last + 1
      BY <2>3, NewRunType DEF Launch, NewRun
    <3>2. \A r \in Runs : /\ pc'[r] = IF r = last + 1 THEN "loop" ELSE IF r = c THEN "over" ELSE pc[r]
                          /\ r # c => batch'[r] = batch[r]
      BY <2>3 DEF Launch
    <3> QED BY <1>0, <2>3, <3>1, <3>2 DEF Launch, Pending
  <2>4. CASE LaunchRefused(c)
    BY <1>0, <2>4 DEF LaunchRefused, Pending
  <2> QED BY <1>5, <2>1, <2>2, <2>3, <2>4 DEF Claim
<1>6. CASE UNCHANGED vars
  BY <1>0, <1>6 DEF vars, Pending
<1> QED BY <1>1, <1>2, <1>3, <1>4, <1>5, <1>6 DEF Next, Crash

\* A session whose last run completed keeps no steer waiting, when no request lands inside a
\* transaction or after the run and the process lives: demotePendingSteersAtTerminal() has made it a
\* follow-up, whatever runs fail or begin meanwhile.
THEOREM NoSteerIsLeftBehind ==
  ASSUME ~Overlaps, ~Crashes
  PROVE  Spec => []IdleSessionHasNoSteer
<1>1. Init => RunsInOrder /\ SteersDemoted
  BY ClaimantFacts DEF Init, RunsInOrder, SteersDemoted, IdleSessionHasNoSteer, Pending
<1>2. IInv /\ RunsInOrder /\ SteersDemoted /\ [Next]_vars => (RunsInOrder /\ SteersDemoted)'
  BY StepOrder, StepDemotes DEF IInv
<1>3. RunsInOrder /\ SteersDemoted => IdleSessionHasNoSteer
  BY DEF SteersDemoted
<1> QED BY <1>1, <1>2, <1>3, Invariance, PTL DEF Spec

-----------------------------------------------------------------------------
(* The calm session *)

\* One run or claim is under way at a time, a run works while it is active and ends when it is not,
\* no request is half way when a run has ended, and rows that were read are as they were read.
OneAtWork ==
  /\ \A c, d \in Claimants : pc[c] \notin {"off", "over"} /\ pc[d] \notin {"off", "over"} => c = d
  /\ \A c \in Claimants : pc[c] \in Working => active = c
  /\ \A c \in Claimants : pc[c] \in Finishing => active = 0
  /\ submitting # {} => active # 0
  /\ \A c \in Claimants : pc[c] = "steersRead" => batch[c] \subseteq Pending("steer")
  /\ \A c \in Claimants : pc[c] = "claimRead" => batch[c] \subseteq NextFollowUps

\* A consumed input is in a hand or was used.
ConsumedAreKept ==
  \A i \in Inputs : status[i] = "consumed" =>
    (\E c \in Claimants : i \in Hand(c)) \/ applied[i] # {} \/ launched[i] > 0

\* Whoever is at work is the only one, and every place is that of a worker, of a finisher or idle.
LEMMA OthersRest ==
  ASSUME TypeOK, OneAtWork, NEW c \in Claimants, pc[c] \notin {"off", "over"}
  PROVE  \A d \in Claimants : d # c => pc[d] \in {"off", "over"}
BY DEF OneAtWork

\* The calm session: nothing but a request that waits for its turn comes between two steps of a run.
LEMMA StepOneAtWork ==
  ASSUME ~Overlaps, ~Creates, ~Fails, ~Crashes, IInv, RunsInOrder, OneAtWork, [Next]_vars
  PROVE  OneAtWork'
<1> USE ClaimantFacts
<1>0. ASSUME NEW c \in Claimants, \A d \in Claimants : d # c => pc'[d] \in {"off", "over"},
             pc'[c] \in Working => active' = c, pc'[c] \in Finishing => active' = 0,
             submitting' # {} => active' # 0,
             pc'[c] = "steersRead" => batch'[c] \subseteq Pending("steer")',
             pc'[c] = "claimRead" => batch'[c] \subseteq NextFollowUps'
      PROVE  OneAtWork'
  BY <1>0 DEF OneAtWork, Working, Finishing
<1>1. TypeOK /\ TypeOK'
  BY StepType DEF IInv
<1>2. ASSUME NEW c \in Claimants, pc[c] \notin {"off", "over"},
             \A d \in Claimants : d # c => pc'[d] = pc[d]
      PROVE  \A d \in Claimants : d # c => pc'[d] \in {"off", "over"}
  BY <1>1, <1>2, OthersRest
<1>3. \A c \in Claimants : pc[c] \in {"off", "over"} \union Working \union Finishing
  BY <1>1 DEF TypeOK, Points, Working, Finishing
<1>4. ASSUME Quiet PROVE \A c \in Claimants : pc[c] \in {"off", "over", "loop"}
  BY <1>3, <1>4 DEF Quiet, Midway, Working, Finishing
<1>5. ASSUME Quiet, active = 0 PROVE \A c \in Claimants : pc[c] \in {"off", "over"}
  <2>1. ASSUME NEW c \in Claimants, pc[c] = "loop" PROVE FALSE
    <3>1. c = 0
      BY <1>5, <2>1 DEF OneAtWork, Working
    <3> QED BY <2>1, <3>1 DEF RunsInOrder
  <2> QED BY <1>4, <1>5, <2>1
<1>6. ASSUME NEW i \in Inputs, Request(i) PROVE OneAtWork'
  <2>1. CASE Send(i)
    <3>1. Quiet /\ active = 0 /\ active' = 0 /\ UNCHANGED submitting
      BY <2>1 DEF Send, MayRequest, session
    <3>2. pc' = [pc EXCEPT ![User] = "launch"]
      BY <2>1 DEF Send
    <3>3. pc'[User] = "launch" /\ \A d \in Claimants : d # User => pc'[d] \in {"off", "over"}
      BY <1>1, <1>5, <3>1, <3>2 DEF TypeOK
    <3> QED BY <1>0, <3>1, <3>3 DEF OneAtWork, Working
  <2>2. CASE SubmitInsert(i)
    <3>1. active # 0 /\ UNCHANGED <<pc, batch, active, kind>> /\ submitting' \subseteq submitting
          /\ status' = [j \in Inputs |-> IF j \in {i} THEN "pending" ELSE status[j]]
      BY <2>2 DEF SubmitInsert, session, SetStatus, OneAtWork
    <3>2. \A c \in Claimants : pc[c] # "claimRead"
      BY <3>1 DEF OneAtWork, Finishing
    <3>3. Pending("steer") \subseteq Pending("steer")'
      BY <3>1 DEF Pending
    <3> QED BY <3>1, <3>2, <3>3 DEF OneAtWork
  <2>3. CASE SubmitCheck(i) \/ Promote(i) \/ Demote(i) \/ Cancel(i)
    <3>1. Quiet /\ UNCHANGED <<pc, active>> /\ (submitting' # {} => active # 0)
      BY <2>3 DEF SubmitCheck, Promote, Demote, Cancel, MayRequest, session, OneAtWork
    <3>2. \A c \in Claimants : pc'[c] \notin {"steersRead", "claimRead"}
      BY <1>4, <3>1
    <3> QED BY <3>1, <3>2 DEF OneAtWork
  <2> QED BY <1>6, <2>1, <2>2, <2>3 DEF Request
<1>7. CASE Resume
  <2>1. Quiet /\ active = 0 /\ active' = 0 /\ UNCHANGED submitting /\ pc' = [pc EXCEPT ![User] = "claim"]
    BY <1>7 DEF Resume, MayRequest, session
  <2>2. pc'[User] = "claim" /\ \A d \in Claimants : d # User => pc'[d] \in {"off", "over"}
    BY <1>1, <1>5, <2>1 DEF TypeOK
  <2> QED BY <1>0, <2>1, <2>2 DEF OneAtWork, Working
<1>8. CASE Create
  <2>1. /\ last = 0 /\ active' = last + 1 /\ pc' = [pc EXCEPT ![last + 1] = "loop"] /\ last + 1 \in Claimants
        /\ submitting' = {}
    BY <1>1, <1>8, NewRunType DEF Create, NewRun
  <2>2. \A d \in Claimants : pc[d] \in {"off", "over"}
    BY <2>1 DEF RunsInOrder
  <2>3. pc'[last + 1] = "loop" /\ \A d \in Claimants : d # last + 1 => pc'[d] \in {"off", "over"}
    BY <1>1, <2>1, <2>2 DEF TypeOK
  <2> QED BY <1>0, <2>1, <2>3 DEF Finishing
<1>9. ASSUME NEW r \in Runs, Execute(r) PROVE OneAtWork'
  <2>0. r \in Claimants /\ (pc[r] \in Working => active = r) /\ (pc[r] \in Finishing => active = 0)
    BY DEF OneAtWork
  <2> USE <2>0 DEF Working, Finishing
  <2>1. ASSUME NEW p, pc[r] \notin {"off", "over"}, pc' = [pc EXCEPT ![r] = p]
        PROVE  pc'[r] = p /\ \A d \in Claimants : d # r => pc'[d] \in {"off", "over"}
    <3>1. pc'[r] = p /\ \A d \in Claimants : d # r => pc'[d] = pc[d]
      BY <1>1, <2>1 DEF TypeOK
    <3> QED BY <1>2, <2>1, <3>1
  <2>2. CASE SteersRead(r)
    <3>1. /\ pc[r] = "loop" /\ pc' = [pc EXCEPT ![r] = "steersRead"] /\ UNCHANGED <<active, submitting, rows>>
          /\ batch'[r] = Pending("steer")
      BY <1>1, <2>2 DEF SteersRead, Step, session, TypeOK
    <3>2. Pending("steer")' = Pending("steer")
      BY <3>1 DEF rows, Pending
    <3> QED BY <1>0, <2>1, <3>1, <3>2 DEF OneAtWork
  <2>3. CASE SteersTake(r)
    <3>1. /\ pc[r] = "steersRead" /\ UNCHANGED <<active, submitting>>
          /\ pc' = [pc EXCEPT ![r] = "applying"] \/ pc' = [pc EXCEPT ![r] = "loop"]
      BY <2>3 DEF SteersTake, session
    <3> QED BY <1>0, <2>1, <3>1 DEF OneAtWork
  <2>4. CASE ApplySteer(r)
    <3>1. /\ pc[r] = "applying" /\ UNCHANGED <<active, submitting>>
          /\ pc' = [pc EXCEPT ![r] = "loop"] \/ pc' = [pc EXCEPT ![r] = "applying"]
      BY <1>1, <2>4, ZenonT(40) DEF ApplySteer, session, TypeOK
    <3> QED BY <1>0, <2>1, <3>1 DEF OneAtWork
  <2>5. CASE FinalRead(r)
    <3>1. pc[r] = "loop" /\ pc' = [pc EXCEPT ![r] = "finalRead"] /\ UNCHANGED <<active, submitting>>
      BY <2>5 DEF FinalRead, Step, session
    <3> QED BY <1>0, <2>1, <3>1 DEF OneAtWork
  <2>6. CASE FinalDemote(r)
    <3>1. pc[r] = "finalRead" /\ pc' = [pc EXCEPT ![r] = "answering"] /\ UNCHANGED <<active, submitting>>
      BY <2>6 DEF FinalDemote, DemoteBatch, Step, session
    <3> QED BY <1>0, <2>1, <3>1 DEF OneAtWork
  <2>7. CASE Complete(r)
    <3>1. pc[r] \in Working /\ pc' = [pc EXCEPT ![r] = "ended"] /\ active' = 0 /\ submitting' = {}
      BY <2>7 DEF Complete
    <3> QED BY <1>0, <2>1, <3>1
  <2>8. CASE DemoteRead(r)
    <3>1. pc[r] = "ended" /\ pc' = [pc EXCEPT ![r] = "demoteRead"] /\ UNCHANGED <<active, submitting>>
      BY <2>8 DEF DemoteRead, Step, session
    <3> QED BY <1>0, <2>1, <3>1 DEF OneAtWork
  <2>9. CASE Demoted(r)
    <3>1. pc[r] = "demoteRead" /\ pc' = [pc EXCEPT ![r] = "claim"] /\ UNCHANGED <<active, submitting>>
      BY <2>9 DEF Demoted, DemoteBatch, Step, session
    <3> QED BY <1>0, <2>1, <3>1 DEF OneAtWork
  <2>10. ~Fail(r) /\ ~Stop(r)
    BY DEF Fail, Stop
  <2> QED BY <1>9, <2>2, <2>3, <2>4, <2>5, <2>6, <2>7, <2>8, <2>9, <2>10 DEF Execute
<1>10. ASSUME NEW c \in Claimants, Claim(c) PROVE OneAtWork'
  <2>0. pc[c] \in Finishing => active = 0
    BY DEF OneAtWork
  <2> USE <2>0 DEF Working, Finishing
  <2>1. ASSUME NEW p, pc[c] \notin {"off", "over"}, pc' = [pc EXCEPT ![c] = p]
        PROVE  pc'[c] = p /\ \A d \in Claimants : d # c => pc'[d] \in {"off", "over"}
    <3>1. pc'[c] = p /\ \A d \in Claimants : d # c => pc'[d] = pc[d]
      BY <1>1, <2>1 DEF TypeOK
    <3> QED BY <1>2, <2>1, <3>1
  <2>2. CASE ClaimRead(c)
    <3>1. pc[c] = "claim" /\ UNCHANGED <<active, submitting, rows>>
      BY <2>2 DEF ClaimRead, session
    <3>2. CASE pc' = [pc EXCEPT ![c] = "over"]
      BY <1>0, <2>1, <3>1, <3>2 DEF OneAtWork
    <3>3. CASE pc' = [pc EXCEPT ![c] = "claimRead"] /\ \E i \in NextFollowUps : batch' = [batch EXCEPT ![c] = {i}]
      <4>1. batch'[c] \subseteq NextFollowUps
        BY <1>1, <3>3 DEF TypeOK
      <4>2. NextFollowUps' = NextFollowUps
        BY <3>1 DEF rows, NextFollowUps, Firsts, Pending
      <4> QED BY <1>0, <2>1, <3>1, <3>3, <4>1, <4>2 DEF OneAtWork
    <3> QED BY <2>2, <3>2, <3>3 DEF ClaimRead
  <2>3. CASE ClaimTake(c)
    <3>1. /\ pc[c] = "claimRead" /\ UNCHANGED <<active, submitting>>
          /\ pc' = [pc EXCEPT ![c] = "launch"] \/ pc' = [pc EXCEPT ![c] = "over"]
      BY <2>3 DEF ClaimTake, session
    <3> QED BY <1>0, <2>1, <3>1 DEF OneAtWork
  <2>4. CASE Launch(c)
    <3>1. /\ pc[c] = "launch" /\ active = 0 /\ active' = last + 1 /\ UNCHANGED submitting
          /\ pc' = [pc EXCEPT ![c] = "over", ![last + 1] = "loop"] /\ last + 1 \in Claimants
      BY <1>1, <2>4, NewRunType DEF Launch, NewRun
    <3>2. pc'[last + 1] = "loop" /\ \A d \in Claimants : d # last + 1 => pc'[d] \in {"off", "over"}
      <4>1. \A d \in Claimants : d # c => pc[d] \in {"off", "over"}
        BY <1>1, <3>1, OthersRest
      <4> QED BY <1>1, <3>1, <4>1 DEF TypeOK
    <3> QED BY <1>0, <3>1, <3>2 DEF OneAtWork
  <2>5. ~LaunchRefused(c)
    BY DEF LaunchRefused
  <2> QED BY <1>10, <2>2, <2>3, <2>4, <2>5 DEF Claim
<1>11. CASE UNCHANGED vars
  <2>1. UNCHANGED <<pc, batch, active, submitting>>
    BY <1>11 DEF vars, session
  <2>2. Pending("steer")' = Pending("steer") /\ NextFollowUps' = NextFollowUps
    BY <1>11 DEF vars, rows, NextFollowUps, Firsts, Pending
  <2> QED BY <2>1, <2>2 DEF OneAtWork
<1> QED BY <1>6, <1>7, <1>8, <1>9, <1>10, <1>11 DEF Next, Crash

\* In the calm session no consumed input falls from a hand.
LEMMA StepKeepsConsumed ==
  ASSUME ~Overlaps, ~Creates, ~Fails, ~Crashes, IInv, RunsInOrder, OneAtWork, ConsumedAreKept, [Next]_vars
  PROVE  ConsumedAreKept'
<1> USE ClaimantFacts
<1>0. ASSUME \A i \in Inputs : status'[i] = "consumed" => status[i] = "consumed" \/ \E c \in Claimants : i \in Hand(c)',
             \A i \in Inputs : applied[i] # {} => applied'[i] # {},
             \A i \in Inputs : launched[i] > 0 => launched'[i] > 0,
             \A c \in Claimants : \A i \in Hand(c) : i \in Hand(c)' \/ applied'[i] # {} \/ launched'[i] > 0
      PROVE  ConsumedAreKept'
  BY <1>0 DEF ConsumedAreKept
<1>1. TypeOK /\ TypeOK'
  BY StepType DEF IInv
<1>2. ASSUME \A i \in Inputs : status'[i] = "consumed" => status[i] = "consumed", UNCHANGED uses,
             \A c \in Claimants : pc[c] \in {"applying", "launch"} => pc'[c] = pc[c] /\ batch'[c] = batch[c]
      PROVE  ConsumedAreKept'
  <2>1. UNCHANGED <<applied, launched>>
    BY <1>2 DEF uses
  <2>2. \A c \in Claimants : Hand(c) \subseteq Hand(c)'
    BY <1>2 DEF Hand
  <2> QED BY <1>0, <1>2, <2>1, <2>2
<1>3. ASSUME NEW i \in Inputs, Request(i) PROVE ConsumedAreKept'
  <2>1. CASE Send(i)
    <3>1. /\ pc[User] = "over" /\ pc'[User] = "launch" /\ batch'[User] = {i} /\ UNCHANGED uses
          /\ \A c \in Claimants : c # User => pc'[c] = pc[c] /\ batch'[c] = batch[c]
          /\ \A j \in Inputs : j # i => status'[j] = status[j]
      BY <1>1, <2>1 DEF Send, SetStatus, TypeOK
    <3>2. i \in Hand(User)' /\ \A c \in Claimants : Hand(c) \subseteq Hand(c)'
      BY <3>1 DEF Hand
    <3>3. UNCHANGED <<applied, launched>>
      BY <3>1 DEF uses
    <3> QED BY <1>0, <3>1, <3>2, <3>3
  <2>2. CASE SubmitCheck(i) \/ Promote(i) \/ Demote(i)
    BY <1>2, <2>2 DEF SubmitCheck, Promote, Demote, rows
  <2>3. CASE SubmitInsert(i) \/ Cancel(i)
    BY <1>2, <2>3 DEF SubmitInsert, Cancel, SetStatus
  <2> QED BY <1>3, <2>1, <2>2, <2>3 DEF Request
<1>4. CASE Resume
  BY <1>1, <1>2, <1>4 DEF Resume, rows, TypeOK
<1>5. CASE Create
  <2>1. last + 1 \in Runs /\ pc[last + 1] = "off"
    BY <1>1, <1>5, NewRunType DEF Create, RunsInOrder, TypeOK
  <2> QED BY <1>1, <1>2, <1>5, <2>1 DEF Create, rows, TypeOK
<1>6. ASSUME NEW r \in Runs, Execute(r) PROVE ConsumedAreKept'
  <2>0. r \in Claimants /\ (pc[r] \in Working => active = r)
    BY DEF OneAtWork
  <2>1. CASE SteersRead(r) \/ FinalRead(r) \/ DemoteRead(r)
    BY <1>1, <1>2, <2>1 DEF SteersRead, FinalRead, DemoteRead, Step, rows, TypeOK
  <2>2. CASE SteersTake(r)
    <3>1. pc[r] = "steersRead" /\ batch[r] \subseteq Pending("steer")
      BY <2>0, <2>2 DEF SteersTake, OneAtWork
    <3>2. StillSteers(r) = batch[r]
      BY <3>1 DEF StillSteers
    <3>3. /\ pc' = [pc EXCEPT ![r] = "applying"] /\ batch' = batch /\ UNCHANGED uses
          /\ status' = [i \in Inputs |-> IF i \in batch[r] THEN "consumed" ELSE status[i]]
      BY <2>2, <3>2 DEF SteersTake, SetStatus
    <3>4. Hand(r)' = batch[r] /\ \A c \in Claimants : Hand(c) \subseteq Hand(c)'
      BY <1>1, <2>0, <3>1, <3>3 DEF Hand, TypeOK
    <3>5. UNCHANGED <<applied, launched>>
      BY <3>3 DEF uses
    <3> QED BY <1>0, <2>0, <3>3, <3>4, <3>5
  <2>3. CASE ApplySteer(r)
    <3>1. PICK i \in batch[r] : /\ applied' = [applied EXCEPT ![i] = @ \cup {r}]
                                /\ batch' = [batch EXCEPT ![r] = @ \ {i}]
      BY <2>3 DEF ApplySteer, Firsts
    <3>2. i \in Inputs /\ UNCHANGED <<status, launched>> /\ pc[r] = "applying"
      BY <1>1, <2>0, <2>3 DEF ApplySteer, rows, TypeOK
    <3>3. /\ \A j \in Inputs : applied[j] \subseteq applied'[j]
          /\ applied'[i] # {}
      BY <1>1, <3>1, <3>2 DEF TypeOK
    <3>4. \A c \in Claimants : c # r => pc'[c] = pc[c] /\ batch'[c] = batch[c]
      BY <1>1, <2>3, <3>1 DEF ApplySteer, TypeOK
    <3>5. ASSUME NEW j \in Hand(r), j # i PROVE j \in Hand(r)'
      <4>1. j \in batch'[r]
        BY <1>1, <2>0, <3>1, <3>2, <3>5 DEF Hand, TypeOK
      <4>2. pc'[r] = "applying"
        BY <2>3, <3>2, <4>1 DEF ApplySteer
      <4> QED BY <4>1, <4>2 DEF Hand
    <3>6. \A c \in Claimants : \A j \in Hand(c) : j \in Hand(c)' \/ applied'[j] # {}
      BY <3>3, <3>4, <3>5 DEF Hand
    <3> QED BY <1>0, <3>2, <3>3, <3>6
  <2>4. CASE FinalDemote(r) \/ Demoted(r)
    BY <1>1, <1>2, <2>4 DEF FinalDemote, Demoted, DemoteBatch, Step, TypeOK
  <2>5. CASE Complete(r)
    BY <1>1, <1>2, <2>5 DEF Complete, rows, TypeOK
  <2>6. ~Fail(r) /\ ~Stop(r)
    BY <2>0 DEF Fail, Stop, Working
  <2> QED BY <1>6, <2>1, <2>2, <2>3, <2>4, <2>5, <2>6 DEF Execute
<1>7. ASSUME NEW c \in Claimants, Claim(c) PROVE ConsumedAreKept'
  <2>1. CASE ClaimRead(c)
    BY <1>1, <1>2, <2>1 DEF ClaimRead, rows, TypeOK
  <2>2. CASE ClaimTake(c)
    <3>1. pc[c] = "claimRead" /\ UNCHANGED uses
          /\ status' = [i \in Inputs |-> IF i \in StillPending(c) THEN "consumed" ELSE status[i]]
      BY <2>2 DEF ClaimTake, SetStatus
    <3>2. CASE StillPending(c) = {}
      BY <1>1, <1>2, <2>2, <3>1, <3>2 DEF ClaimTake, TypeOK
    <3>3. CASE StillPending(c) # {}
      <4>1. pc' = [pc EXCEPT ![c] = "launch"] /\ batch' = batch
        BY <2>2, <3>3 DEF ClaimTake
      <4>2. Hand(c)' = batch[c] /\ \A d \in Claimants : Hand(d) \subseteq Hand(d)'
        BY <1>1, <3>1, <4>1 DEF Hand, TypeOK
      <4>3. UNCHANGED <<applied, launched>> /\ StillPending(c) \subseteq batch[c]
        BY <3>1 DEF uses, StillPending
      <4> QED BY <1>0, <3>1, <4>2, <4>3
    <3> QED BY <3>2, <3>3
  <2>3. CASE Launch(c)
    <3>1. /\ pc[c] = "launch" /\ UNCHANGED <<status, applied>> /\ last + 1 \in Runs /\ pc[last + 1] = "off"
          /\ launched' = [i \in Inputs |-> launched[i] + (IF i \in batch[c] THEN 1 ELSE 0)]
          /\ batch' = [batch EXCEPT ![c] = {}] /\ pc' = [pc EXCEPT ![c] = "over", ![last + 1] = "loop"]
      BY <1>1, <2>3, NewRunType DEF Launch, rows, RunsInOrder, TypeOK
    <3>2. ASSUME NEW i \in Inputs
          PROVE  launched'[i] >= launched[i] /\ {launched[i], launched'[i]} \subseteq Nat /\ (i \in batch[c] => launched'[i] > 0)
      BY <1>1, <3>1 DEF TypeOK
    <3>3. \A d \in Claimants : d # c => Hand(d) \subseteq Hand(d)'
      BY <1>1, <3>1 DEF Hand, TypeOK
    <3>4. Hand(c) = batch[c] /\ batch[c] \subseteq Inputs
      BY <1>1, <3>1 DEF Hand, TypeOK
    <3>5. \A i \in Inputs : launched[i] > 0 => launched'[i] > 0
      BY <3>2
    <3> QED BY <1>0, <3>1, <3>2, <3>3, <3>4, <3>5
  <2>4. ~LaunchRefused(c)
    BY DEF LaunchRefused, OneAtWork, Finishing
  <2> QED BY <1>7, <2>1, <2>2, <2>3, <2>4 DEF Claim
<1>8. CASE UNCHANGED vars
  BY <1>2, <1>8 DEF vars, rows
<1> QED BY <1>3, <1>4, <1>5, <1>6, <1>7, <1>8 DEF Next, Crash

\* The calm session is one in every reachable state.
LEMMA CalmInvariance ==
  ASSUME ~Overlaps, ~Creates, ~Fails, ~Crashes
  PROVE  Spec => [](IInv /\ RunsInOrder /\ OneAtWork /\ ConsumedAreKept)
<1> DEFINE I == IInv /\ RunsInOrder /\ OneAtWork /\ ConsumedAreKept
<1>1. Init => I
  <2>1. Init => IInv
    BY InitIInv
  <2>2. Init => RunsInOrder /\ OneAtWork /\ ConsumedAreKept
    BY ClaimantFacts DEF Init, RunsInOrder, OneAtWork, ConsumedAreKept, Working, Finishing
  <2> QED BY <2>1, <2>2
<1>2. I /\ [Next]_vars => I'
  <2>1. IInv /\ [Next]_vars => IInv'
    BY StepIInv
  <2>2. I /\ [Next]_vars => RunsInOrder'
    BY StepOrder DEF IInv
  <2>3. I /\ [Next]_vars => OneAtWork' /\ ConsumedAreKept'
    BY StepOneAtWork, StepKeepsConsumed
  <2> QED BY <2>1, <2>2, <2>3
<1> QED BY <1>1, <1>2, PTL DEF Spec

\* When nothing fails and no other run comes between, what claimSteers() and claimFollowUp() consumed
\* has been applied or launched, or is in the hand of whoever is about to.
THEOREM ConsumedInputsAreUsed ==
  ASSUME ~Overlaps, ~Creates, ~Fails, ~Crashes
  PROVE  Spec => []NothingConsumedIsLost
<1>1. ConsumedAreKept => NothingConsumedIsLost
  BY DEF ConsumedAreKept, NothingConsumedIsLost, InNoHand, Hand
<1> QED BY <1>1, CalmInvariance, PTL

\* In the calm session a follow-up is taken from the front of the queue: no request and no other
\* claim comes between the read of claimFollowUp() and its update.
THEOREM QueueIsTakenFromTheFront ==
  ASSUME ~Overlaps, ~Creates, ~Fails, ~Crashes
  PROVE  Spec => FifoDispatch
<1>1. OneAtWork => [\A c \in Claimants : ClaimTake(c) =>
        \A i \in batch[c], j \in Pending("follow_up") :
          i \in StillPending(c) => seq[i] <= seq[j]]_vars
  BY DEF OneAtWork, ClaimTake, NextFollowUps, Firsts
<1> QED BY <1>1, CalmInvariance, PTL DEF Spec, FifoDispatch

==============================================================================
