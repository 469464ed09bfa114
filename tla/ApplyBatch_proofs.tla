------------------------- MODULE ApplyBatch_proofs --------------------------
(***************************************************************************)
(* Proofs about ApplyBatch, for any finite table, any order of commands    *)
(* and any number of interruptions.                                        *)
(***************************************************************************)
EXTENDS ApplyBatch, FiniteSetTheorems, TLAPS

-----------------------------------------------------------------------------
(* Ranks: counting the elements of a finite set of naturals in order.      *)

LEMMA RankBounds ==
  ASSUME NEW n \in Nat, NEW u \in Nat, NEW P \in SUBSET ((n + 1)..u)
  PROVE  /\ IsFiniteSet(P) /\ Cardinality(P) \in Nat
         /\ \A k \in P : /\ Rank(P, k) \in 1..Cardinality(P)
                         /\ Rank(P, k) <= k - n
<1>1. IsFiniteSet(P) /\ Cardinality(P) \in Nat
  <2>1. n + 1 \in Int /\ u \in Int
    OBVIOUS
  <2>2. IsFiniteSet((n + 1)..u)
    BY <2>1, FS_Interval
  <2>3. IsFiniteSet(P)
    BY <2>2, FS_Subset
  <2>4. QED
    BY <2>3, FS_CardinalityType
<1>2. ASSUME NEW k \in P
      PROVE  Rank(P, k) \in 1..Cardinality(P) /\ Rank(P, k) <= k - n
  <2> DEFINE L == {l \in P : l <= k}
  <2>0. \A l \in P : l \in Nat /\ n + 1 <= l
    OBVIOUS
  <2>1. /\ k \in Nat /\ n + 1 <= k
        /\ k \in L /\ L \subseteq P /\ L \subseteq (n + 1)..k
    <3>1. k \in Nat /\ n + 1 <= k
      BY <2>0
    <3>2. k \in L
      BY <3>1
    <3>3. L \subseteq P
      OBVIOUS
    <3>4. L \subseteq (n + 1)..k
      <4>1. SUFFICES ASSUME NEW l \in P, l <= k PROVE l \in (n + 1)..k
        OBVIOUS
      <4>2. QED
        BY <2>0, <3>1, <4>1
    <3>5. QED
      BY <3>1, <3>2, <3>3, <3>4
  <2>2. IsFiniteSet(L) /\ Cardinality(L) \in Nat /\ Cardinality(L) <= Cardinality(P)
    BY <1>1, <2>1, FS_Subset, FS_CardinalityType
  <2>3. Cardinality(L) # 0
    BY <2>1, <2>2, FS_EmptySet
  <2>4. Cardinality(L) <= k - n
    <3>1. IsFiniteSet((n + 1)..k) /\ Cardinality((n + 1)..k) = k - n
      <4>1. n + 1 \in Int /\ k \in Int /\ n + 1 <= k
        BY <2>1
      <4>2. QED
        BY <4>1, FS_Interval
    <3>2. QED
      BY <2>1, <3>1, FS_Subset
  <2>5. QED
    BY <1>1, <2>2, <2>3, <2>4 DEF Rank
<1>3. QED
  BY <1>1, <1>2

LEMMA RankInjective ==
  ASSUME NEW n \in Nat, NEW u \in Nat, NEW P \in SUBSET ((n + 1)..u)
  PROVE  \A k, l \in P : Rank(P, k) = Rank(P, l) => k = l
<1>1. ASSUME NEW x \in P, NEW y \in P, x < y, Rank(P, x) = Rank(P, y)
      PROVE  FALSE
  <2> DEFINE X == {l \in P : l <= x}
             Y == {l \in P : l <= y}
  <2>1. IsFiniteSet(P)
    BY RankBounds
  <2>0. \A l \in P : l \in Nat
    OBVIOUS
  <2>2. X \subseteq Y /\ Y \subseteq P /\ y \in Y /\ y \notin X
    <3>1. x \in Nat /\ y \in Nat /\ x < y
      BY <1>1, <2>0
    <3>2. X \subseteq Y
      <4>1. SUFFICES ASSUME NEW l \in P, l <= x PROVE l <= y
        OBVIOUS
      <4>2. QED
        BY <2>0, <3>1, <4>1
    <3>3. Y \subseteq P
      OBVIOUS
    <3>4. y \in Y /\ y \notin X
      BY <3>1
    <3>5. QED
      BY <3>2, <3>3, <3>4
  <2>3. IsFiniteSet(Y)
    BY <2>1, <2>2, FS_Subset
  <2>4. Cardinality(X) = Cardinality(Y)
    BY <1>1 DEF Rank
  <2>5. X = Y
    BY <2>2, <2>3, <2>4, FS_Subset
  <2>6. QED
    BY <2>2, <2>5
<1>2. \A k \in P : k \in Int
  OBVIOUS
<1>3. QED
  BY <1>1, <1>2

\* Every number up to the size of the set is the rank of an element.
LEMMA RankOnto ==
  ASSUME NEW n \in Nat, NEW u \in Nat, NEW P \in SUBSET ((n + 1)..u),
         NEW m \in 1..Cardinality(P)
  PROVE  \E k \in P : Rank(P, k) = m
<1> DEFINE f == [k \in P |-> Rank(P, k)]
           C == 1..Cardinality(P)
<1>1. IsFiniteSet(P) /\ Cardinality(P) \in Nat
  BY RankBounds
<1>2. f \in [P -> C]
  BY RankBounds
<1>3. f \in Injection(P, C)
  BY <1>2, RankInjective DEF Injection, IsInjective
<1>4. IsFiniteSet(C) /\ Cardinality(C) = Cardinality(P)
  BY <1>1, FS_Interval
<1>5. f \in Surjection(P, C)
  BY <1>3, <1>4, FS_Injection
<1>6. QED
  BY <1>5 DEF Surjection

-----------------------------------------------------------------------------
(* What a resume iterates over.                                            *)

LEMMA ResumeList ==
  ASSUME NEW c \in [ids : Seq(Ids), next : Nat], NEW L \in SUBSET Ids
  PROVE  LET P == PlacesLeft(c, L)
             q == JobsFromCheckpoint(c, L)
         IN  /\ q \in Seq(Ids)
             /\ \A m \in 1..Len(q) :
                  \E k \in P : q[m] = c.ids[k] /\ k >= c.next + m
             /\ \A k \in P :
                  \E m \in 1..Len(q) : q[m] = c.ids[k] /\ m <= k - c.next
             /\ IsInjective(c.ids) => IsInjective(q)
<1> DEFINE P == PlacesLeft(c, L)
           q == JobsFromCheckpoint(c, L)
           at(m) == CHOOSE k \in P : Rank(P, k) = m
<1>1. P \in SUBSET ((c.next + 1)..Len(c.ids)) /\ c.next \in Nat /\ Len(c.ids) \in Nat
  BY DEF PlacesLeft
<1>2. Cardinality(P) \in Nat
  BY <1>1, RankBounds
<1>3. \A m \in 1..Cardinality(P) : at(m) \in P /\ Rank(P, at(m)) = m
  BY <1>1, RankOnto
<1>4. \A k \in P : k \in Nat /\ k \in 1..Len(c.ids) /\ c.ids[k] \in Ids
  BY <1>1
<1>5. q = [m \in 1..Cardinality(P) |-> c.ids[at(m)]]
  BY DEF JobsFromCheckpoint
<1> HIDE DEF P, q, at
<1>inj. \A k, l \in P : Rank(P, k) = Rank(P, l) => k = l
  <2> DEFINE n == c.next
             u == Len(c.ids)
  <2>1. n \in Nat /\ u \in Nat /\ P \in SUBSET ((n + 1)..u)
    BY <1>1
  <2> HIDE DEF n, u
  <2>2. QED
    BY <2>1, RankInjective
<1>6. q \in [1..Cardinality(P) -> Ids]
  BY <1>3, <1>4, <1>5
<1>7. q \in Seq(Ids) /\ Len(q) = Cardinality(P)
  BY <1>2, <1>6
<1>8. \A m \in 1..Len(q) : \E k \in P : q[m] = c.ids[k] /\ k >= c.next + m
  <2> TAKE m \in 1..Len(q)
  <2>1. at(m) \in P /\ Rank(P, at(m)) = m /\ q[m] = c.ids[at(m)]
    BY <1>3, <1>5, <1>7
  <2>2. m <= at(m) - c.next
    BY <1>1, <2>1, RankBounds
  <2>3. at(m) >= c.next + m
    <3>1. at(m) \in Nat /\ c.next \in Nat
      BY <1>1, <1>4, <2>1
    <3>2. m \in Nat
      BY <1>2, <1>7
    <3>3. QED
      BY <2>2, <3>1, <3>2
  <2>4. QED
    BY <2>1, <2>3
<1>9. \A k \in P : \E m \in 1..Len(q) : q[m] = c.ids[k] /\ m <= k - c.next
  <2> TAKE k \in P
  <2>1. Rank(P, k) \in 1..Cardinality(P) /\ Rank(P, k) <= k - c.next
    BY <1>1, RankBounds
  <2>2. at(Rank(P, k)) \in P /\ Rank(P, at(Rank(P, k))) = Rank(P, k)
    BY <1>3, <2>1
  <2>3. at(Rank(P, k)) = k
    BY <1>inj, <2>2
  <2>4. q[Rank(P, k)] = c.ids[k]
    BY <1>5, <2>1, <2>3
  <2>5. QED
    BY <1>7, <2>1, <2>4
<1>10. ASSUME IsInjective(c.ids) PROVE IsInjective(q)
  <2>1. SUFFICES ASSUME NEW a \in 1..Cardinality(P), NEW b \in 1..Cardinality(P),
                        q[a] = q[b]
                 PROVE  a = b
    BY <1>6 DEF IsInjective
  <2>2. c.ids[at(a)] = c.ids[at(b)]
    BY <1>5, <2>1
  <2>3. at(a) \in DOMAIN c.ids /\ at(b) \in DOMAIN c.ids
    BY <1>3, <1>4, <2>1
  <2>4. at(a) = at(b)
    BY <1>10, <2>2, <2>3 DEF IsInjective
  <2>5. QED
    BY <1>3, <2>1, <2>4
<1>11. QED
  BY <1>7, <1>8, <1>9, <1>10 DEF P, q

\* What a fresh batch iterates over.
LEMMA FreshList ==
  ASSUME TypeOK, NEW q \in FreshQueues
  PROVE  /\ q \in Seq(Ids)
         /\ \A m \in 1..Len(q) : status[q[m]] # "SUBMITTED"
         /\ ~RepeatedIds => IsInjective(q)
<1> USE IdsAssumption, BoundAssumption
<1>1. ASSUME NEW S \in SUBSET Ids, \A j \in S : status[j] # "SUBMITTED",
             q \in Sublists(S)
      PROVE  /\ q \in Seq(Ids) /\ IsInjective(q)
             /\ \A m \in 1..Len(q) : status[q[m]] # "SUBMITTED"
  <2>1. Cardinality(S) \in Nat
    BY FS_Subset, FS_CardinalityType
  <2>2. PICK n \in 1..Cardinality(S) : q \in Injection(1..n, S)
    BY <1>1 DEF Sublists
  <2>3. q \in [1..n -> S] /\ IsInjective(q) /\ n \in Nat
    BY <2>1, <2>2 DEF Injection
  <2>4. q \in Seq(S) /\ Len(q) = n
    BY <2>3
  <2>5. QED
    BY <1>1, <2>3, <2>4
<1>2. ASSUME RepeatedIds, q \in Selections(ListPending)
      PROVE  /\ q \in Seq(Ids)
             /\ \A m \in 1..Len(q) : status[q[m]] # "SUBMITTED"
  <2>1. PICK n \in 1..MaxSelected : q \in [1..n -> ListPending]
    BY <1>2 DEF Selections
  <2>2. n \in Nat
    OBVIOUS
  <2>3. q \in Seq(ListPending)
    BY <2>1, <2>2
  <2>4. QED
    BY <2>3 DEF ListPending
<1>3. CASE q \in Sublists(ListPending)
  <2>1. ListPending \in SUBSET Ids /\ \A j \in ListPending : status[j] # "SUBMITTED"
    BY DEF ListPending
  <2>2. QED
    BY <1>1, <1>3, <2>1
<1>4. CASE q \in Sublists(ListPendingAshby)
  <2>1. /\ ListPendingAshby \in SUBSET Ids
        /\ \A j \in ListPendingAshby : status[j] # "SUBMITTED"
    BY DEF ListPendingAshby
  <2>2. QED
    BY <1>1, <1>4, <2>1
<1>5. QED
  BY <1>2, <1>3, <1>4 DEF FreshQueues

-----------------------------------------------------------------------------
(* Types, and what the process's memory means where.                       *)

Typed == TypeOK /\ Control

\* The part of it that is about the running process.
Memory ==
  /\ pc \in Pcs /\ kind \in {"batch", "resume", "url"}
  /\ queue \in Seq(Ids) /\ fullIds \in Seq(Ids)
  /\ base \in Nat /\ pos \in 1..(Len(queue) + 1)
  /\ exitReason \in {"none", "startup", "job"}
  /\ outcome \in {"none"} \cup Final
  /\ exitFlag \in BOOLEAN
  /\ Control

LEMMA ShortLists ==
  /\ <<>> \in Seq(Ids) /\ Len(<<>>) = 0
  /\ \A j \in Ids : <<j>> \in Seq(Ids) /\ Len(<<j>>) = 1 /\ <<j>>[1] = j
OBVIOUS

LEMMA TypedInit == Init => Typed
<1> SUFFICES ASSUME Init PROVE Typed
  OBVIOUS
<1> USE DEF Init, Statuses, Final, Pcs, InJob
<1>1. queue \in Seq(Ids) /\ fullIds \in Seq(Ids) /\ pos \in 1..(Len(queue) + 1)
  BY ShortLists
<1>2. checkpoint \in [ids : Seq(Ids), next : Nat]
  BY ShortLists DEF NoCheckpoint
<1>3. status \in [Ids -> Statuses]
  OBVIOUS
<1>4. QED
  BY <1>1, <1>2, <1>3 DEF Typed, TypeOK, Control

LEMMA TypedNext == Typed /\ [Next]_vars => Typed'
<1> SUFFICES ASSUME Typed, [Next]_vars
             PROVE  Typed'
  OBVIOUS
<1> USE DEF Typed, TypeOK, Memory, Control, Statuses, Final, Pcs, InJob, persistent,
            run, counters
<1> DEFINE BeginTyped(k, q, ids, b) ==
             /\ k \in {"batch", "resume", "url"} /\ q \in Seq(Ids)
             /\ ids \in Seq(Ids) /\ b \in Nat /\ Begin(k, q, ids, b)
<1>a. ASSUME NEW k, NEW q, NEW ids, NEW b, BeginTyped(k, q, ids, b)
      PROVE  Memory'
  <2>1. Len(q) \in Nat
    BY <1>a
  <2>2. 1 \in 1..(Len(q) + 1)
    BY <2>1
  <2>3. QED
    BY <1>a, <2>2 DEF Begin
<1>b. ASSUME ProcessEnds
      PROVE  Memory'
  <2>1. 1 \in 1..(Len(<<>>) + 1)
    BY ShortLists
  <2>2. QED
    BY <1>b, <2>1, ShortLists DEF ProcessEnds
<1>1. CASE StartBatch
  <2>1. PICK q \in FreshQueues : Begin("batch", q, q, 0)
    BY <1>1 DEF StartBatch
  <2>2. BeginTyped("batch", q, q, 0)
    BY <2>1, FreshList
  <2>3. Memory'
    BY <1>a, <2>2
  <2>4. QED
    BY <1>1, <2>3 DEF StartBatch
<1>2. CASE StartUrl
  <2>1. PICK j \in Ids :
          /\ status' = [status EXCEPT ![j] = "PENDING"]
          /\ Begin("url", <<j>>, <<j>>, 0) \/ ProcessEnds
    BY <1>2 DEF StartUrl
  <2>2. Begin("url", <<j>>, <<j>>, 0) => BeginTyped("url", <<j>>, <<j>>, 0)
    BY ShortLists
  <2>3. Memory'
    BY <1>a, <1>b, <2>1, <2>2
  <2>4. QED
    BY <1>2, <2>1, <2>3 DEF StartUrl
<1>3. CASE ContinueRun
  <2>1. PICK L \in SUBSET Ids :
          Begin("resume", JobsFromCheckpoint(checkpoint, L), checkpoint.ids,
                checkpoint.next)
    BY <1>3, IdsAssumption DEF ContinueRun, ResumeFilters
  <2>2. BeginTyped("resume", JobsFromCheckpoint(checkpoint, L), checkpoint.ids,
                   checkpoint.next)
    BY <2>1, ResumeList
  <2>3. Memory'
    BY <1>a, <2>2
  <2>4. QED
    BY <1>3, <2>3 DEF ContinueRun
<1>4. CASE ContinueNothing
  BY <1>4, <1>b DEF ContinueNothing, NoCheckpoint
<1>5. CASE Program
  <2>1. CASE StartSession
    BY <2>1 DEF StartSession
  <2>2. CASE ExitBetweenJobs
    BY <2>2 DEF ExitBetweenJobs
  <2>3. CASE TakeJob
    BY <2>3 DEF TakeJob, current
  <2>4. CASE LoopEnds
    BY <2>4 DEF LoopEnds
  <2>5. CASE FormSubmitted
    <3>1. current \in Ids
      BY <2>5 DEF FormSubmitted, current
    <3>2. QED
      BY <2>5, <3>1 DEF FormSubmitted
  <2>6. CASE ReturnRecorded
    BY <2>6 DEF ReturnRecorded, Return, current
  <2>7. CASE ReturnUnrecorded
    BY <2>7 DEF ReturnUnrecorded, Return
  <2>8. CASE ReturnByHand
    <3>1. current \in Ids
      BY <2>8 DEF ReturnByHand, current
    <3>2. QED
      BY <2>8, <3>1 DEF ReturnByHand, Return
  <2>9. CASE LogSuccess
    <3>1. current \in Ids
      BY <2>9 DEF LogSuccess, current
    <3>2. QED
      BY <2>9, <3>1 DEF LogSuccess
  <2>10. CASE RecordSubmitted
    BY <2>10 DEF RecordSubmitted, current
  <2>11. CASE ReturnVerdict
    BY <2>11 DEF ReturnVerdict, Return
  <2>12. CASE FinalPauseFails
    BY <2>12 DEF FinalPauseFails, Return, current
  <2>13. CASE CheckStop
    BY <2>13 DEF CheckStop, LeaveJob
  <2>14. CASE ResetInterrupted
    BY <2>14 DEF ResetInterrupted, current
  <2>15. CASE SaveCheckpoint
    BY <2>15 DEF SaveCheckpoint, SaveCheckpointAt
  <2>16. CASE ClearCheckpoint
    BY <2>16 DEF ClearCheckpoint, NoCheckpoint
  <2>17. CASE KeepCheckpoint
    BY <2>17 DEF KeepCheckpoint
  <2>18. CASE Reconcile
    BY <2>18 DEF Reconcile
  <2>19. CASE SkipReconcile
    BY <2>19 DEF SkipReconcile
  <2>20. CASE Finish
    BY <2>20, <1>b DEF Finish
  <2>21. CASE RecordFailed
    BY <2>21 DEF RecordFailed, current
  <2>22. QED
    BY <1>5, <2>1, <2>2, <2>3, <2>4, <2>5, <2>6, <2>7, <2>8, <2>9, <2>10,
       <2>11, <2>12, <2>13, <2>14, <2>15, <2>16, <2>17, <2>18, <2>19, <2>20, <2>21
       DEF Program, Job, Shutdown
<1>6. CASE StartInterrupted
  BY <1>6 DEF StartInterrupted
<1>7. CASE UserLeaves
  BY <1>7 DEF UserLeaves, LeaveJob
<1>8. CASE CtrlC
  BY <1>8 DEF CtrlC
<1>9. CASE Die
  BY <1>9, <1>b DEF Die
<1>10. CASE UNCHANGED vars
  BY <1>10 DEF vars
<1>11. QED
  BY <1>1, <1>2, <1>3, <1>4, <1>5, <1>6, <1>7, <1>8, <1>9, <1>10 DEF Next

LEMMA TypedAlways == Spec => []Typed
BY TypedInit, TypedNext, PTL DEF Spec

\* Every variable of the model keeps its type: in particular the loop variable
\* never runs past the end of the list by more than one.
THEOREM TypeCorrect == Spec => []TypeOK
<1>1. Typed => TypeOK
  BY DEF Typed
<1>2. QED
  BY <1>1, TypedAlways, PTL

-----------------------------------------------------------------------------
(* The bookkeeping of a run: the list it iterates over against the list it   *)
(* would save, and the part of it already passed.                            *)

\* The steps of a running process, and those that start or end one.
InRun ==
  \/ StartSession \/ ExitBetweenJobs \/ TakeJob \/ LoopEnds \/ Job
  \/ ResetInterrupted \/ SaveCheckpoint \/ ClearCheckpoint \/ KeepCheckpoint
  \/ Reconcile \/ SkipReconcile
  \/ StartInterrupted \/ UserLeaves \/ CtrlC \/ UNCHANGED vars

StartOrEnd ==
  \/ StartBatch \/ StartUrl \/ ContinueRun \/ ContinueNothing \/ Finish \/ Die

LEMMA NextCases == [Next]_vars => InRun \/ StartOrEnd
BY DEF Next, Program, Shutdown, InRun, StartOrEnd

LEMMA AlignedNext == Typed /\ Aligned /\ [Next]_vars => Aligned'
<1> SUFFICES ASSUME Typed, Aligned, [Next]_vars
             PROVE  Aligned'
  OBVIOUS
<1> USE DEF Typed, TypeOK, persistent, run, counters
<1>a. ASSUME UNCHANGED run,
             \A j \in Ids : status'[j] = "PENDING" =>
               status[j] = "PENDING" \/ j \in Range(queue)
      PROVE  Aligned'
  <2>1. \A k \in (base + 1)..Len(fullIds) : fullIds[k] \in Ids
    OBVIOUS
  <2>2. QED
    BY <1>a, <2>1 DEF Aligned
<1>b. ASSUME ProcessEnds PROVE Aligned'
  BY <1>b, ShortLists DEF ProcessEnds, Aligned
<1>c. ASSUME NEW k, NEW q \in Seq(Ids), Begin(k, q, q, 0)
      PROVE  Aligned'
  <2>1. queue' = q /\ fullIds' = q /\ base' = 0 /\ Len(q) \in Nat
    BY <1>c DEF Begin
  <2>2. \A m \in 1..Len(q) : m \in (0 + m)..Len(q) /\ m <= m - 0
    BY <2>1
  <2>3. \A m \in (0 + 1)..Len(q) : m \in 1..Len(q) /\ q[m] \in Range(q)
    BY <2>1 DEF Range
  <2>4. QED
    BY <2>1, <2>2, <2>3 DEF Aligned
<1>1. CASE InRun
  <2>1. UNCHANGED run
    BY <1>1 DEF InRun, StartSession, ExitBetweenJobs, TakeJob, LoopEnds, Job,
       FormSubmitted, ReturnRecorded, ReturnUnrecorded, ReturnByHand, Return,
       LogSuccess, RecordSubmitted, RecordFailed, ReturnVerdict, FinalPauseFails, CheckStop,
       LeaveJob, ResetInterrupted, SaveCheckpoint, SaveCheckpointAt,
       ClearCheckpoint, KeepCheckpoint, Reconcile, SkipReconcile,
       StartInterrupted, UserLeaves, CtrlC, vars
  <2>2. ASSUME NEW j \in Ids, status'[j] = "PENDING"
        PROVE  status[j] = "PENDING" \/ j \in Range(queue)
    <3>1. CASE ResetInterrupted
      <4>1. pos \in 1..Len(queue)
        BY <3>1 DEF ResetInterrupted, Control
      <4>2. current \in Range(queue)
        BY <4>1 DEF current, Range
      <4>3. QED
        BY <2>2, <3>1, <4>2 DEF ResetInterrupted
    <3>2. CASE ~ResetInterrupted
      BY <1>1, <2>2, <3>2 DEF InRun, StartSession, ExitBetweenJobs, TakeJob,
         LoopEnds, Job, FormSubmitted, ReturnRecorded, ReturnUnrecorded,
         ReturnByHand, Return, LogSuccess, RecordSubmitted, RecordFailed, ReturnVerdict,
         FinalPauseFails, CheckStop, LeaveJob, SaveCheckpoint,
         SaveCheckpointAt, ClearCheckpoint, KeepCheckpoint, Reconcile,
         SkipReconcile, StartInterrupted, UserLeaves, CtrlC, vars
    <3>3. QED
      BY <3>1, <3>2
  <2>3. QED
    BY <1>a, <2>1, <2>2
<1>2. CASE StartBatch
  <2>1. PICK q \in FreshQueues : Begin("batch", q, q, 0)
    BY <1>2 DEF StartBatch
  <2>2. QED
    BY <1>c, <2>1, FreshList
<1>3. CASE StartUrl
  BY <1>3, <1>b, <1>c, ShortLists DEF StartUrl
<1>4. CASE ContinueRun
  <2> DEFINE c == checkpoint
  <2>0. PICK L \in SUBSET Ids :
          /\ Begin("resume", JobsFromCheckpoint(c, L), c.ids, c.next)
          /\ ~FilterResume => L = Ids
    BY <1>4, IdsAssumption DEF ContinueRun, ResumeFilters
  <2> DEFINE P == PlacesLeft(c, L)
             q == JobsFromCheckpoint(c, L)
  <2>1. /\ queue' = q /\ fullIds' = c.ids /\ base' = c.next /\ status' = status
        /\ c.next \in Nat /\ Len(c.ids) \in Nat
    BY <1>4, <2>0 DEF ContinueRun, Begin
  <2>2. /\ q \in Seq(Ids)
        /\ \A m \in 1..Len(q) : \E k \in P : q[m] = c.ids[k] /\ k >= c.next + m
        /\ \A k \in P :
             \E m \in 1..Len(q) : q[m] = c.ids[k] /\ m <= k - c.next
    BY ResumeList
  <2>3. \A k : k \in P <=> /\ k \in (c.next + 1)..Len(c.ids)
                          /\ c.ids[k] \in L
                          /\ status[c.ids[k]] \in {"PENDING", "IN_PROGRESS"}
    BY DEF PlacesLeft
  <2> HIDE DEF P, q
  <2>4. ASSUME NEW m \in 1..Len(q)
        PROVE  \E k \in (c.next + m)..Len(c.ids) : c.ids[k] = q[m]
    <3>1. PICK k \in P : q[m] = c.ids[k] /\ k >= c.next + m
      BY <2>2
    <3>2. k \in Nat /\ k <= Len(c.ids) /\ m \in Nat
      BY <2>1, <2>2, <2>3
    <3>3. k \in (c.next + m)..Len(c.ids)
      BY <2>1, <3>1, <3>2
    <3>4. QED
      BY <3>1, <3>3
  <2>5. ASSUME NEW k \in (c.next + 1)..Len(c.ids), c.ids[k] \in Range(q)
        PROVE  k \in P
    <3>1. DOMAIN q = 1..Len(q)
      BY <2>2
    <3>2. PICK m \in 1..Len(q) : q[m] = c.ids[k]
      BY <2>5, <3>1 DEF Range
    <3>3. PICK l \in P : q[m] = c.ids[l]
      BY <2>2
    <3>4. c.ids[k] \in L /\ status[c.ids[k]] \in {"PENDING", "IN_PROGRESS"}
      BY <2>3, <3>2, <3>3
    <3>5. QED
      BY <2>3, <2>5, <3>4
  <2>6. ASSUME ~FilterResume, NEW k \in (c.next + 1)..Len(c.ids),
               status[c.ids[k]] = "PENDING"
        PROVE  c.ids[k] \in Range(q)
    <3>1. c.ids[k] \in Ids
      BY <2>1, <2>6
    <3>2. k \in P
      BY <2>0, <2>3, <2>6, <3>1
    <3>3. DOMAIN q = 1..Len(q)
      BY <2>2
    <3>4. PICK m \in 1..Len(q) : q[m] = c.ids[k]
      BY <2>2, <3>2
    <3>5. QED
      BY <3>3, <3>4 DEF Range
  <2>7. QED
    BY <2>1, <2>2, <2>4, <2>5, <2>6 DEF Aligned
<1>5. CASE ContinueNothing
  BY <1>5, <1>b DEF ContinueNothing
<1>6. CASE Finish
  BY <1>6, <1>b DEF Finish
<1>7. CASE Die
  BY <1>7, <1>b DEF Die
<1>8. QED
  BY <1>1, <1>2, <1>3, <1>4, <1>5, <1>6, <1>7, NextCases DEF StartOrEnd

LEMMA PassedNext == Typed /\ Passed /\ [Next]_vars => Passed'
<1> SUFFICES ASSUME Typed, Passed, [Next]_vars
             PROVE  Passed'
  OBVIOUS
<1> USE DEF Typed, TypeOK, persistent, run, counters, InJob
<1>t. /\ pos \in Nat /\ Len(queue) \in Nat
      /\ \A m \in 1..(pos - 1) : m \in 1..Len(queue) /\ queue[m] \in Ids
  OBVIOUS
\* A step that leaves the lists and the cursor alone and makes no job pending.
<1>a. ASSUME UNCHANGED <<queue, pos>>, pc # "checkpointing",
             \A j \in Ids : status'[j] = "PENDING" => status[j] = "PENDING",
             \/ /\ pc \in {"loop", "saving"} \cup InJob
                /\ pc' \in {"loop", "saving"}
             \/ /\ pc \in {"loop"} \cup InJob /\ pc' \in InJob
                /\ pos \in 1..Len(queue) /\ status'[current] # "PENDING"
             \/ pc' \in {"idle", "starting", "uploading", "prompt"}
      PROVE  Passed'
  BY <1>a, <1>t DEF Passed, current
\* Every return of apply_to_job.
<1>b. ASSUME UNCHANGED queue, pc \in InJob, pc' = "loop", pos' = pos + 1,
             status'[current] # "PENDING",
             \A j \in Ids : status'[j] = "PENDING" => status[j] = "PENDING"
      PROVE  Passed'
  <2>1. \A m \in 1..(pos - 1) : status[queue[m]] # "PENDING"
    BY <1>b DEF Passed
  <2>2. \A m \in 1..(pos' - 1) : m \in 1..(pos - 1) \/ m = pos
    BY <1>b
  <2>3. QED
    BY <1>b, <1>t, <2>1, <2>2 DEF Passed, current
\* Where a process starts or ends nothing is passed.
<1>c. ASSUME pc' \in {"idle", "starting"} PROVE Passed'
  BY <1>c DEF Passed
<1>1. CASE StartBatch \/ StartUrl \/ ContinueRun \/ ContinueNothing \/ Finish \/ Die
  BY <1>1, <1>c DEF StartBatch, StartUrl, ContinueRun, ContinueNothing, Finish,
     Die, Begin, ProcessEnds
<1>2. CASE StartSession
  <2>1. pos = 1
    BY <1>2 DEF StartSession, Control
  <2>2. QED
    BY <1>2, <2>1 DEF StartSession, Passed
<1>3. CASE ExitBetweenJobs \/ LoopEnds
  BY <1>3, <1>a DEF ExitBetweenJobs, LoopEnds
<1>4. CASE TakeJob
  BY <1>4, <1>a, <1>t DEF TakeJob, current
<1>5. CASE Job \/ UserLeaves
  <2>t. pc \in InJob => pos \in 1..Len(queue) /\ current \in Ids
    BY DEF Control, current
  <2>1. CASE FormSubmitted
    BY <2>1, <2>t, <1>a DEF FormSubmitted, Passed
  <2>2. CASE ReturnRecorded
    BY <2>2, <2>t, <1>b DEF ReturnRecorded, Return
  <2>3. CASE ReturnUnrecorded
    BY <2>3, <2>t, <1>b DEF ReturnUnrecorded, Return, Passed
  <2>4. CASE ReturnByHand
    BY <2>4, <2>t, <1>b DEF ReturnByHand, Return, Passed
  <2>5. CASE LogSuccess
    BY <2>5, <2>t, <1>a DEF LogSuccess, Passed
  <2>6. CASE RecordSubmitted
    BY <2>6, <2>t, <1>a DEF RecordSubmitted, current
  <2>7. CASE ReturnVerdict
    BY <2>7, <2>t, <1>b DEF ReturnVerdict, Return, Passed
  <2>8. CASE FinalPauseFails
    BY <2>8, <2>t, <1>b DEF FinalPauseFails, Return
  <2>9. CASE CheckStop \/ UserLeaves
    BY <2>9, <1>a DEF CheckStop, UserLeaves, LeaveJob
  <2>10. CASE RecordFailed
    BY <2>10, <2>t, <1>a DEF RecordFailed, current
  <2>11. QED
    BY <1>5, <2>1, <2>2, <2>3, <2>4, <2>5, <2>6, <2>7, <2>8, <2>9, <2>10 DEF Job
<1>6. CASE ResetInterrupted
  <2>1. /\ UNCHANGED <<queue, pos>> /\ pc = "saving" /\ pc' = "checkpointing"
        /\ \A j \in Ids : status'[j] = "PENDING" => status[j] = "PENDING" \/ j = current
    BY <1>6 DEF ResetInterrupted
  <2>2. \A m \in 1..(pos - 1) : status[queue[m]] # "PENDING"
    BY <2>1 DEF Passed
  <2>3. QED
    BY <1>t, <2>1, <2>2 DEF Passed, current
<1>7. CASE SaveCheckpoint \/ ClearCheckpoint \/ KeepCheckpoint \/ Reconcile \/ SkipReconcile
  BY <1>7 DEF SaveCheckpoint, SaveCheckpointAt, ClearCheckpoint, KeepCheckpoint,
     Reconcile, SkipReconcile, Passed
<1>8. CASE StartInterrupted
  <2>1. pos = 1
    BY <1>8 DEF StartInterrupted, Control
  <2>2. QED
    BY <1>8, <2>1 DEF StartInterrupted, Passed
<1>9. CASE CtrlC \/ UNCHANGED vars
  BY <1>9 DEF CtrlC, vars, Passed, current
<1>10. QED
  BY <1>1, <1>2, <1>3, <1>4, <1>5, <1>6, <1>7, <1>8, <1>9
     DEF Next, Program, Shutdown

LEMMA StoppedNext ==
  Typed /\ StoppedJobIsReleased /\ [Next]_vars => StoppedJobIsReleased'
<1> SUFFICES ASSUME Typed, StoppedJobIsReleased, [Next]_vars
             PROVE  StoppedJobIsReleased'
  OBVIOUS
<1> USE DEF Typed, TypeOK, persistent, run, counters, StoppedJobIsReleased
<1>1. CASE ResetInterrupted
  <2>1. current \in Ids
    BY <1>1 DEF ResetInterrupted, Control, current
  <2>2. QED
    BY <1>1, <2>1 DEF ResetInterrupted, current
<1>2. CASE Reconcile
  <2>1. exitReason = "job" => current \in Ids
    BY DEF Control, current
  <2>2. QED
    BY <1>2, <2>1 DEF Reconcile, current
<1>3. CASE SaveCheckpoint \/ ClearCheckpoint \/ KeepCheckpoint \/ SkipReconcile
           \/ CtrlC \/ UNCHANGED vars
  BY <1>3 DEF SaveCheckpoint, SaveCheckpointAt, ClearCheckpoint, KeepCheckpoint,
     SkipReconcile, CtrlC, vars, current
<1>4. CASE StartBatch \/ StartUrl \/ ContinueRun \/ ContinueNothing \/ Finish \/ Die
  BY <1>4 DEF StartBatch, StartUrl, ContinueRun, ContinueNothing, Finish, Die,
     Begin, ProcessEnds
<1>5. CASE StartSession \/ ExitBetweenJobs \/ TakeJob \/ LoopEnds \/ Job
           \/ StartInterrupted \/ UserLeaves
  <2>1. pc' \notin {"checkpointing", "uploading", "prompt"}
    BY <1>5 DEF StartSession, ExitBetweenJobs, TakeJob, LoopEnds, Job,
       FormSubmitted, ReturnRecorded, ReturnUnrecorded, ReturnByHand, Return,
       LogSuccess, RecordSubmitted, RecordFailed, ReturnVerdict, FinalPauseFails, CheckStop,
       LeaveJob, StartInterrupted, UserLeaves
  <2>2. QED
    BY <2>1
<1>6. QED
  BY <1>1, <1>2, <1>3, <1>4, <1>5 DEF Next, Program, Shutdown

LEMMA DistinctNext == Typed /\ Distinct /\ [Next]_vars => Distinct'
<1> SUFFICES ASSUME Typed, Distinct, [Next]_vars, ~RepeatedIds
             PROVE  IsInjective(queue') /\ IsInjective(fullIds')
                      /\ IsInjective(checkpoint'.ids)
  BY DEF Distinct
<1> USE DEF Typed, TypeOK, persistent, run, counters, Distinct
<1>a. IsInjective(<<>>) /\ \A j : IsInjective(<<j>>)
  BY DEF IsInjective
<1>1. CASE StartBatch
  <2>1. PICK q \in FreshQueues : Begin("batch", q, q, 0)
    BY <1>1 DEF StartBatch
  <2>2. QED
    BY <1>1, <2>1, FreshList DEF StartBatch, Begin
<1>2. CASE StartUrl
  BY <1>2, <1>a DEF StartUrl, Begin, ProcessEnds
<1>3. CASE ContinueRun
  <2>1. PICK L \in SUBSET Ids :
          Begin("resume", JobsFromCheckpoint(checkpoint, L), checkpoint.ids,
                checkpoint.next)
    BY <1>3, IdsAssumption DEF ContinueRun, ResumeFilters
  <2>2. IsInjective(JobsFromCheckpoint(checkpoint, L))
    BY ResumeList
  <2>3. QED
    BY <1>3, <2>1, <2>2 DEF ContinueRun, Begin
<1>4. CASE ContinueNothing \/ Finish \/ Die
  BY <1>4, <1>a DEF ContinueNothing, Finish, Die, ProcessEnds, NoCheckpoint
<1>5. CASE SaveCheckpoint
  BY <1>5 DEF SaveCheckpoint, SaveCheckpointAt
<1>6. CASE ClearCheckpoint
  BY <1>6, <1>a DEF ClearCheckpoint, NoCheckpoint
<1>7. CASE InRun /\ ~SaveCheckpoint /\ ~ClearCheckpoint
  BY <1>7 DEF InRun, StartSession, ExitBetweenJobs, TakeJob, LoopEnds, Job,
     FormSubmitted, ReturnRecorded, ReturnUnrecorded, ReturnByHand, Return,
     LogSuccess, RecordSubmitted, RecordFailed, ReturnVerdict, FinalPauseFails, CheckStop,
     LeaveJob, ResetInterrupted, KeepCheckpoint, Reconcile, SkipReconcile,
     StartInterrupted, UserLeaves, CtrlC, vars
<1>8. QED
  BY <1>1, <1>2, <1>3, <1>4, <1>5, <1>6, <1>7, NextCases DEF StartOrEnd

LEMMA AheadNext == Typed /\ Distinct /\ Ahead /\ [Next]_vars => Ahead'
<1> SUFFICES ASSUME Typed, Distinct, Ahead, [Next]_vars, ~RepeatedIds
             PROVE  Ahead'
  BY DEF Ahead
<1> USE DEF Typed, TypeOK, persistent, run, counters, InJob
<1>t. /\ pos \in Nat /\ Len(queue) \in Nat
      /\ \A m \in 1..Len(queue) : queue[m] \in Ids
      /\ \A m \in 1..Len(queue) :
           m > pos /\ pos \in 1..Len(queue) => queue[m] # current
  BY DEF Distinct, IsInjective, current
\* A step inside the loop, which may write the status of the current job.
<1>a. ASSUME UNCHANGED <<queue, kind>>,
             \A j \in Ids : j # current => status'[j] = status[j],
             \/ pc \in InJob /\ pc' \in InJob /\ pos' = pos
             \/ pc \in InJob /\ pc' = "loop" /\ pos' = pos + 1
             \/ pc = "loop" /\ pc' \in InJob /\ pos' = pos,
             pos \in 1..Len(queue)
      PROVE  Ahead'
  <2>1. ASSUME NEW m \in 1..Len(queue),
               m > pos' \/ (m = pos' /\ pc' \notin InJob)
        PROVE  /\ status'[queue[m]] # "SUBMITTED"
               /\ kind = "resume" => status'[queue[m]] \in {"PENDING", "IN_PROGRESS"}
    <3>1. m > pos
      BY <1>a, <1>t, <2>1
    <3>2. status'[queue[m]] = status[queue[m]]
      BY <1>a, <1>t, <3>1
    <3>3. QED
      BY <1>a, <3>1, <3>2 DEF Ahead
  <2>2. QED
    BY <1>a, <2>1 DEF Ahead
<1>b. ASSUME pc' \notin {"starting", "loop"} \cup InJob PROVE Ahead'
  BY <1>b DEF Ahead
<1>c. ASSUME NEW k \in {"batch", "url"}, NEW q \in Seq(Ids), Begin(k, q, q, 0),
             \A m \in 1..Len(q) : status'[q[m]] # "SUBMITTED"
      PROVE  Ahead'
  BY <1>c DEF Begin, Ahead
<1>1. CASE StartBatch
  <2>1. PICK q \in FreshQueues : Begin("batch", q, q, 0)
    BY <1>1 DEF StartBatch
  <2>2. q \in Seq(Ids) /\ \A m \in 1..Len(q) : status[q[m]] # "SUBMITTED"
    BY FreshList
  <2>3. QED
    BY <1>1, <1>c, <2>1, <2>2 DEF StartBatch
<1>2. CASE StartUrl
  <2>1. PICK j \in Ids :
          /\ status' = [status EXCEPT ![j] = "PENDING"]
          /\ Begin("url", <<j>>, <<j>>, 0) \/ ProcessEnds
    BY <1>2 DEF StartUrl
  <2>2. \A m \in 1..Len(<<j>>) : status'[<<j>>[m]] # "SUBMITTED"
    BY <2>1, ShortLists
  <2>3. CASE ProcessEnds
    BY <2>3, <1>b DEF ProcessEnds
  <2>4. CASE Begin("url", <<j>>, <<j>>, 0)
    BY <1>c, <2>2, <2>4, ShortLists
  <2>5. QED
    BY <2>1, <2>3, <2>4
<1>3. CASE ContinueRun
  <2> DEFINE c == checkpoint
  <2>0. PICK L \in SUBSET Ids :
          Begin("resume", JobsFromCheckpoint(c, L), c.ids, c.next)
    BY <1>3, IdsAssumption DEF ContinueRun, ResumeFilters
  <2> DEFINE q == JobsFromCheckpoint(c, L)
  <2>1. queue' = q /\ pc' = "starting" /\ status' = status
    BY <1>3, <2>0 DEF ContinueRun, Begin
  <2>2. /\ q \in Seq(Ids)
        /\ \A m \in 1..Len(q) : \E k \in PlacesLeft(c, L) : q[m] = c.ids[k]
    BY ResumeList
  <2>3. \A m \in 1..Len(q) : status[q[m]] \in {"PENDING", "IN_PROGRESS"}
    BY <2>2 DEF PlacesLeft
  <2> HIDE DEF q
  <2>4. QED
    BY <2>1, <2>3 DEF Ahead
<1>4. CASE ContinueNothing \/ Finish \/ Die
  BY <1>4, <1>b DEF ContinueNothing, Finish, Die, ProcessEnds
<1>5. CASE StartSession
  BY <1>5 DEF StartSession, Ahead
<1>6. CASE TakeJob
  <2>1. pos \in 1..Len(queue)
    BY <1>6 DEF TakeJob
  <2>2. QED
    BY <1>6, <1>a, <2>1 DEF TakeJob
<1>7. CASE Job
  <2>t. pc \in InJob => pos \in 1..Len(queue)
    BY DEF Control
  <2>1. CASE CheckStop
    BY <2>1, <1>b DEF CheckStop, LeaveJob
  <2>2. CASE ~CheckStop
    BY <1>7, <2>2, <2>t, <1>a DEF Job, FormSubmitted, ReturnRecorded,
       ReturnUnrecorded, ReturnByHand, Return, LogSuccess, RecordSubmitted,
       RecordFailed, ReturnVerdict, FinalPauseFails
  <2>3. QED
    BY <2>1, <2>2
<1>8. CASE ExitBetweenJobs \/ LoopEnds \/ StartInterrupted \/ UserLeaves
           \/ ResetInterrupted \/ SaveCheckpoint \/ ClearCheckpoint
           \/ KeepCheckpoint \/ Reconcile \/ SkipReconcile
  BY <1>8, <1>b DEF ExitBetweenJobs, LoopEnds, StartInterrupted, UserLeaves,
     LeaveJob, ResetInterrupted, SaveCheckpoint, SaveCheckpointAt,
     ClearCheckpoint, KeepCheckpoint, Reconcile, SkipReconcile
<1>9. CASE CtrlC \/ UNCHANGED vars
  BY <1>9 DEF CtrlC, vars, Ahead
<1>10. QED
  BY <1>1, <1>2, <1>3, <1>4, <1>5, <1>6, <1>7, <1>8, <1>9
     DEF Next, Program, Shutdown

-----------------------------------------------------------------------------
(* The inductive invariant, and what follows from it.                        *)

IInv == TypeOK /\ Bookkeeping

LEMMA IInvInit == Init => IInv
<1> SUFFICES ASSUME Init PROVE IInv
  OBVIOUS
<1>1. Typed
  BY TypedInit
<1>2. Len(queue) = 0 /\ Len(fullIds) = 0 /\ base = 0
  BY ShortLists DEF Init
<1>3. Aligned
  BY <1>2 DEF Aligned
<1>4. Passed /\ StoppedJobIsReleased /\ Ahead
  BY DEF Init, Passed, StoppedJobIsReleased, Ahead, InJob
<1>5. Distinct
  BY DEF Init, NoCheckpoint, Distinct, IsInjective
<1>6. QED
  BY <1>1, <1>3, <1>4, <1>5 DEF Typed, IInv, Bookkeeping

LEMMA IInvNext == IInv /\ [Next]_vars => IInv'
BY TypedNext, AlignedNext, PassedNext, StoppedNext, DistinctNext, AheadNext
   DEF IInv, Bookkeeping, Typed

LEMMA Inductive == Spec => []IInv
BY IInvInit, IInvNext, PTL DEF Spec

\* At every step, however often the run is stopped, the list a run iterates
\* over and the longer list it would save line up behind the cursor, what the
\* loop has passed is no longer pending, and what is ahead is not submitted.
THEOREM BookkeepingHolds == Spec => []Bookkeeping
<1>1. IInv => Bookkeeping
  BY DEF IInv
<1>2. QED
  BY <1>1, Inductive, PTL

\* After a clean stop the interrupted job is released, whatever stopped it.
THEOREM StoppedIsReleased == Spec => []StoppedJobIsReleased
<1>1. IInv => StoppedJobIsReleased
  BY DEF IInv, Bookkeeping
<1>2. QED
  BY <1>1, Inductive, PTL

\* If no resume is filtered, the checkpoint a stopped run saves never passes over
\* a pending job, even though a resumed run counts places in one list and saves
\* another.
THEOREM NothingLeftBehind ==
  ASSUME ~FilterResume PROVE Spec => NoPendingLeftBehind
<1>1. IInv /\ [Next]_vars =>
        [pc = "checkpointing" /\ pc' = "uploading" =>
          \A k \in (base + 1)..checkpoint'.next :
            status[checkpoint'.ids[k]] = "PENDING" =>
              \E l \in (checkpoint'.next + 1)..Len(checkpoint'.ids) :
                checkpoint'.ids[l] = checkpoint'.ids[k]]_vars
  <2> SUFFICES ASSUME IInv, [Next]_vars, pc = "checkpointing", pc' = "uploading"
               PROVE  \A k \in (base + 1)..checkpoint'.next :
                        status[checkpoint'.ids[k]] = "PENDING" =>
                          \E l \in (checkpoint'.next + 1)..Len(checkpoint'.ids) :
                            checkpoint'.ids[l] = checkpoint'.ids[k]
    OBVIOUS
  <2>1. SaveCheckpoint
    BY DEF Next, Program, Job, Shutdown, vars, StartBatch, StartUrl, ContinueRun,
       ContinueNothing, MayResume, StartSession, StartInterrupted,
       ExitBetweenJobs, TakeJob, LoopEnds, FormSubmitted, ReturnRecorded,
       ReturnUnrecorded, ReturnByHand, LogSuccess, RecordSubmitted,
       RecordFailed, ReturnVerdict, FinalPauseFails, CheckStop, UserLeaves, LeaveJob,
       ResetInterrupted, ClearCheckpoint, KeepCheckpoint, Reconcile,
       SkipReconcile, Finish, CtrlC, Die, ProcessEnds
  <2>2. /\ checkpoint'.ids = fullIds /\ checkpoint'.next = base + pos - 1
    BY <2>1 DEF SaveCheckpoint, SaveCheckpointAt
  <2>3. base \in Nat /\ Len(fullIds) \in Nat /\ pos \in 1..Len(queue)
    BY DEF IInv, Bookkeeping, TypeOK, Control
  <2> SUFFICES ASSUME NEW k \in (base + 1)..(base + pos - 1),
                      status[fullIds[k]] = "PENDING"
               PROVE  \E l \in (base + pos)..Len(fullIds) : fullIds[l] = fullIds[k]
    BY <2>2, <2>3
  <2>4. PICK l \in (base + pos)..Len(fullIds) : fullIds[l] = queue[pos]
    BY <2>3 DEF IInv, Bookkeeping, Aligned
  <2>5. k \in (base + 1)..Len(fullIds)
    BY <2>3, <2>4
  <2>6. PICK m \in 1..Len(queue) : m <= k - base /\ queue[m] = fullIds[k]
    BY <2>5 DEF IInv, Bookkeeping, Aligned
  <2>7. m \in 1..(pos - 1)
    BY <2>3, <2>6
  <2>8. queue[m] = queue[pos]
    BY <2>6, <2>7 DEF IInv, Bookkeeping, Passed, current
  <2>9. QED
    BY <2>4, <2>6, <2>8
<1>2. QED
  BY <1>1, Inductive, PTL DEF Spec, NoPendingLeftBehind

\* The only step that writes IN_PROGRESS takes the job at the cursor.
LEMMA OnlyTaken ==
  ASSUME IInv, [Next]_vars, NEW j \in Ids,
         status'[j] = "IN_PROGRESS", status[j] # "IN_PROGRESS"
  PROVE  TakeJob /\ j = current /\ pos \in 1..Len(queue)
<1>1. TakeJob
  BY DEF IInv, TypeOK, persistent, Next, Program, Job, Shutdown, vars, StartBatch,
     StartUrl, ContinueRun, ContinueNothing, StartSession, StartInterrupted,
     ExitBetweenJobs, LoopEnds, FormSubmitted, ReturnRecorded,
     ReturnUnrecorded, ReturnByHand, Return, LogSuccess, RecordSubmitted,
     RecordFailed, ReturnVerdict, FinalPauseFails, CheckStop, UserLeaves, LeaveJob,
     ResetInterrupted, SaveCheckpoint, SaveCheckpointAt, ClearCheckpoint,
     KeepCheckpoint, Reconcile, SkipReconcile, Finish, CtrlC, Die
<1>2. QED
  BY <1>1 DEF IInv, TypeOK, TakeJob

\* If no selection repeats an id, no run takes a job recorded SUBMITTED.
THEOREM NeverReapplied ==
  ASSUME ~RepeatedIds PROVE Spec => NoReapplication
<1>1. IInv /\ [Next]_vars =>
        [\A j \in Ids : status[j] = "SUBMITTED" => status'[j] # "IN_PROGRESS"]_vars
  <2> SUFFICES ASSUME IInv, [Next]_vars, NEW j \in Ids,
                      status[j] = "SUBMITTED", status'[j] = "IN_PROGRESS"
               PROVE  FALSE
    OBVIOUS
  <2>1. TakeJob /\ j = current /\ pos \in 1..Len(queue)
    BY OnlyTaken
  <2>2. status[current] # "SUBMITTED"
    BY <2>1 DEF IInv, Bookkeeping, Ahead, TakeJob, InJob, current
  <2>3. QED
    BY <2>1, <2>2
<1>2. QED
  BY <1>1, Inductive, PTL DEF Spec, NoReapplication

\* If no selection repeats an id, a resumed run takes no decided job.
THEOREM ResumeIsSafe ==
  ASSUME ~RepeatedIds PROVE Spec => ResumeSkipsFinished
<1>1. IInv /\ [Next]_vars =>
        [\A j \in Ids : kind = "resume" /\ status'[j] = "IN_PROGRESS"
           => status[j] \in {"PENDING", "IN_PROGRESS"}]_vars
  <2> SUFFICES ASSUME IInv, [Next]_vars, NEW j \in Ids, kind = "resume",
                      status'[j] = "IN_PROGRESS", status[j] # "IN_PROGRESS"
               PROVE  status[j] = "PENDING"
    OBVIOUS
  <2>1. TakeJob /\ j = current /\ pos \in 1..Len(queue)
    BY OnlyTaken
  <2>2. status[current] \in {"PENDING", "IN_PROGRESS"}
    BY <2>1 DEF IInv, Bookkeeping, Ahead, TakeJob, InJob, current
  <2>3. QED
    BY <2>1, <2>2
<1>2. QED
  BY <1>1, Inductive, PTL DEF Spec, ResumeSkipsFinished
=============================================================================
