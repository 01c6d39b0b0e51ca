----------------------------- MODULE ServiceProofs -----------------------------
(***************************************************************************)
(* The keys that processes draw are unique and ascend, and no process      *)
(* loses the race for the bucket twice, for any number of processes, any   *)
(* layout of the ids and any clocks.                                       *)
(***************************************************************************)
EXTENDS Service, TLAPS

Sequences0 == 0..(SequenceCount - 1)
WorkerIds0 == 0..(WorkerIdCount - 1)

(* The first id of a millisecond, and so the end of those of the one before. *)
FirstId(timestamp) == (timestamp * WorkerIdCount) * SequenceCount

LEMMA ProductMonotone ==
  ASSUME NEW a \in Int, NEW b \in Int, NEW k \in Nat, a <= b
  PROVE  a * k <= b * k
<1>1. (b - a) * k >= 0
  OBVIOUS
<1>2. (b - a) * k = b * k - a * k
  OBVIOUS
<1>. QED  BY <1>1, <1>2

(* What a remainder is added to is determined by the sum. *)
LEMMA DivisionUnique ==
  ASSUME NEW k \in Nat \ {0}, NEW a \in Int, NEW b \in Int,
         NEW r \in 0..(k - 1), NEW q \in 0..(k - 1), a * k + r = b * k + q
  PROVE  a = b /\ r = q
<1>1. ASSUME NEW c \in Int, NEW d \in Int, NEW u \in 0..(k - 1), NEW v \in 0..(k - 1), c < d
      PROVE  c * k + u < d * k + v
  <2>1. (c + 1) * k <= d * k
    BY <1>1, ProductMonotone
  <2>2. (c + 1) * k = c * k + k
    OBVIOUS
  <2>3. c * k \in Int /\ d * k \in Int
    OBVIOUS
  <2>. QED  BY <2>1, <2>2, <2>3
<1>2. ~(a < b)
  BY <1>1
<1>3. ~(b < a)
  BY <1>1
<1>4. a = b
  BY <1>2, <1>3
<1>5. a * k \in Int
  OBVIOUS
<1>. QED  BY <1>4, <1>5

(* The ids of a millisecond. *)
LEMMA IdInMillisecond ==
  ASSUME NEW t \in Nat, NEW w \in WorkerIds0, NEW s \in Sequences0
  PROVE  Id(t, w, s) \in Int /\ FirstId(t) <= Id(t, w, s) /\ Id(t, w, s) < FirstId(t + 1)
<1>. DEFINE W == WorkerIdCount
            S == SequenceCount
<1>1. W \in Nat /\ S \in Nat /\ w \in Int /\ s \in Int /\ w >= 0 /\ s >= 0 /\ w + 1 <= W /\ s < S
  BY LayoutAssumption DEF WorkerIds0, Sequences0
<1>2. (t * W) * S <= (t * W + w) * S
  BY <1>1, ProductMonotone
<1>3. (t * W + w + 1) * S <= ((t + 1) * W) * S
  <2>1. (t + 1) * W = t * W + W
    BY <1>1
  <2>2. t * W + w + 1 <= (t + 1) * W
    BY <1>1, <2>1
  <2>3. t * W + w + 1 \in Int /\ (t + 1) * W \in Int
    BY <1>1
  <2>. QED  BY <1>1, <2>2, <2>3, ProductMonotone
<1>4. (t * W + w + 1) * S = (t * W + w) * S + S
  BY <1>1
<1>5. (t * W) * S \in Int /\ (t * W + w) * S \in Int /\ ((t + 1) * W) * S \in Int
  BY <1>1
<1>. QED  BY <1>1, <1>2, <1>3, <1>4, <1>5 DEF Id, FirstId

LEMMA LaterMillisecond ==
  ASSUME NEW t \in Nat, NEW u \in Nat, t <= u
  PROVE  FirstId(t) \in Int /\ FirstId(t) <= FirstId(u)
<1>1. WorkerIdCount \in Nat /\ SequenceCount \in Nat
  BY LayoutAssumption
<1>2. t * WorkerIdCount <= u * WorkerIdCount
  BY <1>1, ProductMonotone
<1>3. t * WorkerIdCount \in Int /\ u * WorkerIdCount \in Int
  BY <1>1
<1>4. (t * WorkerIdCount) * SequenceCount \in Int
  BY <1>1, <1>3
<1>. QED  BY <1>1, <1>2, <1>3, <1>4, ProductMonotone DEF FirstId

(* Ids of different worker ids differ. *)
LEMMA IdHasItsWorker ==
  ASSUME NEW t \in Nat, NEW u \in Nat, NEW w \in WorkerIds0, NEW v \in WorkerIds0,
         NEW s \in Sequences0, NEW r \in Sequences0, Id(t, w, s) = Id(u, v, r)
  PROVE  w = v
<1>1. WorkerIdCount \in Nat \ {0} /\ SequenceCount \in Nat \ {0}
  BY LayoutAssumption
<1>2. t * WorkerIdCount + w \in Int /\ u * WorkerIdCount + v \in Int
  BY <1>1 DEF WorkerIds0
<1>3. t * WorkerIdCount + w = u * WorkerIdCount + v
  BY <1>1, <1>2, DivisionUnique DEF Id, Sequences0
<1>. QED  BY <1>1, <1>3, DivisionUnique DEF WorkerIds0

LEMMA NextInSequence ==
  ASSUME NEW k \in Nat \ {0}, NEW s \in 0..(k - 1)
  PROVE  (s + 1) % k = IF s + 1 = k THEN 0 ELSE s + 1
<1>1. CASE s + 1 = k
  BY <1>1
<1>2. CASE s + 1 < k
  BY <1>2
<1>. QED  BY <1>1, <1>2

----------------------------------------------------------------------------
(* An id that nothing drawn so far reaches. *)
NextFree(g) ==
  IF last_timestamp[g] = -1 THEN FirstId(started_at[Host[g]])
  ELSE IF waiting[g] THEN FirstId(last_timestamp[g] + 1)
  ELSE Id(last_timestamp[g], WorkerId[g], sequence[g]) + 1

IdsTypeOK ==
  /\ clock \in [Hosts -> Nat]
  /\ started_at \in [Hosts -> Nat]
  /\ last_timestamp \in [Generators -> Nat \union {-1}]
  /\ sequence \in [Generators -> Sequences0]
  /\ waiting \in [Generators -> BOOLEAN]
  /\ issued \in [Generators -> Seq(Int)]

(* SetBack keeps every clock past the starts on its host. *)
ClocksPastStarts == \A h \in Hosts : started_at[h] <= clock[h]

WaitsForSequenceZero ==
  \A g \in Generators : waiting[g] => last_timestamp[g] # -1 /\ sequence[g] = 0

IssuedBelowNextFree ==
  \A g \in Generators : \A n \in DOMAIN issued[g] : issued[g][n] < NextFree(g)

IsIdOf(g, id) == \E t \in Nat, s \in Sequences0 : id = Id(t, WorkerId[g], s)

IssuedHaveTheirWorker ==
  \A g \in Generators : \A n \in DOMAIN issued[g] : IsIdOf(g, issued[g][n])

(* The inductive invariant: IdsAscend says nothing of the next id, and PrimaryKeysUnique
   needs the worker id that is in every id.                                             *)
IdsInv ==
  /\ IdsTypeOK
  /\ ClocksPastStarts
  /\ WaitsForSequenceZero
  /\ IssuedBelowNextFree
  /\ IssuedHaveTheirWorker
  /\ IdsAscend

LEMMA InvImpliesUnique == IdsInv => PrimaryKeysUnique
<1>. SUFFICES ASSUME IdsInv, NEW g \in Generators, NEW h \in Generators, Table[g] = Table[h],
                     NEW m \in DOMAIN issued[g], NEW n \in DOMAIN issued[h],
                     issued[g][m] = issued[h][n]
              PROVE  g = h /\ m = n
  BY DEF PrimaryKeysUnique
<1>1. g = h
  <2>1. PICK t \in Nat, s \in Sequences0 : issued[g][m] = Id(t, WorkerId[g], s)
    BY DEF IdsInv, IssuedHaveTheirWorker, IsIdOf
  <2>2. PICK u \in Nat, r \in Sequences0 : issued[h][n] = Id(u, WorkerId[h], r)
    BY DEF IdsInv, IssuedHaveTheirWorker, IsIdOf
  <2>3. WorkerId[g] \in WorkerIds0 /\ WorkerId[h] \in WorkerIds0
    BY WorkerIdAssumption DEF WorkerIds0
  <2>4. Id(t, WorkerId[g], s) = Id(u, WorkerId[h], r)
    BY <2>1, <2>2
  <2>5. WorkerId[g] = WorkerId[h]
    BY <2>3, <2>4, IdHasItsWorker
  <2>. QED  BY <2>5, WorkerIdsDiffer
<1>2. m = n
  <2>1. issued[g] \in Seq(Int) /\ m \in Int /\ n \in Int
    BY <1>1 DEF IdsInv, IdsTypeOK
  <2>2. issued[g][m] \in Int /\ issued[g][n] \in Int
    BY <2>1, <1>1
  <2>3. ~(m < n) /\ ~(n < m)
    BY <1>1, <2>2 DEF IdsInv, IdsAscend
  <2>. QED  BY <2>1, <2>3
<1>. QED  BY <1>1, <1>2

----------------------------------------------------------------------------
LEMMA AppendAscends ==
  ASSUME NEW s \in Seq(Int), NEW id \in Int,
         \A m, n \in DOMAIN s : m < n => s[m] < s[n],
         \A n \in DOMAIN s : s[n] < id
  PROVE  \A m, n \in DOMAIN Append(s, id) : m < n => Append(s, id)[m] < Append(s, id)[n]
<1>1. /\ DOMAIN Append(s, id) = 1..(Len(s) + 1) /\ DOMAIN s = 1..Len(s) /\ Len(s) \in Nat
      /\ Append(s, id)[Len(s) + 1] = id
      /\ \A n \in 1..Len(s) : Append(s, id)[n] = s[n]
  OBVIOUS
<1>. QED  BY <1>1

(* When the clock has left the last millisecond, its ids are all below those of now. *)
LEMMA NowIsFree ==
  ASSUME IdsInv, NEW g \in Generators, Now(g) > last_timestamp[g]
  PROVE  /\ Now(g) \in Nat
         /\ NextFree(g) \in Int
         /\ NextFree(g) <= FirstId(Now(g))
<1>1. /\ Host[g] \in Hosts /\ Now(g) \in Nat /\ started_at[Host[g]] \in Nat
      /\ started_at[Host[g]] <= Now(g)
  BY DEF Hosts, IdsInv, IdsTypeOK, ClocksPastStarts, Now
<1>2. CASE last_timestamp[g] = -1
  BY <1>1, <1>2, LaterMillisecond DEF NextFree
<1>3. CASE last_timestamp[g] # -1
  <2>1. last_timestamp[g] \in Nat /\ last_timestamp[g] + 1 <= Now(g)
        /\ last_timestamp[g] + 1 \in Nat
    BY <1>1, <1>3 DEF IdsInv, IdsTypeOK
  <2>2. /\ FirstId(last_timestamp[g] + 1) \in Int /\ FirstId(Now(g)) \in Int
        /\ FirstId(last_timestamp[g] + 1) <= FirstId(Now(g))
    BY <1>1, <2>1, LaterMillisecond
  <2>3. WorkerId[g] \in WorkerIds0 /\ sequence[g] \in Sequences0
    BY WorkerIdAssumption DEF WorkerIds0, IdsInv, IdsTypeOK
  <2>4. /\ Id(last_timestamp[g], WorkerId[g], sequence[g]) \in Int
        /\ Id(last_timestamp[g], WorkerId[g], sequence[g]) < FirstId(last_timestamp[g] + 1)
    BY <2>1, <2>3, IdInMillisecond
  <2>. QED  BY <1>1, <1>3, <2>2, <2>4 DEF NextFree
<1>. QED  BY <1>2, <1>3

(* A call that returns an id of the last millisecond or a later one. *)
LEMMA ReturnInv ==
  ASSUME IdsInv, NEW g \in Generators, NEW t \in Nat, NEW s \in Sequences0,
         Return(g, t, s), waiting' = [waiting EXCEPT ![g] = FALSE],
         UNCHANGED <<clock, started_at>>,
         NextFree(g) \in Int, NextFree(g) <= Id(t, WorkerId[g], s)
  PROVE  IdsInv'
<1>. DEFINE id == Id(t, WorkerId[g], s)
<1>1. id \in Int
  BY WorkerIdAssumption, IdInMillisecond DEF WorkerIds0
<1>2. IdsTypeOK'
  BY <1>1 DEF IdsInv, IdsTypeOK, Return
<1>3. ClocksPastStarts'
  BY DEF IdsInv, ClocksPastStarts
<1>4. WaitsForSequenceZero'
  BY DEF IdsInv, IdsTypeOK, WaitsForSequenceZero, Return
<1>5. /\ issued[g] \in Seq(Int) /\ issued'[g] = Append(issued[g], id)
      /\ \A n \in DOMAIN issued[g] : issued[g][n] < id
      /\ DOMAIN issued'[g] = DOMAIN issued[g] \union {Len(issued[g]) + 1}
      /\ issued'[g][Len(issued[g]) + 1] = id
      /\ \A n \in DOMAIN issued[g] : issued'[g][n] = issued[g][n]
      /\ \A h \in Generators \ {g} : issued'[h] = issued[h]
  <2>1. issued[g] \in Seq(Int) /\ issued'[g] = Append(issued[g], id)
    BY DEF IdsInv, IdsTypeOK, Return
  <2>2. \A n \in DOMAIN issued[g] : issued[g][n] < id
    <3>. SUFFICES ASSUME NEW n \in DOMAIN issued[g] PROVE issued[g][n] < id
      OBVIOUS
    <3>1. issued[g][n] \in Int /\ issued[g][n] < NextFree(g)
      BY <2>1 DEF IdsInv, IssuedBelowNextFree
    <3>. QED  BY <3>1, <1>1
  <2>. QED  BY <2>1, <2>2, <1>1 DEF IdsInv, IdsTypeOK, Return
<1>. HIDE DEF id
<1>6. IssuedBelowNextFree'
  <2>1. NextFree(g)' = id + 1
    BY DEF IdsInv, IdsTypeOK, Return, NextFree, id
  <2>2. \A h \in Generators \ {g} : NextFree(h)' = NextFree(h)
    BY DEF IdsInv, IdsTypeOK, Return, NextFree
  <2>3. \A n \in DOMAIN issued'[g] : issued'[g][n] < NextFree(g)'
    BY <1>1, <1>5, <2>1
  <2>. QED  BY <1>5, <2>2, <2>3 DEF IdsInv, IssuedBelowNextFree
<1>7. IssuedHaveTheirWorker'
  <2>1. \E u \in Nat, r \in Sequences0 : id = Id(u, WorkerId[g], r)
    BY DEF id
  <2>. SUFFICES ASSUME NEW h \in Generators, NEW n \in DOMAIN issued'[h]
                PROVE  \E u \in Nat, r \in Sequences0 : issued'[h][n] = Id(u, WorkerId[h], r)
    BY DEF IssuedHaveTheirWorker, IsIdOf, Id
  <2>2. CASE h = g /\ n = Len(issued[g]) + 1
    BY <1>5, <2>1, <2>2
  <2>3. CASE ~(h = g /\ n = Len(issued[g]) + 1)
    <3>1. n \in DOMAIN issued[h] /\ issued'[h][n] = issued[h][n]
      BY <1>5, <2>3
    <3>. QED  BY <3>1 DEF IdsInv, IssuedHaveTheirWorker, IsIdOf
  <2>. QED  BY <2>2, <2>3
<1>8. IdsAscend'
  BY <1>1, <1>5, AppendAscends DEF IdsInv, IdsAscend
<1>. QED  BY <1>2, <1>3, <1>4, <1>6, <1>7, <1>8 DEF IdsInv

LEMMA NewMillisecondInv ==
  ASSUME IdsInv, NEW g \in Generators, NewMillisecond(g), UNCHANGED started_at
  PROVE  IdsInv'
<1>1. Now(g) > last_timestamp[g] /\ clock[Host[g]] = Now(g)
  BY DEF NewMillisecond, IsNewMillisecond, Now
<1>2. Now(g) \in Nat /\ NextFree(g) \in Int /\ NextFree(g) <= FirstId(Now(g))
  BY <1>1, NowIsFree
<1>3. 0 \in Sequences0 /\ WorkerId[g] \in WorkerIds0
  BY LayoutAssumption, WorkerIdAssumption DEF Sequences0, WorkerIds0
<1>4. /\ Id(Now(g), WorkerId[g], 0) \in Int /\ FirstId(Now(g)) \in Int
      /\ FirstId(Now(g)) <= Id(Now(g), WorkerId[g], 0)
  BY <1>2, <1>3, IdInMillisecond, LaterMillisecond
<1>5. waiting' = [waiting EXCEPT ![g] = FALSE]
  BY DEF NewMillisecond, IdsInv, IdsTypeOK
<1>6. Return(g, Now(g), 0) /\ UNCHANGED clock
  BY DEF NewMillisecond
<1>7. NextFree(g) <= Id(Now(g), WorkerId[g], 0)
  BY <1>2, <1>4
<1>. QED  BY <1>2, <1>3, <1>5, <1>6, <1>7, ReturnInv

LEMMA WaitForNextMillisecondInv ==
  ASSUME IdsInv, NEW g \in Generators, WaitForNextMillisecond(g), UNCHANGED started_at
  PROVE  IdsInv'
<1>1. Now(g) > last_timestamp[g]
  BY DEF WaitForNextMillisecond, WaitIsOver
<1>2. Now(g) \in Nat /\ NextFree(g) \in Int /\ NextFree(g) <= FirstId(Now(g))
  BY <1>1, NowIsFree
<1>3. 0 \in Sequences0 /\ WorkerId[g] \in WorkerIds0 /\ sequence[g] = 0
  BY LayoutAssumption, WorkerIdAssumption
     DEF Sequences0, WorkerIds0, WaitForNextMillisecond, IdsInv, WaitsForSequenceZero
<1>4. /\ Id(Now(g), WorkerId[g], 0) \in Int /\ FirstId(Now(g)) \in Int
      /\ FirstId(Now(g)) <= Id(Now(g), WorkerId[g], 0)
  BY <1>2, <1>3, IdInMillisecond, LaterMillisecond
<1>5. /\ Return(g, Now(g), 0) /\ UNCHANGED clock
      /\ waiting' = [waiting EXCEPT ![g] = FALSE]
  BY <1>3 DEF WaitForNextMillisecond
<1>7. NextFree(g) <= Id(Now(g), WorkerId[g], 0)
  BY <1>2, <1>4
<1>. QED  BY <1>2, <1>3, <1>5, <1>7, ReturnInv

LEMMA SameMillisecondInv ==
  ASSUME IdsInv, NEW g \in Generators, SameMillisecond(g), UNCHANGED started_at
  PROVE  IdsInv'
<1>. DEFINE t == last_timestamp[g]
            s == sequence[g]
<1>1. /\ t \in Nat /\ s \in Sequences0 /\ NextSequence(g) # 0 /\ ~waiting[g] /\ Now(g) = t
      /\ WorkerId[g] \in WorkerIds0
  <2>1. Now(g) \in Nat
    BY DEF Now, Hosts, IdsInv, IdsTypeOK
  <2>. QED  BY <2>1, WorkerIdAssumption
            DEF SameMillisecond, WorkerIds0, IdsInv, IdsTypeOK
<1>. HIDE DEF t, s
<1>2. NextSequence(g) = s + 1 /\ s + 1 \in Sequences0
  <2>1. (s + 1) % SequenceCount = IF s + 1 = SequenceCount THEN 0 ELSE s + 1
    BY <1>1, LayoutAssumption, NextInSequence DEF Sequences0
  <2>. QED  BY <1>1, <2>1, LayoutAssumption DEF NextSequence, s, Sequences0
<1>3. Id(t, WorkerId[g], s + 1) = Id(t, WorkerId[g], s) + 1
  <2>1. (t * WorkerIdCount + WorkerId[g]) * SequenceCount \in Int
    BY <1>1, LayoutAssumption DEF WorkerIds0
  <2>. QED  BY <1>1, <2>1 DEF Id, Sequences0
<1>4. NextFree(g) = Id(t, WorkerId[g], s) + 1
  BY <1>1 DEF NextFree, t, s
<1>5. Id(t, WorkerId[g], s) \in Int
  BY <1>1, IdInMillisecond
<1>6. Return(g, t, s + 1) /\ UNCHANGED clock
  BY <1>1, <1>2 DEF SameMillisecond
<1>7. waiting' = [waiting EXCEPT ![g] = FALSE]
  BY DEF SameMillisecond, IdsInv, IdsTypeOK
<1>8. NextFree(g) \in Int /\ NextFree(g) <= Id(t, WorkerId[g], s + 1)
  BY <1>3, <1>4, <1>5
<1>. QED  BY <1>1, <1>2, <1>6, <1>7, <1>8, ReturnInv

LEMMA MillisecondUsedUpInv ==
  ASSUME IdsInv, NEW g \in Generators, MillisecondUsedUp(g), UNCHANGED started_at
  PROVE  IdsInv'
<1>1. /\ last_timestamp[g] \in Nat /\ ~waiting[g] /\ sequence[g] \in Sequences0
      /\ WorkerId[g] \in WorkerIds0 /\ 0 \in Sequences0
  <2>1. Now(g) \in Nat
    BY DEF Now, Hosts, IdsInv, IdsTypeOK
  <2>2. 0 \in Sequences0
    BY LayoutAssumption DEF Sequences0
  <2>. QED  BY <2>1, <2>2, WorkerIdAssumption
            DEF MillisecondUsedUp, WorkerIds0, IdsInv, IdsTypeOK
<1>2. IdsTypeOK' /\ ClocksPastStarts' /\ WaitsForSequenceZero'
  BY <1>1 DEF MillisecondUsedUp, IdsInv, IdsTypeOK, ClocksPastStarts, WaitsForSequenceZero
<1>3. IssuedBelowNextFree'
  <2>1. /\ Id(last_timestamp[g], WorkerId[g], sequence[g]) \in Int
        /\ Id(last_timestamp[g], WorkerId[g], sequence[g]) < FirstId(last_timestamp[g] + 1)
    BY <1>1, IdInMillisecond
  <2>2. FirstId(last_timestamp[g] + 1) \in Int
    BY <1>1, LaterMillisecond
  <2>3. /\ NextFree(g) = Id(last_timestamp[g], WorkerId[g], sequence[g]) + 1
        /\ NextFree(g)' = FirstId(last_timestamp[g] + 1)
    BY <1>1 DEF NextFree, MillisecondUsedUp, IdsInv, IdsTypeOK, FirstId
  <2>4. \A h \in Generators \ {g} : NextFree(h)' = NextFree(h)
    BY DEF NextFree, MillisecondUsedUp, IdsInv, IdsTypeOK
  <2>5. \A n \in DOMAIN issued[g] : issued[g][n] \in Int /\ issued[g][n] < NextFree(g)
    BY DEF IdsInv, IdsTypeOK, IssuedBelowNextFree
  <2>6. \A n \in DOMAIN issued[g] : issued[g][n] < NextFree(g)'
    BY <2>1, <2>2, <2>3, <2>5
  <2>. QED  BY <2>4, <2>6 DEF IdsInv, IssuedBelowNextFree, MillisecondUsedUp
<1>4. IssuedHaveTheirWorker' /\ IdsAscend'
  BY DEF MillisecondUsedUp, IdsInv, IssuedHaveTheirWorker, IsIdOf, Id, IdsAscend
<1>. QED  BY <1>2, <1>3, <1>4 DEF IdsInv

(* A new generator, on a clock past the ids of the one before it. *)
LEMMA StartGeneratorInv ==
  ASSUME IdsInv, NEW g \in Generators, StartGenerator(g), UNCHANGED <<clock, issued>>
  PROVE  IdsInv'
<1>1. /\ Now(g) \in Nat /\ NextFree(g) \in Int /\ NextFree(g) <= FirstId(Now(g))
      /\ FirstId(Now(g)) \in Int
  BY NowIsFree, LaterMillisecond DEF StartGenerator
<1>2. Host[g] \in Hosts /\ clock[Host[g]] = Now(g) /\ 0 \in Sequences0
  BY LayoutAssumption DEF Hosts, Now, Sequences0
<1>3. IdsTypeOK' /\ ClocksPastStarts' /\ WaitsForSequenceZero'
  BY <1>1, <1>2 DEF StartGenerator, NewGenerator, IdsInv, IdsTypeOK, ClocksPastStarts,
                    WaitsForSequenceZero
<1>4. IssuedBelowNextFree'
  <2>. SUFFICES ASSUME NEW h \in Generators, NEW n \in DOMAIN issued[h]
                PROVE  issued[h][n] < NextFree(h)'
    BY DEF IssuedBelowNextFree
  <2>1. issued[h][n] \in Int /\ issued[h][n] < NextFree(h)
    BY DEF IdsInv, IdsTypeOK, IssuedBelowNextFree
  <2>2. CASE h = g
    <3>1. NextFree(g)' = FirstId(Now(g))
      BY <1>2 DEF NextFree, StartGenerator, NewGenerator, IdsInv, IdsTypeOK, FirstId
    <3>. QED  BY <1>1, <2>1, <2>2, <3>1
  <2>3. CASE h # g /\ last_timestamp[h] = -1 /\ Host[h] = Host[g]
    <3>1. NextFree(h) = FirstId(started_at[Host[g]]) /\ NextFree(h)' = FirstId(Now(g))
      BY <1>2, <2>3 DEF NextFree, StartGenerator, NewGenerator, IdsInv, IdsTypeOK, FirstId
    <3>2. started_at[Host[g]] \in Nat /\ started_at[Host[g]] <= Now(g)
      BY <1>2 DEF IdsInv, IdsTypeOK, ClocksPastStarts
    <3>. QED  BY <1>1, <2>1, <3>1, <3>2, LaterMillisecond
  <2>4. CASE h # g /\ ~(last_timestamp[h] = -1 /\ Host[h] = Host[g])
    <3>1. NextFree(h)' = NextFree(h)
      BY <1>2, <2>4 DEF NextFree, StartGenerator, NewGenerator, IdsInv, IdsTypeOK, FirstId,
                        Hosts
    <3>. QED  BY <2>1, <3>1
  <2>. QED  BY <2>2, <2>3, <2>4
<1>5. IssuedHaveTheirWorker' /\ IdsAscend'
  BY DEF IdsInv, IssuedHaveTheirWorker, IsIdOf, Id, IdsAscend
<1>. QED  BY <1>3, <1>4, <1>5 DEF IdsInv

----------------------------------------------------------------------------
(* A step that moves no generator, only clocks forward or back to a start. *)
LEMMA ClockInv ==
  ASSUME IdsInv, NEW h \in Hosts, NEW t \in Nat, started_at[h] <= t,
         clock' = [clock EXCEPT ![h] = t], UNCHANGED <<generator, issued, started_at>>
  PROVE  IdsInv'
<1>1. IdsTypeOK' /\ ClocksPastStarts' /\ WaitsForSequenceZero'
  BY DEF generator, IdsInv, IdsTypeOK, ClocksPastStarts, WaitsForSequenceZero
<1>2. IssuedBelowNextFree'
  BY DEF generator, IdsInv, IssuedBelowNextFree, NextFree, FirstId, Id
<1>3. IssuedHaveTheirWorker' /\ IdsAscend'
  BY DEF IdsInv, IssuedHaveTheirWorker, IsIdOf, Id, IdsAscend
<1>. QED  BY <1>1, <1>2, <1>3 DEF IdsInv

LEMMA IdsUnchanged == IdsInv /\ UNCHANGED <<ids, started_at>> => IdsInv'
BY DEF ids, IdsInv, IdsTypeOK, ClocksPastStarts, WaitsForSequenceZero, IssuedBelowNextFree,
       NextFree, FirstId, Id, IssuedHaveTheirWorker, IsIdOf, IdsAscend

LEMMA InitIds == Init => IdsInv
<1>. SUFFICES ASSUME Init PROVE IdsInv
  OBVIOUS
<1>1. 0 \in Sequences0
  BY LayoutAssumption DEF Sequences0
<1>2. IdsTypeOK /\ ClocksPastStarts /\ WaitsForSequenceZero
  BY <1>1 DEF Init, IdsTypeOK, ClocksPastStarts, WaitsForSequenceZero
<1>3. \A g \in Generators : DOMAIN issued[g] = {}
  <2>1. \A g \in Generators : issued[g] = <<>>
    BY DEF Init
  <2>2. DOMAIN <<>> = {}
    OBVIOUS
  <2>. QED  BY <2>1, <2>2, Zenon
<1>4. IssuedBelowNextFree /\ IssuedHaveTheirWorker
  BY <1>3 DEF IssuedBelowNextFree, IssuedHaveTheirWorker
<1>5. IdsAscend
  BY <1>3 DEF IdsAscend
<1>. QED  BY <1>2, <1>4, <1>5 DEF IdsInv

LEMMA NextIds == IdsInv /\ [Next]_vars => IdsInv'
<1>. SUFFICES ASSUME IdsInv, [Next]_vars PROVE IdsInv'
  OBVIOUS
<1>1. ASSUME NEW p \in Generators, Start(p) PROVE IdsInv'
  BY <1>1, StartGeneratorInv DEF Start
<1>2. ASSUME NEW p \in Generators, EnsureBucket(p) \/ Fail(p) PROVE IdsInv'
  BY <1>2, IdsUnchanged DEF EnsureBucket, Fail
<1>3. ASSUME NEW g \in Generators, CallNextId(g) PROVE IdsInv'
  BY <1>3, NewMillisecondInv, SameMillisecondInv, MillisecondUsedUpInv DEF CallNextId, NextId
<1>4. ASSUME NEW g \in Generators, FinishWait(g) PROVE IdsInv'
  BY <1>4, WaitForNextMillisecondInv DEF FinishWait
<1>5. ASSUME NEW g \in Generators, NextIdRaises(g) PROVE IdsInv'
  BY <1>5, IdsUnchanged DEF NextIdRaises
<1>6. ASSUME NEW h \in Hosts, Tick(h) PROVE IdsInv'
  <2>1. clock[h] \in Nat /\ started_at[h] \in Nat /\ started_at[h] <= clock[h]
    BY DEF IdsInv, IdsTypeOK, ClocksPastStarts
  <2>2. PICK t \in (clock[h] + 1)..(clock[h] + 2) : clock' = [clock EXCEPT ![h] = t]
    BY <1>6 DEF Tick
  <2>3. t \in Nat /\ started_at[h] <= t
    BY <2>1, <2>2
  <2>. QED  BY <1>6, <2>2, <2>3, ClockInv DEF Tick
<1>7. ASSUME NEW h \in Hosts, SetBack(h) PROVE IdsInv'
  <2>1. clock[h] \in Nat /\ started_at[h] \in Nat
    BY DEF IdsInv, IdsTypeOK
  <2>2. PICK t \in started_at[h]..(clock[h] - 1) : clock' = [clock EXCEPT ![h] = t]
    BY <1>7 DEF SetBack
  <2>3. t \in Nat /\ started_at[h] <= t
    BY <2>1, <2>2
  <2>. QED  BY <1>7, <2>2, <2>3, ClockInv DEF SetBack
<1>8. CASE UNCHANGED vars
  BY <1>8, IdsUnchanged DEF vars
<1>. QED  BY <1>1, <1>2, <1>3, <1>4, <1>5, <1>6, <1>7, <1>8 DEF Next

----------------------------------------------------------------------------
(* Why nobody is refused twice: who finds the bucket does not try to make it.  The
   process that made it is the one that was never refused.                         *)
BucketInv ==
  /\ refused \in [Generators -> Nat]
  /\ phase \in [Generators -> PhaseNames]
  /\ \A p \in Generators : refused[p] <= 1
  /\ \A p \in Generators : refused[p] = 1 => bucket_exists /\ phase[p] # "make_bucket"
  /\ bucket_exists => \E p \in Generators : refused[p] = 0 /\ phase[p] # "make_bucket"

LEMMA BucketInvImpliesLostOnce == BucketInv => BucketRaceLostOnce
<1>. SUFFICES ASSUME BucketInv PROVE BucketRaceLostOnce
  OBVIOUS
<1>1. CASE bucket_exists
  BY <1>1 DEF BucketInv, BucketRaceLostOnce
<1>2. CASE ~bucket_exists
  <2>1. ASSUME NEW p \in Generators PROVE refused[p] = 0
    <3>1. refused[p] \in Nat /\ refused[p] <= 1
      BY DEF BucketInv
    <3>2. refused[p] # 1
      BY <1>2 DEF BucketInv
    <3>. QED  BY <3>1, <3>2
  <2>. QED  BY <2>1, ExtractorsAssumption DEF BucketRaceLostOnce
<1>. QED  BY <1>1, <1>2

LEMMA InitBucket == Init => BucketInv
BY DEF Init, BucketInv, PhaseNames

LEMMA NextBucket == BucketInv /\ [Next]_vars => BucketInv'
<1>. SUFFICES ASSUME BucketInv, [Next]_vars PROVE BucketInv'
  OBVIOUS
<1>. USE DEF BucketInv, PhaseNames, Goto
<1>1. ASSUME NEW p \in Generators, Start(p) PROVE BucketInv'
  BY <1>1 DEF Start
<1>2. ASSUME NEW p \in Generators, EnsureBucket(p) PROVE BucketInv'
  <2>1. CASE CheckBucket(p) /\ UNCHANGED <<bucket_exists, refused>>
    BY <2>1 DEF CheckBucket
  <2>2. CASE MakeBucket(p)
    BY <2>2 DEF MakeBucket
  <2>3. CASE BucketMadeByAnother(p)
    BY <2>3 DEF BucketMadeByAnother
  <2>. QED  BY <1>2, <2>1, <2>2, <2>3 DEF EnsureBucket
<1>3. ASSUME NEW p \in Generators, Fail(p) PROVE BucketInv'
  BY <1>3 DEF Fail
<1>4. ASSUME NEW g \in Generators, NextIdRaises(g) PROVE BucketInv'
  BY <1>4 DEF NextIdRaises
<1>5. CASE UNCHANGED <<phase, bucket_exists, refused>>
  BY <1>5
<1>6. ASSUME NEW g \in Generators, CallNextId(g) \/ FinishWait(g)
      PROVE  UNCHANGED <<phase, bucket_exists, refused>>
  BY <1>6 DEF CallNextId, FinishWait
<1>7. ASSUME NEW h \in Hosts, Tick(h) \/ SetBack(h)
      PROVE  UNCHANGED <<phase, bucket_exists, refused>>
  BY <1>7 DEF Tick, SetBack
<1>. QED  BY <1>1, <1>2, <1>3, <1>4, <1>5, <1>6, <1>7 DEF Next, vars

----------------------------------------------------------------------------
(* No primary key is drawn twice, whatever the clocks do while processes run, over
   restarts, and by any number of processes whose worker ids differ per table.     *)
THEOREM KeysAreUnique == Spec => []PrimaryKeysUnique
<1>1. Init => IdsInv
  BY InitIds
<1>2. IdsInv /\ [Next]_vars => IdsInv'
  BY NextIds
<1>3. IdsInv => PrimaryKeysUnique
  BY InvImpliesUnique
<1>. QED  BY <1>1, <1>2, <1>3, PTL DEF Spec

(* Each process draws ascending ids, over restarts and set-back clocks. *)
THEOREM KeysAscend == Spec => []IdsAscend
<1>1. Init => IdsInv
  BY InitIds
<1>2. IdsInv /\ [Next]_vars => IdsInv'
  BY NextIds
<1>3. IdsInv => IdsAscend
  BY DEF IdsInv
<1>. QED  BY <1>1, <1>2, <1>3, PTL DEF Spec

(* Processes that start at once lose the race for the bucket once at most, and one of
   them not at all.                                                                   *)
THEOREM BucketRace == Spec => []BucketRaceLostOnce
<1>1. Init => BucketInv
  BY InitBucket
<1>2. BucketInv /\ [Next]_vars => BucketInv'
  BY NextBucket
<1>3. BucketInv => BucketRaceLostOnce
  BY BucketInvImpliesLostOnce
<1>. QED  BY <1>1, <1>2, <1>3, PTL DEF Spec
=============================================================================
