--------------------------- MODULE SchedulerProofs ---------------------------
(***************************************************************************)
(* Theorems about Scheduler, for every pool, every set of tasks and every  *)
(* bound: its types, its two counters, and the exclusive execution of      *)
(* tasks in the cases in which the code ensures it.                        *)
(***************************************************************************)
EXTENDS Scheduler, FiniteSetTheorems, SequenceTheorems, TLAPS

-----------------------------------------------------------------------------
(* Sequences and counting. *)

(* What RemoveAt leaves of a sequence. *)
LEMMA RemoveAtProperties ==
    ASSUME NEW S, NEW s \in Seq(S), NEW i \in 1..Len(s)
    PROVE  /\ RemoveAt(s, i) \in Seq(S)
           /\ Len(RemoveAt(s, i)) = Len(s) - 1
           /\ \A k \in 1..(Len(s) - 1) :
                RemoveAt(s, i)[k] = s[IF k < i THEN k ELSE k + 1]
  <1> DEFINE a == SubSeq(s, 1, i - 1)
             b == SubSeq(s, i + 1, Len(s))
  <1>1. /\ a \in Seq(S) /\ Len(a) = i - 1
        /\ \A k \in 1..(i - 1) : a[k] = s[k]
    BY SubSeqProperties
  <1>2. /\ b \in Seq(S) /\ Len(b) = Len(s) - i
        /\ \A k \in 1..(Len(s) - i) : b[k] = s[i + k]
    BY SubSeqProperties
  <1>3. RemoveAt(s, i) = a \o b
    BY DEF RemoveAt
  <1> HIDE DEF a, b
  <1>0. Len(s) \in Nat /\ (i - 1) + (Len(s) - i) = Len(s) - 1
    OBVIOUS
  <1>a. /\ a \o b \in Seq(S) /\ Len(a \o b) = Len(a) + Len(b)
        /\ \A k \in 1..(Len(a) + Len(b)) :
             (a \o b)[k] = IF k <= Len(a) THEN a[k] ELSE b[k - Len(a)]
    BY <1>1, <1>2, ConcatProperties
  <1>4. /\ a \o b \in Seq(S) /\ Len(a \o b) = Len(s) - 1
        /\ \A k \in 1..(Len(s) - 1) :
             (a \o b)[k] = IF k <= i - 1 THEN a[k] ELSE b[k - (i - 1)]
    BY <1>0, <1>a, <1>1, <1>2
  <1>5. ASSUME NEW k \in 1..(Len(s) - 1)
        PROVE  RemoveAt(s, i)[k] = s[IF k < i THEN k ELSE k + 1]
    <2>1. CASE k < i
      BY <2>1, <1>1, <1>3, <1>4
    <2>2. CASE k >= i
      <3>1. k - (i - 1) \in 1..(Len(s) - i)
        BY <2>2
      <3>2. b[k - (i - 1)] = s[i + (k - (i - 1))]
        BY <3>1, <1>2
      <3> QED
        BY <2>2, <3>2, <1>3, <1>4
    <2> QED
      BY <2>1, <2>2
  <1> QED
    BY <1>3, <1>4, <1>5

CountAt(p, A) == Cardinality({t \in Threads : p[t] \in A})

(* How a count of threads changes when one of them moves. *)
LEMMA CountMove ==
    ASSUME NEW p \in [Threads -> PCs], NEW t \in Threads, NEW l \in PCs, NEW A
    PROVE  /\ CountAt(p, A) \in Nat
           /\ CountAt([p EXCEPT ![t] = l], A) =
                CountAt(p, A) + (IF l \in A THEN 1 ELSE 0) - (IF p[t] \in A THEN 1 ELSE 0)
           /\ p[t] \in A => CountAt(p, A) > 0
  <1> DEFINE S == {u \in Threads : p[u] \in A}
             q == [p EXCEPT ![t] = l]
             T == {u \in Threads : q[u] \in A}
  <1>1. IsFiniteSet(S)
    BY ThreadsAssumption, FS_Subset
  <1>2. Cardinality(S) \in Nat
    BY <1>1, FS_CardinalityType
  <1>3. /\ IsFiniteSet(S \cup {t})
        /\ Cardinality(S \cup {t}) = IF t \in S THEN Cardinality(S) ELSE Cardinality(S) + 1
    BY <1>1, FS_AddElement
  <1>4. Cardinality(S \ {t}) = IF t \in S THEN Cardinality(S) - 1 ELSE Cardinality(S)
    BY <1>1, FS_RemoveElement
  <1>5. T = IF l \in A THEN S \cup {t} ELSE S \ {t}
    OBVIOUS
  <1>6. t \in S <=> p[t] \in A
    OBVIOUS
  <1>7. p[t] \in A => Cardinality(S) # 0
    BY <1>1, <1>6, FS_EmptySet
  <1>8. CountAt(p, A) = Cardinality(S) /\ CountAt(q, A) = Cardinality(T)
    BY DEF CountAt
  <1> HIDE DEF S, T, q
  <1>9. Cardinality(T) = Cardinality(S) + (IF l \in A THEN 1 ELSE 0) - (IF p[t] \in A THEN 1 ELSE 0)
    <2>1. CASE l \in A
      BY <2>1, <1>2, <1>3, <1>5, <1>6
    <2>2. CASE l \notin A
      BY <2>2, <1>2, <1>4, <1>5, <1>6
    <2> QED
      BY <2>1, <2>2
  <1>10. p[t] \in A => Cardinality(S) > 0
    BY <1>2, <1>7
  <1> QED
    BY <1>2, <1>8, <1>9, <1>10 DEF q

-----------------------------------------------------------------------------
(* Types and counters. *)

IdlePCs == {"idling", "idleback"}

(* The owner of the scheduler starts the pool only when no worker runs. *)
PoolDown ==
    /\ client = "idle" => \A t \in Threads : pc[t] = "new"
    /\ client = "stopped" => \A t \in Threads : pc[t] = "exited"

OwnersHaveItems == \A t \in Threads : pc[t] \in Owning => ft[t] \in Item

CountInv ==
    /\ TypeOK
    /\ CountsExact
    /\ PoolDown
    /\ OwnersHaveItems

LEMMA ItemFields ==
    ASSUME NEW it \in Item
    PROVE  it.task \in Tasks /\ it.kind \in {"fiber", "cb"} /\ it.thread \in Threads \cup {AnyThread}
  BY DEF Item

LEMMA NewItemType ==
    ASSUME NEW f \in Tasks, NEW k \in {"fiber", "cb"}, NEW th \in Threads \cup {AnyThread}
    PROVE  NewItem(f, k, th) \in Item
  BY DEF NewItem, Item

LEMMA KindType == \A f : Kind(f) \in {"fiber", "cb"}
  BY DEF Kind

LEMMA CountInit == Init => CountInv
  <1> SUFFICES ASSUME Init PROVE CountInv
    OBVIOUS
  <1>1. {t \in Threads : pc[t] \in Active} = {} /\ {t \in Threads : pc[t] \in IdlePCs} = {}
    BY DEF Init, Active, IdlePCs
  <1>2. CountsExact
    BY <1>1, FS_EmptySet DEF Init, CountsExact, IdlePCs
  <1>3. TypeOK
    <2>1. fibers \in Seq(Item)
      BY DEF Init
    <2>2. /\ state \in [Tasks -> FiberState] /\ saved \in [Tasks -> BOOLEAN]
          /\ calls \in [Tasks -> 0..2] /\ yields \in [Tasks -> 0..MaxYields]
          /\ pin \in [Tasks -> Threads \cup {AnyThread}]
      BY BoundsAssumption DEF Init, FiberState
    <2>3. /\ pc \in [Threads -> PCs] /\ ft \in [Threads -> Item \cup {NoItem}]
          /\ idleState \in [Threads -> {"INIT", "EXEC", "HOLD", "TERM"}]
      BY DEF Init, PCs
    <2>4. active \in Nat /\ idle \in Nat /\ starts \in 0..MaxStarts
      BY BoundsAssumption DEF Init
    <2>6. /\ autoStop \in BOOLEAN /\ stopping \in BOOLEAN
          /\ waiters \subseteq Holders /\ ended \subseteq Tasks
      BY Zenon DEF Init
    <2>5. /\ client \in {"idle", "running", "stop", "joining", "stopped"}
          /\ fault \in {"none", "assert", "stale", "over"}
      BY DEF Init
    <2> QED
      BY <2>1, <2>2, <2>3, <2>4, <2>5, <2>6 DEF TypeOK, FlagsOK, DataOK
  <1>4. PoolDown /\ OwnersHaveItems
    BY DEF Init, PoolDown, OwnersHaveItems, Owning
  <1> QED
    BY <1>2, <1>3, <1>4 DEF CountInv

(* A step that moves no worker keeps the counters exact. *)
LEMMA StillCounts ==
    ASSUME CountsExact, UNCHANGED <<pc, active, idle>>
    PROVE  CountsExact'
  BY DEF CountsExact

(* A schedule() call changes the queue and its ghosts only. *)
LEMMA UnchangedRest ==
    ASSUME TypeOK,
           UNCHANGED <<pc, ft, idleState, fault, fiberVars, countVars, clientVars>>,
           fibers' \in Seq(Item), calls' \in [Tasks -> 0..2],
           pin' \in [Tasks -> Threads \cup {AnyThread}]
    PROVE  TypeOK'
  BY DEF TypeOK, FlagsOK, DataOK, fiberVars, countVars, clientVars

LEMMA ClientKeepsCountInv ==
    ASSUME CountInv, Client
    PROVE  CountInv'
  <1> USE DEF CountInv
  <1>1. CASE Start
    <2>1. TypeOK'
      <3>1. DataOK'
        BY <1>1, BoundsAssumption DEF Start, TypeOK, DataOK, queueVars, fiberVars, countVars, PCs
      <3>2. FlagsOK'
        BY <1>1, Zenon DEF Start, TypeOK, FlagsOK
      <3> QED
        BY <3>1, <3>2 DEF TypeOK
    <2>2. /\ {t \in Threads : pc[t] \in Active} = {} /\ {t \in Threads : pc'[t] \in Active} = {}
          /\ {t \in Threads : pc[t] \in IdlePCs} = {} /\ {t \in Threads : pc'[t] \in IdlePCs} = {}
      BY <1>1 DEF Start, PoolDown, Active, IdlePCs
    <2>3. CountsExact'
      BY <1>1, <2>2 DEF Start, CountsExact, countVars, IdlePCs
    <2>4. PoolDown' /\ OwnersHaveItems'
      BY <1>1 DEF Start, PoolDown, OwnersHaveItems, Owning
    <2> QED
      BY <2>1, <2>3, <2>4
  <1>2. CASE StopBegin \/ StopRequest \/ StopJoin
    <2>1. TypeOK'
      BY <1>2 DEF StopBegin, StopRequest, StopJoin, TypeOK, FlagsOK, DataOK, queueVars, fiberVars, countVars
    <2>2. CountsExact' /\ OwnersHaveItems'
      BY <1>2 DEF StopBegin, StopRequest, StopJoin, CountsExact, OwnersHaveItems, countVars
    <2>3. PoolDown'
      BY <1>2 DEF StopBegin, StopRequest, StopJoin, PoolDown
    <2> QED
      BY <2>1, <2>2, <2>3
  <1>3. ASSUME NEW f \in Tasks, NEW th \in Pins, Schedule(f, th)
        PROVE  CountInv'
    <2>1. NewItem(f, Kind(f), th) \in Item /\ th \in Threads \cup {AnyThread}
      BY NewItemType, KindType, PinsAssumption
    <2>2. TypeOK'
      BY <1>3, <2>1 DEF Schedule, Enqueue, TypeOK, FlagsOK, DataOK, fiberVars, countVars, clientVars
    <2>3. CountsExact' /\ OwnersHaveItems' /\ PoolDown'
      BY <1>3 DEF Schedule, CountsExact, OwnersHaveItems, PoolDown, countVars, clientVars
    <2> QED
      BY <2>2, <2>3
  <1>4. ASSUME NEW f \in Tasks, NEW g \in Tasks, ScheduleBatch(f, g)
        PROVE  CountInv'
    <2>1. /\ NewItem(f, Kind(f), AnyThread) \in Item
          /\ NewItem(g, Kind(g), AnyThread) \in Item
      BY NewItemType, KindType
    <2>2. TypeOK'
      <3> DEFINE two == <<NewItem(f, Kind(f), AnyThread), NewItem(g, Kind(g), AnyThread)>>
      <3>1. two \in Seq(Item)
        BY <2>1
      <3>2. fibers' \in Seq(Item)
        <4> HIDE DEF two
        <4> QED
          BY <1>4, <3>1, ConcatProperties DEF ScheduleBatch, TypeOK, DataOK, two
      <3>3. calls' \in [Tasks -> 0..2] /\ pin' \in [Tasks -> Threads \cup {AnyThread}]
        BY <1>4 DEF ScheduleBatch, TypeOK, DataOK
      <3>4. UNCHANGED <<pc, ft, idleState, fault, fiberVars, countVars, clientVars>>
        BY <1>4 DEF ScheduleBatch
      <3> QED
        BY <3>2, <3>3, <3>4, UnchangedRest
    <2>3. CountsExact' /\ OwnersHaveItems' /\ PoolDown'
      BY <1>4 DEF ScheduleBatch, CountsExact, OwnersHaveItems, PoolDown, countVars, clientVars
    <2> QED
      BY <2>2, <2>3
  <1> QED
    BY <1>1, <1>2, <1>3, <1>4 DEF Client

(* What the steps of a worker have in common: worker t, which is in run(),
   goes to l, and the counters follow the sets they count. *)
Move(t, l) ==
    /\ pc[t] \notin {"new", "exited"}
    /\ l \in PCs
    /\ pc' = [pc EXCEPT ![t] = l]
    /\ UNCHANGED clientVars
    /\ \A u \in Threads \ {t} : ft'[u] = ft[u]
    /\ l \in Owning => ft'[t] \in Item
    /\ active' = active + (IF l \in Active THEN 1 ELSE 0) - (IF pc[t] \in Active THEN 1 ELSE 0)
    /\ idle' = idle + (IF l \in IdlePCs THEN 1 ELSE 0) - (IF pc[t] \in IdlePCs THEN 1 ELSE 0)

LEMMA MoveKeepsCountInv ==
    ASSUME CountInv, NEW t \in Threads, NEW l, Move(t, l), (active' \in Nat /\ idle' \in Nat) => DataOK'
    PROVE  CountInv'
  <1> USE DEF CountInv
  <1>1. pc \in [Threads -> PCs] /\ l \in PCs /\ pc' = [pc EXCEPT ![t] = l]
    BY DEF Move, TypeOK, DataOK
  <1>2. active = CountAt(pc, Active) /\ idle = CountAt(pc, IdlePCs)
    BY DEF CountsExact, CountAt, IdlePCs
  <1>3. ASSUME NEW A
        PROVE  /\ CountAt(pc, A) \in Nat
               /\ CountAt(pc', A) =
                    CountAt(pc, A) + (IF l \in A THEN 1 ELSE 0) - (IF pc[t] \in A THEN 1 ELSE 0)
               /\ pc[t] \in A => CountAt(pc, A) > 0
    <2> DEFINE q == [pc EXCEPT ![t] = l]
    <2>1. CountAt(pc', A) = CountAt(q, A)
      BY <1>1
    <2>2. /\ CountAt(pc, A) \in Nat
          /\ CountAt(q, A) =
               CountAt(pc, A) + (IF l \in A THEN 1 ELSE 0) - (IF pc[t] \in A THEN 1 ELSE 0)
          /\ pc[t] \in A => CountAt(pc, A) > 0
      BY <1>1, CountMove
    <2> QED
      BY <2>1, <2>2
  <1>5. active' = CountAt(pc', Active) /\ active' \in Nat
    <2>1. /\ CountAt(pc, Active) \in Nat
          /\ CountAt(pc', Active) =
               CountAt(pc, Active) + (IF l \in Active THEN 1 ELSE 0) - (IF pc[t] \in Active THEN 1 ELSE 0)
          /\ pc[t] \in Active => CountAt(pc, Active) > 0
      BY <1>3
    <2>2. active' = active + (IF l \in Active THEN 1 ELSE 0) - (IF pc[t] \in Active THEN 1 ELSE 0)
      BY DEF Move
    <2> QED
      BY <1>2, <2>1, <2>2
  <1>6. idle' = CountAt(pc', IdlePCs) /\ idle' \in Nat
    <2>1. /\ CountAt(pc, IdlePCs) \in Nat
          /\ CountAt(pc', IdlePCs) =
               CountAt(pc, IdlePCs) + (IF l \in IdlePCs THEN 1 ELSE 0) - (IF pc[t] \in IdlePCs THEN 1 ELSE 0)
          /\ pc[t] \in IdlePCs => CountAt(pc, IdlePCs) > 0
      BY <1>3
    <2>2. idle' = idle + (IF l \in IdlePCs THEN 1 ELSE 0) - (IF pc[t] \in IdlePCs THEN 1 ELSE 0)
      BY DEF Move
    <2> QED
      BY <1>2, <2>1, <2>2
  <1>7. CountsExact'
    BY <1>5, <1>6 DEF CountsExact, CountAt, IdlePCs
  <1>8. FlagsOK'
    BY DEF Move, clientVars, TypeOK, FlagsOK
  <1>9. PoolDown'
    BY DEF Move, clientVars, PoolDown
  <1>10. OwnersHaveItems'
    BY <1>1 DEF Move, OwnersHaveItems
  <1> QED
    BY <1>5, <1>6, <1>7, <1>8, <1>9, <1>10 DEF TypeOK

(* A step that moves no worker and changes neither the counters nor the
   client. *)
LEMMA StayKeepsCountInv ==
    ASSUME CountInv, DataOK', UNCHANGED <<pc, ft, countVars, clientVars>>
    PROVE  CountInv'
  BY DEF CountInv, TypeOK, FlagsOK, CountsExact, PoolDown, OwnersHaveItems, countVars, clientVars

(* The steps of run() itself. *)
LEMMA LoopKeepsCountInv ==
    ASSUME CountInv, NEW t \in Threads, Loop(t)
    PROVE  CountInv'
  <1> USE DEF CountInv, Goto, countVars, fiberVars, queueVars
  <1>0. DataOK
    BY DEF TypeOK
  <1>a. pc[t] \in Owning => ft[t] \in Item
    BY DEF OwnersHaveItems
  <1>1. CASE Fetch(t)
    <2>1. PICK i \in 1..Len(fibers) :
            ft' = [ft EXCEPT ![t] = fibers[i]] /\ fibers' = RemoveAt(fibers, i)
      BY <1>1 DEF Fetch
    <2>a. fibers \in Seq(Item)
      BY <1>0 DEF DataOK
    <2>b. fibers[i] \in Item
      BY <2>a
    <2>c. RemoveAt(fibers, i) \in Seq(Item)
      BY <2>a, RemoveAtProperties
    <2>2. fibers[i] \in Item /\ fibers' \in Seq(Item)
      BY <2>1, <2>b, <2>c
    <2>3. Move(t, "dispatch")
      BY <1>1, <2>1, <2>2, <1>0 DEF Fetch, Move, DataOK, PCs, Owning, Active, IdlePCs
    <2>4. active' \in Nat => DataOK'
      BY <1>1, <2>1, <2>2, <1>0 DEF Fetch, DataOK, PCs, Owning, clientVars
    <2> QED
      BY <2>3, <2>4, MoveKeepsCountInv
  <1>2. CASE FetchNone(t)
    <2>1. Move(t, "none")
      BY <1>2, <1>0 DEF FetchNone, Move, DataOK, PCs, Owning, Active, IdlePCs
    <2>2. DataOK'
      BY <1>2, <1>0 DEF FetchNone, DataOK, PCs, clientVars
    <2> QED
      BY <2>1, <2>2, MoveKeepsCountInv
  <1>3. CASE Dispatch(t)
    <2>1. Move(t, "swapin")
      BY <1>3, <1>0, <1>a DEF Dispatch, Move, DataOK, PCs, Owning, Active, IdlePCs
    <2>2. DataOK'
      BY <1>3, <1>0 DEF Dispatch, DataOK, PCs, Owning, clientVars
    <2> QED
      BY <2>1, <2>2, MoveKeepsCountInv
  <1>4. CASE DropDead(t)
    <2>1. Move(t, "fetch")
      BY <1>4, <1>0 DEF DropDead, Move, DataOK, PCs, Owning, Active, IdlePCs
    <2>2. active' \in Nat => DataOK'
      BY <1>4, <1>0 DEF DropDead, DataOK, PCs, clientVars
    <2> QED
      BY <2>1, <2>2, MoveKeepsCountInv
  <1>5. CASE SwapIn(t)
    <2>1. Move(t, "exec")
      BY <1>5, <1>0, <1>a DEF SwapIn, Move, DataOK, PCs, Owning, Active, IdlePCs
    <2>2. DataOK'
      BY <1>5, <1>0 DEF SwapIn, DataOK, PCs, Owning, FiberState, clientVars
    <2> QED
      BY <2>1, <2>2, MoveKeepsCountInv
  <1>6. CASE SwapInFault(t)
    <2>1. DataOK'
      BY <1>6, <1>0 DEF SwapInFault, DataOK, clientVars
    <2> QED
      BY <1>6, <2>1, StayKeepsCountInv DEF SwapInFault
  <1>7. CASE SaveContext(t)
    <2>1. Move(t, "back")
      BY <1>7, <1>0, <1>a DEF SaveContext, Move, DataOK, PCs, Owning, Active, IdlePCs
    <2>2. DataOK'
      BY <1>7, <1>0 DEF SaveContext, DataOK, PCs, Owning, clientVars
    <2> QED
      BY <2>1, <2>2, MoveKeepsCountInv
  <1>8. CASE Deactivate(t)
    <2>1. Move(t, "examine")
      BY <1>8, <1>0, <1>a DEF Deactivate, Move, DataOK, PCs, Owning, Active, IdlePCs
    <2>2. active' \in Nat => DataOK'
      BY <1>8, <1>0 DEF Deactivate, DataOK, PCs, Owning, clientVars
    <2> QED
      BY <2>1, <2>2, MoveKeepsCountInv
  <1>9. CASE Requeue(t)
    <2>1. Move(t, "fetch")
      BY <1>9, <1>0 DEF Requeue, Move, DataOK, PCs, Owning, Active, IdlePCs
    <2>2. NewItem(ft[t].task, "fiber", RequeueThread(ft[t])) \in Item
      BY <1>9, <1>a, ItemFields, NewItemType DEF Requeue, Owning, RequeueThread
    <2>3. DataOK'
      BY <1>9, <1>0, <2>2 DEF Requeue, DataOK, PCs, clientVars
    <2> QED
      BY <2>1, <2>3, MoveKeepsCountInv
  <1>10. CASE Release(t)
    <2>1. Move(t, "fetch")
      BY <1>10, <1>0 DEF Release, Move, DataOK, PCs, Owning, Active, IdlePCs
    <2>2. DataOK'
      BY <1>10, <1>0 DEF Release, DataOK, PCs, clientVars
    <2> QED
      BY <2>1, <2>2, MoveKeepsCountInv
  <1>16. CASE FindReady(t)
    <2>1. Move(t, "requeue")
      BY <1>16, <1>0, <1>a DEF FindReady, Move, DataOK, PCs, Owning, Active, IdlePCs
    <2>2. DataOK'
      BY <1>16, <1>0 DEF FindReady, DataOK, PCs, Owning, clientVars
    <2> QED
      BY <2>1, <2>2, MoveKeepsCountInv
  <1>17. CASE FindHeld(t)
    <2>1. Move(t, "hold")
      BY <1>17, <1>0, <1>a DEF FindHeld, Move, DataOK, PCs, Owning, Active, IdlePCs
    <2>2. DataOK'
      BY <1>17, <1>0 DEF FindHeld, DataOK, PCs, Owning, clientVars
    <2> QED
      BY <2>1, <2>2, MoveKeepsCountInv
  <1>18. CASE Hold(t)
    <2>1. Move(t, "fetch")
      BY <1>18, <1>0 DEF Hold, Move, DataOK, PCs, Owning, Active, IdlePCs
    <2>2. state' \in [Tasks -> FiberState]
      BY <1>18, <1>0, <1>a, ItemFields DEF Hold, DataOK, Owning, FiberState
    <2>3. DataOK'
      BY <1>18, <1>0, <2>2 DEF Hold, DataOK, PCs, clientVars
    <2> QED
      BY <2>1, <2>3, MoveKeepsCountInv
  <1>11. CASE Exit(t)
    <2>1. Move(t, "exited")
      BY <1>11, <1>0 DEF Exit, Move, DataOK, PCs, Owning, Active, IdlePCs
    <2>2. DataOK'
      BY <1>11, <1>0 DEF Exit, DataOK, PCs, clientVars
    <2> QED
      BY <2>1, <2>2, MoveKeepsCountInv
  <1>12. CASE FetchAgain(t)
    <2>1. Move(t, "fetch")
      BY <1>12, <1>0 DEF FetchAgain, Move, DataOK, PCs, Owning, Active, IdlePCs
    <2>2. DataOK'
      BY <1>12, <1>0 DEF FetchAgain, DataOK, PCs, clientVars
    <2> QED
      BY <2>1, <2>2, MoveKeepsCountInv
  <1>13. CASE IdleIn(t)
    <2>1. Move(t, "idling")
      BY <1>13, <1>0 DEF IdleIn, Move, DataOK, PCs, Owning, Active, IdlePCs
    <2>2. idle' \in Nat => DataOK'
      BY <1>13, <1>0 DEF IdleIn, DataOK, PCs, clientVars
    <2> QED
      BY <2>1, <2>2, MoveKeepsCountInv
  <1>14. CASE IdleTurn(t)
    <2>1. Move(t, "idleback")
      BY <1>14, <1>0 DEF IdleTurn, Move, DataOK, PCs, Owning, Active, IdlePCs
    <2>2. DataOK'
      BY <1>14, <1>0 DEF IdleTurn, DataOK, PCs, clientVars
    <2> QED
      BY <2>1, <2>2, MoveKeepsCountInv
  <1>15. CASE IdleOut(t)
    <2>1. Move(t, "fetch")
      BY <1>15, <1>0 DEF IdleOut, Move, DataOK, PCs, Owning, Active, IdlePCs
    <2>2. idle' \in Nat => DataOK'
      BY <1>15, <1>0 DEF IdleOut, DataOK, PCs, clientVars
    <2> QED
      BY <2>1, <2>2, MoveKeepsCountInv
  <1> QED
    BY <1>1, <1>2, <1>3, <1>4, <1>5, <1>6, <1>7, <1>8, <1>9, <1>10, <1>11, <1>12, <1>13, <1>14,
       <1>15, <1>16, <1>17, <1>18 DEF Loop

(* The steps of the task that a worker runs. *)
LEMMA BodyKeepsCountInv ==
    ASSUME CountInv, NEW t \in Threads, Body(t)
    PROVE  CountInv'
  <1> USE DEF CountInv, Goto, countVars, fiberVars, queueVars
  <1>0. DataOK
    BY DEF TypeOK
  <1>a. pc[t] \in {"exec", "parking"} => ft[t] \in Item /\ ft[t].task \in Tasks
    BY ItemFields DEF OwnersHaveItems, Owning
  <1>b. ASSUME NEW f \in Tasks, yields[f] < MaxYields
        PROVE  [yields EXCEPT ![f] = @ + 1] \in [Tasks -> 0..MaxYields]
    BY <1>0, <1>b, BoundsAssumption DEF DataOK
  <1>1. CASE YieldToReady(t)
    <2>1. Move(t, "leaving")
      BY <1>1, <1>0, <1>a DEF YieldToReady, Suspend, Move, DataOK, PCs, Owning, Active, IdlePCs
    <2>2. yields' \in [Tasks -> 0..MaxYields]
      BY <1>1, <1>a, <1>b DEF YieldToReady, MayYield, CountYield
    <2>3. DataOK'
      BY <1>1, <1>0, <1>a, <2>2
         DEF YieldToReady, Suspend, DataOK, PCs, Owning, FiberState, clientVars
    <2> QED
      BY <2>1, <2>3, MoveKeepsCountInv
  <1>2. CASE Park(t)
    <2>1. Move(t, "parking")
      BY <1>2, <1>0, <1>a DEF Park, Move, DataOK, PCs, Owning, Active, IdlePCs
    <2>2. yields' \in [Tasks -> 0..MaxYields]
      BY <1>2, <1>a, <1>b DEF Park, MayYield, CountYield
    <2>3. DataOK'
      BY <1>2, <1>0, <2>2 DEF Park, DataOK, PCs, Owning, clientVars
    <2> QED
      BY <2>1, <2>3, MoveKeepsCountInv
  <1>3. CASE YieldToHold(t)
    <2>1. Move(t, "leaving")
      BY <1>3, <1>0, <1>a DEF YieldToHold, Suspend, Move, DataOK, PCs, Owning, Active, IdlePCs
    <2>2. DataOK'
      BY <1>3, <1>0, <1>a DEF YieldToHold, Suspend, DataOK, PCs, Owning, FiberState, clientVars
    <2> QED
      BY <2>1, <2>2, MoveKeepsCountInv
  <1>4. CASE Finish(t)
    <2>1. PICK s \in Dead : Suspend(t, s)
      BY <1>4 DEF Finish
    <2>2. Move(t, "leaving")
      BY <1>4, <2>1, <1>0, <1>a DEF Finish, Suspend, Move, DataOK, PCs, Owning, Active, IdlePCs
    <2>3. DataOK'
      BY <1>4, <2>1, <1>0, <1>a
         DEF Finish, Suspend, DataOK, PCs, Owning, Dead, FiberState, clientVars
    <2> QED
      BY <2>2, <2>3, MoveKeepsCountInv
  <1>5. ASSUME NEW th \in Pins, SwitchTo(t, th)
        PROVE  CountInv'
    <2>1. Move(t, "parking")
      BY <1>5, <1>0, <1>a DEF SwitchTo, Move, DataOK, PCs, Owning, Active, IdlePCs
    <2>2. yields' \in [Tasks -> 0..MaxYields]
      BY <1>5, <1>a, <1>b DEF SwitchTo, MayYield, CountYield
    <2>3. th \in Threads \cup {AnyThread}
      BY PinsAssumption
    <2>4. NewItem(ft[t].task, "fiber", th) \in Item
      BY <1>5, <1>a, <2>3, NewItemType DEF SwitchTo
    <2>5. DataOK'
      BY <1>5, <1>0, <1>a, <2>2, <2>3, <2>4 DEF SwitchTo, DataOK, PCs, Owning, clientVars
    <2> QED
      BY <2>1, <2>5, MoveKeepsCountInv
  <1>6. ASSUME NEW f \in Tasks, NEW th \in Pins, Spawn(t, f, th)
        PROVE  CountInv'
    <2>1. NewItem(f, Kind(f), th) \in Item /\ th \in Threads \cup {AnyThread}
      BY NewItemType, KindType, PinsAssumption
    <2>2. DataOK'
      BY <1>6, <1>0, <2>1 DEF Spawn, Enqueue, DataOK, clientVars
    <2> QED
      BY <1>6, <2>2, StayKeepsCountInv DEF Spawn
  <1>7. CASE YieldFault(t)
    <2>1. DataOK'
      BY <1>7, <1>0 DEF YieldFault, DataOK, clientVars
    <2> QED
      BY <1>7, <2>1, StayKeepsCountInv DEF YieldFault
  <1> QED
    BY <1>1, <1>2, <1>3, <1>4, <1>5, <1>6, <1>7 DEF Body

LEMMA NextKeepsCountInv ==
    ASSUME CountInv, [Next]_vars
    PROVE  CountInv'
  <1>1. CASE Client
    BY <1>1, ClientKeepsCountInv
  <1>2. ASSUME NEW t \in Threads, Worker(t)
        PROVE  CountInv'
    BY <1>2, LoopKeepsCountInv, BodyKeepsCountInv DEF Worker
  <1>3. ASSUME NEW f \in Tasks, Wake(f)
        PROVE  CountInv'
    <2>1. NewItem(f, "fiber", AnyThread) \in Item
      BY NewItemType
    <2>2. DataOK'
      BY <1>3, <2>1 DEF Wake, CountInv, TypeOK, DataOK, countVars, clientVars
    <2> QED
      BY <1>3, <2>2, StayKeepsCountInv DEF Wake
  <1>4. CASE UNCHANGED vars
    <2>1. DataOK'
      BY <1>4 DEF vars, CountInv, TypeOK, DataOK
    <2> QED
      BY <1>4, <2>1, StayKeepsCountInv DEF vars, countVars, clientVars
  <1> QED
    BY <1>1, <1>2, <1>3, <1>4 DEF Next, Terminated

THEOREM CountInvariance == Spec => []CountInv
  <1>1. Init => CountInv
    BY CountInit
  <1>2. CountInv /\ [Next]_vars => CountInv'
    BY NextKeepsCountInv
  <1> QED
    BY <1>1, <1>2, PTL DEF Spec

(* The types of the scheduler's state: in particular neither atomic counter
   ever goes below zero, where a size_t would wrap around. *)
THEOREM TypeCorrect == Spec => []TypeOK
  BY CountInvariance, PTL DEF CountInv

(* m_activeThreadCount and m_idleThreadCount, which stopping() and tickle()
   read instead of the queue's lock, count exactly the workers between the
   ++ and the -- of run(), for every pool and every way tasks yield. *)
THEOREM CountersExact == Spec => []CountsExact
  BY CountInvariance, PTL DEF CountInv

-----------------------------------------------------------------------------
(* Exclusive execution.

   Nothing in the code keeps two workers off one fiber in general: a state is
   published before the context is saved. It is ensured in two cases: one
   worker, or tasks that yield with YieldToReady only and are scheduled once.
   In the second case a task is at every moment in one place: still to be
   scheduled, in the queue, or owned by one worker. *)
Safe == (Holders = {} /\ Twice = {}) \/ (\A t, u \in Threads : t = u)

Owns(t, f) == pc[t] \in Owning /\ ft[t].task = f

OneOwner ==
    \A f \in Tasks : \A t, u \in Threads : Owns(t, f) /\ Owns(u, f) => t = u

(* A context is used up, and a state is EXEC, only while a worker is on the
   task's stack. *)
UnsavedRuns == \A f \in Tasks : ~saved[f] => \E t \in Threads : Running(t, f)

ExecRuns ==
    \A f \in Tasks : state[f] = "EXEC" =>
        \E t \in Threads : pc[t] \in {"exec", "parking"} /\ ft[t].task = f

OnePlace ==
    Holders = {} /\ Twice = {} =>
        /\ waiters = {}
        /\ \A f \in Tasks : calls[f] <= 1
        /\ \A i, j \in 1..Len(fibers) : fibers[i].task = fibers[j].task => i = j
        /\ \A i \in 1..Len(fibers) : calls[fibers[i].task] = 0
        /\ \A i \in 1..Len(fibers), t \in Threads : ~Owns(t, fibers[i].task)
        /\ \A t \in Threads : pc[t] \in Owning => calls[ft[t].task] = 0

(* A task that has ended says so, and what a worker is about to resume as a
   fiber, or to mark as held, has not ended. *)
EndedDead == \A f \in ended : state[f] \in Dead

Alive ==
    \A t \in Threads :
        pc[t] = "hold" \/ (pc[t] = "swapin" /\ ft[t].kind = "fiber")
            => state[ft[t].task] \notin Dead

SafeInv ==
    /\ CountInv
    /\ EndedDead
    /\ Alive
    /\ fault = "none"
    /\ OneOwner
    /\ UnsavedRuns
    /\ ExecRuns
    /\ ExecWhileRunning
    /\ OnePlace

LEMMA SafeInit == Init => SafeInv
  <1> SUFFICES ASSUME Init PROVE SafeInv
    OBVIOUS
  <1>1. OneOwner /\ ExecWhileRunning /\ UnsavedRuns /\ ExecRuns /\ EndedDead /\ Alive
    BY DEF Init, OneOwner, Owns, Owning, ExecWhileRunning, UnsavedRuns, ExecRuns, EndedDead, Alive
  <1>2. OnePlace
    BY DEF Init, OnePlace, Owns, Owning
  <1> QED
    BY <1>1, <1>2, CountInit DEF SafeInv, Init

(* Steps that give no worker a task it did not have, and those that in
   addition leave every task on its stack. *)
OwnersKept == \A t \in Threads : pc'[t] \in Owning => pc[t] \in Owning /\ ft'[t] = ft[t]

StacksKept ==
    /\ UNCHANGED <<state, saved>>
    /\ \A t \in Threads :
        /\ pc[t] \in OnStack => pc'[t] \in OnStack /\ ft'[t] = ft[t]
        /\ pc'[t] \in {"exec", "parking"} <=> pc[t] \in {"exec", "parking"}

StackInv == OneOwner /\ UnsavedRuns /\ ExecRuns /\ ExecWhileRunning

LEMMA OneOwnerKept ==
    ASSUME OneOwner, OwnersKept
    PROVE  OneOwner'
  BY DEF OneOwner, OwnersKept, Owns

LEMMA StackInvKept ==
    ASSUME StackInv, OneOwner', StacksKept
    PROVE  StackInv'
  <1> USE DEF StackInv, StacksKept
  <1>1. UnsavedRuns'
    BY DEF UnsavedRuns, Running
  <1>2. ExecRuns'
    BY DEF ExecRuns, OnStack
  <1>3. ExecWhileRunning'
    BY DEF ExecWhileRunning, OnStack
  <1> QED
    BY <1>1, <1>2, <1>3

LEMMA OnePlaceKept ==
    ASSUME OnePlace, OwnersKept, UNCHANGED <<fibers, calls, waiters>>
    PROVE  OnePlace'
  BY DEF OnePlace, OwnersKept, Owns

LEMMA EnqueueKeepsOnePlace ==
    ASSUME CountInv, OnePlace, NEW f \in Tasks, NEW th, Enqueue(f, th),
           UNCHANGED <<pc, ft, waiters>>
    PROVE  OnePlace'
  <1> SUFFICES ASSUME Holders = {}, Twice = {}
               PROVE  OnePlace'
    BY DEF OnePlace
  <1>1. /\ fibers \in Seq(Item) /\ calls \in [Tasks -> 0..2]
        /\ fibers' = Append(fibers, NewItem(f, Kind(f), th)) /\ NewItem(f, Kind(f), th).task = f
    BY DEF CountInv, TypeOK, DataOK, Enqueue, NewItem
  <1>2. calls[f] = 1 /\ calls' = [calls EXCEPT ![f] = 0]
    <2>1. calls[f] \in 0..2 /\ calls[f] <= 1 /\ calls[f] > 0
      BY <1>1 DEF Enqueue, OnePlace
    <2>2. calls[f] = 1
      BY <2>1
    <2>3. calls' = [calls EXCEPT ![f] = calls[f] - 1]
      BY DEF Enqueue
    <2> QED
      BY <2>2, <2>3
  <1>3. /\ Len(fibers') = Len(fibers) + 1
        /\ \A i \in 1..Len(fibers) : fibers'[i] = fibers[i]
        /\ fibers'[Len(fibers) + 1].task = f
    BY <1>1
  <1>4. \A i \in 1..Len(fibers) : fibers[i].task \in Tasks /\ fibers[i].task # f
    BY <1>1, <1>2, ItemFields DEF OnePlace
  <1>5. \A t \in Threads : pc[t] \in Owning => ft[t].task \in Tasks /\ ft[t].task # f
    BY <1>2, ItemFields DEF OnePlace, CountInv, OwnersHaveItems
  <1>6. waiters' = {} /\ \A g \in Tasks : calls'[g] <= 1
    BY <1>1, <1>2 DEF OnePlace
  <1>7. \A i, j \in 1..Len(fibers') : fibers'[i].task = fibers'[j].task => i = j
    BY <1>1, <1>3, <1>4 DEF OnePlace
  <1>8. \A i \in 1..Len(fibers') : calls'[fibers'[i].task] = 0
    BY <1>1, <1>2, <1>3, <1>4 DEF OnePlace
  <1>9. \A i \in 1..Len(fibers'), t \in Threads :
            ~(pc'[t] \in Owning /\ ft'[t].task = fibers'[i].task)
    BY <1>1, <1>3, <1>4, <1>5 DEF OnePlace, Owns
  <1>10. \A t \in Threads : pc'[t] \in Owning => calls'[ft'[t].task] = 0
    BY <1>1, <1>2, <1>5 DEF OnePlace
  <1> QED
    BY <1>6, <1>7, <1>8, <1>9, <1>10 DEF OnePlace, Owns

LEMMA BatchKeepsOnePlace ==
    ASSUME CountInv, OnePlace, NEW f \in Tasks, NEW g \in Tasks, ScheduleBatch(f, g)
    PROVE  OnePlace'
  <1> SUFFICES ASSUME Holders = {}, Twice = {}
               PROVE  OnePlace'
    BY DEF OnePlace
  <1> DEFINE n == Len(fibers)
             a == NewItem(f, Kind(f), AnyThread)
             b == NewItem(g, Kind(g), AnyThread)
  <1>1. /\ fibers \in Seq(Item) /\ calls \in [Tasks -> 0..2] /\ n \in Nat
        /\ a \in Item /\ b \in Item /\ a.task = f /\ b.task = g /\ f # g
    BY NewItemType, KindType DEF CountInv, TypeOK, DataOK, NewItem, ScheduleBatch
  <1>2. /\ calls[f] > 0 /\ calls[g] > 0
        /\ calls' = [x \in Tasks |-> IF x \in {f, g} THEN calls[x] - 1 ELSE calls[x]]
        /\ fibers' = fibers \o <<a, b>>
        /\ UNCHANGED <<pc, ft, waiters>>
    BY DEF ScheduleBatch, fiberVars
  <1> HIDE DEF a, b
  <1>3. /\ Len(fibers') = n + 2
        /\ \A i \in 1..n : fibers'[i] = fibers[i]
        /\ fibers'[n + 1] = a /\ fibers'[n + 2] = b
    BY <1>1, <1>2
  <1>4. \A i \in 1..n : fibers[i].task \in Tasks /\ fibers[i].task \notin {f, g}
    BY <1>1, <1>2, ItemFields DEF OnePlace
  <1>5. \A t \in Threads : pc[t] \in Owning => ft[t].task \in Tasks /\ ft[t].task \notin {f, g}
    BY <1>2, ItemFields DEF OnePlace, CountInv, OwnersHaveItems
  <1>6. /\ calls'[f] = 0 /\ calls'[g] = 0
        /\ \A x \in Tasks \ {f, g} : calls'[x] = calls[x]
    <2>1. calls[f] \in 0..2 /\ calls[g] \in 0..2 /\ calls[f] <= 1 /\ calls[g] <= 1
      BY <1>1 DEF OnePlace
    <2>2. calls[f] = 1 /\ calls[g] = 1
      BY <1>2, <2>1
    <2> QED
      BY <1>2, <2>2
  <1>7. waiters' = {} /\ \A x \in Tasks : calls'[x] <= 1
    BY <1>2, <1>6 DEF OnePlace
  <1>8. \A i \in 1..(n + 2) : i \in 1..n \/ i = n + 1 \/ i = n + 2
    BY <1>1
  <1>9. \A i, j \in 1..Len(fibers') : fibers'[i].task = fibers'[j].task => i = j
    BY <1>1, <1>3, <1>4, <1>8 DEF OnePlace
  <1>10. \A i \in 1..Len(fibers') : calls'[fibers'[i].task] = 0
    BY <1>1, <1>3, <1>4, <1>6, <1>8 DEF OnePlace
  <1>11. \A i \in 1..Len(fibers'), t \in Threads :
            ~(pc'[t] \in Owning /\ ft'[t].task = fibers'[i].task)
    BY <1>1, <1>2, <1>3, <1>4, <1>5, <1>8 DEF OnePlace, Owns
  <1>12. \A t \in Threads : pc'[t] \in Owning => calls'[ft'[t].task] = 0
    BY <1>2, <1>5, <1>6 DEF OnePlace
  <1> QED
    BY <1>7, <1>9, <1>10, <1>11, <1>12 DEF OnePlace, Owns

LEMMA ClientKeepsSafeInv ==
    ASSUME SafeInv, Client
    PROVE  StackInv' /\ OnePlace' /\ fault' = "none"
  <1> USE DEF SafeInv
  <1>0. StackInv
    BY DEF StackInv
  <1>1. CASE Start
    <2>1. \A t \in Threads : pc[t] \notin Owning /\ pc'[t] \notin Owning
      BY <1>1 DEF Start, CountInv, PoolDown, Owning
    <2>2. OwnersKept /\ StacksKept
      BY <1>1, <2>1 DEF Start, OwnersKept, StacksKept, Owning, OnStack, fiberVars
    <2> QED
      BY <1>0, <1>1, <2>2, OneOwnerKept, StackInvKept, OnePlaceKept DEF Start, queueVars, fiberVars
  <1>2. CASE StopBegin \/ StopRequest \/ StopJoin
    <2>1. OwnersKept /\ StacksKept
      BY <1>2 DEF StopBegin, StopRequest, StopJoin, OwnersKept, StacksKept, fiberVars
    <2>2. UNCHANGED <<fibers, calls, waiters, fault>>
      BY <1>2 DEF StopBegin, StopRequest, StopJoin, queueVars, fiberVars
    <2> QED
      BY <1>0, <2>1, <2>2, OneOwnerKept, StackInvKept, OnePlaceKept
  <1>3. ASSUME NEW f \in Tasks, NEW th \in Pins, Schedule(f, th)
        PROVE  StackInv' /\ OnePlace' /\ fault' = "none"
    <2>1. OwnersKept /\ StacksKept
      BY <1>3 DEF Schedule, OwnersKept, StacksKept, fiberVars
    <2>2. OnePlace' /\ fault' = "none"
      BY <1>3, EnqueueKeepsOnePlace DEF Schedule, fiberVars
    <2> QED
      BY <1>0, <2>1, <2>2, OneOwnerKept, StackInvKept
  <1>4. ASSUME NEW f \in Tasks, NEW g \in Tasks, ScheduleBatch(f, g)
        PROVE  StackInv' /\ OnePlace' /\ fault' = "none"
    <2>1. OwnersKept /\ StacksKept /\ fault' = "none"
      BY <1>4 DEF ScheduleBatch, OwnersKept, StacksKept, fiberVars
    <2>2. OnePlace'
      BY <1>4, BatchKeepsOnePlace
    <2> QED
      BY <1>0, <2>1, <2>2, OneOwnerKept, StackInvKept
  <1> QED
    BY <1>1, <1>2, <1>3, <1>4 DEF Client

(* Taking an item: in the safe cases nobody else owns the task. *)
LEMMA FetchKeepsSafeInv ==
    ASSUME SafeInv, Safe, NEW t \in Threads, Fetch(t)
    PROVE  StackInv' /\ OnePlace' /\ fault' = "none"
  <1> USE DEF SafeInv, Goto, fiberVars
  <1>t. /\ pc \in [Threads -> PCs] /\ ft \in [Threads -> Item \cup {NoItem}]
        /\ fibers \in Seq(Item) /\ Len(fibers) \in Nat
    BY DEF CountInv, TypeOK, DataOK
  <1>1. PICK i \in 1..Len(fibers) :
          ft' = [ft EXCEPT ![t] = fibers[i]] /\ fibers' = RemoveAt(fibers, i)
    BY DEF Fetch
  <1>2. fibers[i] \in Item /\ fibers[i].task \in Tasks
    BY <1>t, ItemFields
  <1>3. /\ pc[t] = "fetch" /\ pc' = [pc EXCEPT ![t] = "dispatch"]
        /\ UNCHANGED <<state, saved, waiters, calls, fault>>
    BY DEF Fetch
  <1>4. OneOwner'
    <2>1. SUFFICES ASSUME NEW f \in Tasks, NEW u \in Threads, NEW v \in Threads,
                          Owns(u, f)', Owns(v, f)', u # v
                   PROVE  FALSE
      BY DEF OneOwner
    <2>2. Holders = {} /\ Twice = {}
      BY <2>1 DEF Safe
    <2>3. \A w \in Threads \ {t} : ~Owns(w, fibers[i].task)
      BY <2>2 DEF OnePlace
    <2>4. CASE u = t
      BY <2>1, <2>3, <2>4, <1>1, <1>3, <1>t DEF Owns
    <2>5. CASE v = t
      BY <2>1, <2>3, <2>5, <1>1, <1>3, <1>t DEF Owns
    <2>6. CASE u # t /\ v # t
      BY <2>1, <2>6, <1>1, <1>3, <1>t DEF Owns, OneOwner
    <2> QED
      BY <2>4, <2>5, <2>6
  <1>5. StackInv'
    <2>1. StacksKept
      BY <1>1, <1>3, <1>t DEF StacksKept, OnStack
    <2> QED
      BY <1>4, <2>1, StackInvKept DEF StackInv
  <1>6. OnePlace'
    <2> SUFFICES ASSUME Holders = {}, Twice = {}
                 PROVE  OnePlace'
      BY DEF OnePlace
    <2> DEFINE at(k) == IF k < i THEN k ELSE k + 1
    <2>1. /\ Len(fibers') = Len(fibers) - 1
          /\ \A k \in 1..(Len(fibers) - 1) : fibers'[k] = fibers[at(k)]
      BY <1>1, <1>t, RemoveAtProperties
    <2>2. /\ \A k \in 1..(Len(fibers) - 1) : at(k) \in 1..Len(fibers) /\ at(k) # i
          /\ \A k, l \in 1..(Len(fibers) - 1) : at(k) = at(l) => k = l
      BY <1>t
    <2> HIDE DEF at
    <2>3. \A k, l \in 1..Len(fibers') : fibers'[k].task = fibers'[l].task => k = l
      <3>1. \A k, l \in 1..(Len(fibers) - 1) :
                fibers[at(k)].task = fibers[at(l)].task => at(k) = at(l)
        BY <2>2 DEF OnePlace
      <3>2. 1..Len(fibers') = 1..(Len(fibers) - 1)
        BY <2>1
      <3>3. ASSUME NEW k \in 1..(Len(fibers) - 1), NEW l \in 1..(Len(fibers) - 1),
                   fibers'[k].task = fibers'[l].task
            PROVE  k = l
        <4>1. fibers[at(k)].task = fibers[at(l)].task
          BY <2>1, <3>3
        <4>2. at(k) = at(l)
          BY <3>1, <4>1
        <4> QED
          BY <2>2, <4>2
      <3> QED
        BY <3>2, <3>3
    <2>4. \A k \in 1..Len(fibers') : calls'[fibers'[k].task] = 0
      BY <2>1, <2>2, <1>3 DEF OnePlace
    <2>5. \A k \in 1..Len(fibers'), u \in Threads :
            ~(pc'[u] \in Owning /\ ft'[u].task = fibers'[k].task)
      BY <2>1, <2>2, <1>1, <1>3, <1>t DEF OnePlace, Owns
    <2>6. \A u \in Threads : pc'[u] \in Owning => calls'[ft'[u].task] = 0
      BY <1>1, <1>3, <1>t DEF OnePlace
    <2> QED
      BY <1>3, <2>3, <2>4, <2>5, <2>6 DEF OnePlace, Owns
  <1> QED
    BY <1>3, <1>4, <1>5, <1>6

(* Resuming: the fault is not reached. *)
LEMMA NoSwapInFault ==
    ASSUME SafeInv, NEW t \in Threads, pc[t] = "swapin"
    PROVE  state[ft[t].task] # "EXEC" /\ saved[ft[t].task] /\ ~Over(ft[t])
  <1>1. ft[t].task \in Tasks /\ Owns(t, ft[t].task)
    BY ItemFields DEF SafeInv, CountInv, OwnersHaveItems, Owns, Owning
  <1>2. \A u \in Threads : Owns(u, ft[t].task) => u = t
    BY <1>1 DEF SafeInv, OneOwner
  <1>3. ~\E u \in Threads : Running(u, ft[t].task)
    BY <1>2 DEF Running, OnStack, Owns, Owning
  <1> QED
    BY <1>1, <1>3 DEF SafeInv, UnsavedRuns, ExecRuns, Running, OnStack, Over, EndedDead, Alive

LEMMA RequeueKeepsOnePlace ==
    ASSUME SafeInv, NEW t \in Threads, Requeue(t)
    PROVE  OnePlace'
  <1> USE DEF SafeInv
  <1> SUFFICES ASSUME Holders = {}, Twice = {}
               PROVE  OnePlace'
    BY DEF OnePlace
  <1> DEFINE f == ft[t].task
             n == Len(fibers)
             it == NewItem(f, "fiber", RequeueThread(ft[t]))
  <1>1. /\ pc \in [Threads -> PCs] /\ ft \in [Threads -> Item \cup {NoItem}]
        /\ fibers \in Seq(Item) /\ n \in Nat
    BY DEF CountInv, TypeOK, DataOK
  <1>2. /\ Owns(t, f) /\ f \in Tasks /\ it.task = f
        /\ pc' = [pc EXCEPT ![t] = "fetch"] /\ ft' = [ft EXCEPT ![t] = NoItem]
        /\ fibers' = Append(fibers, it) /\ UNCHANGED <<calls, waiters>>
    BY ItemFields DEF Requeue, Goto, Owns, Owning, NewItem, fiberVars, CountInv, OwnersHaveItems
  <1> HIDE DEF it
  <1>3. /\ Len(fibers') = n + 1 /\ fibers'[n + 1] = it
        /\ \A i \in 1..n : fibers'[i] = fibers[i]
    BY <1>1, <1>2
  <1>4. \A i \in 1..n : fibers[i].task # f
    BY <1>2 DEF OnePlace
  <1>5. \A u \in Threads : pc'[u] \in Owning => Owns(u, ft[u].task) /\ u # t /\ ft'[u] = ft[u]
    BY <1>1, <1>2 DEF Owns, Owning
  <1>6. \A u \in Threads : pc'[u] \in Owning => ft'[u].task # f
    BY <1>2, <1>5 DEF OneOwner
  <1>7. \A i, j \in 1..Len(fibers') : fibers'[i].task = fibers'[j].task => i = j
    BY <1>1, <1>2, <1>3, <1>4 DEF OnePlace
  <1>8. \A i \in 1..Len(fibers') : calls'[fibers'[i].task] = 0
    BY <1>1, <1>2, <1>3 DEF OnePlace, Owns
  <1>9. \A i \in 1..Len(fibers'), u \in Threads :
            ~(pc'[u] \in Owning /\ ft'[u].task = fibers'[i].task)
    BY <1>1, <1>2, <1>3, <1>5, <1>6 DEF OnePlace, Owns
  <1>10. \A u \in Threads : pc'[u] \in Owning => calls'[ft'[u].task] = 0
    BY <1>2, <1>5 DEF OnePlace, Owns
  <1> QED
    BY <1>2, <1>7, <1>8, <1>9, <1>10 DEF OnePlace, Owns

LEMMA LoopKeepsSafeInv ==
    ASSUME SafeInv, Safe, NEW t \in Threads, Loop(t)
    PROVE  StackInv' /\ OnePlace' /\ fault' = "none"
  <1> USE DEF SafeInv, Goto, countVars, fiberVars, queueVars
  <1>0. StackInv
    BY DEF StackInv
  <1>t. /\ pc \in [Threads -> PCs] /\ ft \in [Threads -> Item \cup {NoItem}]
        /\ state \in [Tasks -> FiberState] /\ saved \in [Tasks -> BOOLEAN]
    BY DEF CountInv, TypeOK, DataOK
  <1>a. pc[t] \in Owning => ft[t] \in Item /\ ft[t].task \in Tasks
    BY ItemFields DEF CountInv, OwnersHaveItems
  <1>1. CASE Fetch(t)
    BY <1>1, FetchKeepsSafeInv
  <1>2. CASE FetchNone(t)
    <2>1. OwnersKept /\ StacksKept
      BY <1>2, <1>t DEF FetchNone, OwnersKept, StacksKept, Owning, OnStack
    <2>2. UNCHANGED <<fibers, calls, waiters, fault>>
      BY <1>2 DEF FetchNone
    <2> QED
      BY <1>0, <2>1, <2>2, OneOwnerKept, StackInvKept, OnePlaceKept
  <1>3. CASE Dispatch(t)
    <2>1. OwnersKept /\ StacksKept
      BY <1>3, <1>t DEF Dispatch, OwnersKept, StacksKept, Owning, OnStack
    <2>2. UNCHANGED <<fibers, calls, waiters, fault>>
      BY <1>3 DEF Dispatch
    <2> QED
      BY <1>0, <2>1, <2>2, OneOwnerKept, StackInvKept, OnePlaceKept
  <1>4. CASE DropDead(t)
    <2>1. OwnersKept /\ StacksKept
      BY <1>4, <1>t DEF DropDead, OwnersKept, StacksKept, Owning, OnStack
    <2>2. UNCHANGED <<fibers, calls, waiters, fault>>
      BY <1>4 DEF DropDead
    <2> QED
      BY <1>0, <2>1, <2>2, OneOwnerKept, StackInvKept, OnePlaceKept
  <1>5. CASE Deactivate(t)
    <2>1. OwnersKept /\ StacksKept
      BY <1>5, <1>t DEF Deactivate, OwnersKept, StacksKept, Owning, OnStack
    <2>2. UNCHANGED <<fibers, calls, waiters, fault>>
      BY <1>5 DEF Deactivate
    <2> QED
      BY <1>0, <2>1, <2>2, OneOwnerKept, StackInvKept, OnePlaceKept
  <1>6. CASE Exit(t)
    <2>1. OwnersKept /\ StacksKept
      BY <1>6, <1>t DEF Exit, OwnersKept, StacksKept, Owning, OnStack
    <2>2. UNCHANGED <<fibers, calls, waiters, fault>>
      BY <1>6 DEF Exit
    <2> QED
      BY <1>0, <2>1, <2>2, OneOwnerKept, StackInvKept, OnePlaceKept
  <1>7. CASE FetchAgain(t)
    <2>1. OwnersKept /\ StacksKept
      BY <1>7, <1>t DEF FetchAgain, OwnersKept, StacksKept, Owning, OnStack
    <2>2. UNCHANGED <<fibers, calls, waiters, fault>>
      BY <1>7 DEF FetchAgain
    <2> QED
      BY <1>0, <2>1, <2>2, OneOwnerKept, StackInvKept, OnePlaceKept
  <1>8. CASE IdleIn(t)
    <2>1. OwnersKept /\ StacksKept
      BY <1>8, <1>t DEF IdleIn, OwnersKept, StacksKept, Owning, OnStack
    <2>2. UNCHANGED <<fibers, calls, waiters, fault>>
      BY <1>8 DEF IdleIn
    <2> QED
      BY <1>0, <2>1, <2>2, OneOwnerKept, StackInvKept, OnePlaceKept
  <1>9. CASE IdleTurn(t)
    <2>1. OwnersKept /\ StacksKept
      BY <1>9, <1>t DEF IdleTurn, OwnersKept, StacksKept, Owning, OnStack
    <2>2. UNCHANGED <<fibers, calls, waiters, fault>>
      BY <1>9 DEF IdleTurn
    <2> QED
      BY <1>0, <2>1, <2>2, OneOwnerKept, StackInvKept, OnePlaceKept
  <1>10. CASE IdleOut(t)
    <2>1. OwnersKept /\ StacksKept
      BY <1>10, <1>t DEF IdleOut, OwnersKept, StacksKept, Owning, OnStack
    <2>2. UNCHANGED <<fibers, calls, waiters, fault>>
      BY <1>10 DEF IdleOut
    <2> QED
      BY <1>0, <2>1, <2>2, OneOwnerKept, StackInvKept, OnePlaceKept
  <1>11. CASE SwapInFault(t)
    BY <1>11, NoSwapInFault DEF SwapInFault
  <1>12. CASE SwapIn(t)
    <2> DEFINE f == ft[t].task
    <2>1. /\ pc[t] = "swapin" /\ pc' = [pc EXCEPT ![t] = "exec"] /\ f \in Tasks
          /\ state' = [state EXCEPT ![f] = "EXEC"] /\ saved' = [saved EXCEPT ![f] = FALSE]
          /\ UNCHANGED <<ft, fibers, calls, waiters, fault>>
      BY <1>12, <1>a DEF SwapIn, Owning
    <2> HIDE DEF f
    <2>2. OwnersKept
      BY <2>1, <1>t DEF OwnersKept, Owning
    <2>3. UnsavedRuns'
      BY <2>1, <1>t DEF UnsavedRuns, Running, OnStack, f
    <2>4. ExecRuns'
      BY <2>1, <1>t DEF ExecRuns, f
    <2>5. ExecWhileRunning'
      <3>1. ASSUME NEW u \in Threads, pc'[u] \in {"exec", "parking"}
            PROVE  state'[ft'[u].task] = "EXEC"
        <4>1. CASE u = t
          BY <2>1, <4>1, <1>t DEF f
        <4>2. CASE u # t
          <5>1. pc[u] \in {"exec", "parking"} /\ ft'[u] = ft[u]
            BY <2>1, <3>1, <4>2, <1>t
          <5>2. state[ft[u].task] = "EXEC" /\ ft[u].task \in Tasks
            BY <5>1, ItemFields DEF ExecWhileRunning, CountInv, OwnersHaveItems, Owning
          <5> QED
            BY <2>1, <5>1, <5>2, <1>t
        <4> QED
          BY <4>1, <4>2
      <3> QED
        BY <3>1 DEF ExecWhileRunning
    <2> QED
      BY <2>1, <2>2, <2>3, <2>4, <2>5, OneOwnerKept, OnePlaceKept DEF StackInv
  <1>13. CASE SaveContext(t)
    <2> DEFINE f == ft[t].task
    <2>1. /\ pc[t] = "leaving" /\ pc' = [pc EXCEPT ![t] = "back"] /\ f \in Tasks
          /\ saved' = [saved EXCEPT ![f] = TRUE]
          /\ UNCHANGED <<ft, state, fibers, calls, waiters, fault>>
      BY <1>13, <1>a DEF SaveContext, Owning
    <2>2. OwnersKept
      BY <2>1, <1>t DEF OwnersKept, Owning
    <2>3. UnsavedRuns'
      BY <2>1, <1>t DEF UnsavedRuns, Running, OnStack
    <2>4. ExecRuns'
      BY <2>1, <1>t DEF ExecRuns
    <2>5. ExecWhileRunning'
      BY <2>1, <1>t DEF ExecWhileRunning
    <2> QED
      BY <2>1, <2>2, <2>3, <2>4, <2>5, OneOwnerKept, OnePlaceKept DEF StackInv
  <1>16. CASE FindReady(t) \/ FindHeld(t)
    <2>1. OwnersKept /\ StacksKept
      BY <1>16, <1>t DEF FindReady, FindHeld, OwnersKept, StacksKept, Owning, OnStack
    <2>2. UNCHANGED <<fibers, calls, waiters, fault>>
      BY <1>16 DEF FindReady, FindHeld
    <2> QED
      BY <1>0, <2>1, <2>2, OneOwnerKept, StackInvKept, OnePlaceKept
  <1>17. CASE Release(t)
    <2>1. OwnersKept /\ StacksKept
      BY <1>17, <1>t DEF Release, OwnersKept, StacksKept, Owning, OnStack
    <2>2. UNCHANGED <<fibers, calls, waiters, fault>>
      BY <1>17 DEF Release
    <2> QED
      BY <1>0, <2>1, <2>2, OneOwnerKept, StackInvKept, OnePlaceKept
  <1>14. CASE Hold(t)
    <2> DEFINE f == ft[t].task
    <2>1. /\ pc[t] = "hold" /\ pc' = [pc EXCEPT ![t] = "fetch"] /\ f \in Tasks
          /\ ft' = [ft EXCEPT ![t] = NoItem]
          /\ state' = [state EXCEPT ![f] = "HOLD"]
          /\ UNCHANGED <<saved, fibers, calls, waiters, fault>>
      BY <1>14, <1>a DEF Hold, Owning
    <2>2. OwnersKept
      BY <2>1, <1>t DEF OwnersKept, Owning
    <2>3. \A u \in Threads : pc[u] \in {"exec", "parking"} => ft[u].task # f
      BY <2>1 DEF OneOwner, Owns, Owning
    <2>4. UnsavedRuns'
      BY <2>1, <1>t DEF UnsavedRuns, Running, OnStack
    <2>5. ExecRuns'
      BY <2>1, <2>3, <1>t DEF ExecRuns, Dead
    <2>6. ExecWhileRunning'
      BY <2>1, <2>3, <1>t DEF ExecWhileRunning, CountInv, OwnersHaveItems, Owning
    <2> QED
      BY <2>1, <2>2, <2>4, <2>5, <2>6, OneOwnerKept, OnePlaceKept DEF StackInv
  <1>15. CASE Requeue(t)
    <2>1. OwnersKept /\ StacksKept /\ fault' = "none"
      BY <1>15, <1>t DEF Requeue, OwnersKept, StacksKept, Owning, OnStack
    <2>2. OnePlace'
      BY <1>15, RequeueKeepsOnePlace
    <2> QED
      BY <1>0, <2>1, <2>2, OneOwnerKept, StackInvKept
  <1> QED
    BY <1>1, <1>2, <1>3, <1>4, <1>5, <1>6, <1>7, <1>8, <1>9, <1>10, <1>11, <1>12, <1>13, <1>14, <1>15,
       <1>16, <1>17 DEF Loop

LEMMA BodyKeepsSafeInv ==
    ASSUME SafeInv, NEW t \in Threads, Body(t)
    PROVE  StackInv' /\ OnePlace' /\ fault' = "none"
  <1> USE DEF SafeInv, Goto, countVars, fiberVars, queueVars
  <1>0. StackInv
    BY DEF StackInv
  <1>t. /\ pc \in [Threads -> PCs] /\ ft \in [Threads -> Item \cup {NoItem}]
        /\ state \in [Tasks -> FiberState] /\ saved \in [Tasks -> BOOLEAN]
    BY DEF CountInv, TypeOK, DataOK
  <1>a. pc[t] \in Owning => ft[t] \in Item /\ ft[t].task \in Tasks
    BY ItemFields DEF CountInv, OwnersHaveItems
  <1>1. ASSUME NEW s \in {"READY", "HOLD", "TERM", "EXCEPT"}, Suspend(t, s),
               pc[t] \in {"exec", "parking"},
               UNCHANGED <<ft, saved, fibers, calls, waiters, fault>>
        PROVE  StackInv' /\ OnePlace' /\ fault' = "none"
    <2> DEFINE f == ft[t].task
    <2>1. /\ pc' = [pc EXCEPT ![t] = "leaving"] /\ f \in Tasks
          /\ state' = [state EXCEPT ![f] = s]
      BY <1>1, <1>a DEF Suspend, Owning
    <2>2. OwnersKept
      BY <2>1, <1>1, <1>t DEF OwnersKept, Owning
    <2>3. \A u \in Threads : u # t /\ pc[u] \in {"exec", "parking"} => ft[u].task # f
      <3>1. Owns(t, f)
        BY <1>1 DEF Owns, Owning
      <3>2. \A u \in Threads : pc[u] \in {"exec", "parking"} /\ ft[u].task = f => Owns(u, f)
        BY DEF Owns, Owning
      <3> QED
        BY <2>1, <3>1, <3>2 DEF OneOwner
    <2>4. UnsavedRuns'
      BY <2>1, <1>1, <1>t DEF UnsavedRuns, Running, OnStack
    <2>5. ExecRuns'
      BY <2>1, <1>1, <1>t DEF ExecRuns
    <2>6. ExecWhileRunning'
      BY <2>1, <2>3, <1>1, <1>t DEF ExecWhileRunning, CountInv, OwnersHaveItems, Owning
    <2> QED
      BY <1>1, <2>2, <2>4, <2>5, <2>6, OneOwnerKept, OnePlaceKept DEF StackInv
  <1>2. CASE YieldToReady(t)
    BY <1>1, <1>2 DEF YieldToReady
  <1>3. CASE YieldToHold(t)
    BY <1>1, <1>3 DEF YieldToHold
  <1>4. CASE Finish(t)
    BY <1>1, <1>4 DEF Finish, Dead
  <1>5. CASE Park(t)
    <2>1. OwnersKept /\ StacksKept /\ fault' = "none"
      BY <1>5, <1>t DEF Park, OwnersKept, StacksKept, Owning, OnStack
    <2>2. OnePlace'
      BY <1>5 DEF Park, OnePlace
    <2> QED
      BY <1>0, <2>1, <2>2, OneOwnerKept, StackInvKept
  <1>6. ASSUME NEW th \in Pins, SwitchTo(t, th)
        PROVE  StackInv' /\ OnePlace' /\ fault' = "none"
    <2>1. OwnersKept /\ StacksKept /\ fault' = "none"
      BY <1>6, <1>t DEF SwitchTo, OwnersKept, StacksKept, Owning, OnStack
    <2>2. OnePlace'
      BY <1>6 DEF SwitchTo, OnePlace
    <2> QED
      BY <1>0, <2>1, <2>2, OneOwnerKept, StackInvKept
  <1>7. ASSUME NEW f \in Tasks, NEW th \in Pins, Spawn(t, f, th)
        PROVE  StackInv' /\ OnePlace' /\ fault' = "none"
    <2>1. OwnersKept /\ StacksKept /\ fault' = "none"
      BY <1>7 DEF Spawn, OwnersKept, StacksKept
    <2>2. OnePlace'
      BY <1>7, EnqueueKeepsOnePlace DEF Spawn
    <2> QED
      BY <1>0, <2>1, <2>2, OneOwnerKept, StackInvKept
  <1>8. CASE YieldFault(t)
    BY <1>8 DEF YieldFault, ExecWhileRunning
  <1> QED
    BY <1>2, <1>3, <1>4, <1>5, <1>6, <1>7, <1>8 DEF Body

(* What a step may do to the states of the end: only the task that a worker
   executes ends, and who begins to resume a fiber or to hold a task has just
   read that it has not. *)
EndsOnlyRunning ==
    \A f \in Tasks : state'[f] \in Dead =>
        state[f] \in Dead \/ \E t \in Threads : pc[t] = "exec" /\ ft[t].task = f

LooksFirst ==
    \A t \in Threads : pc'[t] \in {"swapin", "hold"} =>
        /\ ft'[t] = ft[t]
        /\ \/ pc'[t] = pc[t]
           \/ /\ pc[t] \in Owning /\ state' = state
              /\ pc'[t] = "hold" \/ ft[t].kind = "fiber" => state[ft[t].task] \notin Dead

LEMMA AliveKept ==
    ASSUME SafeInv, EndsOnlyRunning, LooksFirst
    PROVE  Alive'
  <1> SUFFICES ASSUME NEW t \in Threads,
                      pc'[t] = "hold" \/ (pc'[t] = "swapin" /\ ft'[t].kind = "fiber"),
                      state'[ft'[t].task] \in Dead
               PROVE  FALSE
    BY DEF Alive
  <1>1. ft'[t] = ft[t] /\ pc'[t] = pc[t] /\ state[ft[t].task] \notin Dead
    BY DEF LooksFirst, SafeInv, Alive
  <1>2. pc[t] \in {"swapin", "hold"} /\ Owns(t, ft[t].task) /\ ft[t].task \in Tasks
    BY <1>1, ItemFields DEF Owns, Owning, SafeInv, CountInv, OwnersHaveItems
  <1>3. PICK u \in Threads : pc[u] = "exec" /\ ft[u].task = ft[t].task
    BY <1>1, <1>2 DEF EndsOnlyRunning
  <1>4. u = t
    BY <1>2, <1>3 DEF SafeInv, OneOwner, Owns, Owning
  <1> QED
    BY <1>2, <1>3, <1>4

LEMMA WorkerKeepsEnds ==
    ASSUME SafeInv, NEW t \in Threads, Loop(t) \/ Body(t)
    PROVE  EndedDead' /\ Alive'
  <1> USE DEF Goto, fiberVars
  <1>t. /\ pc \in [Threads -> PCs] /\ ft \in [Threads -> Item \cup {NoItem}]
        /\ state \in [Tasks -> FiberState] /\ ended \subseteq Tasks
    BY DEF SafeInv, CountInv, TypeOK, DataOK
  <1>b. pc[t] \in Owning => ft[t].task \in Tasks
    BY ItemFields DEF SafeInv, CountInv, OwnersHaveItems
  <1>e. EndedDead /\ Alive
    BY DEF SafeInv
  <1>1. CASE Dispatch(t)
    <2>1. EndedDead' /\ EndsOnlyRunning
      BY <1>1, <1>e DEF Dispatch, EndedDead, EndsOnlyRunning
    <2>2. LooksFirst
      BY <1>1, <1>t DEF Dispatch, LooksFirst, Owning
    <2> QED
      BY <2>1, <2>2, AliveKept
  <1>2. CASE FindHeld(t)
    <2>1. EndedDead' /\ EndsOnlyRunning
      BY <1>2, <1>e DEF FindHeld, EndedDead, EndsOnlyRunning
    <2>2. LooksFirst
      BY <1>2, <1>t DEF FindHeld, LooksFirst, Owning
    <2> QED
      BY <2>1, <2>2, AliveKept
  <1>3. CASE \/ Fetch(t) \/ FetchNone(t) \/ DropDead(t) \/ SwapInFault(t) \/ SaveContext(t)
             \/ Deactivate(t) \/ FindReady(t) \/ Requeue(t) \/ Release(t)
    <2>1. EndedDead' /\ EndsOnlyRunning
      BY <1>3, <1>e DEF Fetch, FetchNone, DropDead, SwapInFault, SaveContext, Deactivate,
                        FindReady, Requeue, Release, EndedDead, EndsOnlyRunning
    <2>2. LooksFirst
      BY <1>3, <1>t DEF Fetch, FetchNone, DropDead, SwapInFault, SaveContext, Deactivate,
                        FindReady, Requeue, Release, LooksFirst
    <2> QED
      BY <2>1, <2>2, AliveKept
  <1>4. CASE Exit(t) \/ FetchAgain(t) \/ IdleIn(t) \/ IdleTurn(t) \/ IdleOut(t)
    <2>1. EndedDead' /\ EndsOnlyRunning
      BY <1>4, <1>e DEF Exit, FetchAgain, IdleIn, IdleTurn, IdleOut, EndedDead, EndsOnlyRunning
    <2>2. LooksFirst
      BY <1>4, <1>t DEF Exit, FetchAgain, IdleIn, IdleTurn, IdleOut, LooksFirst
    <2> QED
      BY <2>1, <2>2, AliveKept
  <1>5. CASE SwapIn(t)
    <2>1. /\ state' = [state EXCEPT ![ft[t].task] = "EXEC"] /\ ended' = ended \ {ft[t].task}
          /\ pc' = [pc EXCEPT ![t] = "exec"] /\ ft' = ft
      BY <1>5 DEF SwapIn
    <2>2. EndedDead' /\ EndsOnlyRunning
      BY <2>1, <1>e, <1>t DEF EndedDead, EndsOnlyRunning, Dead
    <2>3. LooksFirst
      BY <2>1, <1>t DEF LooksFirst
    <2> QED
      BY <2>2, <2>3, AliveKept
  <1>6. CASE Hold(t)
    <2>1. /\ pc[t] = "hold" /\ state' = [state EXCEPT ![ft[t].task] = "HOLD"]
          /\ ended' = ended /\ ft' = [ft EXCEPT ![t] = NoItem]
          /\ pc' = [pc EXCEPT ![t] = "fetch"]
      BY <1>6 DEF Hold
    <2>2. ft[t].task \notin ended
      BY <2>1, <1>e DEF EndedDead, Alive
    <2>3. EndedDead' /\ EndsOnlyRunning
      BY <2>1, <2>2, <1>e, <1>t DEF EndedDead, EndsOnlyRunning, Dead
    <2>4. LooksFirst
      BY <2>1, <1>t DEF LooksFirst
    <2> QED
      BY <2>3, <2>4, AliveKept
  <1>7. CASE YieldToReady(t) \/ YieldToHold(t)
    <2>1. PICK s \in {"READY", "HOLD"} : state' = [state EXCEPT ![ft[t].task] = s]
      BY <1>7 DEF YieldToReady, YieldToHold, Suspend
    <2>2. /\ state[ft[t].task] = "EXEC"
          /\ ended' = ended /\ ft' = ft /\ pc' = [pc EXCEPT ![t] = "leaving"]
      BY <1>7 DEF YieldToReady, YieldToHold, Suspend
    <2>3. ft[t].task \notin ended
      BY <2>2, <1>e DEF EndedDead, Dead
    <2>4. EndedDead' /\ EndsOnlyRunning
      BY <2>1, <2>2, <2>3, <1>e, <1>t DEF EndedDead, EndsOnlyRunning, Dead
    <2>5. LooksFirst
      BY <2>2, <1>t DEF LooksFirst
    <2> QED
      BY <2>4, <2>5, AliveKept
  <1>8. CASE Finish(t)
    <2>1. PICK s \in Dead : state' = [state EXCEPT ![ft[t].task] = s]
      BY <1>8 DEF Finish, Suspend
    <2>2. /\ pc[t] = "exec" /\ pc' = [pc EXCEPT ![t] = "leaving"] /\ ft' = ft
          /\ ended' = ended \cup {ft[t].task} /\ ft[t].task \in Tasks
      BY <1>8, <1>b DEF Finish, Suspend, Owning
    <2>3. EndedDead' /\ EndsOnlyRunning
      BY <2>1, <2>2, <1>e, <1>t DEF EndedDead, EndsOnlyRunning
    <2>4. LooksFirst
      BY <2>2, <1>t DEF LooksFirst
    <2> QED
      BY <2>3, <2>4, AliveKept
  <1>9. CASE Park(t) \/ YieldFault(t) \/ \E th \in Pins : SwitchTo(t, th)
    <2>1. EndedDead' /\ EndsOnlyRunning
      BY <1>9, <1>e DEF Park, YieldFault, SwitchTo, EndedDead, EndsOnlyRunning
    <2>2. LooksFirst
      BY <1>9, <1>t DEF Park, YieldFault, SwitchTo, LooksFirst
    <2> QED
      BY <2>1, <2>2, AliveKept
  <1>10. CASE \E f \in Tasks, th \in Pins : Spawn(t, f, th)
    BY <1>10, <1>e DEF Spawn, EndedDead, Alive
  <1> QED
    BY <1>1, <1>2, <1>3, <1>4, <1>5, <1>6, <1>7, <1>8, <1>9, <1>10 DEF Loop, Body

LEMMA NextKeepsEnds ==
    ASSUME SafeInv, [Next]_vars
    PROVE  EndedDead' /\ Alive'
  <1>1. CASE Client
    <2>1. UNCHANGED <<state, ended>>
      BY <1>1 DEF Client, Start, StopBegin, StopRequest, StopJoin, Schedule, ScheduleBatch, fiberVars
    <2>2. \A t \in Threads : pc'[t] \in {"swapin", "hold"} => pc'[t] = pc[t] /\ ft'[t] = ft[t]
      BY <1>1 DEF Client, Start, StopBegin, StopRequest, StopJoin, Schedule, ScheduleBatch
    <2> QED
      BY <2>1, <2>2 DEF SafeInv, EndedDead, Alive
  <1>2. ASSUME NEW t \in Threads, Worker(t)
        PROVE  EndedDead' /\ Alive'
    BY <1>2, WorkerKeepsEnds DEF Worker
  <1>3. ASSUME NEW f \in Tasks, Wake(f)
        PROVE  EndedDead' /\ Alive'
    BY <1>3 DEF Wake, SafeInv, EndedDead, Alive
  <1>4. CASE UNCHANGED vars
    BY <1>4 DEF vars, SafeInv, EndedDead, Alive
  <1> QED
    BY <1>1, <1>2, <1>3, <1>4 DEF Next, Terminated

LEMMA NextKeepsSafeInv ==
    ASSUME SafeInv, Safe, [Next]_vars
    PROVE  SafeInv'
  <1>0. CountInv' /\ StackInv /\ EndedDead' /\ Alive'
    BY NextKeepsCountInv, NextKeepsEnds DEF SafeInv, StackInv
  <1>1. StackInv' /\ OnePlace' /\ fault' = "none"
    <2>1. CASE Client
      BY <2>1, ClientKeepsSafeInv
    <2>2. ASSUME NEW t \in Threads, Worker(t)
          PROVE  StackInv' /\ OnePlace' /\ fault' = "none"
      BY <2>2, LoopKeepsSafeInv, BodyKeepsSafeInv DEF Worker
    <2>3. ASSUME NEW f \in Tasks, Wake(f)
          PROVE  StackInv' /\ OnePlace' /\ fault' = "none"
      <3>1. OwnersKept /\ StacksKept /\ fault' = "none"
        BY <2>3 DEF Wake, OwnersKept, StacksKept, SafeInv
      <3>2. OnePlace'
        BY <2>3 DEF Wake, SafeInv, OnePlace
      <3> QED
        BY <1>0, <3>1, <3>2, OneOwnerKept, StackInvKept DEF SafeInv
    <2>4. CASE UNCHANGED vars
      <3>1. OwnersKept /\ StacksKept /\ UNCHANGED <<fibers, calls, waiters, fault>>
        BY <2>4 DEF vars, OwnersKept, StacksKept
      <3> QED
        BY <1>0, <3>1, OneOwnerKept, StackInvKept, OnePlaceKept DEF SafeInv
    <2> QED
      BY <2>1, <2>2, <2>3, <2>4 DEF Next, Terminated
  <1> QED
    BY <1>0, <1>1 DEF SafeInv, StackInv

THEOREM SafeInvariance ==
    ASSUME Safe
    PROVE  Spec => []SafeInv
  <1>1. Init => SafeInv
    BY SafeInit
  <1>2. SafeInv /\ [Next]_vars => SafeInv'
    BY NextKeepsSafeInv
  <1> QED
    BY <1>1, <1>2, PTL DEF Spec

(* With one worker, or with tasks that yield with YieldToReady only and are
   scheduled once, no worker ever resumes a fiber that another one is still
   executing: neither the assertion nor the jump of swapIn can go wrong. *)
THEOREM ResumeIsSafe ==
    ASSUME Safe
    PROVE  Spec => []NoFault
  <1>1. SafeInv => NoFault
    BY DEF SafeInv, NoFault
  <1> QED
    BY <1>1, SafeInvariance, PTL

(* In the same cases a task is on the stack of one worker at most, and what a
   worker takes from the queue is on no worker's stack. *)
THEOREM Exclusive ==
    ASSUME Safe
    PROVE  Spec => [](OneStack /\ TakesOnlySuspended)
  <1>1. SafeInv => OneStack
    BY DEF SafeInv, OneOwner, OneStack, Owns, Running, Owning, OnStack
  <1>2. SafeInv => TakesOnlySuspended
    <2> SUFFICES ASSUME SafeInv, NEW t \in Threads, NEW u \in Threads, NEW f \in Tasks,
                        pc[t] \in {"dispatch", "swapin"}, ft[t].task = f, Running(u, f)
                 PROVE  FALSE
      BY DEF TakesOnlySuspended
    <2>1. Owns(t, f) /\ Owns(u, f)
      BY DEF Owns, Running, Owning, OnStack
    <2>2. t = u
      BY <2>1 DEF SafeInv, OneOwner
    <2> QED
      BY <2>2 DEF Running, OnStack
  <1> QED
    BY <1>1, <1>2, SafeInvariance, PTL

(* In the same cases a fiber's state is EXEC for as long as it executes, so
   that the scan of the queue recognises it (scheduler.cpp:256). *)
THEOREM StateTellsExecution ==
    ASSUME Safe
    PROVE  Spec => []ExecWhileRunning
  <1>1. SafeInv => ExecWhileRunning
    BY DEF SafeInv
  <1> QED
    BY <1>1, SafeInvariance, PTL

-----------------------------------------------------------------------------
(* What is left of exclusive execution for every pool, with YieldToHold, with
   switchTo and with fibers scheduled twice: up to the first faulty swapIn, the
   saved context is a lock. A context is consumed by the worker that jumps
   through it and stored again by the same worker, so a task is on one stack
   at most, and a task on no stack can be resumed. *)
RunsUnsaved == \A t \in Threads : pc[t] \in OnStack => ~saved[ft[t].task]

SharedStacks == OneStack /\ UnsavedRuns /\ RunsUnsaved /\ ExecRuns

SharedInv == CountInv /\ SharedStacks

(* A step that nobody enters or leaves a stack with. *)
SameStacks ==
    /\ saved' = saved
    /\ \A f \in Tasks : state'[f] = "EXEC" => state[f] = "EXEC"
    /\ \A t \in Threads :
        /\ pc'[t] \in OnStack <=> pc[t] \in OnStack
        /\ pc'[t] \in {"exec", "parking"} <=> pc[t] \in {"exec", "parking"}
        /\ pc[t] \in OnStack => ft'[t] = ft[t]

LEMMA SameStacksKeepsShared ==
    ASSUME SharedStacks, SameStacks
    PROVE  SharedStacks'
  <1> USE DEF SharedStacks, SameStacks
  <1>1. OneStack'
    BY DEF OneStack, Running
  <1>2. UnsavedRuns' /\ RunsUnsaved'
    BY DEF UnsavedRuns, RunsUnsaved, Running
  <1>3. ExecRuns'
    BY DEF ExecRuns, OnStack
  <1> QED
    BY <1>1, <1>2, <1>3

LEMMA SwapInKeepsShared ==
    ASSUME SharedInv, NEW t \in Threads, SwapIn(t)
    PROVE  SharedStacks'
  <1> USE DEF SharedInv, SharedStacks
  <1> DEFINE f == ft[t].task
  <1>t. pc \in [Threads -> PCs] /\ state \in [Tasks -> FiberState] /\ saved \in [Tasks -> BOOLEAN]
    BY DEF CountInv, TypeOK, DataOK
  <1>1. /\ pc[t] = "swapin" /\ pc' = [pc EXCEPT ![t] = "exec"] /\ f \in Tasks /\ saved[f]
        /\ state' = [state EXCEPT ![f] = "EXEC"] /\ saved' = [saved EXCEPT ![f] = FALSE]
        /\ ft' = ft
    BY ItemFields DEF SwapIn, Goto, Owning, CountInv, OwnersHaveItems
  <1>i. \A u \in Threads : pc[u] \in OnStack => ft[u].task \in Tasks
    BY ItemFields DEF CountInv, OwnersHaveItems, OnStack, Owning
  <1>2. \A u \in Threads : pc[u] \in OnStack => ft[u].task # f
    BY <1>1 DEF RunsUnsaved
  <1> HIDE DEF f
  <1>3. OneStack'
    BY <1>1, <1>2, <1>t DEF OneStack, Running, OnStack, f
  <1>4. UnsavedRuns'
    BY <1>1, <1>t DEF UnsavedRuns, Running, OnStack, f
  <1>5. RunsUnsaved'
    BY <1>1, <1>2, <1>i, <1>t DEF RunsUnsaved, OnStack, f
  <1>6. ExecRuns'
    BY <1>1, <1>t DEF ExecRuns, f
  <1> QED
    BY <1>3, <1>4, <1>5, <1>6

LEMMA SaveContextKeepsShared ==
    ASSUME SharedInv, NEW t \in Threads, SaveContext(t)
    PROVE  SharedStacks'
  <1> USE DEF SharedInv, SharedStacks
  <1> DEFINE f == ft[t].task
  <1>t. pc \in [Threads -> PCs] /\ saved \in [Tasks -> BOOLEAN]
    BY DEF CountInv, TypeOK, DataOK
  <1>1. /\ pc[t] = "leaving" /\ pc' = [pc EXCEPT ![t] = "back"] /\ f \in Tasks
        /\ saved' = [saved EXCEPT ![f] = TRUE]
        /\ UNCHANGED <<ft, state>>
    BY ItemFields DEF SaveContext, Goto, Owning, CountInv, OwnersHaveItems
  <1>2. \A u \in Threads : pc[u] \in OnStack /\ u # t => ft[u].task # f
    BY <1>1 DEF OneStack, Running, OnStack
  <1>3. OneStack'
    BY <1>1, <1>t DEF OneStack, Running, OnStack
  <1>4. UnsavedRuns'
    BY <1>1, <1>t DEF UnsavedRuns, Running, OnStack
  <1>5. RunsUnsaved'
    BY <1>1, <1>2, <1>t DEF RunsUnsaved, OnStack
  <1>6. ExecRuns'
    BY <1>1, <1>t DEF ExecRuns
  <1> QED
    BY <1>3, <1>4, <1>5, <1>6

LEMMA SuspendKeepsShared ==
    ASSUME SharedInv, NEW t \in Threads, NEW s, s # "EXEC", Suspend(t, s),
           pc[t] \in {"exec", "parking"}, UNCHANGED <<ft, saved>>
    PROVE  SharedStacks'
  <1> USE DEF SharedInv, SharedStacks
  <1>t. pc \in [Threads -> PCs] /\ state \in [Tasks -> FiberState]
    BY DEF CountInv, TypeOK, DataOK
  <1>1. /\ pc' = [pc EXCEPT ![t] = "leaving"]
        /\ state' = [state EXCEPT ![ft[t].task] = s]
    BY DEF Suspend, Goto
  <1>3. \A u \in Threads : pc'[u] \in OnStack <=> pc[u] \in OnStack
    BY <1>1, <1>t DEF OnStack
  <1>4. OneStack' /\ UnsavedRuns' /\ RunsUnsaved'
    BY <1>3 DEF OneStack, Running, UnsavedRuns, RunsUnsaved
  <1>5. ExecRuns'
    BY <1>1, <1>t DEF ExecRuns
  <1> QED
    BY <1>4, <1>5

LEMMA WorkerKeepsShared ==
    ASSUME SharedInv, NEW t \in Threads, Loop(t) \/ Body(t)
    PROVE  SharedStacks'
  <1> USE DEF SharedInv
  <1>t. pc \in [Threads -> PCs] /\ ft \in [Threads -> Item \cup {NoItem}] /\ state \in [Tasks -> FiberState]
    BY DEF CountInv, TypeOK, DataOK
  <1>1. CASE Fetch(t) \/ FetchNone(t) \/ Dispatch(t) \/ DropDead(t) \/ Deactivate(t) \/ Requeue(t)
    BY <1>1, <1>t, SameStacksKeepsShared
       DEF Fetch, FetchNone, Dispatch, DropDead, Deactivate, Requeue, Goto, SameStacks, OnStack, fiberVars
  <1>9. CASE FindReady(t) \/ Release(t) \/ FindHeld(t) \/ YieldFault(t)
    BY <1>9, <1>t, SameStacksKeepsShared
       DEF FindReady, Release, FindHeld, YieldFault, Goto, SameStacks, OnStack, fiberVars
  <1>2. CASE Exit(t) \/ FetchAgain(t) \/ IdleIn(t) \/ IdleTurn(t) \/ IdleOut(t) \/ SwapInFault(t)
    BY <1>2, <1>t, SameStacksKeepsShared
       DEF Exit, FetchAgain, IdleIn, IdleTurn, IdleOut, SwapInFault, Goto, SameStacks, OnStack, fiberVars
  <1>3. CASE Hold(t)
    <2>1. \A f \in Tasks : state'[f] = "EXEC" => state[f] = "EXEC"
      BY <1>3, <1>t DEF Hold
    <2> QED
      BY <1>3, <2>1, <1>t, SameStacksKeepsShared DEF Hold, Goto, SameStacks, OnStack
  <1>4. CASE SwapIn(t)
    BY <1>4, SwapInKeepsShared
  <1>5. CASE SaveContext(t)
    BY <1>5, SaveContextKeepsShared
  <1>6. CASE YieldToReady(t) \/ YieldToHold(t) \/ Finish(t)
    BY <1>6, SuspendKeepsShared DEF YieldToReady, YieldToHold, Finish, Dead
  <1>7. CASE Park(t) \/ \E th \in Pins : SwitchTo(t, th)
    BY <1>7, <1>t, SameStacksKeepsShared DEF Park, SwitchTo, Goto, SameStacks, OnStack
  <1>8. CASE \E f \in Tasks, th \in Pins : Spawn(t, f, th)
    BY <1>8, SameStacksKeepsShared DEF Spawn, SameStacks, fiberVars
  <1> QED
    BY <1>1, <1>2, <1>3, <1>4, <1>5, <1>6, <1>7, <1>8, <1>9 DEF Loop, Body

LEMMA ClientKeepsShared ==
    ASSUME SharedInv, Client
    PROVE  SharedStacks'
  <1> USE DEF SharedInv
  <1>1. CASE Start
    <2>1. \A t \in Threads : pc[t] \notin OnStack /\ pc'[t] \notin OnStack
      BY <1>1 DEF Start, CountInv, PoolDown, OnStack
    <2> QED
      BY <1>1, <2>1, SameStacksKeepsShared DEF Start, SameStacks, OnStack, fiberVars
  <1>2. CASE StopBegin \/ StopRequest \/ StopJoin
    BY <1>2, SameStacksKeepsShared DEF StopBegin, StopRequest, StopJoin, SameStacks, fiberVars
  <1>3. CASE \E f \in Tasks, th \in Pins : Schedule(f, th)
    BY <1>3, SameStacksKeepsShared DEF Schedule, SameStacks, fiberVars
  <1>4. CASE \E f, g \in Tasks : ScheduleBatch(f, g)
    BY <1>4, SameStacksKeepsShared DEF ScheduleBatch, SameStacks, fiberVars
  <1> QED
    BY <1>1, <1>2, <1>3, <1>4 DEF Client

LEMMA SharedInit == Init => SharedInv
  <1> SUFFICES ASSUME Init PROVE SharedInv
    OBVIOUS
  <1>1. OneStack /\ UnsavedRuns /\ RunsUnsaved /\ ExecRuns
    BY DEF Init, OneStack, Running, UnsavedRuns, RunsUnsaved, ExecRuns, OnStack
  <1> QED
    BY <1>1, CountInit DEF SharedInv, SharedStacks

LEMMA NextKeepsShared ==
    ASSUME SharedInv, [Next]_vars
    PROVE  SharedInv'
  <1>1. SharedStacks'
    <2>1. CASE Client
      BY <2>1, ClientKeepsShared
    <2>2. ASSUME NEW t \in Threads, Worker(t)
          PROVE  SharedStacks'
      BY <2>2, WorkerKeepsShared DEF Worker
    <2>3. ASSUME NEW f \in Tasks, Wake(f)
          PROVE  SharedStacks'
      BY <2>3, SameStacksKeepsShared DEF Wake, SameStacks, SharedInv
    <2>4. CASE UNCHANGED vars
      BY <2>4, SameStacksKeepsShared DEF vars, SameStacks, SharedInv
    <2> QED
      BY <2>1, <2>2, <2>3, <2>4 DEF Next, Terminated
  <1> QED
    BY <1>1, NextKeepsCountInv DEF SharedInv

THEOREM SharedInvariance == Spec => []SharedInv
  <1>1. Init => SharedInv
    BY SharedInit
  <1>2. SharedInv /\ [Next]_vars => SharedInv'
    BY NextKeepsShared
  <1> QED
    BY <1>1, <1>2, PTL DEF Spec

(* However tasks yield, park, switch threads and are woken, a task is on the
   stack of one worker at most: the first early resumption is a fault of
   swapIn, never a second execution that goes unnoticed. *)
THEOREM OneStackAlways == Spec => []OneStack
  BY SharedInvariance, PTL DEF SharedInv, SharedStacks

(* A task that no worker has taken is suspended, with a stored context, for
   every pool and every use of the scheduler: only a task that another worker
   has not given up yet can be resumed too early. *)
THEOREM ReleasedCanResume == Spec => []ReleasedIsResumable
  <1>1. SharedInv => ReleasedIsResumable
    BY DEF SharedInv, SharedStacks, ReleasedIsResumable, UnsavedRuns, ExecRuns, Running, OnStack, Owning
  <1> QED
    BY <1>1, SharedInvariance, PTL

-----------------------------------------------------------------------------
(* Parked tasks, with one worker and without fibers scheduled twice. A task
   then has one token, which is the schedule() call still to come, its item in
   the queue, or the reference its waker holds; and the worker that owns the
   task has the token instead, unless the task is on its way to rest. *)
Solo == Twice = {} /\ \A t, u \in Threads : t = u

OneToken ==
    /\ \A f \in Tasks : calls[f] <= 1
    /\ \A i, j \in 1..Len(fibers) : fibers[i].task = fibers[j].task => i = j
    /\ \A i \in 1..Len(fibers) : calls[fibers[i].task] = 0 /\ fibers[i].task \notin waiters
    /\ \A f \in waiters : calls[f] = 0

Resting(t, f) ==
    \/ pc[t] = "parking"
    \/ pc[t] \in {"leaving", "back", "examine", "hold"} /\ state[f] = "HOLD"

OwnerRests ==
    \A t \in Threads, f \in Tasks : Owns(t, f) =>
        /\ calls[f] = 0
        /\ f \in waiters \/ Queued(f) => Resting(t, f)

WaiterHolds == \A f \in waiters : state[f] = "HOLD" \/ \E t \in Threads : Owns(t, f)

ParkPlaces == OneToken /\ OwnerRests /\ WaiterHolds

SoloInv == CountInv /\ ParkPlaces

(* One more item, of a task that has no other token. *)
LEMMA AppendKeepsToken ==
    ASSUME CountInv, OneToken, NEW f \in Tasks, NEW it \in Item, it.task = f,
           fibers' = Append(fibers, it), ~Queued(f),
           calls'[f] = 0, \A g \in Tasks \ {f} : calls'[g] = calls[g],
           waiters' \subseteq waiters, f \notin waiters'
    PROVE  /\ OneToken'
           /\ \A g \in Tasks : Queued(g)' => Queued(g) \/ g = f
  <1> DEFINE n == Len(fibers)
  <1>1. fibers \in Seq(Item) /\ n \in Nat /\ waiters \subseteq Tasks
    BY TasksAssumption DEF CountInv, TypeOK, DataOK
  <1>2. /\ Len(fibers') = n + 1 /\ fibers'[n + 1] = it
        /\ \A i \in 1..n : fibers'[i] = fibers[i]
    BY <1>1
  <1>3. \A i \in 1..n : fibers[i].task \in Tasks \ {f}
    BY <1>1, ItemFields DEF Queued
  <1>4. \A i \in 1..(n + 1) : i \in 1..n \/ i = n + 1
    BY <1>1
  <1>5. \A i, j \in 1..(n + 1) : fibers'[i].task = fibers'[j].task => i = j
    BY <1>2, <1>3, <1>4 DEF OneToken
  <1>6. \A i \in 1..(n + 1) : calls'[fibers'[i].task] = 0 /\ fibers'[i].task \notin waiters'
    BY <1>2, <1>3, <1>4 DEF OneToken
  <1>7. \A g \in waiters' : calls'[g] = 0
    BY <1>1 DEF OneToken
  <1>8. \A g \in Tasks : calls'[g] <= 1
    <2> SUFFICES ASSUME NEW g \in Tasks PROVE calls'[g] <= 1
      OBVIOUS
    <2>1. CASE g = f
      BY <2>1
    <2>2. CASE g # f
      BY <2>2 DEF OneToken
    <2> QED
      BY <2>1, <2>2
  <1>9. \A g \in Tasks : Queued(g)' => Queued(g) \/ g = f
    BY <1>2, <1>4 DEF Queued
  <1> QED
    BY <1>2, <1>5, <1>6, <1>7, <1>8, <1>9 DEF OneToken

(* schedule() turns the call still to come into an item. *)
LEMMA EnqueueKeepsParkPlaces ==
    ASSUME SoloInv, NEW f \in Tasks, NEW th \in Pins, Enqueue(f, th),
           UNCHANGED <<pc, ft, state, waiters>>
    PROVE  ParkPlaces'
  <1> USE DEF SoloInv, ParkPlaces
  <1> DEFINE it == NewItem(f, Kind(f), th)
  <1>1. it \in Item /\ it.task = f
    BY NewItemType, KindType, PinsAssumption DEF NewItem
  <1>2. calls \in [Tasks -> 0..2] /\ fibers' = Append(fibers, it) /\ calls[f] > 0
        /\ calls' = [calls EXCEPT ![f] = calls[f] - 1]
    BY DEF CountInv, TypeOK, DataOK, Enqueue
  <1> HIDE DEF it
  <1>3. calls[f] = 1
    <2>1. calls[f] \in 0..2 /\ calls[f] <= 1
      BY <1>2 DEF OneToken
    <2> QED
      BY <1>2, <2>1
  <1>4. calls'[f] = 0 /\ \A g \in Tasks \ {f} : calls'[g] = calls[g]
    BY <1>2, <1>3
  <1>5. ~Queued(f) /\ f \notin waiters /\ \A t \in Threads : ~Owns(t, f)
    BY <1>3 DEF OneToken, Queued, OwnerRests
  <1>6. OneToken' /\ \A g \in Tasks : Queued(g)' => Queued(g) \/ g = f
    BY <1>1, <1>2, <1>4, <1>5, AppendKeepsToken
  <1>7. OwnerRests'
    BY <1>4, <1>5, <1>6 DEF OwnerRests, Owns, Resting
  <1>8. WaiterHolds'
    BY DEF WaiterHolds, Owns
  <1> QED
    BY <1>6, <1>7, <1>8

LEMMA BatchKeepsParkPlaces ==
    ASSUME SoloInv, NEW f \in Tasks, NEW g \in Tasks, ScheduleBatch(f, g)
    PROVE  ParkPlaces'
  <1> USE DEF SoloInv, ParkPlaces
  <1> DEFINE n == Len(fibers)
             a == NewItem(f, Kind(f), AnyThread)
             b == NewItem(g, Kind(g), AnyThread)
  <1>1. /\ fibers \in Seq(Item) /\ calls \in [Tasks -> 0..2] /\ n \in Nat /\ waiters \subseteq Tasks
        /\ a \in Item /\ b \in Item /\ a.task = f /\ b.task = g /\ f # g
    BY NewItemType, KindType, TasksAssumption DEF CountInv, TypeOK, DataOK, NewItem, ScheduleBatch
  <1>2. /\ calls[f] > 0 /\ calls[g] > 0
        /\ calls' = [x \in Tasks |-> IF x \in {f, g} THEN calls[x] - 1 ELSE calls[x]]
        /\ fibers' = fibers \o <<a, b>>
        /\ UNCHANGED <<pc, ft, state, waiters>>
    BY DEF ScheduleBatch, fiberVars
  <1> HIDE DEF a, b
  <1>3. /\ Len(fibers') = n + 2
        /\ \A i \in 1..n : fibers'[i] = fibers[i]
        /\ fibers'[n + 1] = a /\ fibers'[n + 2] = b
    BY <1>1, <1>2
  <1>4. \A i \in 1..n : fibers[i].task \in Tasks \ {f, g}
    BY <1>1, <1>2, ItemFields DEF OneToken
  <1>5. f \notin waiters /\ g \notin waiters /\ \A t \in Threads : ~Owns(t, f) /\ ~Owns(t, g)
    BY <1>2 DEF OneToken, OwnerRests
  <1>6. /\ calls'[f] = 0 /\ calls'[g] = 0
        /\ \A x \in Tasks \ {f, g} : calls'[x] = calls[x]
    <2>1. calls[f] \in 0..2 /\ calls[g] \in 0..2 /\ calls[f] <= 1 /\ calls[g] <= 1
      BY <1>1 DEF OneToken
    <2>2. calls[f] = 1 /\ calls[g] = 1
      BY <1>2, <2>1
    <2> QED
      BY <1>2, <2>2
  <1>8. \A i \in 1..(n + 2) : i \in 1..n \/ i = n + 1 \/ i = n + 2
    BY <1>1
  <1>9. OneToken'
    <2>1. \A i, j \in 1..Len(fibers') : fibers'[i].task = fibers'[j].task => i = j
      BY SMTT(30), <1>1, <1>3, <1>4, <1>8 DEF OneToken
    <2>2. \A i \in 1..Len(fibers') : calls'[fibers'[i].task] = 0 /\ fibers'[i].task \notin waiters'
      BY <1>1, <1>2, <1>3, <1>4, <1>5, <1>6, <1>8 DEF OneToken
    <2>3. \A x \in Tasks : calls'[x] <= 1
      <3> SUFFICES ASSUME NEW x \in Tasks PROVE calls'[x] <= 1
        OBVIOUS
      <3>1. CASE x \in {f, g}
        BY <3>1, <1>6
      <3>2. CASE x \notin {f, g}
        BY <3>2, <1>6 DEF OneToken
      <3> QED
        BY <3>1, <3>2
    <2>4. \A x \in waiters' : calls'[x] = 0
      BY <1>1, <1>2, <1>6 DEF OneToken
    <2> QED
      BY <2>1, <2>2, <2>3, <2>4 DEF OneToken
  <1>10. \A x \in Tasks : Queued(x)' => Queued(x) \/ x = f \/ x = g
    BY <1>1, <1>3, <1>8 DEF Queued
  <1>11. OwnerRests'
    BY <1>2, <1>5, <1>6, <1>10 DEF OwnerRests, Owns, Resting
  <1>12. WaiterHolds'
    BY <1>2 DEF WaiterHolds, Owns
  <1> QED
    BY <1>9, <1>11, <1>12

(* Taking the item takes the token. *)
LEMMA FetchKeepsParkPlaces ==
    ASSUME SoloInv, Solo, NEW t \in Threads, Fetch(t)
    PROVE  ParkPlaces'
  <1> USE DEF SoloInv, ParkPlaces
  <1>t. /\ pc \in [Threads -> PCs] /\ ft \in [Threads -> Item \cup {NoItem}]
        /\ fibers \in Seq(Item) /\ Len(fibers) \in Nat
    BY DEF CountInv, TypeOK, DataOK
  <1>1. PICK i \in 1..Len(fibers) :
          ft' = [ft EXCEPT ![t] = fibers[i]] /\ fibers' = RemoveAt(fibers, i)
    BY DEF Fetch
  <1>2. fibers[i] \in Item /\ fibers[i].task \in Tasks
    BY <1>t, ItemFields
  <1>3. /\ pc[t] = "fetch" /\ pc' = [pc EXCEPT ![t] = "dispatch"]
        /\ UNCHANGED <<state, waiters, calls>>
    BY DEF Fetch, Goto, fiberVars
  <1>4. \A u \in Threads : u = t
    BY DEF Solo
  <1> DEFINE at(k) == IF k < i THEN k ELSE k + 1
  <1>5. /\ Len(fibers') = Len(fibers) - 1
        /\ \A k \in 1..(Len(fibers) - 1) : fibers'[k] = fibers[at(k)]
    BY <1>1, <1>t, RemoveAtProperties
  <1>6. /\ \A k \in 1..(Len(fibers) - 1) : at(k) \in 1..Len(fibers) /\ at(k) # i
        /\ \A k, l \in 1..(Len(fibers) - 1) : at(k) = at(l) => k = l
    BY <1>t
  <1> HIDE DEF at
  <1>7. OneToken'
    <2>1. ASSUME NEW k \in 1..(Len(fibers) - 1), NEW l \in 1..(Len(fibers) - 1),
                 fibers'[k].task = fibers'[l].task
          PROVE  k = l
      <3>1. fibers[at(k)].task = fibers[at(l)].task
        BY <1>5, <2>1
      <3>2. at(k) = at(l)
        BY <1>6, <3>1 DEF OneToken
      <3> QED
        BY <1>6, <3>2
    <2>2. \A k \in 1..Len(fibers') : calls'[fibers'[k].task] = 0 /\ fibers'[k].task \notin waiters'
      BY <1>3, <1>5, <1>6 DEF OneToken
    <2>3. \A k, l \in 1..Len(fibers') : fibers'[k].task = fibers'[l].task => k = l
      BY <1>5, <2>1
    <2> QED
      BY <1>3, <2>2, <2>3 DEF OneToken
  <1>f. PICK f \in Tasks : f = fibers[i].task
    BY <1>2
  <1>8. calls'[f] = 0 /\ f \notin waiters' /\ ~Queued(f)'
    <2>1. \A k \in 1..Len(fibers') : fibers'[k].task # f
      BY <1>5, <1>6, <1>f DEF OneToken
    <2> QED
      BY <1>1, <1>3, <1>f, <2>1 DEF OneToken, Queued
  <1>9. OwnerRests'
    <2>1. ft'[t].task = f
      BY <1>1, <1>f, <1>t
    <2> QED
      BY <1>4, <1>8, <2>1 DEF OwnerRests, Owns
  <1>10. WaiterHolds'
    BY <1>3, <1>4 DEF WaiterHolds, Owns, Owning
  <1> QED
    BY <1>7, <1>9, <1>10

(* Requeuing a task that yielded gives its token back to the queue. *)
LEMMA RequeueKeepsParkPlaces ==
    ASSUME SoloInv, Solo, NEW t \in Threads, Requeue(t)
    PROVE  ParkPlaces'
  <1> USE DEF SoloInv, ParkPlaces
  <1>t. pc \in [Threads -> PCs] /\ ft \in [Threads -> Item \cup {NoItem}]
    BY DEF CountInv, TypeOK, DataOK
  <1>4. \A u \in Threads : u = t
    BY DEF Solo
  <1>1. /\ pc[t] = "requeue" /\ pc' = [pc EXCEPT ![t] = "fetch"]
        /\ UNCHANGED <<state, waiters, calls>>
    BY DEF Requeue, Goto, fiberVars
  <1>2. ft[t] \in Item /\ ft[t].task \in Tasks /\ RequeueThread(ft[t]) \in Threads \cup {AnyThread}
    BY <1>1, ItemFields DEF CountInv, OwnersHaveItems, Owning, RequeueThread
  <1>f. PICK f \in Tasks : f = ft[t].task
    BY <1>2
  <1>3. PICK it \in Item : it.task = f /\ fibers' = Append(fibers, it)
    BY <1>2, <1>f, NewItemType DEF Requeue, NewItem
  <1>5. Owns(t, f)
    BY <1>1, <1>f DEF Owns, Owning
  <1>6. ~Queued(f) /\ f \notin waiters /\ calls[f] = 0
    BY <1>1, <1>5 DEF OwnerRests, Resting
  <1>7. OneToken'
    BY <1>1, <1>3, <1>6, AppendKeepsToken
  <1>8. OwnerRests'
    BY <1>1, <1>4, <1>t DEF OwnerRests, Owns, Owning
  <1>9. WaiterHolds'
    BY <1>1, <1>4, <1>5, <1>6 DEF WaiterHolds, Owns
  <1> QED
    BY <1>7, <1>8, <1>9

(* The waker turns its reference into an item. *)
LEMMA WakeKeepsParkPlaces ==
    ASSUME SoloInv, NEW f \in Tasks, Wake(f)
    PROVE  ParkPlaces'
  <1> USE DEF SoloInv, ParkPlaces
  <1>1. /\ f \in waiters /\ waiters' = waiters \ {f}
        /\ UNCHANGED <<pc, ft, state, calls>>
    BY DEF Wake
  <1>3. PICK it \in Item : it.task = f /\ fibers' = Append(fibers, it)
    BY NewItemType DEF Wake, NewItem
  <1>6. ~Queued(f) /\ calls[f] = 0
    BY <1>1 DEF OneToken, Queued
  <1>7. OneToken' /\ \A g \in Tasks : Queued(g)' => Queued(g) \/ g = f
    BY <1>1, <1>3, <1>6, AppendKeepsToken
  <1>8. OwnerRests'
    BY <1>1, <1>7 DEF OwnerRests, Owns, Resting
  <1>9. WaiterHolds'
    BY <1>1 DEF WaiterHolds, Owns
  <1> QED
    BY <1>7, <1>8, <1>9

(* Steps of the worker that leave the tokens where they are. *)
LEMMA TokensStay ==
    ASSUME OneToken, UNCHANGED <<fibers, calls, waiters>>
    PROVE  OneToken' /\ \A f : Queued(f)' <=> Queued(f)
  BY DEF OneToken, Queued

LEMMA WorkerKeepsParkPlaces ==
    ASSUME SoloInv, Solo, NEW t \in Threads, Loop(t) \/ Body(t)
    PROVE  ParkPlaces'
  <1> USE DEF SoloInv, ParkPlaces
  <1>t. /\ pc \in [Threads -> PCs] /\ ft \in [Threads -> Item \cup {NoItem}]
        /\ state \in [Tasks -> FiberState] /\ waiters \subseteq Tasks
    BY TasksAssumption DEF CountInv, TypeOK, DataOK
  <1>a. \A u \in Threads : u = t
    BY DEF Solo
  <1>b. pc[t] \in Owning => ft[t].task \in Tasks
    BY ItemFields DEF CountInv, OwnersHaveItems
  <1>1. CASE Fetch(t)
    BY <1>1, FetchKeepsParkPlaces
  <1>2. CASE FetchNone(t) \/ Exit(t) \/ FetchAgain(t) \/ IdleIn(t) \/ IdleTurn(t) \/ IdleOut(t)
    <2>1. /\ UNCHANGED <<fibers, calls, waiters, state>>
          /\ pc[t] \notin Owning /\ pc'[t] \notin Owning
      BY <1>2, <1>t DEF FetchNone, Exit, FetchAgain, IdleIn, IdleTurn, IdleOut, Goto, Owning, queueVars, fiberVars
    <2> QED
      BY <1>a, <2>1, TokensStay DEF OwnerRests, WaiterHolds, Owns
  <1>3. CASE Dispatch(t) \/ SaveContext(t) \/ Deactivate(t)
    <2>1. /\ UNCHANGED <<fibers, calls, waiters, state, ft>>
          /\ pc[t] \in Owning /\ pc'[t] \in Owning
          /\ pc[t] \in {"leaving", "back"} => pc'[t] \in {"back", "examine"}
          /\ pc[t] \in {"dispatch", "leaving", "back"}
      BY <1>3, <1>t DEF Dispatch, SaveContext, Deactivate, Goto, Owning, queueVars, fiberVars
    <2> QED
      BY <1>a, <2>1, TokensStay DEF OwnerRests, WaiterHolds, Owns, Resting
  <1>4. CASE DropDead(t)
    <2>1. /\ UNCHANGED <<fibers, calls, waiters, state>>
          /\ pc[t] = "dispatch" /\ pc'[t] \notin Owning
      BY <1>4, <1>t DEF DropDead, Goto, Owning, queueVars, fiberVars
    <2>2. ft[t].task \notin waiters
      BY <2>1, <1>b DEF OwnerRests, Owns, Resting, Owning
    <2> QED
      BY <1>a, <2>1, <2>2, TokensStay DEF OwnerRests, WaiterHolds, Owns
  <1>5. CASE SwapIn(t)
    <2> DEFINE f == ft[t].task
    <2>1. /\ UNCHANGED <<fibers, calls, waiters, ft>> /\ f \in Tasks
          /\ state' = [state EXCEPT ![f] = "EXEC"]
          /\ pc[t] = "swapin" /\ pc'[t] = "exec"
      BY <1>5, <1>t, <1>b DEF SwapIn, Goto, Owning, queueVars, fiberVars
    <2>2. calls[f] = 0 /\ f \notin waiters /\ ~Queued(f)
      BY <2>1 DEF OwnerRests, Owns, Resting, Owning
    <2>3. WaiterHolds'
      BY <2>1, <2>2, <1>a, <1>t DEF WaiterHolds, Owns, Owning
    <2>4. OwnerRests'
      BY <1>a, <2>1, <2>2, TokensStay DEF OwnerRests, Owns
    <2> QED
      BY <2>1, <2>3, <2>4, TokensStay
  <1>6. CASE SwapInFault(t)
    BY <1>6, TokensStay DEF SwapInFault, OwnerRests, WaiterHolds, Owns, Resting, queueVars, fiberVars
  <1>7. CASE Requeue(t)
    BY <1>7, RequeueKeepsParkPlaces
  <1>14. CASE FindReady(t)
    <2>1. /\ UNCHANGED <<fibers, calls, waiters, state, ft>>
          /\ pc[t] = "examine" /\ pc'[t] = "requeue" /\ state[ft[t].task] = "READY"
      BY <1>14, <1>t DEF FindReady, Goto, queueVars, fiberVars
    <2> QED
      BY <1>a, <2>1, TokensStay DEF OwnerRests, WaiterHolds, Owns, Owning, Resting
  <1>15. CASE FindHeld(t)
    <2>1. /\ UNCHANGED <<fibers, calls, waiters, state, ft>>
          /\ pc[t] = "examine" /\ pc'[t] = "hold"
      BY <1>15, <1>t DEF FindHeld, Goto, queueVars, fiberVars
    <2> QED
      BY <1>a, <2>1, TokensStay DEF OwnerRests, WaiterHolds, Owns, Owning, Resting
  <1>16. CASE Release(t)
    <2>1. /\ UNCHANGED <<fibers, calls, waiters, state>>
          /\ pc[t] = "examine" /\ pc'[t] \notin Owning /\ state[ft[t].task] \in Dead
      BY <1>16, <1>t DEF Release, Goto, Owning, queueVars, fiberVars
    <2>2. ft[t].task \notin waiters
      BY <2>1, <1>b DEF OwnerRests, Owns, Resting, Owning, Dead
    <2> QED
      BY <1>a, <2>1, <2>2, TokensStay DEF OwnerRests, WaiterHolds, Owns
  <1>8. CASE Hold(t)
    <2> DEFINE f == ft[t].task
    <2>1. /\ UNCHANGED <<fibers, calls, waiters>> /\ f \in Tasks
          /\ state' = [state EXCEPT ![f] = "HOLD"]
          /\ pc[t] = "hold" /\ pc'[t] = "fetch"
      BY <1>8, <1>t, <1>b DEF Hold, Goto, Owning, queueVars
    <2>2. f \in waiters => state'[f] = "HOLD"
      BY <2>1, <1>t
    <2>3. WaiterHolds'
      BY <2>1, <2>2, <1>a, <1>t DEF WaiterHolds, Owns
    <2>4. OwnerRests'
      BY <1>a, <2>1 DEF OwnerRests, Owns, Owning
    <2> QED
      BY <2>1, <2>3, <2>4, TokensStay
  <1>9. CASE YieldToReady(t) \/ Finish(t)
    <2> DEFINE f == ft[t].task
    <2>1. /\ UNCHANGED <<fibers, calls, waiters, ft>> /\ f \in Tasks
          /\ \A g \in Tasks \ {f} : state'[g] = state[g]
          /\ pc[t] = "exec" /\ pc'[t] = "leaving"
      BY <1>9, <1>t, <1>b DEF YieldToReady, Finish, Suspend, Goto, Owning, queueVars
    <2>2. calls[f] = 0 /\ f \notin waiters /\ ~Queued(f)
      BY <2>1 DEF OwnerRests, Owns, Resting, Owning
    <2>3. WaiterHolds'
      BY <2>1, <2>2, <1>a, <1>t DEF WaiterHolds, Owns, Owning
    <2>4. OwnerRests'
      BY <1>a, <2>1, <2>2, TokensStay DEF OwnerRests, Owns
    <2> QED
      BY <2>1, <2>3, <2>4, TokensStay
  <1>10. CASE YieldToHold(t)
    <2> DEFINE f == ft[t].task
    <2>1. /\ UNCHANGED <<fibers, calls, waiters, ft>> /\ f \in Tasks
          /\ state' = [state EXCEPT ![f] = "HOLD"]
          /\ pc[t] = "parking" /\ pc'[t] = "leaving"
      BY <1>10, <1>t, <1>b DEF YieldToHold, Suspend, Goto, Owning, queueVars
    <2>3. WaiterHolds'
      BY <2>1, <1>a, <1>t DEF WaiterHolds, Owns, Owning
    <2>4. OwnerRests'
      BY <1>a, <1>t, <2>1, TokensStay DEF OwnerRests, Owns, Owning, Resting
    <2> QED
      BY <2>1, <2>3, <2>4, TokensStay
  <1>11. CASE Park(t)
    <2>f. PICK f : f = ft[t].task
      OBVIOUS
    <2>1. /\ UNCHANGED <<fibers, calls, state, ft>> /\ f \in Tasks
          /\ waiters' = waiters \cup {f}
          /\ pc[t] = "exec" /\ pc'[t] = "parking"
      BY <1>11, <1>t, <1>b, <2>f DEF Park, Goto, Owning, queueVars
    <2>2. calls[f] = 0 /\ ~Queued(f)
      BY <2>1, <2>f DEF OwnerRests, Owns, Resting, Owning
    <2>3. WaiterHolds'
      BY <2>1, <2>f, <1>a, <1>t DEF WaiterHolds, Owns, Owning
    <2>4. OwnerRests'
      BY <1>a, <2>1, <2>2, <2>f DEF OwnerRests, Owns, Owning, Resting
    <2>5. OneToken'
      BY <2>1, <2>2 DEF OneToken, Queued
    <2> QED
      BY <2>3, <2>4, <2>5
  <1>12. ASSUME NEW th \in Pins, SwitchTo(t, th)
         PROVE  FALSE
    BY <1>12, <1>a, PinsAssumption DEF SwitchTo
  <1>13. ASSUME NEW f \in Tasks, NEW th \in Pins, Spawn(t, f, th)
         PROVE  ParkPlaces'
    BY <1>13, EnqueueKeepsParkPlaces DEF Spawn, fiberVars
  <1>17. CASE YieldFault(t)
    BY <1>17, TokensStay DEF YieldFault, OwnerRests, WaiterHolds, Owns, Resting, queueVars, fiberVars
  <1> QED
    BY <1>1, <1>2, <1>3, <1>4, <1>5, <1>6, <1>7, <1>8, <1>9, <1>10, <1>11, <1>12, <1>13, <1>14,
       <1>15, <1>16, <1>17 DEF Loop, Body

LEMMA ClientKeepsParkPlaces ==
    ASSUME SoloInv, Client
    PROVE  ParkPlaces'
  <1> USE DEF SoloInv, ParkPlaces
  <1>1. CASE Start
    <2>1. \A t \in Threads : pc[t] \notin Owning /\ pc'[t] \notin Owning
      BY <1>1 DEF Start, CountInv, PoolDown, Owning
    <2> QED
      BY <1>1, <2>1, TokensStay DEF Start, OwnerRests, WaiterHolds, Owns, queueVars, fiberVars
  <1>2. CASE StopBegin \/ StopRequest \/ StopJoin
    <2>1. UNCHANGED <<fibers, calls, waiters, state, pc, ft>>
      BY <1>2 DEF StopBegin, StopRequest, StopJoin, queueVars, fiberVars
    <2> QED
      BY <2>1, TokensStay DEF OwnerRests, WaiterHolds, Owns, Resting
  <1>3. ASSUME NEW f \in Tasks, NEW th \in Pins, Schedule(f, th)
        PROVE  ParkPlaces'
    BY <1>3, EnqueueKeepsParkPlaces DEF Schedule, fiberVars
  <1>4. ASSUME NEW f \in Tasks, NEW g \in Tasks, ScheduleBatch(f, g)
        PROVE  ParkPlaces'
    BY <1>4, BatchKeepsParkPlaces
  <1> QED
    BY <1>1, <1>2, <1>3, <1>4 DEF Client

LEMMA SoloInit == Solo /\ Init => SoloInv
  <1> SUFFICES ASSUME Solo, Init PROVE SoloInv
    OBVIOUS
  <1>1. ParkPlaces
    BY DEF Init, Solo, ParkPlaces, OneToken, OwnerRests, WaiterHolds, Owns, Owning
  <1> QED
    BY <1>1, CountInit DEF SoloInv

LEMMA NextKeepsSoloInv ==
    ASSUME SoloInv, Solo, [Next]_vars
    PROVE  SoloInv'
  <1>1. ParkPlaces'
    <2>1. CASE Client
      BY <2>1, ClientKeepsParkPlaces
    <2>2. ASSUME NEW t \in Threads, Worker(t)
          PROVE  ParkPlaces'
      BY <2>2, WorkerKeepsParkPlaces DEF Worker
    <2>3. ASSUME NEW f \in Tasks, Wake(f)
          PROVE  ParkPlaces'
      BY <2>3, WakeKeepsParkPlaces
    <2>4. CASE UNCHANGED vars
      BY <2>4, TokensStay DEF vars, SoloInv, ParkPlaces, OwnerRests, WaiterHolds, Owns, Resting
    <2> QED
      BY <2>1, <2>2, <2>3, <2>4 DEF Next, Terminated
  <1> QED
    BY <1>1, NextKeepsCountInv DEF SoloInv

(* With one worker and without fibers scheduled twice, a parked task that the
   worker is not on is in state HOLD with its context stored, whatever its
   waker and the other tasks do: nothing resumes or ends it before the waker
   schedules it. *)
THEOREM ParkedStays ==
    ASSUME Solo
    PROVE  Spec => []ParkedIsResumable
  <1>1. Init => SoloInv
    BY SoloInit
  <1>2. SoloInv /\ [Next]_vars => SoloInv'
    BY NextKeepsSoloInv
  <1>3. SoloInv /\ SharedInv => ParkedIsResumable
    <2> SUFFICES ASSUME SoloInv, SharedInv, NEW f \in waiters,
                        \A t \in Threads : ~(pc[t] \in Owning /\ ft[t].task = f)
                 PROVE  state[f] = "HOLD" /\ saved[f]
      BY DEF ParkedIsResumable
    <2>1. state[f] = "HOLD"
      BY DEF SoloInv, ParkPlaces, WaiterHolds, Owns
    <2>2. f \in Tasks
      BY TasksAssumption DEF SharedInv, CountInv, TypeOK, DataOK
    <2>3. saved[f]
      BY <2>2 DEF SharedInv, SharedStacks, UnsavedRuns, Running, OnStack, Owning
    <2> QED
      BY <2>1, <2>3
  <1> QED
    BY <1>1, <1>2, <1>3, SharedInvariance, PTL DEF Spec

-----------------------------------------------------------------------------
(* What stop() leaves, for tasks that yield with YieldToReady only and are
   scheduled once. No worker's idle fiber ends before stop() has set both of
   its flags; an item that any thread may take therefore always has a worker
   that still looks at the queue; and a task that was scheduled has ended, or
   is in the queue, or is owned by a worker that will requeue it. *)
Plain == Holders = {} /\ Twice = {}

IdleEnds ==
    /\ stopping => client \in {"idle", "joining", "stopped"}
    /\ \A t \in Threads :
        /\ pc[t] = "exited" => idleState[t] = "TERM"
        /\ idleState[t] = "TERM" => client \in {"joining", "stopped"}

(* Worker t will scan the queue again before it exits. *)
Looking(t) == pc[t] # "exited" /\ ~(pc[t] = "none" /\ idleState[t] = "TERM")

Looked ==
    \A i \in 1..Len(fibers) :
        fibers[i].thread = AnyThread => \E t \in Threads : Looking(t)

(* A task leaves its stack to be queued again, or because it has ended. *)
ComesBack ==
    \A t \in Threads :
        /\ pc[t] \notin {"parking", "hold"}
        /\ pc[t] \in {"leaving", "back", "examine"} =>
            state[ft[t].task] = "READY" \/ state[ft[t].task] \in Dead

NotLost ==
    \A f \in Tasks :
        calls[f] = 0 => state[f] \in Dead \/ Queued(f) \/ \E t \in Threads : Owns(t, f)

DrainInv == SafeInv /\ IdleEnds /\ Looked /\ ComesBack /\ NotLost

LEMMA DrainInit == Init => DrainInv
  <1> SUFFICES ASSUME Init PROVE DrainInv
    OBVIOUS
  <1>1. IdleEnds /\ Looked /\ ComesBack
    BY DEF Init, IdleEnds, Looked, ComesBack
  <1>2. NotLost
    BY DEF Init, NotLost
  <1> QED
    BY <1>1, <1>2, SafeInit DEF DrainInv

(* The queue changes by one item taken or some items added. *)
LEMMA AppendedItem ==
    ASSUME CountInv, NEW it \in Item, fibers' = Append(fibers, it)
    PROVE  /\ Queued(it.task)'
           /\ \A f : Queued(f) => Queued(f)'
           /\ \A i \in 1..Len(fibers') :
                fibers'[i] = it \/ \E j \in 1..Len(fibers) : fibers'[i] = fibers[j]
  <1> DEFINE n == Len(fibers)
  <1>1. fibers \in Seq(Item) /\ n \in Nat
    BY DEF CountInv, TypeOK, DataOK
  <1>2. /\ Len(fibers') = n + 1 /\ fibers'[n + 1] = it
        /\ \A i \in 1..n : fibers'[i] = fibers[i]
    BY <1>1
  <1>3. n + 1 \in 1..(n + 1) /\ \A i \in 1..n : i \in 1..(n + 1)
    BY <1>1
  <1>4. \A i \in 1..(n + 1) : i \in 1..n \/ i = n + 1
    BY <1>1
  <1>5. Queued(it.task)'
    BY <1>2, <1>3 DEF Queued
  <1>6. \A f : Queued(f) => Queued(f)'
    BY <1>2, <1>3 DEF Queued
  <1>7. \A i \in 1..Len(fibers') :
            fibers'[i] = it \/ \E j \in 1..Len(fibers) : fibers'[i] = fibers[j]
    BY <1>2, <1>4
  <1> QED
    BY <1>5, <1>6, <1>7

(* While no idle fiber has ended every worker looks. *)
LEMMA AllLook ==
    ASSUME IdleEnds, client \in {"idle", "running"}
    PROVE  \E t \in Threads : Looking(t)
  BY ThreadsAssumption DEF IdleEnds, Looking

(* A step that moves no worker and leaves the queue alone. *)
LEMMA QuietKeepsDrain ==
    ASSUME IdleEnds', Looked, ComesBack, NotLost,
           UNCHANGED <<fibers, calls, state, pc, ft, idleState>>
    PROVE  IdleEnds' /\ Looked' /\ ComesBack' /\ NotLost'
  <1>1. Looked'
    BY DEF Looked, Looking
  <1>2. ComesBack'
    BY DEF ComesBack
  <1>3. NotLost'
    BY DEF NotLost, Queued, Owns
  <1> QED
    BY <1>1, <1>2, <1>3

LEMMA EnqueueKeepsDrain ==
    ASSUME DrainInv, NEW f \in Tasks, NEW th \in Pins, Enqueue(f, th),
           \E t \in Threads : Looking(t),
           UNCHANGED <<pc, ft, state, idleState, client, stopping>>
    PROVE  IdleEnds' /\ Looked' /\ ComesBack' /\ NotLost'
  <1> USE DEF DrainInv, SafeInv
  <1>1. IdleEnds' /\ ComesBack'
    BY DEF IdleEnds, ComesBack
  <1>2. PICK it \in Item : it.task = f /\ fibers' = Append(fibers, it)
    BY NewItemType, KindType, PinsAssumption DEF NewItem, Enqueue
  <1>3. \A g \in Tasks \ {f} : calls'[g] = calls[g]
    BY DEF Enqueue, CountInv, TypeOK, DataOK
  <1>4. Looked'
    BY <1>2 DEF Looked, Looking
  <1>5. NotLost'
    <2>1. Queued(f)' /\ \A g : Queued(g) => Queued(g)'
      BY <1>2, AppendedItem
    <2> QED
      BY <1>3, <2>1 DEF NotLost, Owns
  <1> QED
    BY <1>1, <1>4, <1>5

LEMMA ClientKeepsDrain ==
    ASSUME DrainInv, Client
    PROVE  IdleEnds' /\ Looked' /\ ComesBack' /\ NotLost'
  <1> USE DEF DrainInv, SafeInv
  <1>1. CASE Start
    <2>1. /\ \A t \in Threads : pc[t] \notin Owning /\ pc'[t] = "fetch" /\ idleState'[t] = "INIT"
          /\ stopping' = FALSE
          /\ UNCHANGED <<fibers, calls, state, ft>>
      BY <1>1 DEF Start, CountInv, PoolDown, Owning, queueVars, fiberVars
    <2>2. IdleEnds' /\ ComesBack'
      BY <2>1 DEF IdleEnds, ComesBack
    <2>3. Looked'
      BY <2>1, ThreadsAssumption DEF Looked, Looking
    <2>4. NotLost'
      BY <2>1 DEF NotLost, Queued, Owns
    <2> QED
      BY <2>2, <2>3, <2>4
  <1>2. CASE StopBegin \/ StopRequest \/ StopJoin
    <2>1. UNCHANGED <<fibers, calls, state, pc, ft, idleState>>
      BY <1>2 DEF StopBegin, StopRequest, StopJoin, queueVars, fiberVars
    <2>2. IdleEnds'
      BY <1>2, <2>1 DEF StopBegin, StopRequest, StopJoin, IdleEnds
    <2> QED
      BY <2>1, <2>2, QuietKeepsDrain
  <1>3. ASSUME NEW f \in Tasks, NEW th \in Pins, Schedule(f, th)
        PROVE  IdleEnds' /\ Looked' /\ ComesBack' /\ NotLost'
    BY <1>3, AllLook, EnqueueKeepsDrain DEF Schedule, fiberVars, clientVars
  <1>4. ASSUME NEW f \in Tasks, NEW g \in Tasks, ScheduleBatch(f, g)
        PROVE  IdleEnds' /\ Looked' /\ ComesBack' /\ NotLost'
    <2> DEFINE n == Len(fibers)
               a == NewItem(f, Kind(f), AnyThread)
               b == NewItem(g, Kind(g), AnyThread)
    <2>1. /\ fibers \in Seq(Item) /\ n \in Nat
          /\ a \in Item /\ b \in Item /\ a.task = f /\ b.task = g
      BY NewItemType, KindType DEF CountInv, TypeOK, DataOK, NewItem
    <2>2. /\ fibers' = fibers \o <<a, b>>
          /\ \A x \in Tasks \ {f, g} : calls'[x] = calls[x]
          /\ UNCHANGED <<pc, ft, state, idleState, client, stopping>>
      BY <1>4 DEF ScheduleBatch, fiberVars, clientVars
    <2> HIDE DEF a, b
    <2>3. /\ Len(fibers') = n + 2
          /\ \A i \in 1..n : fibers'[i] = fibers[i]
          /\ fibers'[n + 1] = a /\ fibers'[n + 2] = b
      BY <2>1, <2>2
    <2>4. n + 1 \in 1..(n + 2) /\ n + 2 \in 1..(n + 2) /\ \A i \in 1..n : i \in 1..(n + 2)
      BY <2>1
    <2>5. Queued(f)' /\ Queued(g)' /\ \A x : Queued(x) => Queued(x)'
      BY <2>1, <2>3, <2>4 DEF Queued
    <2>6. IdleEnds' /\ ComesBack'
      BY <2>2 DEF IdleEnds, ComesBack
    <2>7. Looked'
      BY <1>4, <2>2, AllLook DEF Looked, Looking, ScheduleBatch
    <2>8. NotLost'
      BY <2>2, <2>5 DEF NotLost, Owns
    <2> QED
      BY <2>6, <2>7, <2>8
  <1> QED
    BY <1>1, <1>2, <1>3, <1>4 DEF Client

(* A worker that finds nothing to take leaves no item for any thread behind:
   the only such items it skips are of executing fibers, and a queued task is
   not executing. *)
LEMMA NothingSkipped ==
    ASSUME SafeInv, Plain, NEW t \in Threads, FetchNone(t), NEW i \in 1..Len(fibers)
    PROVE  fibers[i].thread # AnyThread
  <1> SUFFICES ASSUME fibers[i].thread = AnyThread PROVE FALSE
    OBVIOUS
  <1>1. fibers[i].task \in Tasks
    BY ItemFields DEF SafeInv, CountInv, TypeOK, DataOK
  <1>2. state[fibers[i].task] = "EXEC"
    BY DEF FetchNone, Fetchable
  <1>3. PICK u \in Threads : Owns(u, fibers[i].task)
    BY <1>1, <1>2 DEF SafeInv, ExecRuns, Owns, Owning
  <1> QED
    BY <1>3 DEF SafeInv, OnePlace, Plain

(* Steps of a worker that leave the queue and the states alone, and give up no
   task that is not dead. *)
LEMMA LoopTurnKeepsDrain ==
    ASSUME DrainInv, NEW t \in Threads,
           UNCHANGED <<fibers, calls, state, client, stopping>>,
           \A u \in Threads \ {t} : pc'[u] = pc[u] /\ idleState'[u] = idleState[u] /\ ft'[u] = ft[u],
           pc'[t] \notin {"parking", "hold"},
           pc'[t] \in {"leaving", "back", "examine"} =>
                pc[t] \in {"leaving", "back", "examine"} /\ ft'[t] = ft[t],
           pc[t] \in Owning =>
                (pc'[t] \in Owning /\ ft'[t] = ft[t]) \/ state[ft[t].task] \in Dead,
           pc'[t] = "exited" => idleState'[t] = "TERM",
           idleState'[t] = "TERM" => client \in {"joining", "stopped"},
           Looking(t) => Looking(t)' \/ \A i \in 1..Len(fibers) : fibers[i].thread # AnyThread
    PROVE  IdleEnds' /\ Looked' /\ ComesBack' /\ NotLost'
  <1> USE DEF DrainInv
  <1>1. IdleEnds'
    BY DEF IdleEnds
  <1>2. Looked'
    <2> SUFFICES ASSUME NEW i \in 1..Len(fibers), fibers[i].thread = AnyThread
                 PROVE  \E u \in Threads : Looking(u)'
      BY DEF Looked
    <2>1. PICK u \in Threads : Looking(u)
      BY DEF Looked
    <2>2. Looking(u)'
      BY <2>1 DEF Looking
    <2> QED
      BY <2>2
  <1>3. ComesBack'
    BY DEF ComesBack
  <1>4. NotLost'
    <2> SUFFICES ASSUME NEW f \in Tasks, calls[f] = 0, state[f] \notin Dead, ~Queued(f)
                 PROVE  \E u \in Threads : Owns(u, f)'
      BY DEF NotLost, Queued
    <2>1. PICK u \in Threads : Owns(u, f)
      BY DEF NotLost
    <2>2. Owns(u, f)'
      BY <2>1 DEF Owns
    <2> QED
      BY <2>2
  <1> QED
    BY <1>1, <1>2, <1>3, <1>4

LEMMA FetchKeepsDrain ==
    ASSUME DrainInv, NEW t \in Threads, Fetch(t)
    PROVE  IdleEnds' /\ Looked' /\ ComesBack' /\ NotLost'
  <1> USE DEF DrainInv, SafeInv
  <1>t. /\ pc \in [Threads -> PCs] /\ ft \in [Threads -> Item \cup {NoItem}]
        /\ fibers \in Seq(Item) /\ Len(fibers) \in Nat
    BY DEF CountInv, TypeOK, DataOK
  <1>1. PICK i \in 1..Len(fibers) :
          ft' = [ft EXCEPT ![t] = fibers[i]] /\ fibers' = RemoveAt(fibers, i)
    BY DEF Fetch
  <1>3. /\ pc[t] = "fetch" /\ pc' = [pc EXCEPT ![t] = "dispatch"]
        /\ UNCHANGED <<state, calls, idleState, client, stopping>>
    BY DEF Fetch, Goto, fiberVars, clientVars
  <1>4. /\ Len(fibers') = Len(fibers) - 1
        /\ \A k \in 1..(Len(fibers) - 1) : fibers'[k] = fibers[IF k < i THEN k ELSE k + 1]
    BY <1>1, <1>t, RemoveAtProperties
  <1>5. IdleEnds' /\ ComesBack'
    BY <1>1, <1>3, <1>t DEF IdleEnds, ComesBack
  <1>6. Looked'
    <2>1. Looking(t)'
      BY <1>3, <1>t DEF Looking
    <2> QED
      BY <2>1 DEF Looked
  <1>7. NotLost'
    <2> SUFFICES ASSUME NEW f \in Tasks, calls[f] = 0, state[f] \notin Dead
                 PROVE  Queued(f)' \/ \E u \in Threads : Owns(u, f)'
      BY <1>3 DEF NotLost
    <2>1. CASE \E u \in Threads : Owns(u, f)
      <3>1. PICK u \in Threads : Owns(u, f)
        BY <2>1
      <3>2. Owns(u, f)'
        BY <3>1, <1>1, <1>3, <1>t DEF Owns, Owning
      <3> QED
        BY <3>2
    <2>2. CASE Queued(f)
      <3>1. PICK j \in 1..Len(fibers) : fibers[j].task = f
        BY <2>2 DEF Queued
      <3>2. CASE j = i
        BY <3>1, <3>2, <1>1, <1>3, <1>t DEF Owns, Owning
      <3>3. CASE j # i
        <4> DEFINE k == IF j < i THEN j ELSE j - 1
        <4>1. k \in 1..(Len(fibers) - 1) /\ (IF k < i THEN k ELSE k + 1) = j
          BY <3>3, <1>t
        <4>2. fibers'[k].task = f /\ k \in 1..Len(fibers')
          BY <4>1, <3>1, <1>4
        <4> HIDE DEF k
        <4> QED
          BY <4>2 DEF Queued
      <3> QED
        BY <3>2, <3>3
    <2> QED
      BY <2>1, <2>2 DEF NotLost
  <1> QED
    BY <1>5, <1>6, <1>7

LEMMA RequeueKeepsDrain ==
    ASSUME DrainInv, NEW t \in Threads, Requeue(t)
    PROVE  IdleEnds' /\ Looked' /\ ComesBack' /\ NotLost'
  <1> USE DEF DrainInv, SafeInv
  <1>t. pc \in [Threads -> PCs] /\ ft \in [Threads -> Item \cup {NoItem}]
    BY DEF CountInv, TypeOK, DataOK
  <1>1. /\ pc[t] = "requeue" /\ pc' = [pc EXCEPT ![t] = "fetch"]
        /\ ft' = [ft EXCEPT ![t] = NoItem]
        /\ UNCHANGED <<state, calls, idleState, client, stopping>>
    BY DEF Requeue, Goto, fiberVars, clientVars
  <1>2. ft[t] \in Item /\ ft[t].task \in Tasks /\ RequeueThread(ft[t]) \in Threads \cup {AnyThread}
    BY <1>1, ItemFields DEF CountInv, OwnersHaveItems, Owning, RequeueThread
  <1>f. PICK f \in Tasks : f = ft[t].task
    BY <1>2
  <1>3. PICK it \in Item : it.task = f /\ fibers' = Append(fibers, it)
    BY <1>2, <1>f, NewItemType DEF Requeue, NewItem
  <1>4. Queued(f)' /\ \A g : Queued(g) => Queued(g)'
    BY <1>3, AppendedItem
  <1>5. IdleEnds' /\ ComesBack'
    BY <1>1, <1>t DEF IdleEnds, ComesBack
  <1>6. Looked'
    <2>1. Looking(t)'
      BY <1>1, <1>t DEF Looking
    <2> QED
      BY <2>1 DEF Looked
  <1>7. NotLost'
    <2> SUFFICES ASSUME NEW g \in Tasks, calls[g] = 0, state[g] \notin Dead, g # f, ~Queued(g)
                 PROVE  \E u \in Threads : Owns(u, g)'
      BY <1>1, <1>4 DEF NotLost
    <2>1. PICK u \in Threads : Owns(u, g)
      BY DEF NotLost
    <2>2. Owns(u, g)'
      BY <2>1, <1>1, <1>f, <1>t DEF Owns
    <2> QED
      BY <2>2
  <1> QED
    BY <1>5, <1>6, <1>7

(* The steps that change the state of the task on worker t: resuming,
   suspending, releasing. *)
LEMMA StateChangeKeepsDrain ==
    ASSUME DrainInv, NEW t \in Threads, NEW s, NEW l, pc[t] \in Owning, pc[t] # "dispatch",
           UNCHANGED <<fibers, calls, idleState, client, stopping>>,
           pc' = [pc EXCEPT ![t] = l], l \notin {"parking", "hold", "exited", "none"},
           state' = [state EXCEPT ![ft[t].task] = s],
           \A u \in Threads \ {t} : ft'[u] = ft[u],
           \/ s \in Dead
           \/ l \in Owning /\ ft' = ft,
           l \in {"leaving", "back", "examine"} =>
                ft' = ft /\ (s = "READY" \/ s \in Dead)
    PROVE  IdleEnds' /\ Looked' /\ ComesBack' /\ NotLost'
  <1> USE DEF DrainInv, SafeInv
  <1>t. /\ pc \in [Threads -> PCs] /\ ft \in [Threads -> Item \cup {NoItem}]
        /\ state \in [Tasks -> FiberState]
    BY DEF CountInv, TypeOK, DataOK
  <1>i. \A u \in Threads : pc[u] \in Owning => ft[u].task \in Tasks
    BY ItemFields DEF CountInv, OwnersHaveItems
  <1>f. PICK f \in Tasks : f = ft[t].task
    BY <1>i
  <1>o. \A u \in Threads : pc[u] \in Owning /\ u # t => ft[u].task # f
    BY <1>f DEF OneOwner, Owns
  <1>1. IdleEnds'
    BY <1>t DEF IdleEnds
  <1>2. Looked'
    <2>1. Looking(t)'
      BY <1>t DEF Looking
    <2> QED
      BY <2>1 DEF Looked
  <1>3. ComesBack'
    <2> SUFFICES ASSUME NEW u \in Threads
                 PROVE  /\ pc'[u] \notin {"parking", "hold"}
                        /\ pc'[u] \in {"leaving", "back", "examine"} =>
                             state'[ft'[u].task] = "READY" \/ state'[ft'[u].task] \in Dead
      BY DEF ComesBack
    <2>1. CASE u = t
      BY <2>1, <1>f, <1>t
    <2>2. CASE u # t
      <3>1. pc'[u] = pc[u] /\ ft'[u] = ft[u]
        BY <2>2, <1>t
      <3>2. pc[u] \in {"leaving", "back", "examine"} => state'[ft[u].task] = state[ft[u].task]
        BY <2>2, <1>f, <1>i, <1>o, <1>t DEF Owning
      <3> QED
        BY <3>1, <3>2 DEF ComesBack
    <2> QED
      BY <2>1, <2>2
  <1>4. NotLost'
    <2> SUFFICES ASSUME NEW g \in Tasks, calls[g] = 0, state'[g] \notin Dead, ~Queued(g)
                 PROVE  \E u \in Threads : Owns(u, g)'
      BY DEF NotLost, Queued
    <2>1. CASE g = f
      <3>1. s \notin Dead
        BY <2>1, <1>f, <1>t
      <3>2. Owns(t, g)'
        BY <3>1, <2>1, <1>f, <1>t DEF Owns
      <3> QED
        BY <3>2
    <2>2. CASE g # f
      <3>1. state[g] \notin Dead
        BY <2>2, <1>f, <1>t
      <3>2. PICK u \in Threads : Owns(u, g)
        BY <3>1 DEF NotLost
      <3>3. Owns(u, g)'
        BY <3>2, <2>2, <1>f, <1>t DEF Owns
      <3> QED
        BY <3>3
    <2> QED
      BY <2>1, <2>2
  <1> QED
    BY <1>1, <1>2, <1>3, <1>4

LEMMA WorkerKeepsDrain ==
    ASSUME DrainInv, Plain, NEW t \in Threads, Loop(t) \/ Body(t)
    PROVE  IdleEnds' /\ Looked' /\ ComesBack' /\ NotLost'
  <1> USE DEF DrainInv, SafeInv, Goto, queueVars, fiberVars, clientVars
  <1>t. /\ pc \in [Threads -> PCs] /\ ft \in [Threads -> Item \cup {NoItem}]
        /\ state \in [Tasks -> FiberState]
        /\ idleState \in [Threads -> {"INIT", "EXEC", "HOLD", "TERM"}]
    BY DEF CountInv, TypeOK, DataOK
  <1>b. pc[t] \in Owning => ft[t].task \in Tasks
    BY ItemFields DEF CountInv, OwnersHaveItems
  <1>c. idleState[t] = "TERM" => client \in {"joining", "stopped"}
    BY DEF IdleEnds
  <1>1. CASE Fetch(t)
    BY <1>1, FetchKeepsDrain
  <1>2. CASE FetchNone(t)
    <2>1. \A i \in 1..Len(fibers) : fibers[i].thread # AnyThread
      BY <1>2, NothingSkipped
    <2> QED
      BY <1>2, <2>1, <1>c, <1>t, LoopTurnKeepsDrain DEF FetchNone, Owning
  <1>3. CASE Dispatch(t)
    BY <1>3, <1>c, <1>t, LoopTurnKeepsDrain DEF Dispatch, Owning, Looking
  <1>4. CASE DropDead(t)
    BY <1>4, <1>c, <1>t, LoopTurnKeepsDrain DEF DropDead, Owning, Looking
  <1>5. CASE SwapIn(t)
    BY <1>5, <1>t, StateChangeKeepsDrain DEF SwapIn, Owning
  <1>6. CASE SwapInFault(t)
    BY <1>6, <1>t, NoSwapInFault DEF SwapInFault
  <1>7. CASE SaveContext(t)
    BY <1>7, <1>c, <1>t, LoopTurnKeepsDrain DEF SaveContext, Owning, Looking
  <1>8. CASE Deactivate(t)
    BY <1>8, <1>c, <1>t, LoopTurnKeepsDrain DEF Deactivate, Owning, Looking
  <1>9. CASE Requeue(t)
    BY <1>9, RequeueKeepsDrain
  <1>10. CASE Release(t)
    BY <1>10, <1>c, <1>t, LoopTurnKeepsDrain DEF Release, Owning, Looking
  <1>21. CASE FindReady(t)
    BY <1>21, <1>c, <1>t, LoopTurnKeepsDrain DEF FindReady, Owning, Looking
  <1>22. CASE FindHeld(t) \/ Hold(t)
    BY <1>22 DEF FindHeld, Hold, ComesBack
  <1>23. CASE YieldFault(t)
    BY <1>23 DEF YieldFault, ExecWhileRunning
  <1>11. CASE Exit(t)
    BY <1>11, <1>c, <1>t, LoopTurnKeepsDrain DEF Exit, Owning, Looking
  <1>12. CASE FetchAgain(t)
    BY <1>12, <1>c, <1>t, LoopTurnKeepsDrain DEF FetchAgain, Owning, Looking
  <1>13. CASE IdleIn(t)
    BY <1>13, <1>c, <1>t, LoopTurnKeepsDrain DEF IdleIn, Owning, Looking
  <1>14. CASE IdleTurn(t)
    <2>1. Stopping => client \in {"joining", "stopped"}
      <3>1. client # "idle"
        BY <1>14 DEF IdleTurn, CountInv, PoolDown
      <3> QED
        BY <3>1 DEF Stopping, IdleEnds
    <2> QED
      BY <1>14, <2>1, <1>t, LoopTurnKeepsDrain DEF IdleTurn, Owning, Looking
  <1>15. CASE IdleOut(t)
    BY <1>15, <1>c, <1>t, LoopTurnKeepsDrain DEF IdleOut, Owning, Looking
  <1>16. CASE YieldToReady(t)
    BY <1>16, <1>t, StateChangeKeepsDrain DEF YieldToReady, Suspend, Owning
  <1>17. CASE Finish(t)
    BY <1>17, <1>t, StateChangeKeepsDrain DEF Finish, Suspend, Owning
  <1>18. CASE YieldToHold(t)
    BY <1>18 DEF YieldToHold, ComesBack
  <1>19. CASE Park(t) \/ \E th \in Pins : SwitchTo(t, th)
    BY <1>19 DEF Park, SwitchTo, Plain
  <1>20. ASSUME NEW f \in Tasks, NEW th \in Pins, Spawn(t, f, th)
         PROVE  IdleEnds' /\ Looked' /\ ComesBack' /\ NotLost'
    <2>1. Looking(t)
      BY <1>20 DEF Spawn, Looking
    <2> QED
      BY <1>20, <2>1, EnqueueKeepsDrain DEF Spawn
  <1> QED
    BY <1>1, <1>2, <1>3, <1>4, <1>5, <1>6, <1>7, <1>8, <1>9, <1>10, <1>11, <1>12, <1>13, <1>14,
       <1>15, <1>16, <1>17, <1>18, <1>19, <1>20, <1>21, <1>22, <1>23 DEF Loop, Body

LEMMA NextKeepsDrain ==
    ASSUME DrainInv, Plain, [Next]_vars
    PROVE  DrainInv'
  <1>1. IdleEnds' /\ Looked' /\ ComesBack' /\ NotLost'
    <2>1. CASE Client
      BY <2>1, ClientKeepsDrain
    <2>2. ASSUME NEW t \in Threads, Worker(t)
          PROVE  IdleEnds' /\ Looked' /\ ComesBack' /\ NotLost'
      BY <2>2, WorkerKeepsDrain DEF Worker
    <2>3. ASSUME NEW f \in Tasks, Wake(f)
          PROVE  FALSE
      BY <2>3 DEF Wake, DrainInv, SafeInv, OnePlace, Plain
    <2>4. CASE UNCHANGED vars
      <3>1. IdleEnds'
        BY <2>4 DEF DrainInv, IdleEnds, vars
      <3> QED
        BY <2>4, <3>1, QuietKeepsDrain DEF DrainInv, vars
    <2> QED
      BY <2>1, <2>2, <2>3, <2>4 DEF Next, Terminated
  <1> QED
    BY <1>1, NextKeepsSafeInv DEF DrainInv, Safe, Plain

(* When tasks yield with YieldToReady only and are scheduled once, a stop()
   that has returned has left no item for any thread in the queue, and every
   task that was scheduled has ended or is an item for one thread that no
   worker is left to take: although a worker exits as soon as it sees an empty
   queue and no active worker, and although a task is in neither between
   line 283 and its requeuing, no task is lost in between. *)
THEOREM StopLeavesNothing ==
    ASSUME Plain
    PROVE  Spec => []StopDrains
  <1>1. Init => DrainInv
    BY DrainInit
  <1>2. DrainInv /\ [Next]_vars => DrainInv'
    BY NextKeepsDrain
  <1>3. DrainInv => StopDrains
    <2> SUFFICES ASSUME DrainInv, client = "stopped"
                 PROVE  /\ \A i \in 1..Len(fibers) : fibers[i].thread # AnyThread
                        /\ \A f \in Tasks : calls[f] = 0 => state[f] \in Dead \/ Queued(f)
      BY DEF StopDrains
    <2>1. \A t \in Threads : pc[t] = "exited"
      BY DEF DrainInv, SafeInv, CountInv, PoolDown
    <2> QED
      BY <2>1 DEF DrainInv, Looked, Looking, NotLost, Owns, Owning
  <1> QED
    BY <1>1, <1>2, <1>3, PTL DEF Spec
=============================================================================
