--------------------------- MODULE RouteTableProofs ---------------------------
(* Proofs about RouteTable, for any number of threads, applications, pool    *)
(* blocks and routes.                                                        *)
EXTENDS RouteTable, FiniteSetTheorems, TLAPS

-----------------------------------------------------------------------------
(* The inductive invariant *)

\* What a call carries with it at each place; true whatever others do
CallShape(t) ==
  /\ pc[t] = "alloc" \/ pc[t] \in Initializing \cup {"drain_acquire", "drain", "drain_release"}
       => op[t] = "set"
  /\ pc[t] = "alloc" => Len(todo[t]) > 0
  /\ pc[t] = "idle" => op[t] = "none"
  /\ op[t] # "set" => Len(todo[t]) = 0
  /\ pc[t] \in {"acquire", "find", "act", "release", "finish"} /\ op[t] = "set"
       => Len(todo[t]) > 0
  /\ pc[t] \in {"acquire", "find", "act"} =>
       /\ key[t] \in Apps
       /\ op[t] = "set" => entry[t] # None /\ key[t] = Head(todo[t]).app
       /\ op[t] # "set" => entry[t] = None
  /\ pc[t] \notin {"acquire", "find", "act", "release", "finish"} => entry[t] = None
  /\ pc[t] \notin {"act", "release", "finish"} => found[t] = None

\* Nobody is near the table while it is re-initialized, and it is empty then
InitAlone ==
  /\ \A t, u \in Threads :
       pc[t] \in Initializing => pc[u] \notin Holding
  /\ \A t, u \in Threads :
       pc[t] \in Initializing /\ pc[u] \in Initializing => t = u
  /\ \A t \in Threads :
       pc[t] \in Initializing \cup {"drain_release"} => listed = {} /\ count = 0

\* A new entry holds the route it was allocated for
EntryIsFilled ==
  \A t \in Threads :
    pc[t] \in {"acquire", "find", "act"} /\ op[t] = "set" =>
      content[entry[t]] = Head(todo[t])

LockPart ==
  /\ lock <=> \E t \in Threads : pc[t] \in Holding
  /\ \A t, u \in Threads : pc[t] \in Holding /\ pc[u] \in Holding => t = u

CountPart == count = Cardinality(listed) /\ count <= MaxRoutes

UniquePart == \A m, n \in listed :
  /\ content[m] # None
  /\ content[m].app = content[n].app => m = n

PoolPart ==
  /\ \A n \in Nodes :
       content[n] # None <=> n \in listed \/ \E t \in Threads : entry[t] = n
  /\ \A t \in Threads : entry[t] \notin listed
  /\ \A t, u \in Threads : entry[t] = entry[u] /\ entry[t] # None => t = u

FoundPart == \A t \in Threads :
  pc[t] = "act" => Matches(key[t]) = IF found[t] = None THEN {} ELSE {found[t]}

Safe ==
  LockPart /\ InitAlone /\ CountPart /\ UniquePart /\ PoolPart /\ EntryIsFilled
  /\ FoundPart

TypeInv == TypeOK /\ \A t \in Threads : CallShape(t)

IInv == TypeInv /\ (overlap \/ Safe)

-----------------------------------------------------------------------------
(* Types *)

\* The route a call works on is a route, and the rest of a batch is a batch.
LEMMA BatchParts ==
  ASSUME NEW s \in Seq(Routes), Len(s) > 0
  PROVE  /\ Head(s) \in Routes
         /\ Tail(s) \in Seq(Routes)
         /\ Len(Tail(s)) = Len(s) - 1
<1>1. Head(s) \in Routes
  OBVIOUS
<1>2. Tail(s) \in Seq(Routes)
  OBVIOUS
<1>3. Len(Tail(s)) = Len(s) - 1
  OBVIOUS
<1> QED
  BY <1>1, <1>2, <1>3

\* A set is a batch of one route.
LEMMA OneRoute ==
  ASSUME NEW r \in Routes
  PROVE  /\ <<r>> \in Seq(Routes)
         /\ Len(<<r>>) = 1
         /\ Head(<<r>>) = r
  OBVIOUS

\* A batch without routes is the empty one.
LEMMA EmptyBatch ==
  ASSUME NEW s \in Seq(Routes)
  PROVE  Len(s) \in Nat /\ (s # <<>> => Len(s) > 0)
  OBVIOUS

\* The empty batch is a batch.
LEMMA NoRoutes == <<>> \in Seq(Routes)
  OBVIOUS

\* A route names an application.
LEMMA RouteHasApp ==
  ASSUME NEW r \in Routes
  PROVE  r.app \in Apps
  BY DEF Routes

\* Initially every variable has its type and no thread is in a call.
LEMMA TypeInit == Init => TypeInv
<1> SUFFICES ASSUME Init PROVE TypeInv
  OBVIOUS
<1>1. TypeOK
  <2>1. 0 \in 0..UInt32Max
    BY BoundsAssumption
  <2>2. \A t \in Threads : <<>> \in Seq(Routes)
    BY NoRoutes
  <2> QED
    BY <2>1, <2>2 DEF Init, TypeOK, Labels
<1>2. \A t \in Threads : CallShape(t)
  BY DEF Init, CallShape, Initializing
<1> QED
  BY <1>1, <1>2 DEF TypeInv

\* Every step of a call keeps the types and what each call carries with it.
LEMMA TypeStep ==
  ASSUME TypeInv, NEW t \in Threads, Begin(t) \/ Step(t)
  PROVE  TypeInv'
<1> USE DEF Goto, table, Labels
<1>0. /\ TypeOK
      /\ \A u \in Threads : CallShape(u)
  BY DEF TypeInv
<1>1. ASSUME NEW r \in Routes, BeginSet(t, r)
      PROVE  TypeInv'
  <2>1. TypeOK'
    BY <1>0, <1>1 DEF BeginSet, TypeOK
  <2>2. \A u \in Threads : CallShape(u)'
    BY <1>0, <1>1 DEF BeginSet, TypeOK, CallShape, Initializing
  <2> QED
    BY <2>1, <2>2 DEF TypeInv
<1>2. ASSUME NEW a \in Apps, BeginClear(t, a)
      PROVE  TypeInv'
  <2>1. TypeOK'
    BY <1>0, <1>2 DEF BeginClear, TypeOK
  <2>2. \A u \in Threads : CallShape(u)'
    BY <1>0, <1>2 DEF BeginClear, TypeOK, CallShape, Initializing
  <2> QED
    BY <2>1, <2>2 DEF TypeInv
<1>3. ASSUME NEW a \in Apps, BeginLookup(t, a)
      PROVE  TypeInv'
  <2>1. TypeOK'
    BY <1>0, <1>3 DEF BeginLookup, TypeOK
  <2>2. \A u \in Threads : CallShape(u)'
    BY <1>0, <1>3 DEF BeginLookup, TypeOK, CallShape, Initializing
  <2> QED
    BY <2>1, <2>2 DEF TypeInv
<1>4. ASSUME NEW batch \in Batches, BeginSync(t, batch)
      PROVE  TypeInv'
  <2>1. TypeOK'
    BY <1>0, <1>4, BatchesAssumption DEF BeginSync, TypeOK
  <2>2. \A u \in Threads : CallShape(u)'
    BY <1>0, <1>4 DEF BeginSync, TypeOK, CallShape, Initializing
  <2> QED
    BY <2>1, <2>2 DEF TypeInv
<1>5. CASE AllocFails(t)
  <2>1. TypeOK'
    BY <1>0, <1>5, NoRoutes DEF AllocFails, Return, TypeOK
  <2>2. \A u \in Threads : CallShape(u)'
    BY <1>0, <1>5 DEF AllocFails, Return, TypeOK, CallShape, Initializing
  <2> QED
    BY <2>1, <2>2 DEF TypeInv
<1>6. CASE Alloc(t)
  <2>0. /\ Head(todo[t]) \in Routes
        /\ <<Head(todo[t])>> \in Seq(Routes)
        /\ Len(<<Head(todo[t])>>) = 1
        /\ Head(<<Head(todo[t])>>) = Head(todo[t])
    BY <1>0, <1>6, BatchParts, OneRoute DEF Alloc, TypeOK, CallShape
  <2>1. TypeOK'
    BY <1>0, <1>6, <2>0, RouteHasApp DEF Alloc, TypeOK, CallShape
  <2>2. \A u \in Threads : CallShape(u)'
    BY <1>0, <1>6, <2>0, RouteHasApp, NoneAssumption DEF Alloc, TypeOK, CallShape, Initializing
  <2> QED
    BY <2>1, <2>2 DEF TypeInv
<1>7. CASE Acquire(t, "acquire", "find")
  <2>1. TypeOK'
    BY <1>0, <1>7 DEF Acquire, TypeOK, CallShape
  <2>2. \A u \in Threads : CallShape(u)'
    BY <1>0, <1>7 DEF Acquire, TypeOK, CallShape, Initializing
  <2> QED
    BY <2>1, <2>2 DEF TypeInv
<1>8. CASE Acquire(t, "drain_acquire", "drain")
  <2>1. TypeOK'
    BY <1>0, <1>8 DEF Acquire, TypeOK, CallShape
  <2>2. \A u \in Threads : CallShape(u)'
    BY <1>0, <1>8 DEF Acquire, TypeOK, CallShape, Initializing
  <2> QED
    BY <2>1, <2>2 DEF TypeInv
<1>9. CASE Find(t)
  <2>1. TypeOK'
    BY <1>0, <1>9 DEF Find, Matches, TypeOK, CallShape
  <2>2. \A u \in Threads : CallShape(u)'
    BY <1>0, <1>9, NoneAssumption DEF Find, Matches, TypeOK, CallShape, Initializing
  <2> QED
    BY <2>1, <2>2 DEF TypeInv
<1>10. CASE Replace(t)
  <2>0. /\ Head(todo[t]) \in Routes
        /\ <<Head(todo[t])>> \in Seq(Routes)
        /\ Len(<<Head(todo[t])>>) = 1
        /\ Head(<<Head(todo[t])>>) = Head(todo[t])
    BY <1>0, <1>10, BatchParts, OneRoute DEF Replace, TypeOK, CallShape
  <2>1. TypeOK'
    BY <1>0, <1>10, <2>0 DEF Replace, TypeOK, CallShape
  <2>2. \A u \in Threads : CallShape(u)'
    BY <1>0, <1>10, <2>0 DEF Replace, TypeOK, CallShape, Initializing
  <2> QED
    BY <2>1, <2>2 DEF TypeInv
<1>11. CASE Full(t)
  <2>0. /\ Head(todo[t]) \in Routes
        /\ <<Head(todo[t])>> \in Seq(Routes)
        /\ Len(<<Head(todo[t])>>) = 1
        /\ Head(<<Head(todo[t])>>) = Head(todo[t])
    BY <1>0, <1>11, BatchParts, OneRoute DEF Full, TypeOK, CallShape
  <2>1. TypeOK'
    BY <1>0, <1>11, <2>0 DEF Full, TypeOK, CallShape
  <2>2. \A u \in Threads : CallShape(u)'
    BY <1>0, <1>11, <2>0 DEF Full, TypeOK, CallShape, Initializing
  <2> QED
    BY <2>1, <2>2 DEF TypeInv
<1>12. CASE Insert(t)
  <2>1. TypeOK'
    BY <1>0, <1>12, BoundsAssumption DEF Insert, HasRoom, TypeOK, CallShape
  <2>2. \A u \in Threads : CallShape(u)'
    BY <1>0, <1>12 DEF Insert, HasRoom, TypeOK, CallShape, Initializing
  <2> QED
    BY <2>1, <2>2 DEF TypeInv
<1>13. CASE Unlink(t)
  <2>1. TypeOK'
    <3>1. Decremented(count) \in 0..UInt32Max
      BY <1>0, BoundsAssumption DEF Decremented, TypeOK
    <3> QED
      BY <1>0, <1>13, <3>1 DEF Unlink, TypeOK
  <2>2. \A u \in Threads : CallShape(u)'
    BY <1>0, <1>13 DEF Unlink, Decremented, TypeOK, CallShape, Initializing
  <2> QED
    BY <2>1, <2>2 DEF TypeInv
<1>14. CASE CopyOut(t)
  <2>1. TypeOK'
    BY <1>0, <1>14 DEF CopyOut, TypeOK, CallShape
  <2>2. \A u \in Threads : CallShape(u)'
    BY <1>0, <1>14 DEF CopyOut, TypeOK, CallShape, Initializing
  <2> QED
    BY <2>1, <2>2 DEF TypeInv
<1>15. CASE Unlock(t, "release", "finish")
  <2>1. TypeOK'
    BY <1>0, <1>15 DEF Unlock, TypeOK, CallShape
  <2>2. \A u \in Threads : CallShape(u)'
    BY <1>0, <1>15 DEF Unlock, TypeOK, CallShape, Initializing
  <2> QED
    BY <2>1, <2>2 DEF TypeInv
<1>16. CASE Unlock(t, "drain_release", "init_head")
  <2>1. TypeOK'
    BY <1>0, <1>16 DEF Unlock, TypeOK, CallShape
  <2>2. \A u \in Threads : CallShape(u)'
    BY <1>0, <1>16 DEF Unlock, TypeOK, CallShape, Initializing
  <2> QED
    BY <2>1, <2>2 DEF TypeInv
<1>17. CASE Finish(t)
  <2>0. Len(todo[t]) > 1 =>
          Tail(todo[t]) \in Seq(Routes) /\ Len(Tail(todo[t])) > 0
    <3> SUFFICES ASSUME Len(todo[t]) > 1
                 PROVE  Tail(todo[t]) \in Seq(Routes) /\ Len(Tail(todo[t])) > 0
      OBVIOUS
    <3>1. todo[t] \in Seq(Routes)
      BY <1>0 DEF TypeOK
    <3>2. Len(todo[t]) \in Nat
      BY <3>1, EmptyBatch
    <3> QED
      BY <3>1, <3>2, BatchParts
  <2>1. TypeOK'
    BY <1>0, <1>17, <2>0, NoRoutes, ZenonT(30) DEF Finish, FreeOwned, Return, TypeOK
  <2>2. \A u \in Threads : CallShape(u)'
    <3>1. CASE Len(todo[t]) > 1
      <4> TAKE u \in Threads
      <4>1. CASE u = t
        <5>1. /\ pc'[t] = "alloc" /\ entry'[t] = None /\ found'[t] = None
              /\ op'[t] = op[t] /\ todo'[t] = Tail(todo[t])
          BY <1>0, <1>17, <3>1 DEF Finish, TypeOK
        <5>2. op[t] = "set"
          BY <1>0, <1>17, <3>1 DEF Finish, TypeOK, CallShape
        <5> QED
          BY <2>0, <3>1, <4>1, <5>1, <5>2 DEF CallShape, Initializing
      <4>2. CASE u # t
        <5>1. /\ pc'[u] = pc[u] /\ op'[u] = op[u] /\ key'[u] = key[u]
              /\ todo'[u] = todo[u] /\ entry'[u] = entry[u] /\ found'[u] = found[u]
          BY <1>0, <1>17, <3>1, <4>2 DEF Finish, TypeOK
        <5> QED
          BY <1>0, <5>1 DEF CallShape
      <4> QED
        BY <4>1, <4>2
    <3>2. CASE ~(Len(todo[t]) > 1)
      BY <1>0, <1>17, <3>2
         DEF Finish, Return, TypeOK, CallShape, Initializing
    <3> QED
      BY <3>1, <3>2
  <2> QED
    BY <2>1, <2>2 DEF TypeInv
<1>18. CASE Drain(t)
  <2>1. TypeOK'
    BY <1>0, <1>18, BoundsAssumption DEF Drain, TypeOK, CallShape
  <2>2. \A u \in Threads : CallShape(u)'
    BY <1>0, <1>18 DEF Drain, TypeOK, CallShape, Initializing
  <2> QED
    BY <2>1, <2>2 DEF TypeInv
<1>19. CASE InitializeListHead(t)
  <2>1. TypeOK'
    BY <1>0, <1>19 DEF InitializeListHead, TypeOK, CallShape
  <2>2. \A u \in Threads : CallShape(u)'
    BY <1>0, <1>19 DEF InitializeListHead, TypeOK, CallShape, Initializing
  <2> QED
    BY <2>1, <2>2 DEF TypeInv
<1>20. CASE InitializeSpinLock(t)
  <2>1. TypeOK'
    BY <1>0, <1>20 DEF InitializeSpinLock, TypeOK, CallShape
  <2>2. \A u \in Threads : CallShape(u)'
    BY <1>0, <1>20 DEF InitializeSpinLock, TypeOK, CallShape, Initializing
  <2> QED
    BY <2>1, <2>2 DEF TypeInv
<1>21. CASE InitializeCount(t)
  <2>0. /\ 0 \in 0..UInt32Max
        /\ todo[t] # <<>> => Len(todo[t]) > 0
    BY <1>0, BoundsAssumption, EmptyBatch DEF TypeOK
  <2>1. TypeOK'
    <3>1. CASE todo[t] = <<>>
      BY <1>0, <1>21, <2>0, <3>1, NoRoutes, ZenonT(30) DEF InitializeCount, Return, TypeOK
    <3>2. CASE todo[t] # <<>>
      BY <1>0, <1>21, <2>0, <3>2 DEF InitializeCount, TypeOK
    <3> QED
      BY <3>1, <3>2
  <2>2. \A u \in Threads : CallShape(u)'
    <3>1. CASE todo[t] = <<>>
      <4> TAKE u \in Threads
      <4>1. CASE u = t
        <5>1. /\ pc'[t] = "idle" /\ op'[t] = "none" /\ todo'[t] = <<>>
              /\ entry'[t] = None /\ found'[t] = None
          BY <1>0, <1>21, <3>1
             DEF InitializeCount, Return, TypeOK, CallShape, Initializing
        <5>2. Len(todo'[t]) = 0
          BY <5>1
        <5> QED
          BY <4>1, <5>1, <5>2 DEF CallShape, Initializing
      <4>2. CASE u # t
        <5>1. /\ pc'[u] = pc[u] /\ op'[u] = op[u] /\ key'[u] = key[u]
              /\ todo'[u] = todo[u] /\ entry'[u] = entry[u] /\ found'[u] = found[u]
          BY <1>0, <1>21, <3>1, <4>2 DEF InitializeCount, Return, TypeOK
        <5> QED
          BY <1>0, <5>1 DEF CallShape
      <4> QED
        BY <4>1, <4>2
    <3>2. CASE todo[t] # <<>>
      BY <1>0, <1>21, <2>0, <3>2
         DEF InitializeCount, TypeOK, CallShape, Initializing
    <3> QED
      BY <3>1, <3>2
  <2> QED
    BY <2>1, <2>2 DEF TypeInv
<1> QED
  BY <1>1, <1>2, <1>3, <1>4, <1>5, <1>6, <1>7, <1>8, <1>9, <1>10, <1>11, <1>12, <1>13,
     <1>14, <1>15, <1>16, <1>17, <1>18, <1>19, <1>20, <1>21 DEF Begin, Step

\* Every variable keeps its type, for any number of threads, routes and pool
\* blocks: in particular g_RouteCount never wraps below zero or past UINT32_MAX.
THEOREM TypeCorrect == Spec => []TypeOK
<1>1. Init => TypeInv
  BY TypeInit
<1>2. TypeInv /\ [Next]_vars => TypeInv'
  <2> SUFFICES ASSUME TypeInv, [Next]_vars PROVE TypeInv'
    OBVIOUS
  <2>1. CASE Next
    BY <2>1, TypeStep DEF Next
  <2>2. CASE UNCHANGED vars
    BY <2>2 DEF vars, TypeInv, TypeOK, CallShape, Initializing
  <2> QED
    BY <2>1, <2>2
<1>3. TypeInv => TypeOK
  BY DEF TypeInv
<1> QED
  BY <1>1, <1>2, <1>3, PTL DEF Spec

-----------------------------------------------------------------------------
(* Safety *)

\* A step that leaves the list, the blocks and their owners alone keeps what is
\* said about them.
LEMMA TableKept ==
  ASSUME CountPart, UniquePart, PoolPart,
         UNCHANGED <<listed, content, count, entry>>
  PROVE  CountPart' /\ UniquePart' /\ PoolPart'
  BY DEF CountPart, UniquePart, PoolPart

\* The list is finite, so that its length is a number.
LEMMA ListIsFinite ==
  ASSUME TypeOK
  PROVE  IsFiniteSet(listed) /\ Cardinality(listed) \in Nat
  BY NodesAssumption, FS_Subset, FS_CardinalityType DEF TypeOK

\* The route a set works on is one, and is for the application it looked up.
LEMMA CurrentRoute ==
  ASSUME TypeOK, NEW t \in Threads, CallShape(t), op[t] = "set",
         pc[t] \in {"alloc", "acquire", "find", "act"}
  PROVE  /\ Head(todo[t]) \in Routes /\ Head(todo[t]) # None
         /\ pc[t] # "alloc" => Head(todo[t]).app = key[t] /\ entry[t] \in Nodes
<1>1. todo[t] \in Seq(Routes) /\ Len(todo[t]) > 0
  BY DEF TypeOK, CallShape
<1>2. Head(todo[t]) \in Routes
  BY <1>1, BatchParts
<1> QED
  BY <1>2, NoneAssumption DEF TypeOK, CallShape

\* A call that found an entry found the one of its application, linked.
LEMMA FoundIsLinked ==
  ASSUME TypeOK, NEW t \in Threads, FoundPart, pc[t] = "act", found[t] # None
  PROVE  /\ found[t] \in listed /\ found[t] \in Nodes
         /\ content[found[t]] # None /\ content[found[t]].app = key[t]
  BY DEF TypeOK, FoundPart, Matches

\* A step of a thread keeps the table safe, unless it takes the lock while
\* another thread re-initializes.
LEMMA SafeStep ==
  ASSUME TypeInv, Safe, ~overlap', NEW t \in Threads, Begin(t) \/ Step(t)
  PROVE  Safe'
<1> USE DEF Goto, table, Holding, Initializing
<1>0. /\ TypeOK
      /\ \A u \in Threads : CallShape(u)
      /\ LockPart /\ InitAlone /\ CountPart /\ UniquePart /\ PoolPart
      /\ EntryIsFilled /\ FoundPart
  BY DEF TypeInv, Safe
<1>1. ASSUME NEW r \in Routes, BeginSet(t, r)
      PROVE  Safe'
  <2>1. LockPart'
    BY <1>0, <1>1 DEF BeginSet, TypeOK, CallShape, LockPart, InitAlone
  <2>2. InitAlone'
    BY <1>0, <1>1 DEF BeginSet, TypeOK, CallShape, InitAlone, LockPart
  <2>3. CountPart' /\ UniquePart' /\ PoolPart'
    <3>1. UNCHANGED <<listed, content, count, entry>>
      BY <1>1 DEF BeginSet
    <3> QED
      BY <1>0, <3>1, TableKept
  <2>4. EntryIsFilled'
    BY <1>0, <1>1
       DEF BeginSet, TypeOK, CallShape, EntryIsFilled, PoolPart, FoundPart, Matches, LockPart
  <2>5. FoundPart'
    BY <1>0, <1>1
       DEF BeginSet, TypeOK, CallShape, FoundPart, Matches, LockPart, PoolPart, UniquePart
  <2> QED
    BY <2>1, <2>2, <2>3, <2>4, <2>5 DEF Safe
<1>2. ASSUME NEW a \in Apps, BeginClear(t, a)
      PROVE  Safe'
  <2>1. LockPart'
    BY <1>0, <1>2 DEF BeginClear, TypeOK, CallShape, LockPart, InitAlone
  <2>2. InitAlone'
    BY <1>0, <1>2 DEF BeginClear, TypeOK, CallShape, InitAlone, LockPart
  <2>3. CountPart' /\ UniquePart' /\ PoolPart'
    <3>1. UNCHANGED <<listed, content, count, entry>>
      BY <1>2 DEF BeginClear
    <3> QED
      BY <1>0, <3>1, TableKept
  <2>4. EntryIsFilled'
    BY <1>0, <1>2
       DEF BeginClear, TypeOK, CallShape, EntryIsFilled, PoolPart, FoundPart, Matches, LockPart
  <2>5. FoundPart'
    BY <1>0, <1>2
       DEF BeginClear, TypeOK, CallShape, FoundPart, Matches, LockPart, PoolPart, UniquePart
  <2> QED
    BY <2>1, <2>2, <2>3, <2>4, <2>5 DEF Safe
<1>3. ASSUME NEW a \in Apps, BeginLookup(t, a)
      PROVE  Safe'
  <2>1. LockPart'
    BY <1>0, <1>3 DEF BeginLookup, TypeOK, CallShape, LockPart, InitAlone
  <2>2. InitAlone'
    BY <1>0, <1>3 DEF BeginLookup, TypeOK, CallShape, InitAlone, LockPart
  <2>3. CountPart' /\ UniquePart' /\ PoolPart'
    <3>1. UNCHANGED <<listed, content, count, entry>>
      BY <1>3 DEF BeginLookup
    <3> QED
      BY <1>0, <3>1, TableKept
  <2>4. EntryIsFilled'
    BY <1>0, <1>3
       DEF BeginLookup, TypeOK, CallShape, EntryIsFilled, PoolPart, FoundPart, Matches, LockPart
  <2>5. FoundPart'
    BY <1>0, <1>3
       DEF BeginLookup, TypeOK, CallShape, FoundPart, Matches, LockPart, PoolPart, UniquePart
  <2> QED
    BY <2>1, <2>2, <2>3, <2>4, <2>5 DEF Safe
<1>4. ASSUME NEW batch \in Batches, BeginSync(t, batch)
      PROVE  Safe'
  <2>1. LockPart'
    BY <1>0, <1>4 DEF BeginSync, TypeOK, CallShape, LockPart, InitAlone
  <2>2. InitAlone'
    BY <1>0, <1>4 DEF BeginSync, TypeOK, CallShape, InitAlone, LockPart
  <2>3. CountPart' /\ UniquePart' /\ PoolPart'
    <3>1. UNCHANGED <<listed, content, count, entry>>
      BY <1>4 DEF BeginSync
    <3> QED
      BY <1>0, <3>1, TableKept
  <2>4. EntryIsFilled'
    BY <1>0, <1>4
       DEF BeginSync, TypeOK, CallShape, EntryIsFilled, PoolPart, FoundPart, Matches, LockPart
  <2>5. FoundPart'
    BY <1>0, <1>4
       DEF BeginSync, TypeOK, CallShape, FoundPart, Matches, LockPart, PoolPart, UniquePart
  <2> QED
    BY <2>1, <2>2, <2>3, <2>4, <2>5 DEF Safe
<1>5. CASE AllocFails(t)
  <2>1. LockPart'
    BY <1>0, <1>5
       DEF AllocFails, Return, TypeOK, CallShape, LockPart, InitAlone
  <2>2. InitAlone'
    BY <1>0, <1>5
       DEF AllocFails, Return, TypeOK, CallShape, InitAlone, LockPart
  <2>3. CountPart' /\ UniquePart' /\ PoolPart'
    <3>1. UNCHANGED <<listed, content, count, entry>>
      BY <1>5 DEF AllocFails
    <3> QED
      BY <1>0, <3>1, TableKept
  <2>4. EntryIsFilled'
    BY <1>0, <1>5
       DEF AllocFails, Return, TypeOK, CallShape, EntryIsFilled, PoolPart, FoundPart, Matches, LockPart
  <2>5. FoundPart'
    BY <1>0, <1>5
       DEF AllocFails, Return, TypeOK, CallShape, FoundPart, Matches, LockPart, PoolPart, UniquePart
  <2> QED
    BY <2>1, <2>2, <2>3, <2>4, <2>5 DEF Safe
<1>6. CASE Alloc(t)
  <2>1. LockPart'
    BY <1>0, <1>6 DEF Alloc, TypeOK, CallShape, LockPart, InitAlone
  <2>2. InitAlone'
    BY <1>0, <1>6 DEF Alloc, TypeOK, CallShape, InitAlone, LockPart
  <2>3. CountPart'
    BY <1>0, <1>6 DEF Alloc, TypeOK, CallShape, CountPart, InitAlone
  <2>4. UniquePart'
    BY <1>0, <1>6
       DEF Alloc, TypeOK, CallShape, UniquePart, PoolPart, FoundPart, Matches
  <2>5. PoolPart'
    <3>1. PICK n \in Nodes : /\ content[n] = None
                            /\ content' = [content EXCEPT ![n] = Head(todo[t])]
                            /\ entry' = [entry EXCEPT ![t] = n]
      BY <1>6 DEF Alloc
    <3>2. n \notin listed /\ \A u \in Threads : entry[u] # n
      BY <1>0, <3>1 DEF PoolPart
    <3>3. content'[n] # None
      BY <1>0, <1>6, <3>1, CurrentRoute DEF Alloc, TypeOK, CallShape
    <3>4. entry[t] = None
      BY <1>0, <1>6 DEF Alloc, CallShape
    <3>5. listed' = listed
      BY <1>6 DEF Alloc
    <3> QED
      BY <1>0, <3>1, <3>2, <3>3, <3>4, <3>5, NoneAssumption DEF TypeOK, PoolPart
  <2>6. EntryIsFilled'
    BY <1>0, <1>6
       DEF Alloc, TypeOK, CallShape, EntryIsFilled, PoolPart, FoundPart, Matches, LockPart
  <2>7. FoundPart'
    BY <1>0, <1>6
       DEF Alloc, TypeOK, CallShape, FoundPart, Matches, LockPart, PoolPart, UniquePart
  <2> QED
    BY <2>1, <2>2, <2>3, <2>4, <2>5, <2>6, <2>7 DEF Safe
<1>7. CASE Acquire(t, "acquire", "find")
  <2>1. LockPart'
    BY <1>0, <1>7 DEF Acquire, LockFree, TypeOK, CallShape, LockPart, InitAlone
  <2>2. InitAlone'
    <3>1. \A u \in Threads : u # t => pc[u] \notin Initializing
      BY <1>7 DEF Acquire
    <3> QED
      BY <1>0, <1>7, <3>1 DEF Acquire, LockFree, TypeOK, InitAlone, LockPart
  <2>3. CountPart' /\ UniquePart' /\ PoolPart'
    <3>1. UNCHANGED <<listed, content, count, entry>>
      BY <1>7 DEF Acquire
    <3> QED
      BY <1>0, <3>1, TableKept
  <2>4. EntryIsFilled'
    BY <1>0, <1>7
       DEF Acquire, LockFree, TypeOK, CallShape, EntryIsFilled, PoolPart, FoundPart, Matches, LockPart
  <2>5. FoundPart'
    BY <1>0, <1>7
       DEF Acquire, LockFree, TypeOK, CallShape, FoundPart, Matches, LockPart, PoolPart, UniquePart
  <2> QED
    BY <2>1, <2>2, <2>3, <2>4, <2>5 DEF Safe
<1>8. CASE Acquire(t, "drain_acquire", "drain")
  <2>1. LockPart'
    BY <1>0, <1>8 DEF Acquire, LockFree, TypeOK, CallShape, LockPart, InitAlone
  <2>2. InitAlone'
    <3>1. \A u \in Threads : u # t => pc[u] \notin Initializing
      BY <1>8 DEF Acquire
    <3> QED
      BY <1>0, <1>8, <3>1 DEF Acquire, LockFree, TypeOK, InitAlone, LockPart
  <2>3. CountPart' /\ UniquePart' /\ PoolPart'
    <3>1. UNCHANGED <<listed, content, count, entry>>
      BY <1>8 DEF Acquire
    <3> QED
      BY <1>0, <3>1, TableKept
  <2>4. EntryIsFilled'
    BY <1>0, <1>8
       DEF Acquire, LockFree, TypeOK, CallShape, EntryIsFilled, PoolPart, FoundPart, Matches, LockPart
  <2>5. FoundPart'
    BY <1>0, <1>8
       DEF Acquire, LockFree, TypeOK, CallShape, FoundPart, Matches, LockPart, PoolPart, UniquePart
  <2> QED
    BY <2>1, <2>2, <2>3, <2>4, <2>5 DEF Safe
<1>9. CASE Find(t)
  <2>1. LockPart'
    BY <1>0, <1>9 DEF Find, TypeOK, CallShape, LockPart, InitAlone
  <2>2. InitAlone'
    BY <1>0, <1>9 DEF Find, TypeOK, CallShape, InitAlone, LockPart
  <2>3. CountPart' /\ UniquePart' /\ PoolPart'
    <3>1. UNCHANGED <<listed, content, count, entry>>
      BY <1>9 DEF Find
    <3> QED
      BY <1>0, <3>1, TableKept
  <2>4. EntryIsFilled'
    BY <1>0, <1>9
       DEF Find, TypeOK, CallShape, EntryIsFilled, PoolPart, FoundPart, Matches, LockPart
  <2>5. FoundPart'
    <3>1. \A u \in Threads : pc'[u] = "act" => u = t
      BY <1>0, <1>9 DEF Find, LockPart, TypeOK
    <3>2. \A a : Matches(a)' = Matches(a)
      BY <1>9 DEF Find, Matches
    <3>3. CASE Matches(key[t]) = {} /\ found' = found
      BY <1>0, <1>9, <3>1, <3>2, <3>3 DEF Find, FoundPart, CallShape
    <3>4. ASSUME NEW n \in Matches(key[t]), found' = [found EXCEPT ![t] = n]
          PROVE  FoundPart'
      <4>1. Matches(key[t]) = {n}
        BY <1>0, <3>4 DEF Matches, UniquePart
      <4>2. found'[t] = n /\ n # None
        BY <1>0, <3>4, NoneAssumption DEF Matches, TypeOK
      <4> QED
        BY <1>9, <3>1, <3>2, <4>1, <4>2 DEF Find, FoundPart
    <3> QED
      BY <1>9, <3>3, <3>4 DEF Find
  <2> QED
    BY <2>1, <2>2, <2>3, <2>4, <2>5 DEF Safe
<1>10. CASE Replace(t)
  <2>1. LockPart'
    BY <1>0, <1>10 DEF Replace, TypeOK, CallShape, LockPart, InitAlone
  <2>2. InitAlone'
    BY <1>0, <1>10 DEF Replace, TypeOK, CallShape, InitAlone, LockPart
  <2>3. CountPart'
    BY <1>0, <1>10 DEF Replace, TypeOK, CallShape, CountPart, InitAlone
  <2>4. UniquePart'
    <3>1. /\ Head(todo[t]) # None /\ Head(todo[t]).app = key[t]
          /\ content[found[t]] # None /\ content[found[t]].app = key[t]
          /\ found[t] \in listed /\ found[t] \in Nodes
      BY <1>0, <1>10, CurrentRoute, FoundIsLinked DEF Replace
    <3> QED
      BY <1>0, <1>10, <3>1 DEF Replace, TypeOK, UniquePart
  <2>5. PoolPart'
    <3>1. /\ Head(todo[t]) # None /\ Head(todo[t]).app = key[t]
          /\ content[found[t]] # None /\ content[found[t]].app = key[t]
          /\ found[t] \in listed /\ found[t] \in Nodes
      BY <1>0, <1>10, CurrentRoute, FoundIsLinked DEF Replace
    <3> QED
      BY <1>0, <1>10, <3>1 DEF Replace, TypeOK, PoolPart
  <2>6. EntryIsFilled'
    BY <1>0, <1>10
       DEF Replace, TypeOK, CallShape, EntryIsFilled, PoolPart, FoundPart, Matches, LockPart
  <2>7. FoundPart'
    BY <1>0, <1>10
       DEF Replace, TypeOK, CallShape, FoundPart, Matches, LockPart, PoolPart, UniquePart
  <2> QED
    BY <2>1, <2>2, <2>3, <2>4, <2>5, <2>6, <2>7 DEF Safe
<1>11. CASE Full(t)
  <2>1. LockPart'
    BY <1>0, <1>11 DEF Full, TypeOK, CallShape, LockPart, InitAlone
  <2>2. InitAlone'
    BY <1>0, <1>11 DEF Full, TypeOK, CallShape, InitAlone, LockPart
  <2>3. CountPart' /\ UniquePart' /\ PoolPart'
    <3>1. UNCHANGED <<listed, content, count, entry>>
      BY <1>11 DEF Full
    <3> QED
      BY <1>0, <3>1, TableKept
  <2>4. EntryIsFilled'
    BY <1>0, <1>11
       DEF Full, TypeOK, CallShape, EntryIsFilled, PoolPart, FoundPart, Matches, LockPart
  <2>5. FoundPart'
    BY <1>0, <1>11
       DEF Full, TypeOK, CallShape, FoundPart, Matches, LockPart, PoolPart, UniquePart
  <2> QED
    BY <2>1, <2>2, <2>3, <2>4, <2>5 DEF Safe
<1>12. CASE Insert(t)
  <2>1. LockPart'
    BY <1>0, <1>12 DEF Insert, HasRoom, TypeOK, CallShape, LockPart, InitAlone
  <2>2. InitAlone'
    BY <1>0, <1>12 DEF Insert, HasRoom, TypeOK, CallShape, InitAlone, LockPart
  <2>3. CountPart'
    <3>1. entry[t] \notin listed
      BY <1>0 DEF PoolPart
    <3>2. Cardinality(listed \cup {entry[t]}) = Cardinality(listed) + 1
      BY <1>0, <3>1, ListIsFinite, FS_AddElement
    <3> QED
      BY <1>0, <1>12, <3>2, BoundsAssumption DEF Insert, HasRoom, CountPart, TypeOK
  <2>4. UniquePart'
    <3>1. /\ content[entry[t]] # None /\ content[entry[t]].app = key[t]
      BY <1>0, <1>12, CurrentRoute DEF Insert, EntryIsFilled
    <3>2. \A n \in listed : content[n] # None /\ content[n].app # key[t]
      BY <1>0, <1>12 DEF Insert, FoundPart, Matches, UniquePart
    <3> QED
      BY <1>0, <1>12, <3>1, <3>2 DEF Insert, UniquePart
  <2>5. PoolPart'
    <3>1. entry[t] \in Nodes /\ content[entry[t]] # None
      BY <1>0, <1>12, CurrentRoute DEF Insert, EntryIsFilled
    <3>2. /\ listed' = listed \cup {entry[t]} /\ content' = content
          /\ entry' = [entry EXCEPT ![t] = None]
      BY <1>12 DEF Insert
    <3> QED
      BY <1>0, <3>1, <3>2, NoneAssumption DEF TypeOK, PoolPart
  <2>6. EntryIsFilled'
    BY <1>0, <1>12
       DEF Insert, HasRoom, TypeOK, CallShape, EntryIsFilled, PoolPart, FoundPart, Matches, LockPart
  <2>7. FoundPart'
    BY <1>0, <1>12
       DEF Insert, HasRoom, TypeOK, CallShape, FoundPart, Matches, LockPart, PoolPart, UniquePart
  <2> QED
    BY <2>1, <2>2, <2>3, <2>4, <2>5, <2>6, <2>7 DEF Safe
<1>13. CASE Unlink(t)
  <2>1. LockPart'
    BY <1>0, <1>13
       DEF Unlink, Decremented, TypeOK, CallShape, LockPart, InitAlone
  <2>2. InitAlone'
    BY <1>0, <1>13
       DEF Unlink, Decremented, TypeOK, CallShape, InitAlone, LockPart
  <2>3. CountPart'
    <3>1. CASE found[t] = None
      BY <1>0, <1>13, <3>1 DEF Unlink, CountPart
    <3>2. CASE found[t] # None
      <4>1. found[t] \in listed
        BY <1>0, <1>13, <3>2, FoundIsLinked DEF Unlink
      <4>2. /\ Cardinality(listed \ {found[t]}) = Cardinality(listed) - 1
            /\ Cardinality(listed \ {found[t]}) \in Nat
        BY <1>0, <4>1, ListIsFinite, FS_RemoveElement, FS_CardinalityType
      <4>3. count = Cardinality(listed) /\ count <= MaxRoutes /\ count \in Nat
        BY <1>0, ListIsFinite DEF CountPart
      <4>4. Decremented(count) = Cardinality(listed \ {found[t]})
        BY <4>2, <4>3 DEF Decremented
      <4>5. listed' = listed \ {found[t]} /\ count' = Decremented(count)
        BY <1>13, <3>2 DEF Unlink
      <4> QED
        BY <4>2, <4>3, <4>4, <4>5, BoundsAssumption DEF CountPart
    <3> QED
      BY <3>1, <3>2
  <2>4. UniquePart'
    BY <1>0, <1>13
       DEF Unlink, Decremented, TypeOK, CallShape, UniquePart, PoolPart, FoundPart, Matches
  <2>5. PoolPart'
    <3>1. CASE found[t] = None
      BY <1>0, <1>13, <3>1 DEF Unlink, PoolPart
    <3>2. CASE found[t] # None
      <4>1. /\ found[t] \in listed /\ found[t] \in Nodes /\ content[found[t]] # None
            /\ entry[t] = None
        BY <1>0, <1>13, <3>2, FoundIsLinked DEF Unlink, CallShape
      <4>2. /\ listed' = listed \ {found[t]} /\ content' = content
            /\ entry' = [entry EXCEPT ![t] = found[t]]
        BY <1>13, <3>2 DEF Unlink
      <4> QED
        BY <1>0, <4>1, <4>2, NoneAssumption DEF TypeOK, PoolPart
    <3> QED
      BY <3>1, <3>2
  <2>6. EntryIsFilled'
    BY <1>0, <1>13
       DEF Unlink, Decremented, TypeOK, CallShape, EntryIsFilled, PoolPart, FoundPart, Matches, LockPart
  <2>7. FoundPart'
    BY <1>0, <1>13
       DEF Unlink, Decremented, TypeOK, CallShape, FoundPart, Matches, LockPart, PoolPart, UniquePart
  <2> QED
    BY <2>1, <2>2, <2>3, <2>4, <2>5, <2>6, <2>7 DEF Safe
<1>14. CASE CopyOut(t)
  <2>1. LockPart'
    BY <1>0, <1>14 DEF CopyOut, TypeOK, CallShape, LockPart, InitAlone
  <2>2. InitAlone'
    BY <1>0, <1>14 DEF CopyOut, TypeOK, CallShape, InitAlone, LockPart
  <2>3. CountPart' /\ UniquePart' /\ PoolPart'
    <3>1. UNCHANGED <<listed, content, count, entry>>
      BY <1>14 DEF CopyOut
    <3> QED
      BY <1>0, <3>1, TableKept
  <2>4. EntryIsFilled'
    BY <1>0, <1>14
       DEF CopyOut, TypeOK, CallShape, EntryIsFilled, PoolPart, FoundPart, Matches, LockPart
  <2>5. FoundPart'
    BY <1>0, <1>14
       DEF CopyOut, TypeOK, CallShape, FoundPart, Matches, LockPart, PoolPart, UniquePart
  <2> QED
    BY <2>1, <2>2, <2>3, <2>4, <2>5 DEF Safe
<1>15. CASE Unlock(t, "release", "finish")
  <2>1. LockPart'
    BY <1>0, <1>15 DEF Unlock, TypeOK, CallShape, LockPart, InitAlone
  <2>2. InitAlone'
    BY <1>0, <1>15 DEF Unlock, TypeOK, CallShape, InitAlone, LockPart
  <2>3. CountPart' /\ UniquePart' /\ PoolPart'
    <3>1. UNCHANGED <<listed, content, count, entry>>
      BY <1>15 DEF Unlock
    <3> QED
      BY <1>0, <3>1, TableKept
  <2>4. EntryIsFilled'
    BY <1>0, <1>15
       DEF Unlock, TypeOK, CallShape, EntryIsFilled, PoolPart, FoundPart, Matches, LockPart
  <2>5. FoundPart'
    BY <1>0, <1>15
       DEF Unlock, TypeOK, CallShape, FoundPart, Matches, LockPart, PoolPart, UniquePart
  <2> QED
    BY <2>1, <2>2, <2>3, <2>4, <2>5 DEF Safe
<1>16. CASE Unlock(t, "drain_release", "init_head")
  <2>1. LockPart'
    BY <1>0, <1>16 DEF Unlock, TypeOK, CallShape, LockPart, InitAlone
  <2>2. InitAlone'
    BY <1>0, <1>16 DEF Unlock, TypeOK, CallShape, InitAlone, LockPart
  <2>3. CountPart' /\ UniquePart' /\ PoolPart'
    <3>1. UNCHANGED <<listed, content, count, entry>>
      BY <1>16 DEF Unlock
    <3> QED
      BY <1>0, <3>1, TableKept
  <2>4. EntryIsFilled'
    BY <1>0, <1>16
       DEF Unlock, TypeOK, CallShape, EntryIsFilled, PoolPart, FoundPart, Matches, LockPart
  <2>5. FoundPart'
    BY <1>0, <1>16
       DEF Unlock, TypeOK, CallShape, FoundPart, Matches, LockPart, PoolPart, UniquePart
  <2> QED
    BY <2>1, <2>2, <2>3, <2>4, <2>5 DEF Safe
<1>17. CASE Finish(t)
  <2>1. LockPart'
    <3>1. \/ pc' = [pc EXCEPT ![t] = "alloc"]
          \/ pc' = [pc EXCEPT ![t] = "idle"]
      BY <1>17 DEF Finish, Return
    <3> QED
      BY <1>0, <1>17, <3>1, ZenonT(30) DEF Finish, TypeOK, LockPart, InitAlone
  <2>2. InitAlone'
    <3>1. \/ pc' = [pc EXCEPT ![t] = "alloc"]
          \/ pc' = [pc EXCEPT ![t] = "idle"]
      BY <1>17 DEF Finish, Return
    <3> QED
      BY <1>0, <1>17, <3>1 DEF Finish, TypeOK, InitAlone, LockPart
  <2>3. CountPart'
    BY <1>0, <1>17
       DEF Finish, FreeOwned, Return, TypeOK, CallShape, CountPart, InitAlone
  <2>4. UniquePart'
    BY <1>0, <1>17
       DEF Finish, FreeOwned, Return, TypeOK, CallShape, UniquePart, PoolPart, FoundPart, Matches
  <2>5. PoolPart'
    <3>1. /\ listed' = listed /\ entry' = [entry EXCEPT ![t] = None]
          /\ content' = IF entry[t] = None THEN content
                        ELSE [content EXCEPT ![entry[t]] = None]
      BY <1>17 DEF Finish, FreeOwned
    <3> QED
      BY <1>0, <3>1, NoneAssumption DEF TypeOK, PoolPart
  <2>6. EntryIsFilled'
    BY <1>0, <1>17
       DEF Finish, FreeOwned, Return, TypeOK, CallShape, EntryIsFilled, PoolPart, FoundPart, Matches, LockPart
  <2>7. FoundPart'
    BY <1>0, <1>17
       DEF Finish, FreeOwned, Return, TypeOK, CallShape, FoundPart, Matches, LockPart, PoolPart, UniquePart
  <2> QED
    BY <2>1, <2>2, <2>3, <2>4, <2>5, <2>6, <2>7 DEF Safe
<1>18. CASE Drain(t)
  <2>1. LockPart'
    BY <1>0, <1>18 DEF Drain, TypeOK, CallShape, LockPart, InitAlone
  <2>2. InitAlone'
    BY <1>0, <1>18 DEF Drain, TypeOK, CallShape, InitAlone, LockPart
  <2>3. CountPart'
    BY <1>18, FS_EmptySet, BoundsAssumption DEF Drain, CountPart
  <2>4. UniquePart'
    BY <1>0, <1>18
       DEF Drain, TypeOK, CallShape, UniquePart, PoolPart, FoundPart, Matches
  <2>5. PoolPart'
    BY <1>0, <1>18
       DEF Drain, TypeOK, CallShape, PoolPart, FoundPart, Matches, UniquePart
  <2>6. EntryIsFilled'
    BY <1>0, <1>18
       DEF Drain, TypeOK, CallShape, EntryIsFilled, PoolPart, FoundPart, Matches, LockPart
  <2>7. FoundPart'
    BY <1>0, <1>18
       DEF Drain, TypeOK, CallShape, FoundPart, Matches, LockPart, PoolPart, UniquePart
  <2> QED
    BY <2>1, <2>2, <2>3, <2>4, <2>5, <2>6, <2>7 DEF Safe
<1>19. CASE InitializeListHead(t)
  <2>1. LockPart'
    BY <1>0, <1>19
       DEF InitializeListHead, TypeOK, CallShape, LockPart, InitAlone
  <2>2. InitAlone'
    BY <1>0, <1>19
       DEF InitializeListHead, TypeOK, CallShape, InitAlone, LockPart
  <2>3. CountPart' /\ UniquePart' /\ PoolPart'
    <3>1. UNCHANGED <<listed, content, count, entry>>
      BY <1>0, <1>19 DEF InitializeListHead, InitAlone
    <3> QED
      BY <1>0, <3>1, TableKept
  <2>4. EntryIsFilled'
    BY <1>0, <1>19
       DEF InitializeListHead, TypeOK, CallShape, EntryIsFilled, PoolPart, FoundPart, Matches, LockPart
  <2>5. FoundPart'
    <3>1. listed' = listed
      BY <1>0, <1>19 DEF InitializeListHead, InitAlone
    <3> QED
      BY <1>0, <1>19, <3>1 DEF InitializeListHead, TypeOK, FoundPart, Matches
  <2> QED
    BY <2>1, <2>2, <2>3, <2>4, <2>5 DEF Safe
<1>20. CASE InitializeSpinLock(t)
  <2>1. LockPart'
    BY <1>0, <1>20
       DEF InitializeSpinLock, TypeOK, CallShape, LockPart, InitAlone
  <2>2. InitAlone'
    BY <1>0, <1>20
       DEF InitializeSpinLock, TypeOK, CallShape, InitAlone, LockPart
  <2>3. CountPart' /\ UniquePart' /\ PoolPart'
    <3>1. UNCHANGED <<listed, content, count, entry>>
      BY <1>20 DEF InitializeSpinLock
    <3> QED
      BY <1>0, <3>1, TableKept
  <2>4. EntryIsFilled'
    BY <1>0, <1>20
       DEF InitializeSpinLock, TypeOK, CallShape, EntryIsFilled, PoolPart, FoundPart, Matches, LockPart
  <2>5. FoundPart'
    BY <1>0, <1>20
       DEF InitializeSpinLock, TypeOK, CallShape, FoundPart, Matches, LockPart, PoolPart, UniquePart
  <2> QED
    BY <2>1, <2>2, <2>3, <2>4, <2>5 DEF Safe
<1>21. CASE InitializeCount(t)
  <2>1. LockPart'
    <3>1. \/ pc' = [pc EXCEPT ![t] = "alloc"]
          \/ pc' = [pc EXCEPT ![t] = "idle"]
      BY <1>21 DEF InitializeCount, Return
    <3> QED
      BY <1>0, <1>21, <3>1 DEF InitializeCount, TypeOK, LockPart, InitAlone
  <2>2. InitAlone'
    <3>1. \/ pc' = [pc EXCEPT ![t] = "alloc"]
          \/ pc' = [pc EXCEPT ![t] = "idle"]
      BY <1>21 DEF InitializeCount, Return
    <3> QED
      BY <1>0, <1>21, <3>1 DEF InitializeCount, TypeOK, InitAlone, LockPart
  <2>3. CountPart' /\ UniquePart' /\ PoolPart'
    <3>1. UNCHANGED <<listed, content, count, entry>>
      BY <1>0, <1>21 DEF InitializeCount, InitAlone
    <3> QED
      BY <1>0, <3>1, TableKept
  <2>4. EntryIsFilled'
    <3>1. \A u \in Threads : pc'[u] \in {"acquire", "find", "act"} =>
            /\ u # t /\ pc'[u] = pc[u] /\ op'[u] = op[u] /\ todo'[u] = todo[u]
            /\ key'[u] = key[u]
      BY <1>0, <1>21 DEF InitializeCount, Return, TypeOK
    <3> QED
      BY <1>0, <1>21, <3>1 DEF InitializeCount, EntryIsFilled
  <2>5. FoundPart'
    <3>1. \A u \in Threads : pc'[u] \in {"acquire", "find", "act"} =>
            /\ u # t /\ pc'[u] = pc[u] /\ op'[u] = op[u] /\ todo'[u] = todo[u]
            /\ key'[u] = key[u]
      BY <1>0, <1>21 DEF InitializeCount, Return, TypeOK
    <3> QED
      BY <1>0, <1>21, <3>1 DEF InitializeCount, FoundPart, Matches
  <2> QED
    BY <2>1, <2>2, <2>3, <2>4, <2>5 DEF Safe
<1> QED
  BY <1>1, <1>2, <1>3, <1>4, <1>5, <1>6, <1>7, <1>8, <1>9, <1>10,
     <1>11, <1>12, <1>13, <1>14, <1>15, <1>16, <1>17, <1>18, <1>19, <1>20, <1>21 DEF Begin, Step

\* The inductive invariant holds initially and every step keeps it.  It adds to
\* the properties what each call carries with it (CallShape), that the table is
\* empty and left alone while it is re-initialized (InitAlone), and that a new
\* entry keeps its route until it is linked (EntryIsFilled).
LEMMA InvariantHolds == Spec => []IInv
<1>1. Init => IInv
  <2> SUFFICES ASSUME Init PROVE IInv
    OBVIOUS
  <2>1. TypeInv
    BY TypeInit
  <2>2. Safe
    BY FS_EmptySet, BoundsAssumption, NoneAssumption
       DEF Init, Safe, LockPart, InitAlone, CountPart, UniquePart, PoolPart,
           EntryIsFilled, FoundPart, Holding, Initializing
  <2> QED
    BY <2>1, <2>2 DEF IInv
<1>2. IInv /\ [Next]_vars => IInv'
  <2> SUFFICES ASSUME IInv, [Next]_vars PROVE IInv'
    OBVIOUS
  <2>1. ASSUME NEW t \in Threads, Begin(t) \/ Step(t)
        PROVE  IInv'
    <3>1. TypeInv'
      BY <2>1, TypeStep DEF IInv
    <3>2. overlap => overlap'
      BY <2>1, Zenon
         DEF Begin, Step, BeginSet, BeginClear, BeginLookup, BeginSync,
             AllocFails, Alloc, Acquire, Find, Replace, Full, Insert, Unlink,
             CopyOut, Unlock, Finish, Drain, InitializeListHead,
             InitializeSpinLock, InitializeCount
    <3>3. ~overlap' => Safe'
      BY <2>1, <3>2, SafeStep DEF IInv
    <3> QED
      BY <3>1, <3>3 DEF IInv
  <2>2. CASE UNCHANGED vars
    BY <2>2
       DEF vars, IInv, TypeInv, TypeOK, CallShape, Safe, LockPart, InitAlone,
           CountPart, UniquePart, PoolPart, EntryIsFilled, FoundPart, Matches
  <2> QED
    BY <2>1, <2>2 DEF Next
<1> QED
  BY <1>1, <1>2, PTL DEF Spec

\* For any number of threads: at most one is in a critical section of the route
\* table and the lock word says whether there is one, until the lock is taken
\* inside the window in which a sync re-initializes it.
THEOREM MutualExclusionHolds == Spec => []MutualExclusion
<1>1. IInv => MutualExclusion
  BY DEF IInv, Safe, LockPart, MutualExclusion
<1> QED
  BY <1>1, InvariantHolds, PTL

\* For any table limit below UINT32_MAX: g_RouteCount is the length of the list
\* and never exceeds GUARDIAN_MAX_ROUTES.
THEOREM CountMatchesListHolds == Spec => []CountMatchesList
<1>1. IInv => CountMatchesList
  BY DEF IInv, Safe, CountPart, CountMatchesList
<1> QED
  BY <1>1, InvariantHolds, PTL

\* For any applications and threads: concurrent sets, clears and syncs never
\* leave two routes of one application in the list.
THEOREM OneRoutePerAppHolds == Spec => []OneRoutePerApp
<1>1. IInv => OneRoutePerApp
  BY DEF IInv, Safe, UniquePart, OneRoutePerApp
<1> QED
  BY <1>1, InvariantHolds, PTL

\* For any pool: every block in use is linked or owned by exactly one call, so
\* no path of Set, Clear and Sync leaks one or frees one twice.
THEOREM PoolAccountingHolds == Spec => []PoolAccounting
<1>1. IInv => PoolAccounting
  BY DEF IInv, Safe, PoolPart, PoolAccounting
<1> QED
  BY <1>1, InvariantHolds, PTL

\* The result of GuardianRouteFindLocked is still right when its caller uses it.
THEOREM FoundIsCurrentHolds == Spec => []FoundIsCurrent
<1>1. IInv => FoundIsCurrent
  BY DEF IInv, Safe, FoundPart, FoundIsCurrent
<1> QED
  BY <1>1, InvariantHolds, PTL

-----------------------------------------------------------------------------
(* RouteTable implements RouteMap *)

\* What the refinement needs of a call beside IInv: only classify threads look
\* routes up, and a set that got past its allocation has a known version
CallerPart ==
  \A t \in Threads :
    /\ op[t] = "lookup" => t \in ClassifyThreads
    /\ op[t] = "set" /\ pc[t] \in {"acquire", "find", "act"} =>
         Head(todo[t]).ver = RouteVersion

Map == [a \in Apps |-> RouteOf(a)]
Asked == [t \in ClassifyThreads |-> AskedFor(t)]

\* A set with one member has nothing else to choose.
LEMMA OnlyChoice ==
  ASSUME NEW n
  PROVE  (CHOOSE m \in {n} : TRUE) = n
  OBVIOUS

\* The map counts its routes as the table does.
LEMMA SameCardinality ==
  ASSUME NEW S
  PROVE  Abstract!Cardinality(S) = Cardinality(S)
  BY Zenon DEF Abstract!Cardinality, Cardinality

\* A linked entry is the route of its application, the only one.
LEMMA LinkedRoute ==
  ASSUME UniquePart, NEW n \in listed
  PROVE  Matches(content[n].app) = {n} /\ RouteOf(content[n].app) = content[n]
<1>1. Matches(content[n].app) = {n}
  BY DEF UniquePart, Matches
<1> QED
  BY <1>1, OnlyChoice DEF RouteOf

\* The applications with a route are those of the linked entries, and not more.
LEMMA AssignedBound ==
  ASSUME TypeOK, UniquePart
  PROVE  /\ IsFiniteSet(Abstract!Assigned)
         /\ Cardinality(Abstract!Assigned) <= Cardinality(listed)
<1> DEFINE f == [n \in listed |-> content[n].app]
<1>1. \A n \in listed : content[n] \in Routes /\ content[n].app \in Apps
  BY RouteHasApp DEF TypeOK, UniquePart
<1>2. \A n \in listed : f[n] \in Abstract!Assigned
  BY <1>1, LinkedRoute DEF UniquePart, Abstract!Assigned
<1>3. \A a \in Abstract!Assigned : \E n \in listed : f[n] = a
  BY DEF Abstract!Assigned, RouteOf, Matches
<1>4. f \in Surjection(listed, Abstract!Assigned)
  BY <1>2, <1>3 DEF Surjection
<1> QED
  BY <1>4, ListIsFinite, FS_Surjection

\* An application whose entries stay as they are keeps its route.
LEMMA RouteKept ==
  ASSUME NEW a, Matches(a)' = Matches(a),
         \A n \in Matches(a) : content'[n] = content[n]
  PROVE  RouteOf(a)' = RouteOf(a)
<1>1. CASE Matches(a) = {}
  BY <1>1 DEF RouteOf
<1>2. CASE Matches(a) # {}
  <2>1. (CHOOSE n \in Matches(a) : TRUE) \in Matches(a)
    BY <1>2
  <2> QED
    BY <1>2, <2>1 DEF RouteOf
<1> QED BY <1>1, <1>2

\* A step that leaves the list and the linked entries alone leaves the map alone.
LEMMA MapKept ==
  ASSUME listed' = listed, \A n \in listed : content'[n] = content[n]
  PROVE  Map' = Map
<1>1. ASSUME NEW a \in Apps PROVE RouteOf(a)' = RouteOf(a)
  <2>1. /\ Matches(a)' = Matches(a)
        /\ \A n \in Matches(a) : content'[n] = content[n]
    BY DEF Matches
  <2> QED BY <2>1, RouteKept
<1> QED
  BY <1>1 DEF Map

\* A step of a thread that stays inside, or outside, a lookup of one application
\* changes nothing about what is asked for.
LEMMA AskedKept ==
  ASSUME NEW t, AskedFor(t)' = AskedFor(t),
         \A u \in Threads \ {t} : op'[u] = op[u] /\ pc'[u] = pc[u] /\ key'[u] = key[u]
  PROVE  Asked' = Asked
<1>1. ASSUME NEW u \in ClassifyThreads PROVE AskedFor(u)' = AskedFor(u)
  BY DEF AskedFor, Threads
<1> QED
  BY <1>1 DEF Asked

\* A step that neither begins a lookup nor answers one
NotALookup(t) ==
  \/ \E r \in Routes : BeginSet(t, r)
  \/ \E a \in Apps : BeginClear(t, a)
  \/ \E batch \in Batches : BeginSync(t, batch)
  \/ AllocFails(t) \/ Alloc(t)
  \/ Acquire(t, "acquire", "find") \/ Acquire(t, "drain_acquire", "drain")
  \/ Find(t)
  \/ Replace(t) \/ Full(t) \/ Insert(t) \/ Unlink(t)
  \/ Unlock(t, "release", "finish") \/ Unlock(t, "drain_release", "init_head")
  \/ Finish(t)
  \/ Drain(t)
  \/ InitializeListHead(t) \/ InitializeSpinLock(t) \/ InitializeCount(t)

\* Only the beginning of a lookup and its answer change what is asked for.
LEMMA AskedStep ==
  ASSUME TypeInv, NEW t \in Threads, NotALookup(t)
  PROVE  Asked' = Asked
<1> USE DEF Goto
<1>1. CASE \/ \E r \in Routes : BeginSet(t, r)
           \/ \E a \in Apps : BeginClear(t, a)
           \/ \E batch \in Batches : BeginSync(t, batch)
  <2>1. \A u \in Threads \ {t} : op'[u] = op[u] /\ pc'[u] = pc[u] /\ key'[u] = key[u]
    BY <1>1 DEF BeginSet, BeginClear, BeginSync, TypeInv, TypeOK
  <2>2. AskedFor(t) = None /\ AskedFor(t)' = None
    BY <1>1 DEF BeginSet, BeginClear, BeginSync, TypeInv, TypeOK, AskedFor,
            CallShape
  <2> QED BY <2>1, <2>2, AskedKept
<1>2. CASE AllocFails(t)
  <2>1. \A u \in Threads \ {t} : op'[u] = op[u] /\ pc'[u] = pc[u] /\ key'[u] = key[u]
    BY <1>2 DEF AllocFails, Return, TypeInv, TypeOK
  <2>2. AskedFor(t)' = AskedFor(t)
    BY <1>2 DEF AllocFails, Return, TypeInv, TypeOK, AskedFor,
            CallShape
  <2> QED BY <2>1, <2>2, AskedKept
<1>3. CASE Alloc(t)
  <2>1. \A u \in Threads \ {t} : op'[u] = op[u] /\ pc'[u] = pc[u] /\ key'[u] = key[u]
    BY <1>3 DEF Alloc, TypeInv, TypeOK
  <2>2. AskedFor(t)' = AskedFor(t)
    BY <1>3 DEF Alloc, TypeInv, TypeOK, AskedFor,
            CallShape
  <2> QED BY <2>1, <2>2, AskedKept
<1>4. CASE Acquire(t, "acquire", "find") \/ Acquire(t, "drain_acquire", "drain")
  <2>1. \A u \in Threads \ {t} : op'[u] = op[u] /\ pc'[u] = pc[u] /\ key'[u] = key[u]
    BY <1>4 DEF Acquire, TypeInv, TypeOK
  <2>2. AskedFor(t)' = AskedFor(t)
    BY <1>4 DEF Acquire, TypeInv, TypeOK, AskedFor,
            CallShape
  <2> QED BY <2>1, <2>2, AskedKept
<1>5. CASE Find(t)
  <2>1. \A u \in Threads \ {t} : op'[u] = op[u] /\ pc'[u] = pc[u] /\ key'[u] = key[u]
    BY <1>5 DEF Find, TypeInv, TypeOK
  <2>2. AskedFor(t)' = AskedFor(t)
    BY <1>5 DEF Find, TypeInv, TypeOK, AskedFor,
            CallShape
  <2> QED BY <2>1, <2>2, AskedKept
<1>6. CASE Replace(t) \/ Full(t) \/ Insert(t) \/ Unlink(t)
  <2>1. \A u \in Threads \ {t} : op'[u] = op[u] /\ pc'[u] = pc[u] /\ key'[u] = key[u]
    BY <1>6 DEF Replace, Full, Insert, Unlink, TypeInv, TypeOK
  <2>2. AskedFor(t)' = AskedFor(t)
    BY <1>6 DEF Replace, Full, Insert, Unlink, TypeInv, TypeOK, AskedFor,
            CallShape
  <2> QED BY <2>1, <2>2, AskedKept
<1>7. CASE \/ Unlock(t, "release", "finish")
           \/ Unlock(t, "drain_release", "init_head")
  <2>1. \A u \in Threads \ {t} : op'[u] = op[u] /\ pc'[u] = pc[u] /\ key'[u] = key[u]
    BY <1>7 DEF Unlock, TypeInv, TypeOK
  <2>2. AskedFor(t)' = AskedFor(t)
    BY <1>7 DEF Unlock, TypeInv, TypeOK, AskedFor,
            CallShape
  <2> QED BY <2>1, <2>2, AskedKept
<1>8. CASE Finish(t)
  <2>1. \A u \in Threads \ {t} : op'[u] = op[u] /\ pc'[u] = pc[u] /\ key'[u] = key[u]
    BY <1>8 DEF Finish, Return, TypeInv, TypeOK
  <2>2. AskedFor(t) = None /\ AskedFor(t)' = None
    BY <1>8 DEF Finish, Return, TypeInv, TypeOK, AskedFor,
            CallShape
  <2> QED BY <2>1, <2>2, AskedKept
<1>9. CASE Drain(t) \/ InitializeListHead(t) \/ InitializeSpinLock(t)
  <2>1. \A u \in Threads \ {t} : op'[u] = op[u] /\ pc'[u] = pc[u] /\ key'[u] = key[u]
    BY <1>9 DEF Drain, InitializeListHead, InitializeSpinLock, TypeInv, TypeOK
  <2>2. AskedFor(t)' = AskedFor(t)
    BY <1>9 DEF Drain, InitializeListHead, InitializeSpinLock, TypeInv, TypeOK, AskedFor,
            CallShape
  <2> QED BY <2>1, <2>2, AskedKept
<1>10. CASE InitializeCount(t)
  <2>1. \A u \in Threads \ {t} : op'[u] = op[u] /\ pc'[u] = pc[u] /\ key'[u] = key[u]
    BY <1>10 DEF InitializeCount, Return, TypeInv, TypeOK
  <2>2. AskedFor(t) = None /\ AskedFor(t)' = None
    BY <1>10 DEF InitializeCount, Return, TypeInv, TypeOK, AskedFor,
            CallShape
  <2> QED BY <2>1, <2>2, AskedKept
<1> QED
  BY <1>1, <1>2, <1>3, <1>4, <1>5, <1>6, <1>7, <1>8, <1>9, <1>10 DEF NotALookup

\* Every step of a thread keeps what the refinement needs of a call.
LEMMA CallerStep ==
  ASSUME TypeInv, CallerPart, NEW t \in Threads, Begin(t) \/ Step(t)
  PROVE  CallerPart'
<1> USE ThreadsAssumption DEF Goto, TypeInv, TypeOK, CallerPart
<1>1. CASE Begin(t)
  BY <1>1 DEF Begin, BeginSet, BeginClear, BeginLookup, BeginSync
<1>2. CASE AllocFails(t)
  BY <1>2 DEF AllocFails, Return
<1>3. CASE Alloc(t)
  BY <1>3 DEF Alloc
<1>4. CASE Acquire(t, "acquire", "find") \/ Acquire(t, "drain_acquire", "drain")
  BY <1>4 DEF Acquire
<1>5. CASE Find(t)
  BY <1>5 DEF Find
<1>6. CASE Replace(t) \/ Full(t) \/ Insert(t) \/ Unlink(t) \/ CopyOut(t)
  BY <1>6 DEF Replace, Full, Insert, Unlink, CopyOut
<1>7. CASE \/ Unlock(t, "release", "finish")
           \/ Unlock(t, "drain_release", "init_head")
  BY <1>7 DEF Unlock
<1>8. CASE Finish(t)
  BY <1>8, ZenonT(30) DEF Finish, Return
<1>9. CASE Drain(t) \/ InitializeListHead(t) \/ InitializeSpinLock(t)
  BY <1>9 DEF Drain, InitializeListHead, InitializeSpinLock
<1>10. CASE InitializeCount(t)
  BY <1>10 DEF InitializeCount, Return
<1> QED
  BY <1>1, <1>2, <1>3, <1>4, <1>5, <1>6, <1>7, <1>8, <1>9, <1>10 DEF Step

\* Until the promise is void, every step of a thread is a step of the map or
\* leaves it alone.
LEMMA MapStep ==
  ASSUME TypeInv, TypeInv', Safe, CallerPart, ~overlap, ~overlap',
         NEW t \in Threads, Begin(t) \/ Step(t)
  PROVE  [Abstract!Next]_(Abstract!vars)
<1> USE DEF Goto, table
<1>0. /\ TypeOK
      /\ \A u \in Threads : CallShape(u)
      /\ InitAlone /\ CountPart /\ UniquePart /\ PoolPart
      /\ EntryIsFilled /\ FoundPart
  BY DEF TypeInv, Safe
<1>01. NotALookup(t) => Asked' = Asked
  BY AskedStep
<1>00. ASSUME Map' = Map, route' = route, Asked' = Asked
       PROVE  [Abstract!Next]_(Abstract!vars)
  <2>1. overlap' = overlap
    BY DEF TypeInv, TypeOK
  <2> QED BY <1>00, <2>1 DEF Map, Asked, Abstract!vars
<1>1. CASE \/ \E r \in Routes : BeginSet(t, r)
           \/ \E a \in Apps : BeginClear(t, a)
           \/ \E batch \in Batches : BeginSync(t, batch)
  <2>1. listed' = listed /\ content' = content /\ route' = route
    BY <1>1 DEF BeginSet, BeginClear, BeginSync
  <2>2. Asked' = Asked
    BY <1>1, <1>01 DEF NotALookup
  <2> QED BY <1>00, <2>1, <2>2, MapKept
<1>2. ASSUME t \in ClassifyThreads, NEW a \in Apps, BeginLookup(t, a)
      PROVE  [Abstract!Next]_(Abstract!vars)
  <2>1. Map' = Map
    BY <1>2, MapKept DEF BeginLookup
  <2>2. AskedFor(t) = None
    BY <1>0, <1>2 DEF BeginLookup, AskedFor
  <2>3. Asked' = [Asked EXCEPT ![t] = a]
    <3>1. AskedFor(t)' = a
      BY <1>0, <1>2 DEF BeginLookup, AskedFor, TypeOK
    <3>2. \A u \in ClassifyThreads \ {t} : AskedFor(u)' = AskedFor(u)
      BY <1>0, <1>2 DEF BeginLookup, AskedFor, TypeOK, Threads
    <3> QED BY <1>2, <3>1, <3>2 DEF Asked
  <2>4. Abstract!Ask(t, a)
    BY <1>2, <2>1, <2>2, <2>3 DEF BeginLookup, Map, Asked, Abstract!Ask
  <2> QED BY <1>2, <2>4 DEF Abstract!Next
<1>3. CASE \/ AllocFails(t) \/ Find(t) \/ Full(t)
           \/ Acquire(t, "acquire", "find") \/ Acquire(t, "drain_acquire", "drain")
           \/ Unlock(t, "release", "finish")
           \/ Unlock(t, "drain_release", "init_head")
           \/ InitializeSpinLock(t) \/ InitializeCount(t)
  <2>1. listed' = listed /\ content' = content /\ route' = route
    BY <1>3 DEF AllocFails, Find, Full, Acquire, Unlock, InitializeSpinLock,
                InitializeCount
  <2>2. Asked' = Asked
    BY <1>3, <1>01 DEF NotALookup
  <2> QED BY <1>00, <2>1, <2>2, MapKept
<1>4. CASE Alloc(t)
  <2>1. listed' = listed /\ route' = route
    BY <1>4 DEF Alloc
  <2>2. \A n \in listed : content'[n] = content[n]
    BY <1>0, <1>4 DEF Alloc, UniquePart, TypeOK
  <2>3. Asked' = Asked
    BY <1>4, <1>01 DEF NotALookup
  <2> QED BY <1>00, <2>1, <2>2, <2>3, MapKept
<1>5. CASE Finish(t)
  <2>1. listed' = listed /\ route' = route
    BY <1>5 DEF Finish
  <2>2. \A n \in listed : content'[n] = content[n]
    BY <1>0, <1>5 DEF Finish, FreeOwned, PoolPart, TypeOK
  <2>3. Asked' = Asked
    BY <1>5, <1>01 DEF NotALookup
  <2> QED BY <1>00, <2>1, <2>2, <2>3, MapKept
<1>6. CASE InitializeListHead(t)
  <2>1. listed' = listed /\ content' = content /\ route' = route
    BY <1>0, <1>6 DEF InitializeListHead, InitAlone, Initializing
  <2>2. Asked' = Asked
    BY <1>6, <1>01 DEF NotALookup
  <2> QED BY <1>00, <2>1, <2>2, MapKept
<1>7. CASE Drain(t)
  <2>1. \A a \in Apps : RouteOf(a)' = None
    BY <1>7 DEF Drain, RouteOf, Matches
  <2>0. Asked' = Asked
    BY <1>7, <1>01 DEF NotALookup
  <2>2. Abstract!RemoveAll
    BY <1>7, <2>0, <2>1 DEF Drain, Asked, Abstract!RemoveAll
  <2> QED BY <2>2 DEF Abstract!Next
<1>8. CASE Replace(t)
  <2> DEFINE r == Head(todo[t])
  <2>1. /\ r \in Routes /\ r # None /\ r.app = key[t] /\ r.app \in Apps
        /\ r.ver = RouteVersion
    BY <1>0, <1>8, CurrentRoute DEF Replace, CallerPart, CallShape
  <2>2. /\ found[t] \in listed /\ found[t] \in Nodes
        /\ content[found[t]] # None /\ content[found[t]].app = key[t]
    BY <1>0, <1>8, FoundIsLinked DEF Replace
  <2>3. /\ listed' = listed /\ route' = route /\ overlap' = overlap
        /\ content' = [content EXCEPT ![found[t]] = r] /\ key' = key
    BY <1>8 DEF Replace
  <2>4. Matches(key[t]) = {found[t]}
    BY <1>0, <1>8 DEF Replace, FoundPart
  <2>5. \A a \in Apps : Matches(a)' = Matches(a)
    BY <1>0, <2>1, <2>2, <2>3 DEF Matches, TypeOK
  <2>6. RouteOf(key[t])' = r
    <3>1. Matches(key[t])' = {found[t]}
      BY <2>1, <2>3, <2>4, <2>5
    <3>2. content'[found[t]] = r
      BY <1>0, <2>2, <2>3 DEF TypeOK
    <3> QED BY <3>1, <3>2, OnlyChoice DEF RouteOf
  <2>7. ASSUME NEW a \in Apps, a # key[t] PROVE RouteOf(a)' = RouteOf(a)
    <3>1. \A n \in Matches(a) : content'[n] = content[n]
      BY <1>0, <2>2, <2>3, <2>7 DEF Matches, TypeOK
    <3> QED BY <2>5, <3>1, RouteKept
  <2>8. Map' = [Map EXCEPT ![r.app] = r]
    <3>1. \A a \in Apps : RouteOf(a)' = IF a = r.app THEN r ELSE RouteOf(a)
      BY <2>1, <2>3, <2>6, <2>7
    <3> QED BY <2>1, <3>1 DEF Map
  <2>9. r.app \in Abstract!Assigned
    BY <2>1, <2>2, <2>4, OnlyChoice DEF Abstract!Assigned, RouteOf
  <2>0. Asked' = Asked
    BY <1>8, <1>01 DEF NotALookup
  <2>10. Abstract!Put(r)
    BY <2>0, <2>1, <2>3, <2>8, <2>9 DEF Abstract!Put, Map, Asked
  <2> QED BY <2>1, <2>10 DEF Abstract!Next
<1>9. CASE Insert(t)
  <2> DEFINE r == Head(todo[t])
  <2>1. /\ r \in Routes /\ r # None /\ r.app = key[t] /\ r.app \in Apps
        /\ r.ver = RouteVersion /\ content[entry[t]] = r
    BY <1>0, <1>9, CurrentRoute DEF Insert, CallerPart, CallShape, EntryIsFilled
  <2>2. /\ listed' = listed \cup {entry[t]} /\ route' = route
        /\ overlap' = overlap /\ content' = content /\ key' = key
    BY <1>9 DEF Insert
  <2>3. Matches(key[t]) = {}
    BY <1>0, <1>9 DEF Insert, FoundPart
  <2>4. Matches(key[t])' = {entry[t]}
    BY <2>1, <2>2, <2>3 DEF Matches
  <2>5. \A a \in Apps : a # key[t] => Matches(a)' = Matches(a)
    BY <2>1, <2>2 DEF Matches
  <2>6. RouteOf(key[t])' = r
    BY <2>1, <2>2, <2>4, OnlyChoice DEF RouteOf
  <2>7. ASSUME NEW a \in Apps, a # key[t] PROVE RouteOf(a)' = RouteOf(a)
    BY <2>2, <2>5, <2>7, RouteKept
  <2>8. Map' = [Map EXCEPT ![r.app] = r]
    <3>1. \A a \in Apps : RouteOf(a)' = IF a = r.app THEN r ELSE RouteOf(a)
      BY <2>1, <2>2, <2>6, <2>7
    <3> QED BY <2>1, <3>1 DEF Map
  <2>9. Cardinality(Abstract!Assigned) < MaxRoutes
    <3>1. Cardinality(listed) < MaxRoutes
      BY <1>0, <1>9 DEF Insert, HasRoom, CountPart
    <3>2. /\ Cardinality(Abstract!Assigned) \in Nat
          /\ Cardinality(listed) \in Nat
          /\ Cardinality(Abstract!Assigned) <= Cardinality(listed)
      BY <1>0, AssignedBound, ListIsFinite, FS_CardinalityType
    <3> QED BY <3>1, <3>2, BoundsAssumption
  <2>0. Asked' = Asked
    BY <1>9, <1>01 DEF NotALookup
  <2>10. Abstract!Put(r)
    BY <2>0, <2>1, <2>2, <2>8, <2>9, SameCardinality DEF Abstract!Put, Map, Asked
  <2> QED BY <2>1, <2>10 DEF Abstract!Next
<1>10. CASE Unlink(t)
  <2>0. Asked' = Asked
    BY <1>10, <1>01 DEF NotALookup
  <2>1. CASE found[t] = None
    <3>1. listed' = listed /\ content' = content /\ route' = route
      BY <1>10, <2>1 DEF Unlink
    <3> QED BY <1>00, <2>0, <3>1, MapKept
  <2>2. CASE found[t] # None
    <3>1. /\ listed' = listed \ {found[t]} /\ content' = content
          /\ route' = route /\ overlap' = overlap /\ key' = key
      BY <1>10, <2>2 DEF Unlink
    <3>2. Matches(key[t]) = {found[t]} /\ key[t] \in Apps
      BY <1>0, <1>10, <2>2 DEF Unlink, FoundPart, CallShape
    <3>3. Matches(key[t])' = {}
      BY <3>1, <3>2 DEF Matches
    <3>4. \A a \in Apps : a # key[t] => Matches(a)' = Matches(a)
      BY <3>1, <3>2 DEF Matches
    <3>5. ASSUME NEW a \in Apps
          PROVE  RouteOf(a)' = IF a = key[t] THEN None ELSE RouteOf(a)
      <4>1. CASE a = key[t]
        BY <3>1, <3>3, <4>1 DEF RouteOf
      <4>2. CASE a # key[t]
        BY <3>1, <3>4, <4>2, RouteKept
      <4> QED BY <4>1, <4>2
    <3>6. Map' = [Map EXCEPT ![key[t]] = None]
      BY <3>2, <3>5 DEF Map
    <3>7. Abstract!Remove(key[t])
      BY <2>0, <3>1, <3>6 DEF Abstract!Remove, Map, Asked
    <3> QED BY <3>2, <3>7 DEF Abstract!Next
  <2> QED BY <2>1, <2>2
<1>11. CASE CopyOut(t)
  <2>1. t \in ClassifyThreads /\ key[t] \in Apps
    BY <1>0, <1>11 DEF CopyOut, CallerPart, CallShape
  <2>2. Map' = Map
    BY <1>11, MapKept DEF CopyOut
  <2>3. Matches(key[t]) = IF found[t] = None THEN {} ELSE {found[t]}
    BY <1>0, <1>11 DEF CopyOut, FoundPart
  <2>4. RouteOf(key[t]) = IF found[t] = None THEN None ELSE content[found[t]]
    BY <2>3, OnlyChoice DEF RouteOf
  <2>5. AskedFor(t) = key[t] /\ key[t] # None
    BY <1>11, <2>1, NoneAssumption DEF CopyOut, AskedFor
  <2>6. Asked' = [Asked EXCEPT ![t] = None]
    <3>1. AskedFor(t)' = None
      BY <1>0, <1>11 DEF CopyOut, AskedFor, TypeOK
    <3>2. \A u \in ClassifyThreads \ {t} : AskedFor(u)' = AskedFor(u)
      BY <1>0, <1>11 DEF CopyOut, AskedFor, TypeOK, Threads
    <3> QED BY <2>1, <3>1, <3>2 DEF Asked
  <2>7. Abstract!Answer(t)
    BY <1>11, <2>1, <2>2, <2>4, <2>5, <2>6 DEF CopyOut, Map, Asked, Abstract!Answer
  <2> QED BY <2>1, <2>7 DEF Abstract!Next
<1> QED
  BY <1>1, <1>2, <1>3, <1>4, <1>5, <1>6, <1>7, <1>8, <1>9, <1>10, <1>11
     DEF Begin, Step

\* For any number of threads, applications, pool blocks and limits, the table at
\* the granularity of its lock implements the indivisible map of RouteMap: every
\* set, clear, sync and lookup takes effect in one step of it.
THEOREM RouteTableImplementsRouteMap == Spec => ImplementsRouteMap
<1>1. Init => Abstract!Init
  BY DEF Init, Abstract!Init, RouteOf, Matches, AskedFor, Threads
<1>2. Init => CallerPart
  BY DEF Init, CallerPart
<1>3. IInv /\ CallerPart /\ [Next]_vars => CallerPart'
  <2> SUFFICES ASSUME IInv, CallerPart, [Next]_vars PROVE CallerPart'
    OBVIOUS
  <2>1. CASE Next
    BY <2>1, CallerStep DEF Next, IInv
  <2>2. CASE UNCHANGED vars
    BY <2>2 DEF vars, CallerPart
  <2> QED BY <2>1, <2>2
<1>4. IInv /\ CallerPart /\ [Next]_vars => [Abstract!Next]_(Abstract!vars)
  <2> SUFFICES ASSUME IInv, CallerPart, [Next]_vars
               PROVE  [Abstract!Next]_(Abstract!vars)
    OBVIOUS
  <2>1. CASE overlap'
    BY <2>1 DEF Abstract!Next, Abstract!Void
  <2>2. CASE UNCHANGED vars
    BY <2>2 DEF vars, Abstract!vars, RouteOf, Matches, AskedFor
  <2>3. ASSUME ~overlap', NEW t \in Threads, Begin(t) \/ Step(t)
        PROVE  [Abstract!Next]_(Abstract!vars)
    <3>1. overlap => overlap'
      BY <2>3, Zenon
         DEF Begin, Step, BeginSet, BeginClear, BeginLookup, BeginSync,
             AllocFails, Alloc, Acquire, Find, Replace, Full, Insert, Unlink,
             CopyOut, Unlock, Finish, Drain, InitializeListHead,
             InitializeSpinLock, InitializeCount
    <3>2. TypeInv'
      BY <2>3, TypeStep DEF IInv
    <3> QED BY <2>3, <3>1, <3>2, MapStep DEF IInv
  <2> QED BY <2>1, <2>2, <2>3 DEF Next
<1> QED
  BY <1>1, <1>2, <1>3, <1>4, InvariantHolds, PTL
     DEF Spec, ImplementsRouteMap, Abstract!Spec
=============================================================================
