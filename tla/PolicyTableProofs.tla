------------------------- MODULE PolicyTableProofs -------------------------
(* Proofs about PolicyTable, for any number of threads, any policies and     *)
(* batches, and any limits.                                                  *)
EXTENDS PolicyTable, TLAPS

-----------------------------------------------------------------------------
(* The inductive invariant *)

\* The types TypeOK leaves out
ThreadPart ==
  /\ todo \in [IoctlThreads -> Seq(Policies)]
  /\ batch \in [IoctlThreads -> Seq(Policies)]

TypeInv == TypeOK /\ ThreadPart

\* One thread is in a critical section at most, the lock word says whether one
\* is, and nobody is while a thread re-initializes the table
LockPart ==
  /\ lock <=> \E t \in Threads : pc[t] \in Holding
  /\ \A t, u \in Threads : pc[t] \in Holding /\ pc[u] \in Holding => t = u
  /\ \A t, u \in Threads : pc[t] \in Initializing => pc[u] \notin Holding
  /\ \A t, u \in Threads :
       pc[t] \in Initializing /\ pc[u] \in Initializing => t = u

\* Every application has one policy at most
OnePerApp(list) ==
  \A i, j \in 1..Len(list) : list[i].app = list[j].app => i = j

\* The list, its counter, and the table between emptying and first set
ListPart ==
  /\ OnePerApp(policies)
  /\ count = Len(policies) /\ count <= MaxPolicies
  /\ \A t \in Threads :
       pc[t] \in Initializing \cup {"drain_release"} => policies = <<>>

\* What GuardianPolicyFindLocked found is still so when it is used
FoundPart ==
  \A t \in IoctlThreads : pc[t] = "act" =>
    (found[t] <=> PlacesOf(policies, Head(todo[t]).app) # {})

\* How much of its batch a sync has set
Done(t) == Len(batch[t]) - Len(todo[t])

\* A sync has the whole batch before it until its loop begins; one that is alone
\* has then the end of its batch before it, and what it has set of it is all
\* the table holds
SyncOf(t) ==
  /\ pc[t] \in Initializing \cup {"drain_acquire", "drain", "drain_release"} =>
       todo[t] = batch[t]
  /\ alone[t] /\ pc[t] \in {"set", "find", "act", "release"} /\ todo[t] # <<>> =>
       /\ Done(t) \in Nat
       /\ \A i \in 1..Len(todo[t]) : todo[t][i] = batch[t][Done(t) + i]
       /\ Installs(policies, batch[t], Done(t))
  /\ alone[t] /\ pc[t] \in {"idle", "release"} /\ todo[t] = <<>> =>
       /\ status[t] = "success" => Installs(policies, batch[t], Len(batch[t]))
       /\ status[t] = "error" =>
            \E k \in 0..(Len(batch[t]) - 1) : Installs(policies, batch[t], k)
  /\ pc[t] = "idle" => todo[t] = <<>>

SyncPart == \A t \in IoctlThreads : SyncOf(t)

Safe == LockPart /\ ListPart /\ FoundPart /\ SyncPart
IInv == TypeInv /\ (overlap \/ Safe)

-----------------------------------------------------------------------------
(* Operators *)

\* A list after a set: at the same places the same applications, at the place
\* of the policy's application the policy.
LEMMA UpdatedIs ==
  ASSUME NEW list \in Seq(Policies), NEW p \in Policies, OnePerApp(list)
  PROVE  /\ Updated(list, p) \in Seq(Policies)
         /\ PlacesOf(list, p.app) # {} =>
              /\ Len(Updated(list, p)) = Len(list)
              /\ \A i \in 1..Len(list) :
                   /\ list[i].app = p.app => Updated(list, p)[i] = p
                   /\ list[i].app # p.app => Updated(list, p)[i] = list[i]
                   /\ Updated(list, p)[i].app = list[i].app
         /\ PlacesOf(list, p.app) = {} =>
              /\ Len(Updated(list, p)) = Len(list) + 1
              /\ Updated(list, p)[Len(list) + 1] = p
              /\ \A i \in 1..Len(list) :
                   Updated(list, p)[i] = list[i] /\ list[i].app # p.app
<1>1. CASE PlacesOf(list, p.app) = {}
  <2>1. Updated(list, p) = Append(list, p)
    BY <1>1 DEF Updated
  <2>2. \A i \in 1..Len(list) : list[i].app # p.app
    BY <1>1 DEF PlacesOf
  <2> QED BY <1>1, <2>1, <2>2
<1>2. CASE PlacesOf(list, p.app) # {}
  <2>1. Updated(list, p) = Replaced(list, p)
    BY <1>2 DEF Updated
  <2>2. ASSUME NEW i \in 1..Len(list), list[i].app = p.app
        PROVE  \A j \in 1..(i - 1) : list[j].app # p.app
    BY <2>2 DEF OnePerApp
  <2>3. Replaced(list, p)
          = [i \in 1..Len(list) |-> IF list[i].app = p.app THEN p ELSE list[i]]
    BY <2>2 DEF Replaced
  <2> QED BY <1>2, <2>1, <2>3
<1> QED BY <1>1, <1>2

\* A set keeps one policy per application.
LEMMA UpdatedWellFormed ==
  ASSUME NEW list \in Seq(Policies), NEW p \in Policies, OnePerApp(list)
  PROVE  OnePerApp(Updated(list, p))
<1> DEFINE new == Updated(list, p)
<1>1. CASE PlacesOf(list, p.app) = {}
  <2>1. /\ Len(new) = Len(list) + 1 /\ new[Len(list) + 1] = p
        /\ \A i \in 1..Len(list) : new[i] = list[i] /\ list[i].app # p.app
    BY <1>1, UpdatedIs
  <2> HIDE DEF new
  <2>3. ASSUME NEW i \in 1..Len(new), NEW j \in 1..Len(new), new[i].app = new[j].app
        PROVE  i = j
    <3>1. /\ i \in 1..Len(list) \/ i = Len(list) + 1
          /\ j \in 1..Len(list) \/ j = Len(list) + 1
      BY <2>1
    <3> QED BY <2>1, <2>3, <3>1 DEF OnePerApp
  <2>4. OnePerApp(new)
    BY <2>3 DEF OnePerApp
  <2> QED BY <2>4 DEF new
<1>2. CASE PlacesOf(list, p.app) # {}
  <2>1. /\ Len(new) = Len(list)
        /\ \A i \in 1..Len(list) :
             /\ list[i].app = p.app => new[i] = p
             /\ list[i].app # p.app => new[i] = list[i]
             /\ new[i].app = list[i].app
    BY <1>2, UpdatedIs
  <2> HIDE DEF new
  <2>2. OnePerApp(new)
    BY <2>1 DEF OnePerApp
  <2> QED BY <2>2 DEF new
<1> QED BY <1>1, <1>2

\* A set moves no application that stays in the list.
LEMMA UpdatedKeepsOrder ==
  ASSUME NEW list \in Seq(Policies), NEW p \in Policies, OnePerApp(list),
         NEW i \in 1..Len(list), NEW m \in PlacesOf(Updated(list, p), list[i].app)
  PROVE  m = i
<1> DEFINE new == Updated(list, p)
<1>0. m \in 1..Len(new) /\ new[m].app = list[i].app
  BY DEF PlacesOf
<1>1. CASE PlacesOf(list, p.app) = {}
  <2>1. /\ Len(new) = Len(list) + 1 /\ new[Len(list) + 1] = p
        /\ \A j \in 1..Len(list) : new[j] = list[j] /\ list[j].app # p.app
    BY <1>1, UpdatedIs, ZenonT(30)
  <2> HIDE DEF new
  <2>2. m \in 1..Len(list)
    BY <1>0, <2>1
  <2> QED BY <1>0, <2>1, <2>2 DEF OnePerApp
<1>2. CASE PlacesOf(list, p.app) # {}
  <2>1. /\ Len(new) = Len(list)
        /\ \A j \in 1..Len(list) :
             /\ list[j].app = p.app => new[j] = p
             /\ list[j].app # p.app => new[j] = list[j]
             /\ new[j].app = list[j].app
    BY <1>2, UpdatedIs
  <2> HIDE DEF new
  <2> QED BY <1>0, <2>1 DEF OnePerApp
<1> QED BY <1>1, <1>2

\* One more policy of a batch: from what the first k leave to what one more
\* leaves.
LEMMA OneMoreInstalled ==
  ASSUME NEW list \in Seq(Policies), NEW b \in Seq(Policies), NEW k \in Nat,
         k + 1 <= Len(b), Installs(list, b, k)
  PROVE  Installs(Updated(list, b[k + 1]), b, k + 1)
<1> DEFINE p == b[k + 1]
           new == Updated(list, p)
<1>0. p \in Policies
  OBVIOUS
<1>1. /\ \A i \in 1..k : \E n \in 1..Len(list) : list[n].app = b[i].app
      /\ \A n \in 1..Len(list) : \E i \in 1..k :
           list[n] = b[i] /\ \A j \in (i + 1)..k : b[j].app # b[i].app
      /\ \A m, n \in 1..Len(list) : m < n => \E i \in 1..k :
           b[i].app = list[m].app /\ \A j \in 1..i : b[j].app # list[n].app
  BY ZenonT(30) DEF Installs, PlacesOf
<1>a. OnePerApp(list)
  <2>1. ASSUME NEW m \in 1..Len(list), NEW n \in 1..Len(list), m < n
        PROVE  list[m].app # list[n].app
    <3>1. PICK i \in 1..k :
            b[i].app = list[m].app /\ \A j \in 1..i : b[j].app # list[n].app
      BY <1>1, <2>1
    <3> QED BY <3>1
  <2>2. ASSUME NEW m \in 1..Len(list), NEW n \in 1..Len(list),
               list[m].app = list[n].app
        PROVE  m = n
    <3>1. ~(m < n) /\ ~(n < m)
      BY <2>1, <2>2
    <3> QED BY <3>1
  <2> QED BY <2>2 DEF OnePerApp
<1>2. CASE PlacesOf(list, p.app) = {}
  <2>1. /\ Len(new) = Len(list) + 1 /\ new[Len(list) + 1] = p
        /\ \A i \in 1..Len(list) : new[i] = list[i] /\ list[i].app # p.app
    BY <1>0, <1>a, <1>2, UpdatedIs
  <2> HIDE DEF new
  <2>2. ASSUME NEW i \in 1..(k + 1)
        PROVE  PlacesOf(new, b[i].app) # {}
    <3>1. CASE i = k + 1
      BY <2>1, <3>1 DEF PlacesOf
    <3>2. CASE i \in 1..k
      <4>1. PICK n \in 1..Len(list) : list[n].app = b[i].app
        BY <1>1, <3>2
      <4>2. n \in 1..Len(new) /\ new[n].app = b[i].app
        BY <2>1, <4>1
      <4> QED BY <4>2 DEF PlacesOf
    <3> QED BY <3>1, <3>2
  <2>3. ASSUME NEW n \in 1..Len(new)
        PROVE  \E i \in 1..(k + 1) :
                 new[n] = b[i] /\ \A j \in (i + 1)..(k + 1) : b[j].app # b[i].app
    <3>1. CASE n = Len(list) + 1
      BY <2>1, <3>1
    <3>2. CASE n \in 1..Len(list)
      <4>1. PICK i \in 1..k : list[n] = b[i] /\ \A j \in (i + 1)..k : b[j].app # b[i].app
        BY <1>1, <3>2
      <4>2. \A j \in (i + 1)..(k + 1) : b[j].app # b[i].app
        BY <2>1, <3>2, <4>1, SMTT(30)
      <4> QED BY <2>1, <3>2, <4>1, <4>2
    <3> QED BY <2>1, <3>1, <3>2
  <2>4. ASSUME NEW m \in 1..Len(new), NEW n \in 1..Len(new), m < n
        PROVE  \E i \in 1..(k + 1) :
                 b[i].app = new[m].app /\ \A j \in 1..i : b[j].app # new[n].app
    <3>0. m \in 1..Len(list) /\ (n = Len(list) + 1 \/ n \in 1..Len(list))
      BY <2>1, <2>4
    <3>1. CASE n = Len(list) + 1
      <4>1. PICK i \in 1..k : list[m] = b[i]
        BY <1>1, <3>0
      <4>2. ASSUME NEW j \in 1..i
            PROVE  b[j].app # p.app
        <5>1. j \in 1..k
          OBVIOUS
        <5>2. PICK l \in 1..Len(list) : list[l].app = b[j].app
          BY <1>1, <5>1
        <5> QED BY <2>1, <5>2
      <4>3. i \in 1..(k + 1) /\ new[m] = b[i] /\ new[n] = p
        BY <2>1, <3>0, <3>1, <4>1
      <4>4. b[i].app = new[m].app /\ \A j \in 1..i : b[j].app # new[n].app
        BY <4>2, <4>3
      <4> QED BY <4>3, <4>4
    <3>2. CASE n \in 1..Len(list)
      <4>1. PICK i \in 1..k : b[i].app = list[m].app /\ \A j \in 1..i : b[j].app # list[n].app
        BY <1>1, <2>4, <3>0, <3>2
      <4>2. i \in 1..(k + 1) /\ new[m] = list[m] /\ new[n] = list[n]
        BY <2>1, <3>0, <3>2
      <4>3. b[i].app = new[m].app /\ \A j \in 1..i : b[j].app # new[n].app
        BY <4>1, <4>2
      <4> QED BY <4>2, <4>3
    <3> QED BY <3>0, <3>1, <3>2
  <2>5. Installs(new, b, k + 1)
    BY <2>2, <2>3, <2>4 DEF Installs
  <2> QED BY <2>5 DEF new
<1>3. CASE PlacesOf(list, p.app) # {}
  <2>1. /\ Len(new) = Len(list)
        /\ \A i \in 1..Len(list) :
             /\ list[i].app = p.app => new[i] = p
             /\ list[i].app # p.app => new[i] = list[i]
             /\ new[i].app = list[i].app
    BY <1>0, <1>a, <1>3, UpdatedIs
  <2>a. PICK l \in 1..Len(list) : list[l].app = p.app
    BY <1>3 DEF PlacesOf
  <2> HIDE DEF new
  <2>2. ASSUME NEW i \in 1..(k + 1)
        PROVE  PlacesOf(new, b[i].app) # {}
    <3>1. CASE i = k + 1
      BY <2>1, <2>a, <3>1 DEF PlacesOf
    <3>2. CASE i \in 1..k
      <4>1. PICK n \in 1..Len(list) : list[n].app = b[i].app
        BY <1>1, <3>2
      <4>2. n \in 1..Len(new) /\ new[n].app = b[i].app
        BY <2>1, <4>1
      <4> QED BY <4>2 DEF PlacesOf
    <3> QED BY <3>1, <3>2
  <2>3. ASSUME NEW n \in 1..Len(new)
        PROVE  \E i \in 1..(k + 1) :
                 new[n] = b[i] /\ \A j \in (i + 1)..(k + 1) : b[j].app # b[i].app
    <3>1. CASE list[n].app = p.app
      BY <2>1, <3>1
    <3>2. CASE list[n].app # p.app
      <4>1. PICK i \in 1..k : list[n] = b[i] /\ \A j \in (i + 1)..k : b[j].app # b[i].app
        BY <1>1, <2>1
      <4>2. \A j \in (i + 1)..(k + 1) : b[j].app # b[i].app
        BY <3>2, <4>1
      <4> QED BY <2>1, <3>2, <4>1, <4>2
    <3> QED BY <3>1, <3>2
  <2>4. ASSUME NEW m \in 1..Len(new), NEW n \in 1..Len(new), m < n
        PROVE  \E i \in 1..(k + 1) :
                 b[i].app = new[m].app /\ \A j \in 1..i : b[j].app # new[n].app
    <3>1. PICK i \in 1..k : b[i].app = list[m].app /\ \A j \in 1..i : b[j].app # list[n].app
      BY <1>1, <2>1, <2>4, SMTT(30)
    <3> QED BY <2>1, <3>1
  <2>5. Installs(new, b, k + 1)
    BY <2>2, <2>3, <2>4 DEF Installs
  <2> QED BY <2>5 DEF new
<1> QED BY <1>2, <1>3

-----------------------------------------------------------------------------
(* Steps *)

\* The policy a call is setting, and the rest of its batch.
LEMMA CurrentPolicy ==
  ASSUME TypeInv, NEW t \in IoctlThreads, pc[t] \in {"set", "find", "act"}
  PROVE  /\ todo[t] \in Seq(Policies) /\ todo[t] # <<>>
         /\ Head(todo[t]) \in Policies /\ Tail(todo[t]) \in Seq(Policies)
         /\ Len(todo[t]) \in Nat \ {0} /\ Len(Tail(todo[t])) = Len(todo[t]) - 1
<1>1. todo[t] \in Seq(Policies) /\ todo[t] # <<>>
  BY DEF TypeInv, TypeOK
<1> QED BY <1>1

\* Nobody but an IOCTL thread, and a reader only for a walk, moves.
Step(t) ==
  \/ /\ t \in IoctlThreads
     /\ \/ \E p \in Policies : BeginSet(t, p)
        \/ \E b \in Batches : BeginSync(t, b)
        \/ EnterSet(t) \/ SetFails(t) \/ Find(t)
        \/ Replace(t) \/ Insert(t) \/ Full(t)
        \/ Unlock(t, "release", Continue(t))
        \/ Acquire(t, "drain_acquire", "drain") \/ Drain(t)
        \/ Unlock(t, "drain_release", "init_head")
        \/ InitializeListHead(t) \/ InitializeSpinLock(t) \/ InitializeCount(t)
  \/ t \in ClassifyThreads /\ Lookup(t)

\* Every step is a step of a thread.
LEMMA NextIsStep ==
  ASSUME Next
  PROVE  \E t \in Threads : Step(t)
  BY DEF Next, Step, Threads

\* A call has a policy before it from its first check to its update
Pending ==
  \A t \in IoctlThreads : pc[t] \in {"set", "find", "act"} => todo[t] # <<>>

\* TypeOK in pieces: the shared state, the threads' places, and the rest.
LEMMA TypeParts ==
  TypeInv <=>
    /\ lock \in BOOLEAN /\ policies \in Seq(Policies) /\ count \in Nat
    /\ overlap \in BOOLEAN
    /\ pc \in [Threads -> Labels]
    /\ Pending
    /\ ThreadPart
    /\ found \in [IoctlThreads -> BOOLEAN]
    /\ status \in [IoctlThreads -> {"none", "success", "error"}]
    /\ alone \in [IoctlThreads -> BOOLEAN]
  BY DEF TypeInv, TypeOK, Pending, ThreadPart

\* Every step moves one thread to a label.
LEMMA PlaceStep ==
  ASSUME pc \in [Threads -> Labels], NEW t \in Threads, Step(t)
  PROVE  pc' \in [Threads -> Labels]
<1>1. \E l \in Labels : Goto(t, l)
  <2>1. CASE \/ \E p \in Policies : BeginSet(t, p)
             \/ \E b \in Batches : BeginSync(t, b)
             \/ EnterSet(t) \/ SetFails(t) \/ Find(t)
    BY <2>1 DEF BeginSet, BeginSync, EnterSet, SetFails, Find, Acquire, Labels
  <2>2. CASE Replace(t) \/ Insert(t) \/ Full(t) \/ Drain(t)
    BY <2>2 DEF Replace, Insert, Full, Drain, PolicySet, Labels
  <2>3. CASE \/ Unlock(t, "release", Continue(t))
             \/ Acquire(t, "drain_acquire", "drain")
             \/ Unlock(t, "drain_release", "init_head") \/ Lookup(t)
    BY <2>3 DEF Unlock, Acquire, Continue, Lookup, Labels
  <2>4. CASE InitializeListHead(t) \/ InitializeSpinLock(t) \/ InitializeCount(t)
    BY <2>4 DEF InitializeListHead, InitializeSpinLock, InitializeCount, Continue, Labels
  <2> QED BY <2>1, <2>2, <2>3, <2>4 DEF Step
<1> QED BY <1>1 DEF Goto

\* Every step keeps the types.
LEMMA TypeStep ==
  ASSUME TypeInv, NEW t \in Threads, Step(t)
  PROVE  TypeInv'
<1>0. /\ lock \in BOOLEAN /\ policies \in Seq(Policies) /\ count \in Nat
      /\ overlap \in BOOLEAN /\ pc \in [Threads -> Labels]
      /\ Pending /\ ThreadPart
      /\ found \in [IoctlThreads -> BOOLEAN]
      /\ status \in [IoctlThreads -> {"none", "success", "error"}]
      /\ alone \in [IoctlThreads -> BOOLEAN]
  BY TypeParts
<1>1. pc' \in [Threads -> Labels]
  BY <1>0, PlaceStep
<1> DEFINE Rest ==
      /\ lock \in BOOLEAN /\ policies \in Seq(Policies) /\ count \in Nat
      /\ overlap \in BOOLEAN /\ Pending /\ ThreadPart
      /\ found \in [IoctlThreads -> BOOLEAN]
      /\ status \in [IoctlThreads -> {"none", "success", "error"}]
      /\ alone \in [IoctlThreads -> BOOLEAN]
<1> SUFFICES Rest'
  BY <1>1 DEF TypeInv, TypeOK, Pending, ThreadPart
<1>a. <<>> \in Seq(Policies) /\ 0 \in Nat
  OBVIOUS
<1> USE DEF Goto, Note, table
<1>2. ASSUME t \in IoctlThreads, NEW p \in Policies, BeginSet(t, p)
      PROVE  Rest'
  <2>1. <<p>> \in Seq(Policies) /\ <<p>> # <<>>
    OBVIOUS
  <2> QED BY <1>0, <1>2, <1>a, <2>1 DEF BeginSet, Pending, ThreadPart
<1>3. ASSUME t \in IoctlThreads, NEW b \in Batches, BeginSync(t, b)
      PROVE  Rest'
  <2>1. b \in Seq(Policies)
    BY <1>3, BatchesAssumption
  <2> QED BY <1>0, <1>3, <2>1 DEF BeginSync, Pending, ThreadPart
<1>4. CASE t \in IoctlThreads /\ EnterSet(t)
  BY <1>0, <1>4 DEF EnterSet, Acquire, Pending, ThreadPart
<1>5. CASE t \in IoctlThreads /\ SetFails(t)
  BY <1>0, <1>5, <1>a DEF SetFails, Pending, ThreadPart
<1>6. CASE t \in IoctlThreads /\ Find(t)
  BY <1>0, <1>6 DEF Find, Pending, ThreadPart
<1>7. CASE t \in IoctlThreads /\ (Replace(t) \/ Insert(t))
  <2> DEFINE p == Head(todo[t])
  <2>1. p \in Policies /\ Tail(todo[t]) \in Seq(Policies)
    BY <1>7, CurrentPolicy DEF Replace, Insert
  <2>2. policies' \in Seq(Policies) /\ count' \in Nat
    <3>1. Append(policies, p) \in Seq(Policies) /\ Replaced(policies, p) \in Seq(Policies)
      BY <1>0, <2>1 DEF Replaced
    <3> HIDE DEF p
    <3>2. CASE Replace(t)
      BY <1>0, <3>1, <3>2 DEF Replace, p
    <3>3. CASE Insert(t)
      BY <1>0, <3>1, <3>3 DEF Insert, p
    <3> QED BY <1>7, <3>2, <3>3
  <2>3. PolicySet(t)
    BY <1>7 DEF Replace, Insert
  <2>4. todo' = [todo EXCEPT ![t] = Tail(todo[t])] /\ pc' = [pc EXCEPT ![t] = "release"]
    BY <2>3 DEF PolicySet
  <2>5. Pending' /\ ThreadPart'
    <3>1. batch' = batch
      BY <2>3 DEF PolicySet
    <3>2. Pending'
      BY <1>0, <2>4 DEF Pending, ThreadPart
    <3>3. ThreadPart'
      BY <1>0, <2>1, <2>4, <3>1 DEF ThreadPart
    <3> QED BY <3>2, <3>3
  <2> QED BY <1>0, <2>2, <2>3, <2>5 DEF PolicySet
<1>8. CASE t \in IoctlThreads /\ Full(t)
  BY <1>0, <1>8, <1>a DEF Full, Pending, ThreadPart
<1>9. CASE t \in IoctlThreads /\ Unlock(t, "release", Continue(t))
  <2>1. Pending'
    BY <1>0, <1>9 DEF Unlock, Continue, Pending, ThreadPart
  <2> QED BY <1>0, <1>9, <2>1, Zenon DEF Unlock, ThreadPart
<1>10. CASE t \in IoctlThreads /\ Acquire(t, "drain_acquire", "drain")
  BY <1>0, <1>10 DEF Acquire, Pending, ThreadPart
<1>11. CASE t \in IoctlThreads /\ Drain(t)
  <2>1. Pending'
    BY <1>0, <1>11 DEF Drain, Pending, ThreadPart
  <2>2. alone' \in [IoctlThreads -> BOOLEAN]
    BY <1>0, <1>11, Zenon DEF Drain
  <2> QED BY <1>0, <1>11, <1>a, <2>1, <2>2, Zenon DEF Drain, ThreadPart
<1>12. CASE t \in IoctlThreads /\ Unlock(t, "drain_release", "init_head")
  <2>1. Pending'
    BY <1>0, <1>12 DEF Unlock, Pending, ThreadPart
  <2> QED BY <1>0, <1>12, <2>1, Zenon DEF Unlock, ThreadPart
<1>13. CASE t \in IoctlThreads /\ InitializeListHead(t)
  <2>1. Pending'
    BY <1>0, <1>13 DEF InitializeListHead, Pending, ThreadPart
  <2>2. alone' \in [IoctlThreads -> BOOLEAN]
    BY <1>0, <1>13, Zenon DEF InitializeListHead
  <2> QED BY <1>0, <1>13, <1>a, <2>1, <2>2, Zenon DEF InitializeListHead, ThreadPart
<1>14. CASE t \in IoctlThreads /\ InitializeSpinLock(t)
  <2>1. Pending'
    BY <1>0, <1>14 DEF InitializeSpinLock, Pending, ThreadPart
  <2> QED BY <1>0, <1>14, <2>1, Zenon DEF InitializeSpinLock, ThreadPart
<1>15. CASE t \in IoctlThreads /\ InitializeCount(t)
  BY <1>0, <1>15, <1>a DEF InitializeCount, Continue, Pending, ThreadPart
<1>16. CASE t \in ClassifyThreads /\ Lookup(t)
  BY <1>0, <1>16, ThreadsAssumption DEF Lookup, Acquire, Unlock, Pending, ThreadPart, Threads
<1> QED
  BY <1>2, <1>3, <1>4, <1>5, <1>6, <1>7, <1>8, <1>9, <1>10, <1>11, <1>12,
     <1>13, <1>14, <1>15, <1>16 DEF Step

\* A thread that moves, and what that does to the lock
Moves(t, from, to) == pc[t] \in from /\ \E l \in to : pc' = [pc EXCEPT ![t] = l]
Outside == Labels \ (Holding \cup Initializing)

\* How a step moves its thread between outside, critical section and
\* re-initialization, with the lock word it leaves.
LEMMA StepMoves ==
  ASSUME TypeInv, NEW t \in Threads, Step(t), ~overlap'
  PROVE  \/ Moves(t, Outside, Outside) /\ lock' = lock
         \/ Moves(t, Holding, Holding) /\ lock' = lock
         \/ Moves(t, Outside, Holding) /\ ~lock /\ lock'
              /\ \A u \in Threads \ {t} : pc[u] \notin Initializing
         \/ Moves(t, Holding, Outside) /\ ~lock'
         \/ Moves(t, {"drain_release"}, {"init_head"}) /\ ~lock'
         \/ Moves(t, Initializing, Initializing) /\ (lock' = lock \/ ~lock')
         \/ Moves(t, Initializing, Outside) /\ lock' = lock
<1> USE DEF Goto, table, Moves, Outside, Holding, Initializing, Labels
<1>1. CASE \/ \E p \in Policies : BeginSet(t, p)
           \/ \E b \in Batches : BeginSync(t, b)
           \/ SetFails(t)
  BY <1>1 DEF BeginSet, BeginSync, SetFails
<1>2. CASE \/ EnterSet(t) \/ Acquire(t, "drain_acquire", "drain")
           \/ Acquire(t, "idle", "walk")
  BY <1>2 DEF EnterSet, Acquire, LockFree
<1>3. CASE Find(t) \/ Replace(t) \/ Insert(t) \/ Full(t) \/ Drain(t)
  BY <1>3 DEF Find, Replace, Insert, Full, Drain, PolicySet
<1>4. CASE Unlock(t, "release", Continue(t)) \/ Unlock(t, "walk", "idle")
  BY <1>4 DEF Unlock, Continue
<1>5. CASE Unlock(t, "drain_release", "init_head")
  BY <1>5 DEF Unlock
<1>6. CASE InitializeListHead(t) \/ InitializeSpinLock(t)
  BY <1>6 DEF InitializeListHead, InitializeSpinLock
<1>7. CASE InitializeCount(t)
  BY <1>7 DEF InitializeCount, Continue
<1> QED BY <1>1, <1>2, <1>3, <1>4, <1>5, <1>6, <1>7 DEF Step, Lookup

\* Until two threads share a re-initialization, every step keeps the lock.
LEMMA LockStep ==
  ASSUME TypeInv, LockPart, NEW t \in Threads, Step(t), ~overlap'
  PROVE  LockPart'
<1>0. pc \in [Threads -> Labels] /\ lock \in BOOLEAN
  BY DEF TypeInv, TypeOK
<1>a. \A l \in Initializing : l \notin Holding
  BY DEF Initializing, Holding
<1>b. \A l \in Outside : l \notin Holding /\ l \notin Initializing
  BY DEF Outside
<1>1. CASE Moves(t, Outside, Outside) /\ lock' = lock
  BY <1>0, <1>1, <1>b DEF Moves, LockPart
<1>2. CASE Moves(t, Holding, Holding) /\ lock' = lock
  BY <1>0, <1>2, <1>a DEF Moves, LockPart
<1>3. CASE Moves(t, Outside, Holding) /\ ~lock /\ lock'
              /\ \A u \in Threads \ {t} : pc[u] \notin Initializing
  BY <1>0, <1>3, <1>a, <1>b DEF Moves, LockPart
<1>4. CASE Moves(t, Holding, Outside) /\ ~lock'
  BY <1>0, <1>4, <1>b DEF Moves, LockPart
<1>5. CASE Moves(t, {"drain_release"}, {"init_head"}) /\ ~lock'
  <2>1. "drain_release" \in Holding /\ "init_head" \in Initializing
    BY DEF Holding, Initializing
  <2> QED BY <1>0, <1>5, <1>a, <2>1 DEF Moves, LockPart
<1>6. CASE Moves(t, Initializing, Initializing) /\ (lock' = lock \/ ~lock')
  BY <1>0, <1>6, <1>a DEF Moves, LockPart
<1>7. CASE Moves(t, Initializing, Outside) /\ lock' = lock
  BY <1>0, <1>7, <1>a, <1>b DEF Moves, LockPart
<1> QED BY <1>1, <1>2, <1>3, <1>4, <1>5, <1>6, <1>7, StepMoves

\* A set under the lock: whether it replaces or inserts, the list is updated.
LEMMA SetUpdates ==
  ASSUME TypeInv, Safe, NEW t \in IoctlThreads, Replace(t) \/ Insert(t)
  PROVE  /\ pc[t] = "act" /\ PolicySet(t)
         /\ policies' = Updated(policies, Head(todo[t]))
         /\ count' = Len(policies') /\ count' <= MaxPolicies
<1> DEFINE p == Head(todo[t])
<1>1. /\ p \in Policies /\ policies \in Seq(Policies)
      /\ count = Len(policies) /\ count <= MaxPolicies /\ count \in Nat
      /\ OnePerApp(policies)
  BY CurrentPolicy DEF Replace, Insert, TypeInv, TypeOK, Safe, ListPart
<1>2. found[t] <=> PlacesOf(policies, p.app) # {}
  BY DEF Replace, Insert, Safe, FoundPart
<1>3. policies' = Updated(policies, p)
  BY <1>2 DEF Replace, Insert, Updated
<1>4. /\ PlacesOf(policies, p.app) # {} => Len(Updated(policies, p)) = Len(policies)
      /\ PlacesOf(policies, p.app) = {} => Len(Updated(policies, p)) = Len(policies) + 1
  BY <1>1, UpdatedIs
<1> HIDE DEF p
<1>5. count' = Len(policies') /\ count' <= MaxPolicies
  <2>1. CASE Replace(t)
    <3>1. found[t] /\ count' = count
      BY <2>1 DEF Replace
    <3> QED BY <1>1, <1>2, <1>3, <1>4, <3>1
  <2>2. CASE Insert(t)
    <3>1. ~found[t] /\ count' = count + 1 /\ count < MaxPolicies
      BY <2>2 DEF Insert, HasRoom
    <3> QED BY <1>1, <1>2, <1>3, <1>4, <3>1, MaxAssumption
  <2> QED BY <2>1, <2>2
<1> QED BY <1>3, <1>5 DEF Replace, Insert, p

\* What a step may do to the list: nothing, empty it, or set one policy.
LEMMA ListChanges ==
  ASSUME TypeInv, Safe, NEW t \in Threads, Step(t)
  PROVE  \/ policies' = policies /\ count' = count
         \/ policies' = <<>> /\ count' = 0
         \/ \E p \in Policies :
              /\ policies' = Updated(policies, p)
              /\ count' = Len(policies') /\ count' <= MaxPolicies
<1> USE DEF table
<1>1. CASE t \in IoctlThreads /\ (Replace(t) \/ Insert(t))
  <2>1. pc[t] = "act"
    BY <1>1 DEF Replace, Insert
  <2> QED BY <1>1, <2>1, SetUpdates, CurrentPolicy
<1>2. CASE t \in IoctlThreads /\ Drain(t)
  BY <1>2 DEF Drain
<1>3. CASE t \in IoctlThreads /\ InitializeListHead(t)
  <2>1. policies = <<>>
    BY <1>3 DEF InitializeListHead, Safe, ListPart, Initializing
  <2> QED BY <1>3, <2>1 DEF InitializeListHead
<1>4. CASE t \in IoctlThreads /\ InitializeCount(t)
  <2>1. policies = <<>> /\ count = Len(policies)
    BY <1>4 DEF InitializeCount, Safe, ListPart, Initializing
  <2> QED BY <1>4, <2>1 DEF InitializeCount
<1>5. CASE \/ \E p \in Policies : BeginSet(t, p)
           \/ \E b \in Batches : BeginSync(t, b)
           \/ EnterSet(t) \/ SetFails(t) \/ Find(t) \/ Full(t)
           \/ Unlock(t, "release", Continue(t))
           \/ Acquire(t, "drain_acquire", "drain")
           \/ Unlock(t, "drain_release", "init_head")
           \/ InitializeSpinLock(t) \/ Lookup(t)
  BY <1>5 DEF BeginSet, BeginSync, EnterSet, SetFails, Find, Full, Unlock,
              Acquire, InitializeSpinLock, Lookup
<1> QED BY <1>1, <1>2, <1>3, <1>4, <1>5 DEF Step

\* A step of a thread leaves what belongs to the others alone.
LEMMA Untouched ==
  ASSUME TypeInv, NEW t \in Threads, Step(t), NEW u \in IoctlThreads, u # t
  PROVE  /\ pc'[u] = pc[u] /\ todo'[u] = todo[u] /\ found'[u] = found[u]
         /\ batch'[u] = batch[u] /\ status'[u] = status[u]
         /\ alone'[u] => alone[u] /\ policies' = policies
<1>0. /\ pc \in [Threads -> Labels] /\ ThreadPart
      /\ found \in [IoctlThreads -> BOOLEAN]
      /\ status \in [IoctlThreads -> {"none", "success", "error"}]
      /\ alone \in [IoctlThreads -> BOOLEAN] /\ u \in Threads
  BY TypeParts DEF Threads
<1> USE DEF Goto, Note, table, ThreadPart
<1>1. CASE \/ \E p \in Policies : BeginSet(t, p)
           \/ \E b \in Batches : BeginSync(t, b)
  BY <1>0, <1>1 DEF BeginSet, BeginSync
<1>2. CASE \/ EnterSet(t) \/ SetFails(t) \/ Find(t) \/ Full(t)
           \/ Acquire(t, "drain_acquire", "drain")
           \/ Unlock(t, "drain_release", "init_head")
           \/ Unlock(t, "release", Continue(t)) \/ Lookup(t)
  BY <1>0, <1>2 DEF EnterSet, Acquire, SetFails, Find, Full, Unlock, Lookup
<1>3. CASE Replace(t) \/ Insert(t)
  <2>1. PolicySet(t)
    BY <1>3 DEF Replace, Insert
  <2> QED BY <1>0, <2>1 DEF PolicySet
<1>4. CASE Drain(t) \/ InitializeListHead(t)
  BY <1>0, <1>4 DEF Drain, InitializeListHead
<1>5. CASE InitializeSpinLock(t) \/ InitializeCount(t)
  BY <1>0, <1>5 DEF InitializeSpinLock, InitializeCount
<1> QED BY <1>1, <1>2, <1>3, <1>4, <1>5 DEF Step

\* A step that neither sets a policy nor empties the list
Quiet(t) ==
  \/ \E p \in Policies : BeginSet(t, p)
  \/ \E b \in Batches : BeginSync(t, b)
  \/ EnterSet(t) \/ SetFails(t) \/ Find(t) \/ Full(t)
  \/ Unlock(t, "release", Continue(t))
  \/ Acquire(t, "drain_acquire", "drain")
  \/ Unlock(t, "drain_release", "init_head")
  \/ InitializeSpinLock(t) \/ InitializeCount(t) \/ Lookup(t)

\* Every step keeps one policy per application, the counter, the limit, and
\* finds the table empty while it is re-initialized.
LEMMA ListStep ==
  ASSUME TypeInv, Safe, NEW t \in Threads, Step(t)
  PROVE  ListPart'
<1>0. /\ policies \in Seq(Policies) /\ pc \in [Threads -> Labels]
      /\ OnePerApp(policies) /\ count = Len(policies) /\ count <= MaxPolicies
  BY TypeParts DEF Safe, ListPart
<1>1. OnePerApp(policies') /\ count' = Len(policies') /\ count' <= MaxPolicies
  <2>1. CASE policies' = policies /\ count' = count
    BY <1>0, <2>1
  <2>2. CASE policies' = <<>> /\ count' = 0
    <3>1. OnePerApp(<<>>) /\ Len(<<>>) = 0 /\ 0 <= MaxPolicies
      BY MaxAssumption DEF OnePerApp
    <3> QED BY <2>2, <3>1
  <2>3. ASSUME NEW p \in Policies, policies' = Updated(policies, p),
               count' = Len(policies'), count' <= MaxPolicies
        PROVE  OnePerApp(policies')
    BY <1>0, <2>3, UpdatedWellFormed
  <2> QED BY <2>1, <2>2, <2>3, ListChanges
<1>2. ASSUME NEW u \in Threads, pc'[u] \in Initializing \cup {"drain_release"}
      PROVE  policies' = <<>>
  <2>1. CASE Replace(t) \/ Insert(t)
    <3>1. pc[t] = "act" /\ pc' = [pc EXCEPT ![t] = "release"]
      BY <2>1 DEF Replace, Insert, PolicySet, Goto
    <3>2. u # t /\ pc[u] = pc'[u]
      BY <1>0, <1>2, <3>1 DEF Initializing
    <3> QED BY <1>2, <3>1, <3>2 DEF Safe, LockPart, Holding, Initializing
  <2>2. CASE Drain(t) \/ InitializeListHead(t)
    BY <2>2 DEF Drain, InitializeListHead
  <2>3. CASE Quiet(t)
    <3>1. policies' = policies
      BY <2>3 DEF Quiet, BeginSet, BeginSync, EnterSet, SetFails, Find, Full,
                  Unlock, Acquire, InitializeSpinLock, InitializeCount, Lookup, table
    <3>2. pc[u] \in Initializing \cup {"drain_release"}
      BY <1>0, <1>2, <2>3
         DEF Quiet, BeginSet, BeginSync, EnterSet, SetFails, Find, Full, Unlock,
             Acquire, InitializeSpinLock, InitializeCount, Lookup, Goto, Continue,
             Initializing
    <3> QED BY <3>1, <3>2 DEF Safe, ListPart
  <2> QED BY <2>1, <2>2, <2>3 DEF Step, Quiet
<1> QED BY <1>1, <1>2 DEF ListPart

\* What a thread found stays true until it uses it.
LEMMA FoundStep ==
  ASSUME TypeInv, Safe, NEW t \in Threads, Step(t)
  PROVE  FoundPart'
<1>0. /\ pc \in [Threads -> Labels] /\ found \in [IoctlThreads -> BOOLEAN]
  BY TypeParts
<1> SUFFICES ASSUME NEW u \in IoctlThreads, pc'[u] = "act"
             PROVE  found'[u] <=> PlacesOf(policies', Head(todo'[u]).app) # {}
  BY DEF FoundPart, PlacesOf
<1>1. CASE u = t
  <2>1. CASE Find(t)
    BY <1>0, <1>1, <2>1 DEF Find, table, PlacesOf
  <2>2. CASE ~Find(t)
    <3>1. pc[t] # "act" => pc'[t] # "act"
      BY <1>0, <2>2
         DEF Step, BeginSet, BeginSync, EnterSet, SetFails, Replace, Insert, Full,
             PolicySet, Unlock, Acquire, Drain, InitializeListHead,
             InitializeSpinLock, InitializeCount, Lookup, Goto, Continue
    <3>2. pc[t] = "act" => pc'[t] # "act"
      BY <1>0, <2>2
         DEF Step, BeginSet, BeginSync, EnterSet, SetFails, Replace, Insert, Full,
             PolicySet, Unlock, Acquire, Drain, InitializeListHead,
             InitializeSpinLock, InitializeCount, Lookup, Goto, Continue
    <3> QED BY <1>1, <3>1, <3>2
  <2> QED BY <2>1, <2>2
<1>2. CASE u # t
  <2>1. pc[u] = "act" /\ todo'[u] = todo[u] /\ found'[u] = found[u]
    BY <1>2, Untouched
  <2>2. pc[t] \notin Holding \cup Initializing
    BY <1>2, <2>1 DEF Safe, LockPart, Holding, Threads
  <2>3. policies' = policies
    BY <2>2 DEF Step, BeginSet, BeginSync, EnterSet, SetFails, Find, Replace,
                Insert, Full, Unlock, Acquire, Drain, InitializeListHead,
                InitializeSpinLock, InitializeCount, Lookup, table, Holding, Initializing
  <2> QED BY <2>1, <2>3 DEF Safe, FoundPart, PlacesOf
<1> QED BY <1>1, <1>2

\* A thread's step leaves the syncs of the others as they were, or not alone.
LEMMA OthersKept ==
  ASSUME NEW u \in IoctlThreads, SyncOf(u),
         pc'[u] = pc[u], todo'[u] = todo[u], batch'[u] = batch[u],
         status'[u] = status[u], alone'[u] => alone[u] /\ policies' = policies
  PROVE  SyncOf(u)'
  BY DEF SyncOf, Done

\* Every step keeps what a sync that is alone has done.
LEMMA SyncStep ==
  ASSUME TypeInv, Safe, NEW t \in Threads, Step(t)
  PROVE  SyncPart'
<1>0. /\ pc \in [Threads -> Labels] /\ ThreadPart
      /\ policies \in Seq(Policies)
      /\ status \in [IoctlThreads -> {"none", "success", "error"}]
      /\ alone \in [IoctlThreads -> BOOLEAN]
  BY TypeParts
<1>1. ASSUME NEW u \in IoctlThreads, u # t
      PROVE  SyncOf(u)'
  BY <1>1, Untouched, OthersKept DEF Safe, SyncPart
<1> SUFFICES ASSUME t \in IoctlThreads PROVE SyncOf(t)'
  BY <1>1 DEF SyncPart
<1>2. SyncOf(t)
  BY DEF Safe, SyncPart
<1>a. todo[t] \in Seq(Policies) /\ batch[t] \in Seq(Policies)
  BY <1>0 DEF ThreadPart
<1> USE DEF Goto, Note, table, Initializing
<1>3. CASE \/ \E p \in Policies : BeginSet(t, p)
           \/ \E b \in Batches : BeginSync(t, b)
  BY <1>0, <1>3 DEF BeginSet, BeginSync, SyncOf, ThreadPart
<1>4. CASE \/ EnterSet(t) \/ Find(t) \/ Acquire(t, "drain_acquire", "drain")
           \/ Unlock(t, "drain_release", "init_head")
           \/ InitializeSpinLock(t)
  <2>1. /\ policies' = policies /\ todo' = todo /\ batch' = batch
        /\ status' = status /\ alone' = alone
    BY <1>4 DEF EnterSet, Find, Acquire, Unlock, InitializeSpinLock
  <2>2. \/ pc[t] = "set" /\ pc'[t] = "find"
        \/ pc[t] = "find" /\ pc'[t] = "act"
        \/ pc[t] = "drain_acquire" /\ pc'[t] = "drain"
        \/ pc[t] = "drain_release" /\ pc'[t] = "init_head"
        \/ pc[t] = "init_lock" /\ pc'[t] = "init_count"
    BY <1>0, <1>4 DEF EnterSet, Find, Acquire, Unlock, InitializeSpinLock
  <2>3. Done(t)' = Done(t)
    BY <2>1 DEF Done
  <2> QED BY <1>2, <2>1, <2>2, <2>3 DEF SyncOf
<1>5. CASE Unlock(t, "release", Continue(t))
  <2>1. /\ policies' = policies /\ todo' = todo /\ batch' = batch
        /\ status' = status /\ alone' = alone /\ pc[t] = "release"
        /\ pc'[t] = IF todo[t] = <<>> THEN "idle" ELSE "set"
    BY <1>0, <1>5 DEF Unlock, Continue
  <2>2. Done(t)' = Done(t)
    BY <2>1 DEF Done
  <2> QED BY <1>2, <2>1, <2>2 DEF SyncOf
<1>6. CASE Drain(t)
  <2>1. /\ todo' = todo /\ batch' = batch
        /\ pc[t] = "drain" /\ pc'[t] = "drain_release"
    BY <1>0, <1>6 DEF Drain
  <2> QED BY <1>2, <2>1 DEF SyncOf
<1>7. CASE InitializeListHead(t)
  <2>1. /\ todo' = todo /\ batch' = batch
        /\ pc[t] = "init_head" /\ pc'[t] = "init_lock"
    BY <1>0, <1>7 DEF InitializeListHead
  <2> QED BY <1>2, <2>1 DEF SyncOf
<1>8. CASE InitializeCount(t)
  <2>1. /\ policies' = policies /\ todo' = todo /\ batch' = batch
        /\ pc[t] = "init_count"
        /\ pc'[t] = IF todo[t] = <<>> THEN "idle" ELSE "set"
        /\ status'[t] = IF todo[t] = <<>> THEN "success" ELSE "none"
    BY <1>0, <1>8 DEF InitializeCount, Continue
  <2>2. policies = <<>> /\ todo[t] = batch[t]
    BY <1>2, <2>1 DEF Safe, ListPart, SyncOf, Threads
  <2>3. Installs(<<>>, batch[t], 0)
    BY DEF Installs
  <2>4. Done(t)' = 0
    BY <1>a, <2>1, <2>2 DEF Done
  <2>5. CASE todo[t] = <<>>
    <3>1. Len(batch[t]) = 0
      BY <2>2, <2>5
    <3> QED BY <2>1, <2>2, <2>3, <2>5, <3>1 DEF SyncOf
  <2>6. CASE todo[t] # <<>>
    <3>1. \A i \in 1..Len(todo[t]) : todo[t][i] = batch[t][0 + i]
      BY <2>2
    <3> QED BY <2>1, <2>2, <2>3, <2>4, <2>6, <3>1 DEF SyncOf
  <2> QED BY <2>5, <2>6
<1>9. CASE Replace(t) \/ Insert(t)
  <2>1. pc[t] = "act" /\ PolicySet(t) /\ policies' = Updated(policies, Head(todo[t]))
    BY <1>9, SetUpdates
  <2>2. /\ todo'[t] = Tail(todo[t]) /\ batch'[t] = batch[t]
        /\ pc'[t] = "release" /\ alone'[t] = alone[t]
        /\ status'[t] = IF Len(todo[t]) = 1 THEN "success" ELSE "none"
    BY <1>0, <2>1 DEF PolicySet, ThreadPart
  <2> SUFFICES ASSUME alone[t] PROVE SyncOf(t)'
    BY <2>2 DEF SyncOf
  <2> DEFINE k == Done(t)
  <2>3. todo[t] # <<>> /\ Len(todo[t]) \in Nat \ {0}
    BY <2>1, CurrentPolicy
  <2>4. /\ k \in Nat /\ Installs(policies, batch[t], k)
        /\ \A i \in 1..Len(todo[t]) : todo[t][i] = batch[t][k + i]
    BY <1>2, <2>1, <2>3 DEF SyncOf
  <2>5. Len(batch[t]) = k + Len(todo[t])
    BY <1>a DEF Done
  <2>6. Head(todo[t]) = batch[t][k + 1] /\ k + 1 <= Len(batch[t])
    BY <1>a, <2>3, <2>4, <2>5
  <2>7. Installs(policies', batch[t], k + 1)
    BY <1>0, <1>a, <2>1, <2>4, <2>6, OneMoreInstalled
  <2>8. Len(todo'[t]) = Len(todo[t]) - 1
    BY <1>a, <2>2, <2>3
  <2>9. Done(t)' = k + 1
    <3>1. Done(t)' = Len(batch[t]) - Len(todo'[t])
      BY <2>2 DEF Done
    <3>2. \A d, l \in Nat : (d + l) - (l - 1) = d + 1
      OBVIOUS
    <3> QED BY <2>3, <2>4, <2>5, <2>8, <3>1, <3>2
  <2>10. ASSUME NEW i \in 1..Len(todo'[t])
         PROVE  todo'[t][i] = batch[t][(k + 1) + i]
    <3>1. i + 1 \in 1..Len(todo[t]) /\ todo'[t][i] = todo[t][i + 1]
      BY <1>a, <2>2, <2>3, <2>8
    <3>2. k + (i + 1) = (k + 1) + i
      BY <2>4, <2>10
    <3> QED BY <2>4, <3>1, <3>2
  <2> HIDE DEF k
  <2>11. CASE Len(todo[t]) = 1
    <3>1. k + 1 = Len(batch[t])
      BY <2>4, <2>5, <2>11
    <3>2. todo'[t] = <<>>
      <4>1. todo'[t] \in Seq(Policies) /\ Len(todo'[t]) = 0
        BY <1>a, <2>2, <2>3, <2>8, <2>11
      <4> QED BY <4>1
    <3> QED BY <2>2, <2>7, <2>11, <3>1, <3>2 DEF SyncOf
  <2>12. CASE Len(todo[t]) # 1
    <3>1. todo'[t] # <<>>
      <4>1. Len(todo'[t]) # 0
        BY <2>3, <2>8, <2>12
      <4> QED BY <4>1
    <3>2. Done(t)' \in Nat
      BY <2>4, <2>9
    <3> QED BY <2>2, <2>7, <2>9, <2>10, <3>1, <3>2 DEF SyncOf
  <2> QED BY <2>11, <2>12
<1>10. CASE SetFails(t) \/ Full(t)
  <2>1. /\ pc[t] \in {"set", "act"} /\ pc'[t] \in {"idle", "release"}
        /\ policies' = policies /\ batch' = batch /\ alone' = alone
        /\ todo'[t] = <<>> /\ status'[t] = "error"
    BY <1>0, <1>10 DEF SetFails, Full, ThreadPart
  <2> SUFFICES ASSUME alone[t] PROVE SyncOf(t)'
    BY <2>1 DEF SyncOf
  <2>2. todo[t] # <<>> /\ Len(todo[t]) \in Nat \ {0}
    BY <2>1, CurrentPolicy
  <2>3. Done(t) \in Nat /\ Installs(policies, batch[t], Done(t))
    BY <1>2, <2>1, <2>2 DEF SyncOf
  <2>4. Done(t) \in 0..(Len(batch[t]) - 1)
    <3>1. Len(batch[t]) \in Nat /\ Done(t) = Len(batch[t]) - Len(todo[t])
      BY <1>a DEF Done
    <3>2. \A d, n \in Nat : \A l \in Nat \ {0} : d = n - l => d \in 0..(n - 1)
      OBVIOUS
    <3> QED BY <2>2, <2>3, <3>1, <3>2
  <2> QED BY <2>1, <2>3, <2>4 DEF SyncOf
<1> QED
  BY <1>2, <1>3, <1>4, <1>5, <1>6, <1>7, <1>8, <1>9, <1>10, ThreadsAssumption
     DEF Step

-----------------------------------------------------------------------------
(* The theorems *)

\* Once two threads have shared a re-initialization, they have.
LEMMA OverlapStays ==
  ASSUME NEW t \in Threads, Step(t), overlap
  PROVE  overlap'
  BY DEF Step, BeginSet, BeginSync, EnterSet, SetFails, Find, Replace, Insert,
         Full, PolicySet, Unlock, Acquire, Drain, InitializeListHead,
         InitializeSpinLock, InitializeCount, Lookup

\* The inductive invariant holds throughout.
LEMMA InvariantHolds == Spec => []IInv
<1>1. Init => IInv
  <2> SUFFICES ASSUME Init PROVE IInv
    OBVIOUS
  <2>1. TypeInv
    <3>1. /\ pc \in [Threads -> Labels] /\ Pending
      BY DEF Init, Labels, Pending, Threads
    <3>2. <<>> \in Seq(Policies) /\ 0 \in Nat
      OBVIOUS
    <3>3. ThreadPart
      BY <3>2 DEF Init, ThreadPart
    <3> QED BY <3>1, <3>2, <3>3, TypeParts DEF Init
  <2>2. LockPart
    BY DEF Init, LockPart, Holding, Initializing
  <2>3. ListPart
    BY MaxAssumption DEF Init, ListPart, OnePerApp
  <2>4. FoundPart /\ SyncPart
    BY DEF Init, FoundPart, SyncPart, SyncOf, Threads, Initializing
  <2> QED BY <2>1, <2>2, <2>3, <2>4 DEF IInv, Safe
<1>2. IInv /\ [Next]_vars => IInv'
  <2> SUFFICES ASSUME IInv, [Next]_vars PROVE IInv'
    OBVIOUS
  <2>1. ASSUME NEW t \in Threads, Step(t)
        PROVE  IInv'
    <3>1. TypeInv'
      BY <2>1, TypeStep DEF IInv
    <3>2. ~overlap' => Safe /\ TypeInv
      BY <2>1, OverlapStays DEF IInv
    <3>3. ~overlap' => Safe'
      BY <2>1, <3>2, LockStep, ListStep, FoundStep, SyncStep DEF Safe
    <3> QED BY <3>1, <3>3 DEF IInv
  <2>2. CASE UNCHANGED vars
    <3>1. TypeInv'
      BY <2>2 DEF vars, IInv, TypeInv, TypeOK, ThreadPart
    <3>2. /\ LockPart => LockPart'
          /\ ListPart => ListPart'
          /\ FoundPart => FoundPart'
      <4>1. LockPart => LockPart'
        BY <2>2 DEF vars, LockPart
      <4>2. ListPart => ListPart'
        BY <2>2 DEF vars, ListPart, OnePerApp
      <4>3. FoundPart => FoundPart'
        BY <2>2 DEF vars, FoundPart, PlacesOf
      <4> QED BY <4>1, <4>2, <4>3
    <3>3. SyncPart => SyncPart'
      <4> SUFFICES ASSUME SyncPart, NEW t \in IoctlThreads PROVE SyncOf(t)'
        BY DEF SyncPart
      <4>1. /\ policies' = policies /\ pc' = pc /\ todo' = todo
            /\ batch' = batch /\ status' = status /\ alone' = alone
        BY <2>2 DEF vars
      <4>2. SyncOf(t)
        BY DEF SyncPart
      <4> QED BY <4>1, <4>2 DEF SyncOf, Done
    <3> QED BY <2>2, <3>1, <3>2, <3>3 DEF vars, IInv, Safe
  <2> QED BY <2>1, <2>2, NextIsStep
<1> QED BY <1>1, <1>2, PTL DEF Spec

\* The table and its threads are well-typed; no sync runs past its batch.
THEOREM TypeCorrect == Spec => []TypeOK
<1>1. IInv => TypeOK
  BY DEF IInv, TypeInv
<1> QED BY <1>1, InvariantHolds, PTL

\* Until two threads share a re-initialization: an application has one policy
\* at most, and the counter is the length of the list and keeps the limit.
THEOREM TableWellFormedHolds == Spec => []TableWellFormed
<1>1. IInv => TableWellFormed
  BY DEF IInv, Safe, ListPart, OnePerApp, TableWellFormed
<1> QED BY <1>1, InvariantHolds, PTL

\* A sync nobody interferes with leaves its batch, or a prefix if it fails.
THEOREM SyncInstallsBatchHolds == Spec => []SyncInstallsBatch
<1>1. IInv => SyncInstallsBatch
  BY DEF IInv, Safe, SyncPart, SyncOf, SyncInstallsBatch
<1> QED BY <1>1, InvariantHolds, PTL

\* Until two threads share a re-initialization, no step reorders two
\* applications that keep their policies.
THEOREM PriorityKeptHolds == Spec => PriorityKept
<1> DEFINE Kept ==
      overlap \/ \A i, j \in 1..Len(policies) : i < j =>
        \A m \in PlacesOf(policies', policies[i].app) :
          \A n \in PlacesOf(policies', policies[j].app) : m < n
<1>1. IInv /\ [Next]_vars => [Kept]_vars
  <2> SUFFICES ASSUME IInv, Next, ~overlap PROVE Kept
    OBVIOUS
  <2>0. TypeInv /\ Safe
    BY DEF IInv
  <2>1. policies \in Seq(Policies) /\ OnePerApp(policies)
    BY <2>0, TypeParts DEF Safe, ListPart
  <2>2. \/ policies' = policies \/ policies' = <<>>
        \/ \E p \in Policies : policies' = Updated(policies, p)
    BY <2>0, NextIsStep, ListChanges
  <2>3. CASE policies' = <<>>
    BY <2>3 DEF PlacesOf
  <2>4. CASE policies' = policies
    BY <2>1, <2>4 DEF OnePerApp, PlacesOf
  <2>5. ASSUME NEW p \in Policies, policies' = Updated(policies, p)
        PROVE  Kept
    <3>1. \A i \in 1..Len(policies) :
            \A m \in PlacesOf(policies', policies[i].app) : m = i
      BY <2>1, <2>5, UpdatedKeepsOrder
    <3> QED BY <3>1
  <2> QED BY <2>2, <2>3, <2>4, <2>5
<1>2. PriorityKept <=> [][Kept]_vars
  BY DEF PriorityKept
<1> QED BY <1>1, <1>2, InvariantHolds, PTL DEF Spec
=============================================================================
