----------------------------- MODULE RouteTable -----------------------------
(* The per-application route table, driver/route/route_assignment.c, at the  *)
(* granularity of its spin lock: every thread of the parallel IOCTL queue    *)
(* that runs GuardianRouteSet, Clear or Sync, and every classify thread that *)
(* runs GuardianRouteLookup, is a program counter moving through the         *)
(* function.  GuardianRouteSync calls GuardianRouteInitialize, which resets  *)
(* the list head, the lock word and the counter without holding the lock;    *)
(* "overlap" remembers that another thread took the lock in that window.     *)
(* List links are abstracted to the set of linked entries.                   *)
EXTENDS Integers, Sequences, FiniteSets

CONSTANTS
  IoctlThreads,     \* threads dispatching IOCTLs
  ClassifyThreads,  \* threads classifying connections
  Apps, Kinds, Versions,
  Nodes,            \* pool blocks of sizeof(GUARDIAN_ROUTE_ENTRY)
  None,
  MaxRoutes,        \* GUARDIAN_MAX_ROUTES
  MaxSync,          \* GUARDIAN_MAX_SYNC_ROUTES
  Batches,          \* route sequences a SYNC_ROUTES may carry
  UInt32Max         \* the largest value of g_RouteCount

RouteVersion == 1   \* GUARDIAN_ROUTE_ASSIGNMENT_VERSION

Routes == [app : Apps, kind : Kinds, ver : Versions]

Threads == IoctlThreads \cup ClassifyThreads

ASSUME ThreadsAssumption == IoctlThreads \cap ClassifyThreads = {}
ASSUME NodesAssumption == IsFiniteSet(Nodes)
ASSUME NoneAssumption == None \notin Nodes /\ None \notin Routes /\ None \notin Apps
ASSUME BoundsAssumption ==
  /\ MaxRoutes \in Nat /\ MaxSync \in Nat /\ UInt32Max \in Nat
  /\ MaxRoutes < UInt32Max
ASSUME BatchesAssumption == Batches \subseteq Seq(Routes)

VARIABLES
  lock,      \* g_RouteLock is taken
  listed,    \* the entries linked into g_RouteList
  content,   \* what each pool block holds; None when it is free
  count,     \* g_RouteCount
  pc,        \* where each thread is
  op,        \* the table operation each thread is in
  key,       \* the application it works on
  entry,     \* the block it owns: allocated by Set, unlinked by Clear
  found,     \* what GuardianRouteFindLocked returned to it
  todo,      \* the routes it has still to set, the current one first
  route,     \* what GuardianRouteLookup returned to each classify thread
  overlap    \* the lock was taken while another thread re-initialized

vars == <<lock, listed, content, count, pc, op, key, entry, found, todo,
          route, overlap>>
table == <<lock, listed, content, count>>

Labels == {"idle", "alloc", "acquire", "find", "act", "release", "finish",
           "drain_acquire", "drain", "drain_release",
           "init_head", "init_lock", "init_count"}
Holding == {"find", "act", "release", "drain", "drain_release"}
Initializing == {"init_head", "init_lock", "init_count"}

Init ==
  /\ lock = FALSE
  /\ listed = {}
  /\ content = [n \in Nodes |-> None]
  /\ count = 0
  /\ pc = [t \in Threads |-> "idle"]
  /\ op = [t \in Threads |-> "none"]
  /\ key = [t \in Threads |-> None]
  /\ entry = [t \in Threads |-> None]
  /\ found = [t \in Threads |-> None]
  /\ todo = [t \in Threads |-> <<>>]
  /\ route = [t \in ClassifyThreads |-> None]
  /\ overlap = FALSE

Goto(t, l) == pc' = [pc EXCEPT ![t] = l]

(* Definitions named Bad... are altered forms of the definition that follows *)
(* them, used only to show that a property notices such a change.            *)

\* ExFreePoolWithTag of the block a call still owns
BadFreeOwned(t) == content' = content

FreeOwned(t) ==
  content' = IF entry[t] = None THEN content
                                ELSE [content EXCEPT ![entry[t]] = None]

\* The counter is a UINT32: decrementing zero wraps around
BadDecremented(c) == c
BadWrap(c) == c - 1

Decremented(c) == IF c = 0 THEN UInt32Max ELSE c - 1

-----------------------------------------------------------------------------
(* Entering an operation *)

BeginSet(t, r) ==
  /\ pc[t] = "idle"
  /\ Goto(t, "alloc")
  /\ op' = [op EXCEPT ![t] = "set"]
  /\ todo' = [todo EXCEPT ![t] = <<r>>]
  /\ UNCHANGED <<table, key, entry, found, route, overlap>>

BeginClear(t, a) ==
  /\ pc[t] = "idle"
  /\ Goto(t, "acquire")
  /\ op' = [op EXCEPT ![t] = "clear"]
  /\ key' = [key EXCEPT ![t] = a]
  /\ UNCHANGED <<table, entry, found, todo, route, overlap>>

BeginLookup(t, a) ==
  /\ pc[t] = "idle"
  /\ Goto(t, "acquire")
  /\ op' = [op EXCEPT ![t] = "lookup"]
  /\ key' = [key EXCEPT ![t] = a]
  /\ route' = [route EXCEPT ![t] = None]
  /\ UNCHANGED <<table, entry, found, todo, overlap>>

BeginSync(t, batch) ==
  /\ pc[t] = "idle"
  /\ Len(batch) <= MaxSync
  /\ Goto(t, "drain_acquire")
  /\ op' = [op EXCEPT ![t] = "set"]
  /\ todo' = [todo EXCEPT ![t] = batch]
  /\ UNCHANGED <<table, key, entry, found, route, overlap>>

\* Back to the caller
Return(t) ==
  /\ Goto(t, "idle")
  /\ op' = [op EXCEPT ![t] = "none"]
  /\ key' = [key EXCEPT ![t] = None]
  /\ todo' = [todo EXCEPT ![t] = <<>>]

-----------------------------------------------------------------------------
(* GuardianRouteSet, Clear and Lookup *)

\* An unknown version and an exhausted pool end the call, and with it the sync
AllocFails(t) ==
  /\ pc[t] = "alloc"
  /\ Return(t)
  /\ UNCHANGED <<table, entry, found, route, overlap>>

Alloc(t) ==
  /\ pc[t] = "alloc"
  /\ Head(todo[t]).ver = RouteVersion
  /\ \E n \in Nodes :
       /\ content[n] = None
       /\ content' = [content EXCEPT ![n] = Head(todo[t])]
       /\ entry' = [entry EXCEPT ![t] = n]
  /\ key' = [key EXCEPT ![t] = Head(todo[t]).app]
  /\ Goto(t, "acquire")
  /\ UNCHANGED <<lock, listed, count, op, found, todo, route, overlap>>

BadLockFree == TRUE

LockFree == ~lock

\* KeAcquireSpinLock, at any of the four places that call it
Acquire(t, from, to) ==
  /\ pc[t] = from
  /\ LockFree
  /\ lock' = TRUE
  /\ Goto(t, to)
  /\ overlap' = (overlap \/ \E u \in Threads \ {t} : pc[u] \in Initializing)
  /\ UNCHANGED <<listed, content, count, op, key, entry, found, todo, route>>

\* KeReleaseSpinLock
Unlock(t, from, to) ==
  /\ pc[t] = from
  /\ lock' = FALSE
  /\ Goto(t, to)
  /\ UNCHANGED <<listed, content, count, op, key, entry, found, todo, route,
                 overlap>>

\* GuardianRouteFindLocked
BadMatches(a) == {}

Matches(a) == {n \in listed : content[n] # None /\ content[n].app = a}

Find(t) ==
  /\ pc[t] = "find"
  /\ \/ /\ Matches(key[t]) = {}
        /\ found' = found
     \/ \E n \in Matches(key[t]) : found' = [found EXCEPT ![t] = n]
  /\ Goto(t, "act")
  /\ UNCHANGED <<table, op, key, entry, todo, route, overlap>>

Replace(t) ==
  /\ pc[t] = "act" /\ op[t] = "set" /\ found[t] # None
  /\ content' = [content EXCEPT ![found[t]] = Head(todo[t])]
  /\ Goto(t, "release")
  /\ UNCHANGED <<lock, listed, count, op, key, entry, found, todo, route,
                 overlap>>

BadHasRoom == count <= MaxRoutes

HasRoom == count < MaxRoutes

BadFull(t) ==
  /\ pc[t] = "act" /\ op[t] = "set" /\ found[t] = None
  /\ ~HasRoom
  /\ todo' = [todo EXCEPT ![t] = <<Head(todo[t])>>]
  /\ Goto(t, "finish")
  /\ UNCHANGED <<table, op, key, entry, found, route, overlap>>

\* The table is full: the call fails and drops the rest of a sync
Full(t) ==
  /\ pc[t] = "act" /\ op[t] = "set" /\ found[t] = None
  /\ ~HasRoom
  /\ todo' = [todo EXCEPT ![t] = <<Head(todo[t])>>]
  /\ Goto(t, "release")
  /\ UNCHANGED <<table, op, key, entry, found, route, overlap>>

\* The list takes over the block
Insert(t) ==
  /\ pc[t] = "act" /\ op[t] = "set" /\ found[t] = None
  /\ HasRoom
  /\ listed' = listed \cup {entry[t]}
  /\ count' = count + 1
  /\ entry' = [entry EXCEPT ![t] = None]
  /\ Goto(t, "release")
  /\ UNCHANGED <<lock, content, op, key, found, todo, route, overlap>>

\* The caller takes the unlinked block over; not finding one is not an error here
Unlink(t) ==
  /\ pc[t] = "act" /\ op[t] = "clear"
  /\ \/ /\ found[t] # None
        /\ listed' = listed \ {found[t]}
        /\ count' = Decremented(count)
        /\ entry' = [entry EXCEPT ![t] = found[t]]
     \/ /\ found[t] = None
        /\ UNCHANGED <<listed, count, entry>>
  /\ Goto(t, "release")
  /\ UNCHANGED <<lock, content, op, key, found, todo, route, overlap>>

BadCopyOut(t) ==
  /\ pc[t] = "act" /\ op[t] = "lookup"
  /\ \/ listed = {} /\ route' = route
     \/ \E n \in listed : route' = [route EXCEPT ![t] = content[n]]
  /\ Goto(t, "release")
  /\ UNCHANGED <<table, op, key, entry, found, todo, overlap>>

\* What was found for the application asked for, or the zeroed output
CopyOut(t) ==
  /\ pc[t] = "act" /\ op[t] = "lookup"
  /\ route' = [route EXCEPT ![t] = IF found[t] = None THEN None
                                                      ELSE content[found[t]]]
  /\ Goto(t, "release")
  /\ UNCHANGED <<table, op, key, entry, found, todo, overlap>>

\* The owned block goes back; then the next route of a sync, or the caller
Finish(t) ==
  /\ pc[t] = "finish"
  /\ FreeOwned(t)
  /\ entry' = [entry EXCEPT ![t] = None]
  /\ found' = [found EXCEPT ![t] = None]
  /\ IF Len(todo[t]) > 1
       THEN /\ Goto(t, "alloc")
            /\ key' = [key EXCEPT ![t] = None]
            /\ todo' = [todo EXCEPT ![t] = Tail(@)]
            /\ op' = op
       ELSE Return(t)
  /\ UNCHANGED <<lock, listed, count, route, overlap>>

-----------------------------------------------------------------------------
(* GuardianRouteShutdown and GuardianRouteInitialize, as a sync runs them *)

Drain(t) ==
  /\ pc[t] = "drain"
  /\ listed' = {}
  /\ content' = [n \in Nodes |-> IF n \in listed THEN None ELSE content[n]]
  /\ count' = 0
  /\ Goto(t, "drain_release")
  /\ UNCHANGED <<lock, op, key, entry, found, todo, route, overlap>>

InitializeListHead(t) ==
  /\ pc[t] = "init_head"
  /\ listed' = {}
  /\ Goto(t, "init_lock")
  /\ UNCHANGED <<lock, content, count, op, key, entry, found, todo, route,
                 overlap>>

InitializeSpinLock(t) ==
  /\ pc[t] = "init_lock"
  /\ lock' = FALSE
  /\ Goto(t, "init_count")
  /\ UNCHANGED <<listed, content, count, op, key, entry, found, todo, route,
                 overlap>>

InitializeCount(t) ==
  /\ pc[t] = "init_count"
  /\ count' = 0
  /\ IF todo[t] = <<>>
       THEN Return(t)
       ELSE Goto(t, "alloc") /\ UNCHANGED <<op, key, todo>>
  /\ UNCHANGED <<lock, listed, content, entry, found, route, overlap>>

-----------------------------------------------------------------------------
Begin(t) ==
  \/ /\ t \in IoctlThreads
     /\ \/ \E r \in Routes : BeginSet(t, r)
        \/ \E a \in Apps : BeginClear(t, a)
        \/ \E batch \in Batches : BeginSync(t, batch)
  \/ /\ t \in ClassifyThreads
     /\ \E a \in Apps : BeginLookup(t, a)

Step(t) ==
  \/ AllocFails(t) \/ Alloc(t)
  \/ Acquire(t, "acquire", "find") \/ Acquire(t, "drain_acquire", "drain")
  \/ Find(t)
  \/ Replace(t) \/ Full(t) \/ Insert(t) \/ Unlink(t) \/ CopyOut(t)
  \/ Unlock(t, "release", "finish") \/ Unlock(t, "drain_release", "init_head")
  \/ Finish(t)
  \/ Drain(t)
  \/ InitializeListHead(t) \/ InitializeSpinLock(t) \/ InitializeCount(t)

Next == \E t \in Threads : Begin(t) \/ Step(t)

\* A thread inside the driver keeps running; nobody has to call it
Fairness == \A t \in Threads : WF_vars(Step(t))

Spec == Init /\ [][Next]_vars
FairSpec == Spec /\ Fairness
-----------------------------------------------------------------------------
(* Properties *)

\* Every variable has its type; in particular g_RouteCount stays a UINT32,
\* although Clear decrements it without looking.
TypeOK ==
  /\ lock \in BOOLEAN
  /\ listed \subseteq Nodes
  /\ content \in [Nodes -> Routes \cup {None}]
  /\ count \in 0..UInt32Max
  /\ pc \in [Threads -> Labels]
  /\ op \in [Threads -> {"none", "set", "clear", "lookup"}]
  /\ key \in [Threads -> Apps \cup {None}]
  /\ entry \in [Threads -> Nodes \cup {None}]
  /\ found \in [Threads -> Nodes \cup {None}]
  /\ todo \in [Threads -> Seq(Routes)]
  /\ route \in [ClassifyThreads -> Routes \cup {None}]
  /\ overlap \in BOOLEAN

\* At most one thread is in a critical section, and the lock word says exactly
\* whether there is one, although InitializeSpinLock overwrites it without
\* looking: it can only be wrong after the lock was taken inside that window.
MutualExclusion ==
  overlap \/
    /\ lock <=> \E t \in Threads : pc[t] \in Holding
    /\ \A t, u \in Threads :
         pc[t] \in Holding /\ pc[u] \in Holding => t = u

\* g_RouteCount, kept apart from the list by four functions, is the length of
\* the list, which never exceeds GUARDIAN_MAX_ROUTES.
CountMatchesList ==
  overlap \/ (count = Cardinality(listed) /\ count <= MaxRoutes)

\* The list never holds two routes of one application, although GuardianRouteSet
\* prepares its entry before it looks for an existing one.
OneRoutePerApp ==
  overlap \/ \A m, n \in listed :
    /\ content[m] # None
    /\ content[m].app = content[n].app => m = n

\* Every pool block in use is either linked or owned by exactly one call: the
\* error paths of Set leak nothing, and Clear, Sync and a replacing Set never
\* free a block that is still linked or is somebody else's.
PoolAccounting ==
  overlap \/
    /\ \A n \in Nodes :
         content[n] # None <=> n \in listed \/ \E t \in Threads : entry[t] = n
    /\ \A t \in Threads : entry[t] \notin listed
    /\ \A t, u \in Threads : entry[t] = entry[u] /\ entry[t] # None => t = u

\* The entry a thread found is still linked, and still the one of its
\* application, when the thread comes to use it; and if it found none, there is
\* still none.
FoundIsCurrent ==
  overlap \/ \A t \in Threads :
    pc[t] = "act" =>
      Matches(key[t]) = IF found[t] = None THEN {} ELSE {found[t]}

\* Spinning threads are not all stuck: while some thread waits for the lock,
\* some thread gets it, so no path through the table leaves it locked.
LockProgress ==
  (\E t \in Threads : pc[t] \in {"acquire", "drain_acquire"})
    ~> (overlap \/ \E t \in Threads : pc[t] \in Holding)

\* The fine-grained table implements the indivisible map of module RouteMap
\* until two threads share a re-initialization.
RouteOf(a) ==
  IF Matches(a) = {} THEN None ELSE content[CHOOSE n \in Matches(a) : TRUE]

\* The application a lookup has been called for and not yet answered
AskedFor(t) ==
  IF op[t] = "lookup" /\ pc[t] \in {"acquire", "find", "act"} THEN key[t] ELSE None

Abstract == INSTANCE RouteMap WITH
  Readers <- ClassifyThreads,
  map <- [a \in Apps |-> RouteOf(a)],
  asked <- [t \in ClassifyThreads |-> AskedFor(t)],
  wild <- overlap

\* Every set, clear, sync and lookup takes effect in one step of the map: a
\* lookup returns the route the application it was called for has at one moment
\* during the call, and only an application with a route, or a table with room,
\* is given one.  (A call that changes nothing is a step that leaves the map
\* alone: that every refusal is justified is not part of this.)
ImplementsRouteMap == Abstract!Spec
=============================================================================
