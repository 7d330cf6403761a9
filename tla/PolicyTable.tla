----------------------------- MODULE PolicyTable -----------------------------
(* The policy table, driver/policy/app_policy.c, at the granularity of its   *)
(* spin lock.  A SET_APP_POLICY is one critical section; a SYNC_POLICIES     *)
(* empties the table in one, re-initializes list head, lock word and counter *)
(* by three stores outside any, and sets its policies one critical section   *)
(* at a time; a lookup of the classify path walks the list in one.           *)
(* "overlap" remembers that a thread took the lock while another one was     *)
(* re-initializing.  GuardianAppPolicyRemove has no caller.                  *)
EXTENDS PolicyList

CONSTANTS
  IoctlThreads,     \* threads dispatching IOCTLs
  ClassifyThreads,  \* threads classifying connections
  Batches,          \* policy sequences a SYNC_POLICIES may carry
  MaxSync           \* GUARDIAN_MAX_SYNC_POLICIES

Threads == IoctlThreads \cup ClassifyThreads

ASSUME ThreadsAssumption == IoctlThreads \cap ClassifyThreads = {}
ASSUME BatchesAssumption == Batches \subseteq Seq(Policies)
ASSUME MaxAssumption == MaxPolicies \in Nat /\ MaxSync \in Nat

VARIABLES
  lock,          \* g_PolicyLock is taken
  policies,      \* g_PolicyList, in list order
  count,         \* g_PolicyCount
  pc,            \* where each thread is
  todo,          \* the policies a call has still to set, the current one first
  found,         \* GuardianPolicyFindLocked found the policy to replace
  overlap,       \* the lock was taken while another thread re-initialized
  batch,         \* history: the batch of a thread's last sync
  status,        \* history: how it ended; "none" before it does
  alone          \* history: no other thread changed the list since it emptied it

table == <<lock, policies, count>>
vars == <<lock, policies, count, pc, todo, found, overlap, batch, status, alone>>

Labels == {"idle", "set", "find", "act", "release",
           "drain_acquire", "drain", "drain_release",
           "init_head", "init_lock", "init_count", "walk"}
Holding == {"find", "act", "release", "drain", "drain_release", "walk"}
Initializing == {"init_head", "init_lock", "init_count"}

Init ==
  /\ lock = FALSE
  /\ policies = <<>>
  /\ count = 0
  /\ pc = [t \in Threads |-> "idle"]
  /\ todo = [t \in IoctlThreads |-> <<>>]
  /\ found = [t \in IoctlThreads |-> FALSE]
  /\ overlap = FALSE
  /\ batch = [t \in IoctlThreads |-> <<>>]
  /\ status = [t \in IoctlThreads |-> "none"]
  /\ alone = [t \in IoctlThreads |-> FALSE]

Goto(t, l) == pc' = [pc EXCEPT ![t] = l]

\* Thread t may change the list; the syncs of the others are not alone then
Note(t, mine) ==
  alone' = [u \in IoctlThreads |->
              IF u = t THEN mine ELSE alone[u] /\ policies' = policies]

(* Definitions named Bad... are altered forms of the definition that follows *)
(* them, used only to show that a property notices such a change.            *)

-----------------------------------------------------------------------------
(* Entering an operation *)

\* SET_APP_POLICY
BeginSet(t, p) ==
  /\ pc[t] = "idle"
  /\ Goto(t, "set")
  /\ todo' = [todo EXCEPT ![t] = <<p>>]
  /\ batch' = [batch EXCEPT ![t] = <<>>]
  /\ status' = [status EXCEPT ![t] = "none"]
  /\ alone' = [alone EXCEPT ![t] = FALSE]
  /\ UNCHANGED <<table, found, overlap>>

\* SYNC_POLICIES
BeginSync(t, b) ==
  /\ pc[t] = "idle"
  /\ Len(b) <= MaxSync
  /\ Goto(t, "drain_acquire")
  /\ todo' = [todo EXCEPT ![t] = b]
  /\ batch' = [batch EXCEPT ![t] = b]
  /\ status' = [status EXCEPT ![t] = "none"]
  /\ alone' = [alone EXCEPT ![t] = FALSE]
  /\ UNCHANGED <<table, found, overlap>>

-----------------------------------------------------------------------------
(* The lock *)

BadLockFree == TRUE

LockFree == ~lock

\* KeAcquireSpinLock
Acquire(t, from, to) ==
  /\ pc[t] = from
  /\ LockFree
  /\ lock' = TRUE
  /\ Goto(t, to)
  /\ overlap' = (overlap \/ \E u \in Threads \ {t} : pc[u] \in Initializing)
  /\ UNCHANGED <<policies, count, todo, found, batch, status, alone>>

\* KeReleaseSpinLock
Unlock(t, from, to) ==
  /\ pc[t] = from
  /\ lock' = FALSE
  /\ Goto(t, to)
  /\ UNCHANGED <<policies, count, todo, found, overlap, batch, status, alone>>

-----------------------------------------------------------------------------
(* GuardianAppPolicySet *)

\* The next policy of a sync, or the caller
Continue(t) == IF todo[t] = <<>> THEN "idle" ELSE "set"

\* A known version, and memory for an entry: wait for the lock
EnterSet(t) ==
  /\ pc[t] = "set" /\ Head(todo[t]).ver = PolicyVersion
  /\ Acquire(t, "set", "find")

\* An unknown version or an exhausted pool ends the call, and with it the sync
SetFails(t) ==
  /\ pc[t] = "set"
  /\ Goto(t, "idle")
  /\ todo' = [todo EXCEPT ![t] = <<>>]
  /\ status' = [status EXCEPT ![t] = "error"]
  /\ UNCHANGED <<table, found, overlap, batch, alone>>

Find(t) ==
  /\ pc[t] = "find"
  /\ found' = [found EXCEPT ![t] = PlacesOf(policies, Head(todo[t]).app) # {}]
  /\ Goto(t, "act")
  /\ UNCHANGED <<table, todo, overlap, batch, status, alone>>

\* This policy is set; the last one of a batch ends it
PolicySet(t) ==
  /\ todo' = [todo EXCEPT ![t] = Tail(@)]
  /\ status' = [status EXCEPT ![t] = IF Len(todo[t]) = 1 THEN "success" ELSE "none"]
  /\ Goto(t, "release")
  /\ Note(t, alone[t])
  /\ found' = [found EXCEPT ![t] = FALSE]
  /\ UNCHANGED <<lock, overlap, batch>>

Replace(t) ==
  /\ pc[t] = "act" /\ found[t]
  /\ policies' = Replaced(policies, Head(todo[t]))
  /\ count' = count
  /\ PolicySet(t)

Insert(t) ==
  /\ pc[t] = "act" /\ ~found[t]
  /\ HasRoom(count)
  /\ policies' = Append(policies, Head(todo[t]))
  /\ count' = count + 1
  /\ PolicySet(t)

BadFull(t) ==
  /\ pc[t] = "act" /\ ~found[t]
  /\ ~HasRoom(count)
  /\ UNCHANGED <<policies, count>>
  /\ PolicySet(t)

\* The table is full: the call fails and drops the rest of a sync
Full(t) ==
  /\ pc[t] = "act" /\ ~found[t]
  /\ ~HasRoom(count)
  /\ todo' = [todo EXCEPT ![t] = <<>>]
  /\ status' = [status EXCEPT ![t] = "error"]
  /\ Goto(t, "release")
  /\ UNCHANGED <<table, found, overlap, batch, alone>>

-----------------------------------------------------------------------------
(* GuardianAppPolicyShutdown and GuardianAppPolicyInitialize, as a sync runs  *)
(* them                                                                      *)

Drain(t) ==
  /\ pc[t] = "drain"
  /\ policies' = <<>>
  /\ count' = 0
  /\ Goto(t, "drain_release")
  /\ Note(t, TRUE)
  /\ UNCHANGED <<lock, todo, found, overlap, batch, status>>

InitializeListHead(t) ==
  /\ pc[t] = "init_head"
  /\ policies' = <<>>
  /\ Goto(t, "init_lock")
  /\ Note(t, alone[t])
  /\ UNCHANGED <<lock, count, todo, found, overlap, batch, status>>

InitializeSpinLock(t) ==
  /\ pc[t] = "init_lock"
  /\ lock' = FALSE
  /\ Goto(t, "init_count")
  /\ UNCHANGED <<policies, count, todo, found, overlap, batch, status, alone>>

BadInitializeCount(t) ==
  /\ pc[t] = "init_count"
  /\ count' = 0
  /\ Goto(t, "set")
  /\ UNCHANGED <<lock, policies, todo, found, overlap, batch, status, alone>>

\* The loop begins; a batch of no policies returns
InitializeCount(t) ==
  /\ pc[t] = "init_count"
  /\ count' = 0
  /\ Goto(t, Continue(t))
  /\ status' = [status EXCEPT ![t] = IF todo[t] = <<>> THEN "success" ELSE "none"]
  /\ UNCHANGED <<lock, policies, todo, found, overlap, batch, alone>>

-----------------------------------------------------------------------------
\* GuardianAppPolicyLookup; what it finds is in module Classify
Lookup(t) == Acquire(t, "idle", "walk") \/ Unlock(t, "walk", "idle")

Next ==
  \/ \E t \in IoctlThreads :
       \/ \E p \in Policies : BeginSet(t, p)
       \/ \E b \in Batches : BeginSync(t, b)
       \/ EnterSet(t) \/ SetFails(t) \/ Find(t)
       \/ Replace(t) \/ Insert(t) \/ Full(t)
       \/ Unlock(t, "release", Continue(t))
       \/ Acquire(t, "drain_acquire", "drain") \/ Drain(t)
       \/ Unlock(t, "drain_release", "init_head")
       \/ InitializeListHead(t) \/ InitializeSpinLock(t) \/ InitializeCount(t)
  \/ \E t \in ClassifyThreads : Lookup(t)

Spec == Init /\ [][Next]_vars

-----------------------------------------------------------------------------
(* Properties *)

\* Every variable has its type; in particular the loop of a sync never runs past
\* the end of its batch.
TypeOK ==
  /\ lock \in BOOLEAN
  /\ policies \in Seq(Policies)
  /\ count \in Nat
  /\ pc \in [Threads -> Labels]
  /\ \A t \in IoctlThreads :
       /\ todo[t] \in Seq(Policies) /\ batch[t] \in Seq(Policies)
       /\ pc[t] \in {"set", "find", "act"} => todo[t] # <<>>
  /\ found \in [IoctlThreads -> BOOLEAN]
  /\ overlap \in BOOLEAN
  /\ status \in [IoctlThreads -> {"none", "success", "error"}]
  /\ alone \in [IoctlThreads -> BOOLEAN]

\* Until a thread takes the lock inside the window in which a sync
\* re-initializes the table, an application has one policy at most, and
\* g_PolicyCount is the length of the list, so that the table keeps to
\* GUARDIAN_MAX_POLICIES, however sets, syncs and lookups interleave.
TableWellFormed ==
  overlap \/
    /\ \A i, j \in 1..Len(policies) : policies[i].app = policies[j].app => i = j
    /\ count = Len(policies) /\ count <= MaxPolicies

\* The reference for a sync: the list left by the first k policies of a batch
\* has their applications in order of first mention, each with the last policy
\* given to it.
Installs(list, b, k) ==
  /\ \A i \in 1..k : PlacesOf(list, b[i].app) # {}
  /\ \A n \in 1..Len(list) : \E i \in 1..k :
       list[n] = b[i] /\ \A j \in (i + 1)..k : b[j].app # b[i].app
  /\ \A m, n \in 1..Len(list) : m < n => \E i \in 1..k :
       b[i].app = list[m].app /\ \A j \in 1..i : b[j].app # list[n].app

\* A sync nobody interferes with leaves exactly its batch when it succeeds and
\* a prefix of it when it fails, whatever the table held before and whoever
\* else waits for it.
SyncInstallsBatch ==
  overlap \/ \A t \in IoctlThreads :
    pc[t] = "idle" /\ alone[t] =>
      /\ status[t] = "success" => Installs(policies, batch[t], Len(batch[t]))
      /\ status[t] = "error" =>
           \E k \in 0..(Len(batch[t]) - 1) : Installs(policies, batch[t], k)

\* Lookups take the first match, so list order is priority: until two threads
\* share a re-initialization, no step reorders two applications that keep their
\* policies, also when one is replaced.
PriorityKept ==
  [][overlap \/ \A i, j \in 1..Len(policies) : i < j =>
       \A m \in PlacesOf(policies', policies[i].app) :
         \A n \in PlacesOf(policies', policies[j].app) : m < n]_vars
=============================================================================
