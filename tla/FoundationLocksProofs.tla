----------------------- MODULE FoundationLocksProofs ------------------------
(***************************************************************************)
(* Proofs about the locks of Foundation and of the Objective-C runtime,    *)
(* for any number of threads, locks and conditions: @synchronized, NSLock, *)
(* NSRecursiveLock and rwlocks keep the promise of the abstract Locks,     *)
(* however often the mutex behind one of them is destroyed and replaced,   *)
(* and the table of @synchronized is exact; NSCondition and                *)
(* NSConditionLock exclude, queue and wake as they should.                 *)
(***************************************************************************)
EXTENDS ObjcLocks, NSCondition, MutexStateProofs, FiniteSetTheorems, WellFoundedInduction

-----------------------------------------------------------------------------
(* @synchronized, NSLock, NSRecursiveLock and rwlocks *)

(* One mutex: it is held while it is counted, and the phantom locks are    *)
(* its owner's.                                                            *)
Sane(mx) ==
  /\ mx \in Mutex /\ mx.type # "ERRORCHECK"
  /\ mx.owner = NoThread <=> mx.count = 0
  /\ \A t \in Thread : mx.phantom[t] > 0 => mx.owner = t

WaitersFor(id) == {t \in Thread : blockedOn[t].id = id}

TableType ==
  /\ mutexes \in [1 .. MaxIds -> Mutex]
  /\ mutex_count \in 0 .. MaxIds
  /\ mutexOf \in [LockNames -> Int]
  /\ \A id \in 1 .. MaxIds : Sane(mutexes[id])

(* Each live mutex belongs to one lock; ids not yet given out have none. *)
TableOwned ==
  /\ \A l \in LockNames : mutexOf[l] > 0 =>
       mutexOf[l] \in 1 .. mutex_count /\ mutexes[mutexOf[l]].live
  /\ \A id \in 1 .. MaxIds : mutexes[id].live =>
       id <= mutex_count /\ \E l \in LockNames : mutexOf[l] = id
  /\ \A l, k \in LockNames : mutexOf[l] > 0 /\ mutexOf[l] = mutexOf[k] => l = k

(* A blocked thread waits for the mutex its lock has now. *)
BlockedExact ==
  /\ DOMAIN blockedOn = Thread
  /\ \A t \in Thread :
       \/ blockedOn[t] = NoBlock
       \/ \E l \in LockNames : /\ mutexOf[l] > 0
                               /\ blockedOn[t] = [lock |-> l, id |-> mutexOf[l]]

(* waiting_count is the number of threads that wait. *)
WaitingCounted ==
  \A id \in 1 .. MaxIds :
    mutexes[id].live => mutexes[id].waiting_count = Cardinality(WaitersFor(id))

(* A mutex of @synchronized is recursive, and somebody is inside or waits. *)
SyncUsed ==
  \A o \in SyncObjects :
    /\ mutexOf[o] >= 0
    /\ mutexOf[o] > 0 =>
         /\ MutexFor(o).type = "RECURSIVE"
         /\ MutexFor(o).owner # NoThread \/ WaitersFor(mutexOf[o]) # {}

TableInv == TableType /\ TableOwned /\ BlockedExact /\ WaitingCounted /\ SyncUsed

-----------------------------------------------------------------------------
(* Mutex results, continued: Sane, and the number of waiters. *)

LEMMA LockedSane ==
  ASSUME NEW mx, Sane(mx), NEW t \in Thread
  PROVE  LET r == Locked(mx, t) IN
         /\ Sane(r) /\ r.owner # NoThread
         /\ r.waiting_count = IF LockBlocks(mx, t) THEN mx.waiting_count + 1
                              ELSE mx.waiting_count
<1> DEFINE r == Locked(mx, t)
<1>1. /\ mx \in Mutex /\ mx.phantom \in [Thread -> Nat] /\ mx.count \in Nat
      /\ mx.type \in {"NORMAL", "RECURSIVE"}
  BY DEF Sane, Mutex, MutexType
<1>2. r \in Mutex /\ r.type = mx.type
  BY <1>1, LockedType, LockedKeeps
<1>3. r.waiting_count = IF LockBlocks(mx, t) THEN mx.waiting_count + 1 ELSE mx.waiting_count
  BY <1>1, NoThreadIsNone DEF Mutex, Locked, LockBlocks
<1>4. CASE mx.owner = NoThread
  <2>1. r.owner = t /\ r.count = 1 /\ r.phantom = mx.phantom
    BY <1>1, <1>4, LockedFree
  <2>2. QED
    BY <1>1, <1>2, <1>3, <1>4, <2>1, NoThreadIsNone DEF Sane
<1>5. CASE mx.owner \notin {NoThread, t}
  <2>1. r.owner = mx.owner /\ r.count = mx.count /\ r.phantom = mx.phantom
    BY <1>1, <1>5, LockedTaken
  <2>2. QED
    BY <1>1, <1>2, <1>3, <1>5, <2>1 DEF Sane
<1>6. CASE mx.owner = t
  <2>1. /\ r.owner = t
        /\ mx.type = "NORMAL" =>
             r.count = mx.count /\ r.phantom = [mx.phantom EXCEPT ![t] = @ + 1]
        /\ mx.type = "RECURSIVE" => r.count = mx.count + 1 /\ r.phantom = mx.phantom
    BY <1>1, <1>6, LockedAgain
  <2>2. mx.count # 0
    BY <1>6, NoThreadIsNone DEF Sane
  <2>3. r.count # 0
    BY <1>1, <2>1, <2>2
  <2>4. \A u \in Thread : r.phantom[u] > 0 => u = t
    BY <1>1, <1>6, <2>1 DEF Sane
  <2>5. QED
    BY <1>1, <1>2, <1>3, <2>1, <2>3, <2>4, NoThreadIsNone DEF Sane
<1>7. QED
  BY <1>4, <1>5, <1>6

LEMMA UnlockedSane ==
  ASSUME NEW mx, Sane(mx), NEW t \in Thread, mx.owner = t
  PROVE  LET r == Unlocked(mx, t) IN
         /\ Sane(r) /\ r.live = mx.live /\ r.type = mx.type
         /\ r.waiting_count = mx.waiting_count
         /\ \/ r.owner = NoThread /\ mx.count + mx.phantom[t] = 1
            \/ r.owner = t /\ r.count + r.phantom[t] = mx.count + mx.phantom[t] - 1
               /\ mx.count + mx.phantom[t] > 1
<1> DEFINE r == Unlocked(mx, t)
<1>1. /\ mx \in Mutex /\ mx.phantom \in [Thread -> Nat] /\ mx.count \in Nat
      /\ mx.phantom[t] \in Nat
  BY DEF Sane, Mutex
<1>2. mx.count >= 1 /\ \A u \in Thread : u # t => ~(mx.phantom[u] > 0)
  BY <1>1, NoThreadIsNone DEF Sane
<1>3. r.waiting_count = mx.waiting_count
  BY <1>1 DEF Mutex, Unlocked
<1>4. CASE mx.phantom[t] > 0
  <2>1. /\ r \in Mutex /\ r.live = mx.live /\ r.type = mx.type
        /\ r.owner = t /\ r.count = mx.count
        /\ r.phantom = [mx.phantom EXCEPT ![t] = @ - 1]
    BY <1>1, <1>4, UnlockedPhantomFields
  <2>2. /\ r.phantom[t] = mx.phantom[t] - 1
        /\ \A u \in Thread : u # t => ~(r.phantom[u] > 0)
    BY <1>1, <1>2, <2>1
  <2>3. Sane(r)
    BY <1>1, <1>2, <2>1, <2>2, NoThreadIsNone DEF Sane
  <2>4. QED
    BY <1>1, <1>2, <1>3, <1>4, <2>1, <2>2, <2>3
<1>5. CASE mx.phantom[t] = 0 /\ mx.count = 1
  <2>1. r \in Mutex /\ r.live = mx.live /\ r.type = mx.type /\ r.owner = NoThread
        /\ r.phantom = mx.phantom
    BY <1>1, <1>5, UnlockedLast
  <2>2. r.count = 0
    BY <1>1, <1>5 DEF Mutex, Unlocked
  <2>3. \A u \in Thread : ~(r.phantom[u] > 0)
    BY <1>1, <1>2, <1>5, <2>1
  <2>4. Sane(r)
    BY <2>1, <2>2, <2>3 DEF Sane
  <2>5. QED
    BY <1>3, <1>5, <2>1, <2>4
<1>6. CASE mx.phantom[t] = 0 /\ mx.count > 1
  <2>1. r \in Mutex /\ r.live = mx.live /\ r.type = mx.type /\ r.owner = t
        /\ r.count = mx.count - 1 /\ r.phantom = mx.phantom
    BY <1>1, <1>6, UnlockedOnce
  <2>2. Sane(r)
    BY <1>1, <1>2, <1>6, <2>1, NoThreadIsNone DEF Sane
  <2>3. QED
    BY <1>1, <1>3, <1>6, <2>1, <2>2
<1>7. QED
  BY <1>1, <1>2, <1>4, <1>5, <1>6

LEMMA RelockedSane ==
  ASSUME NEW mx, Sane(mx), NEW t \in Thread, mx.owner = NoThread
  PROVE  LET r == Relocked(mx, t) IN
         /\ Sane(r) /\ r.live = mx.live /\ r.type = mx.type
         /\ r.owner = t /\ r.count + r.phantom[t] = 1
         /\ r.waiting_count = IF mx.waiting_count > 0 THEN mx.waiting_count - 1
                              ELSE mx.waiting_count
<1> DEFINE r == Relocked(mx, t)
<1>1. mx \in Mutex /\ mx.phantom \in [Thread -> Nat]
  BY DEF Sane, Mutex
<1>2. /\ r \in Mutex /\ r.live = mx.live /\ r.type = mx.type
      /\ r.owner = t /\ r.count = 1 /\ r.phantom = mx.phantom
  BY <1>1, RelockedFields
<1>3. \A u \in Thread : mx.phantom[u] = 0
  BY <1>1, NoThreadIsNone DEF Sane
<1>4. r.waiting_count = IF mx.waiting_count > 0 THEN mx.waiting_count - 1
                        ELSE mx.waiting_count
  BY <1>1 DEF Relocked, Mutex
<1>5. QED
  BY <1>2, <1>3, <1>4, NoThreadIsNone DEF Sane

LEMMA DestroyedSane ==
  ASSUME NEW mx, Sane(mx)
  PROVE  Sane(Destroyed(mx)) /\ ~Destroyed(mx).live /\ Destroyed(mx).owner = mx.owner
<1>1. mx \in Mutex
  BY DEF Sane
<1>2. ~Destroyed(mx).live
  BY <1>1 DEF Destroyed, Mutex
<1>3. QED
  BY <1>1, <1>2, DestroyedFields DEF Sane

LEMMA FreshSane ==
  ASSUME NEW type \in {"NORMAL", "RECURSIVE"}
  PROVE  LET r == FreshMutex(type) IN
         /\ Sane(r) /\ r.live /\ r.type = type /\ r.owner = NoThread /\ r.count = 0
         /\ r.waiting_count = 0 /\ \A t \in Thread : r.phantom[t] = 0
<1>1. FreshMutex(type).count = 0 /\ FreshMutex(type).waiting_count = 0
  BY DEF FreshMutex
<1>2. type \in MutexType
  BY DEF MutexType
<1>3. QED
  BY <1>1, <1>2, FreshFields DEF Sane
-----------------------------------------------------------------------------
(* Every step gives lock l the mutex mx under the id it has or under the   *)
(* next one, and takes the id from it if mx is destroyed.                  *)
Put(l, id, mx) ==
  /\ id \in 1 .. MaxIds /\ Sane(mx)
  /\ mutexes' = [mutexes EXCEPT ![id] = mx]
  /\ mutexOf' = [mutexOf EXCEPT ![l] = IF mx.live THEN id ELSE NoMutex]
  /\ \/ mutexOf[l] = id /\ mutex_count' = mutex_count
     \/ mutexOf[l] <= 0 /\ id = mutex_count + 1 /\ mutex_count' = mutex_count + 1

LEMMA PutApart ==
  ASSUME TableType, TableOwned, NEW l \in LockNames, NEW id, NEW mx, Put(l, id, mx)
  PROVE  /\ mutexes'[id] = mx /\ mutexOf'[l] = IF mx.live THEN id ELSE 0
         /\ \A i \in 1 .. MaxIds : i # id => mutexes'[i] = mutexes[i]
         /\ \A k \in LockNames : k # l => /\ mutexOf'[k] = mutexOf[k]
                                          /\ mutexOf[k] # id
<1>1. \A k \in LockNames : mutexOf[k] \in Int /\ mutex_count \in Int
  BY DEF TableType
<1>2. ASSUME NEW k \in LockNames, k # l, mutexOf[k] = id PROVE FALSE
  <2>1. mutexOf[k] > 0
    BY <1>2 DEF Put
  <2>2. mutexOf[k] <= mutex_count
    BY <1>1, <2>1 DEF TableOwned
  <2>3. mutexOf[l] = id
    BY <1>1, <1>2, <2>2 DEF Put
  <2>4. QED
    BY <1>2, <2>1, <2>3 DEF TableOwned
<1>3. QED
  BY <1>2 DEF Put, TableType, NoMutex

LEMMA PutTable ==
  ASSUME TableType, TableOwned, NEW l \in LockNames, NEW id, NEW mx, Put(l, id, mx)
  PROVE  TableType' /\ TableOwned'
<1>1. /\ mutexes'[id] = mx /\ mutexOf'[l] = IF mx.live THEN id ELSE 0
      /\ \A i \in 1 .. MaxIds : i # id => mutexes'[i] = mutexes[i]
      /\ \A k \in LockNames : k # l => mutexOf'[k] = mutexOf[k] /\ mutexOf[k] # id
  BY PutApart
<1>2. mutexOf \in [LockNames -> Int] /\ mutex_count \in 0 .. MaxIds /\ MaxIds \in Nat
  BY LocksAssumption DEF TableType
<1>3. id \in 1 .. MaxIds /\ Sane(mx) /\ mx \in Mutex
  BY DEF Put, Sane
<1>4. mutex_count' \in 0 .. MaxIds /\ mutex_count <= mutex_count' /\ id <= mutex_count'
  <2>1. CASE mutexOf[l] = id /\ mutex_count' = mutex_count
    BY <1>2, <1>3, <2>1 DEF TableOwned
  <2>2. CASE id = mutex_count + 1 /\ mutex_count' = mutex_count + 1
    BY <1>2, <1>3, <2>2
  <2>3. QED
    BY <2>1, <2>2 DEF Put
<1>5. TableType'
  <2>1. mutexes' \in [1 .. MaxIds -> Mutex]
    BY <1>3 DEF Put, TableType
  <2>2. mutexOf' \in [LockNames -> Int]
    BY <1>2, <1>3 DEF Put, NoMutex
  <2>3. \A i \in 1 .. MaxIds : Sane(mutexes'[i])
    BY <1>1, <1>3 DEF TableType
  <2>4. QED
    BY <1>4, <2>1, <2>2, <2>3 DEF TableType, Sane
<1>6. ASSUME NEW k \in LockNames, mutexOf'[k] > 0
      PROVE  mutexOf'[k] \in 1 .. mutex_count' /\ mutexes'[mutexOf'[k]].live
  <2>1. CASE k = l
    BY <1>1, <1>2, <1>3, <1>4, <1>6, <2>1
  <2>2. CASE k # l
    <3>1. mutexOf'[k] = mutexOf[k] /\ mutexOf[k] # id
      BY <1>1, <2>2
    <3>2. mutexOf[k] \in 1 .. mutex_count /\ mutexes[mutexOf[k]].live
      BY <1>6, <3>1 DEF TableOwned
    <3>3. mutexOf[k] \in 1 .. MaxIds
      BY <1>2, <3>2
    <3>4. QED
      BY <1>1, <1>2, <1>4, <3>1, <3>2, <3>3
  <2>3. QED
    BY <2>1, <2>2
<1>7. ASSUME NEW i \in 1 .. MaxIds, mutexes'[i].live
      PROVE  i <= mutex_count' /\ \E k \in LockNames : mutexOf'[k] = i
  <2>1. CASE i = id
    BY <1>1, <1>4, <1>7, <2>1
  <2>2. CASE i # id
    <3>1. mutexes[i].live
      BY <1>1, <1>7, <2>2
    <3>2. i <= mutex_count /\ \E k \in LockNames : mutexOf[k] = i
      BY <3>1 DEF TableOwned
    <3>3. PICK k \in LockNames : mutexOf[k] = i
      BY <3>2
    <3>4. k # l
      BY <1>2, <2>2, <3>2, <3>3 DEF Put
    <3>5. QED
      BY <1>1, <1>2, <1>4, <3>2, <3>3, <3>4
  <2>3. QED
    BY <2>1, <2>2
<1>8. ASSUME NEW j \in LockNames, NEW k \in LockNames, mutexOf'[j] > 0, mutexOf'[j] = mutexOf'[k]
      PROVE  j = k
  BY <1>1, <1>3, <1>8 DEF TableOwned
<1>9. TableOwned'
  BY <1>6, <1>7, <1>8 DEF TableOwned
<1>10. QED
  BY <1>5, <1>9

-----------------------------------------------------------------------------
(* Who waits, after a step that blocks nobody, blocks t or unblocks it. *)

LEMMA WaitersKept ==
  ASSUME TableInv, NEW l \in LockNames, NEW id, NEW mx, Put(l, id, mx),
         mx.live \/ WaitersFor(id) = {}, blockedOn' = blockedOn
  PROVE  BlockedExact' /\ \A i : WaitersFor(i)' = WaitersFor(i)
<1>1. /\ mutexOf'[l] = IF mx.live THEN id ELSE 0
      /\ \A k \in LockNames : k # l => mutexOf'[k] = mutexOf[k]
  BY PutApart DEF TableInv
<1>2. \A i : WaitersFor(i)' = WaitersFor(i)
  BY DEF WaitersFor
<1>3. ASSUME NEW t \in Thread, blockedOn[t] # NoBlock
      PROVE  \E k \in LockNames : /\ mutexOf'[k] > 0
                                  /\ blockedOn[t] = [lock |-> k, id |-> mutexOf'[k]]
  <2>1. PICK k \in LockNames : mutexOf[k] > 0 /\ blockedOn[t] = [lock |-> k, id |-> mutexOf[k]]
    BY <1>3 DEF TableInv, BlockedExact
  <2>2. CASE k = l
    <3>1. mutexOf[l] = id
      BY <2>1, <2>2 DEF Put, TableInv, TableType
    <3>2. blockedOn[t].id = id
      BY <2>1, <2>2, <3>1
    <3>3. mx.live
      BY <3>2 DEF WaitersFor
    <3>4. QED
      BY <1>1, <2>1, <2>2, <3>1, <3>3
  <2>3. CASE k # l
    BY <1>1, <2>1, <2>3
  <2>4. QED
    BY <2>2, <2>3
<1>4. BlockedExact'
  BY <1>3 DEF BlockedExact, TableInv
<1>5. QED
  BY <1>2, <1>4

LEMMA WaitersAdded ==
  ASSUME TableInv, NEW l \in LockNames, NEW id, NEW mx, Put(l, id, mx), mx.live,
         NEW t \in Thread, ThreadRuns(t),
         blockedOn' = [blockedOn EXCEPT ![t] = [lock |-> l, id |-> id]]
  PROVE  /\ BlockedExact'
         /\ WaitersFor(id)' = WaitersFor(id) \cup {t} /\ t \notin WaitersFor(id)
         /\ \A i : i \notin {0, id} => WaitersFor(i)' = WaitersFor(i)
<1>1. /\ mutexOf'[l] = id /\ id > 0
      /\ \A k \in LockNames : k # l => mutexOf'[k] = mutexOf[k]
  <2>1. id > 0
    BY LocksAssumption DEF Put
  <2>2. QED
    BY <2>1, PutApart DEF TableInv
<1>2. blockedOn[t].id = 0 /\ DOMAIN blockedOn = Thread /\ blockedOn[t] = NoBlock
  BY DEF ThreadRuns, NoBlock, NoMutex, TableInv, BlockedExact
<1>3. /\ blockedOn'[t] = [lock |-> l, id |-> id] /\ DOMAIN blockedOn' = Thread
      /\ \A u \in Thread : u # t => blockedOn'[u] = blockedOn[u]
  BY <1>2
<1>4. blockedOn'[t].id = id
  BY <1>3
<1>5. ASSUME NEW u \in Thread, blockedOn'[u] # NoBlock
      PROVE  \E k \in LockNames : /\ mutexOf'[k] > 0
                                  /\ blockedOn'[u] = [lock |-> k, id |-> mutexOf'[k]]
  <2>1. CASE u = t
    BY <1>1, <1>3, <2>1
  <2>2. CASE u # t
    <3>1. PICK k \in LockNames : mutexOf[k] > 0 /\ blockedOn[u] = [lock |-> k, id |-> mutexOf[k]]
      BY <1>3, <1>5, <2>2 DEF TableInv, BlockedExact
    <3>2. mutexOf'[k] = mutexOf[k]
      BY <1>1, <3>1 DEF Put, TableInv, TableType
    <3>3. QED
      BY <1>3, <2>2, <3>1, <3>2
  <2>3. QED
    BY <2>1, <2>2
<1>6. BlockedExact'
  BY <1>3, <1>5 DEF BlockedExact
<1>7. WaitersFor(id)' = WaitersFor(id) \cup {t} /\ t \notin WaitersFor(id)
  BY <1>1, <1>2, <1>3, <1>4 DEF WaitersFor
<1>8. \A i : i \notin {0, id} => WaitersFor(i)' = WaitersFor(i)
  BY <1>2, <1>3, <1>4 DEF WaitersFor
<1>9. QED
  BY <1>6, <1>7, <1>8

LEMMA WaitersLeft ==
  ASSUME TableInv, NEW l \in LockNames, NEW id, NEW mx, Put(l, id, mx), mx.live,
         mutexOf[l] = id, NEW t \in Thread, blockedOn[t] = [lock |-> l, id |-> id],
         blockedOn' = [blockedOn EXCEPT ![t] = NoBlock]
  PROVE  /\ BlockedExact'
         /\ WaitersFor(id)' = WaitersFor(id) \ {t} /\ t \in WaitersFor(id)
         /\ \A i : i \notin {0, id} => WaitersFor(i)' = WaitersFor(i)
<1>1. /\ mutexOf'[l] = id /\ id > 0
      /\ \A k \in LockNames : k # l => mutexOf'[k] = mutexOf[k]
  BY PutApart DEF TableInv, Put
<1>2. blockedOn[t].id = id /\ DOMAIN blockedOn = Thread
  BY DEF TableInv, BlockedExact
<1>3. /\ blockedOn'[t] = NoBlock /\ DOMAIN blockedOn' = Thread
      /\ \A u \in Thread : u # t => blockedOn'[u] = blockedOn[u]
  BY <1>2
<1>4. blockedOn'[t].id = 0
  BY <1>3 DEF NoBlock, NoMutex
<1>5. ASSUME NEW u \in Thread, blockedOn'[u] # NoBlock
      PROVE  \E k \in LockNames : /\ mutexOf'[k] > 0
                                  /\ blockedOn'[u] = [lock |-> k, id |-> mutexOf'[k]]
  <2>1. u # t
    BY <1>3, <1>5
  <2>2. PICK k \in LockNames : mutexOf[k] > 0 /\ blockedOn[u] = [lock |-> k, id |-> mutexOf[k]]
    BY <1>3, <1>5, <2>1 DEF TableInv, BlockedExact
  <2>3. mutexOf'[k] = mutexOf[k]
    BY <1>1
  <2>4. QED
    BY <1>3, <2>1, <2>2, <2>3
<1>6. BlockedExact'
  BY <1>3, <1>5 DEF BlockedExact
<1>7. WaitersFor(id)' = WaitersFor(id) \ {t} /\ t \in WaitersFor(id)
  BY <1>1, <1>2, <1>3, <1>4 DEF WaitersFor
<1>8. \A i : i \notin {0, id} => WaitersFor(i)' = WaitersFor(i)
  BY <1>2, <1>3, <1>4 DEF WaitersFor
<1>9. QED
  BY <1>6, <1>7, <1>8

(* What a step has to show of its own lock for TableInv to be kept. *)
LEMMA PutInv ==
  ASSUME TableInv, NEW l \in LockNames, NEW id, NEW mx, Put(l, id, mx), BlockedExact',
         \A i : i \notin {0, id} => WaitersFor(i)' = WaitersFor(i),
         mx.live => mx.waiting_count = Cardinality(WaitersFor(id)'),
         l \in SyncObjects /\ mx.live =>
           mx.type = "RECURSIVE" /\ (mx.owner # NoThread \/ WaitersFor(id)' # {})
  PROVE  TableInv'
<1>1. /\ mutexes'[id] = mx /\ mutexOf'[l] = IF mx.live THEN id ELSE 0
      /\ \A i \in 1 .. MaxIds : i # id => mutexes'[i] = mutexes[i]
      /\ \A k \in LockNames : k # l => mutexOf'[k] = mutexOf[k] /\ mutexOf[k] # id
  BY PutApart DEF TableInv
<1>2. TableType' /\ TableOwned'
  BY PutTable DEF TableInv
<1>3. id \in 1 .. MaxIds
  BY DEF Put
<1>4. ASSUME NEW i \in 1 .. MaxIds, mutexes'[i].live
      PROVE  mutexes'[i].waiting_count = Cardinality(WaitersFor(i)')
  <2>1. CASE i = id
    BY <1>1, <1>4, <2>1
  <2>2. CASE i # id
    <3>1. WaitersFor(i)' = WaitersFor(i)
      BY <2>2
    <3>2. QED
      BY <1>1, <1>4, <2>2, <3>1 DEF TableInv, WaitingCounted
  <2>3. QED
    BY <2>1, <2>2
<1>5. WaitingCounted'
  BY <1>4 DEF WaitingCounted
<1>6. ASSUME NEW o \in SyncObjects
      PROVE  /\ mutexOf'[o] >= 0
             /\ mutexOf'[o] > 0 =>
                  /\ mutexes'[mutexOf'[o]].type = "RECURSIVE"
                  /\ mutexes'[mutexOf'[o]].owner # NoThread \/ WaitersFor(mutexOf[o])' # {}
  <2>1. o \in LockNames
    BY DEF LockNames
  <2>2. CASE o = l
    <3>1. CASE mx.live
      <4>1. mutexOf'[o] = id
        BY <1>1, <2>2, <3>1
      <4>2. PICK n : n = mutexOf'[o]
        OBVIOUS
      <4>3. WaitersFor(n)' = WaitersFor(id)'
        BY <4>1, <4>2 DEF WaitersFor
      <4>4. WaitersFor(mutexOf[o])' = WaitersFor(id)'
        BY <4>1 DEF WaitersFor
      <4>5. QED
        BY <1>1, <1>3, <2>2, <3>1, <4>1, <4>4
    <3>2. CASE ~mx.live
      BY <1>1, <2>2, <3>2
    <3>3. QED
      BY <3>1, <3>2
  <2>3. CASE o # l
    <3>1. mutexOf'[o] = mutexOf[o] /\ mutexOf[o] # id
      BY <1>1, <2>1, <2>3
    <3>2. /\ mutexOf[o] >= 0
          /\ mutexOf[o] > 0 => /\ mutexes[mutexOf[o]].type = "RECURSIVE"
                               /\ mutexes[mutexOf[o]].owner # NoThread \/ WaitersFor(mutexOf[o]) # {}
      BY DEF TableInv, SyncUsed, MutexFor
    <3>3. PICK n : n = mutexOf[o]
      OBVIOUS
    <3>4. ASSUME n > 0
          PROVE  n \in 1 .. MaxIds /\ n # 0 /\ n # id
      BY <2>1, <3>1, <3>3, <3>4, LocksAssumption DEF TableInv, TableOwned, TableType
    <3>5. n > 0 => WaitersFor(n)' = WaitersFor(n) /\ mutexes'[n] = mutexes[n]
      BY <1>1, <3>4
    <3>6. WaitersFor(mutexOf[o])' = WaitersFor(n)'
      BY <3>1, <3>3 DEF WaitersFor
    <3>7. WaitersFor(mutexOf[o]) = WaitersFor(n)
      BY <3>3 DEF WaitersFor
    <3>8. QED
      BY <3>1, <3>2, <3>3, <3>5, <3>6, <3>7
  <2>4. QED
    BY <2>2, <2>3
<1>7. SyncUsed'
  BY <1>6 DEF SyncUsed, MutexFor
<1>8. QED
  BY <1>2, <1>5, <1>7 DEF TableInv
-----------------------------------------------------------------------------
(* The refinement mapping of one mutex, and what a step does to HeldNow. *)

HoldOf(mx) ==
  IF ~mx.live \/ mx.owner = NoThread
    THEN [by |-> NoThread, depth |-> 0]
    ELSE [by |-> mx.owner, depth |-> mx.count + mx.phantom[mx.owner]]

LEMMA HeldIsHold ==
  ASSUME TableInv, NEW l \in LockNames
  PROVE  /\ mutexOf[l] > 0 => HeldNow[l] = HoldOf(mutexes[mutexOf[l]])
         /\ mutexOf[l] <= 0 => HeldNow[l] = [by |-> NoThread, depth |-> 0]
  BY DEF TableInv, TableOwned, TableType, HeldNow, HoldOf, MutexFor

LEMMA PutHeld ==
  ASSUME TableInv, NEW l \in LockNames, NEW id, NEW mx, Put(l, id, mx)
  PROVE  HeldNow' = [HeldNow EXCEPT ![l] = HoldOf(mx)]
<1>1. /\ mutexes'[id] = mx /\ mutexOf'[l] = IF mx.live THEN id ELSE 0
      /\ \A i \in 1 .. MaxIds : i # id => mutexes'[i] = mutexes[i]
      /\ \A k \in LockNames : k # l => mutexOf'[k] = mutexOf[k] /\ mutexOf[k] # id
  BY PutApart DEF TableInv
<1>2. id \in 1 .. MaxIds /\ id > 0
  BY LocksAssumption DEF Put
<1>3. HeldNow'[l] = HoldOf(mx)
  <2>1. CASE mx.live
    BY <1>1, <1>2, <2>1 DEF HeldNow, MutexFor, HoldOf
  <2>2. CASE ~mx.live
    BY <1>1, <2>2 DEF HeldNow, HoldOf
  <2>3. QED
    BY <2>1, <2>2
<1>4. ASSUME NEW k \in LockNames, k # l PROVE HeldNow'[k] = HeldNow[k]
  <2>1. mutexOf'[k] = mutexOf[k] /\ mutexOf[k] # id
    BY <1>1, <1>4
  <2>2. CASE mutexOf[k] > 0
    <3>1. mutexOf[k] \in 1 .. MaxIds
      BY <2>2, LocksAssumption DEF TableInv, TableOwned, TableType
    <3>2. mutexes'[mutexOf[k]] = mutexes[mutexOf[k]]
      BY <1>1, <2>1, <3>1
    <3>3. QED
      BY <2>1, <3>2 DEF HeldNow, MutexFor
  <2>3. CASE mutexOf[k] <= 0
    BY <2>1, <2>3 DEF HeldNow
  <2>4. QED
    BY <2>2, <2>3 DEF TableInv, TableType
<1>5. HeldNow = [k \in LockNames |-> HeldNow[k]] /\ HeldNow' = [k \in LockNames |-> HeldNow'[k]]
  BY DEF HeldNow
<1>6. QED
  BY <1>3, <1>4, <1>5

LEMMA HeldKept ==
  ASSUME TableInv, NEW l \in LockNames, NEW id, NEW mx, Put(l, id, mx),
         HoldOf(mx) = HeldNow[l]
  PROVE  UNCHANGED HeldNow
<1>1. HeldNow = [k \in LockNames |-> HeldNow[k]]
  BY DEF HeldNow
<1>2. QED
  BY <1>1, PutHeld

LEMMA Acquired ==
  ASSUME NEW l \in LockNames, NEW t \in Thread,
         HeldNow[l] = [by |-> NoThread, depth |-> 0],
         HeldNow' = [HeldNow EXCEPT ![l] = [by |-> t, depth |-> 1]]
  PROVE  Exclusion!LocksNext
<1>1. HeldNow'[l] = [by |-> t, depth |-> 1]
  BY DEF HeldNow
<1>2. HeldNow'[l] # HeldNow[l]
  <2>1. HeldNow'[l].depth = 1 /\ HeldNow[l].depth = 0
    BY <1>1
  <2>2. QED
    BY <2>1
<1>3. Exclusion!AcquireLock(t, l)
  BY DEF Exclusion!AcquireLock, Exclusion!FreeLock
<1>4. l \in Exclusion!Touched
  BY <1>2 DEF Exclusion!Touched
<1>5. QED
  BY <1>3, <1>4 DEF Exclusion!LocksNext

LEMMA Reacquired ==
  ASSUME NEW l \in LockNames, NEW t \in Thread, NEW d \in Nat,
         HeldNow[l] = [by |-> t, depth |-> d],
         HeldNow' = [HeldNow EXCEPT ![l] = [by |-> t, depth |-> d + 1]]
  PROVE  Exclusion!LocksNext
<1>1. HeldNow'[l] = [by |-> t, depth |-> d + 1] /\ l \in DOMAIN HeldNow
  BY DEF HeldNow
<1>2. HeldNow'[l] # HeldNow[l]
  <2>1. HeldNow'[l].depth = d + 1 /\ HeldNow[l].depth = d
    BY <1>1
  <2>2. QED
    BY <2>1
<1>3. [HeldNow[l] EXCEPT !.depth = @ + 1] = [by |-> t, depth |-> d + 1]
  OBVIOUS
<1>4. [HeldNow EXCEPT ![l].depth = @ + 1] = [HeldNow EXCEPT ![l] = [by |-> t, depth |-> d + 1]]
  BY <1>1, <1>3
<1>5. Exclusion!ReacquireLock(t, l)
  BY <1>4 DEF Exclusion!ReacquireLock
<1>6. l \in Exclusion!Touched
  BY <1>2 DEF Exclusion!Touched
<1>7. QED
  BY <1>5, <1>6 DEF Exclusion!LocksNext

LEMMA Released ==
  ASSUME NEW l \in LockNames, NEW t \in Thread, NEW d \in Nat, d >= 1,
         HeldNow[l] = [by |-> t, depth |-> d],
         HeldNow' = [HeldNow EXCEPT ![l] =
                       IF d = 1 THEN [by |-> NoThread, depth |-> 0]
                       ELSE [by |-> t, depth |-> d - 1]]
  PROVE  Exclusion!LocksNext
<1>1. HeldNow'[l] = (IF d = 1 THEN [by |-> NoThread, depth |-> 0]
                     ELSE [by |-> t, depth |-> d - 1]) /\ l \in DOMAIN HeldNow
  BY DEF HeldNow
<1>2. HeldNow'[l] # HeldNow[l]
  <2>1. HeldNow'[l].depth = d - 1 /\ HeldNow[l].depth = d
    BY <1>1
  <2>2. QED
    BY <2>1
<1>3. ASSUME d = 1 PROVE Exclusion!ReleaseLock(t, l)
  <2>1. HeldNow[l].depth = 1 /\ HeldNow[l].by = t
    BY <1>3
  <2>2. HeldNow' = [HeldNow EXCEPT ![l] = [by |-> NoThread, depth |-> 0]]
    BY <1>3
  <2>3. QED
    BY <2>1, <2>2 DEF Exclusion!ReleaseLock, Exclusion!FreeLock
<1>4. ASSUME d # 1 PROVE Exclusion!ReleaseLock(t, l)
  <2>1. HeldNow[l].depth # 1 /\ HeldNow[l].by = t
    BY <1>4
  <2>2. HeldNow' = [HeldNow EXCEPT ![l] = [by |-> t, depth |-> d - 1]]
    BY <1>4
  <2>3. QED
    BY <2>1, <2>2 DEF Exclusion!ReleaseLock
<1>5. Exclusion!ReleaseLock(t, l)
  BY <1>3, <1>4
<1>6. l \in Exclusion!Touched
  BY <1>2 DEF Exclusion!Touched
<1>7. QED
  BY <1>5, <1>6 DEF Exclusion!LocksNext
-----------------------------------------------------------------------------
(* The steps, each with what it keeps and what it is to the abstract locks. *)

AbstractStep == Exclusion!LocksNext \/ UNCHANGED HeldNow

LEMMA WaitersFinite ==
  ASSUME NEW id
  PROVE  IsFiniteSet(WaitersFor(id)) /\ Cardinality(WaitersFor(id)) \in Nat
<1>1. IsFiniteSet(Thread)
  BY FS_Interval, MaxThreadsAssumption DEF Thread
<1>2. WaitersFor(id) \subseteq Thread
  BY DEF WaitersFor
<1>3. QED
  BY <1>1, <1>2, FS_Subset, FS_CardinalityType

(* An id the table has given to a lock, and one it is about to give. *)
LEMMA OldId ==
  ASSUME TableInv, NEW l \in LockNames, mutexOf[l] > 0
  PROVE  /\ mutexOf[l] \in 1 .. MaxIds /\ MutexFor(l) = mutexes[mutexOf[l]]
         /\ Sane(MutexFor(l)) /\ MutexFor(l).live
         /\ MutexFor(l).waiting_count = Cardinality(WaitersFor(mutexOf[l]))
         /\ mutexOf = [mutexOf EXCEPT ![l] = mutexOf[l]]
<1>1. mutexOf[l] \in 1 .. MaxIds
  BY LocksAssumption DEF TableInv, TableOwned, TableType
<1>2. QED
  BY <1>1 DEF TableInv, TableOwned, TableType, WaitingCounted, MutexFor

LEMMA NewId ==
  ASSUME TableInv, mutex_count < MaxIds
  PROVE  mutex_count + 1 \in 1 .. MaxIds /\ WaitersFor(mutex_count + 1) = {}
<1>1. mutex_count + 1 \in 1 .. MaxIds /\ mutex_count \in Nat
  BY LocksAssumption DEF TableInv, TableType
<1>2. ASSUME NEW t \in Thread, blockedOn[t].id = mutex_count + 1 PROVE FALSE
  <2>1. CASE blockedOn[t] = NoBlock
    BY <1>1, <1>2, <2>1 DEF NoBlock, NoMutex
  <2>2. CASE blockedOn[t] # NoBlock
    <3>1. PICK l \in LockNames : mutexOf[l] > 0 /\ blockedOn[t] = [lock |-> l, id |-> mutexOf[l]]
      BY <2>2 DEF TableInv, BlockedExact
    <3>2. mutexOf[l] <= mutex_count
      BY <1>1, <3>1 DEF TableInv, TableOwned
    <3>3. mutexOf[l] = mutex_count + 1
      BY <1>2, <3>1
    <3>4. QED
      BY <1>1, <3>2, <3>3
  <2>3. QED
    BY <2>1, <2>2
<1>3. QED
  BY <1>1, <1>2 DEF WaitersFor

(* lock_mutex on the mutex mx, which is l's or a fresh one. *)
LEMMA LockStep ==
  ASSUME TableInv, NEW l \in LockNames, NEW t \in Thread, ThreadRuns(t), NEW id, NEW mx,
         LockOn(t, l, id, mx), Sane(mx), mx.live, Put(l, id, Locked(mx, t)),
         mx.waiting_count = Cardinality(WaitersFor(id)),
         HeldNow[l] = HoldOf(mx), l \in SyncObjects => mx.type = "RECURSIVE"
  PROVE  TableInv' /\ AbstractStep
<1> DEFINE r == Locked(mx, t)
<1>1. mx \in Mutex
  BY DEF Sane
<1>2. r.live /\ r.type = mx.type
  BY <1>1, LockedKeeps
<1>3. /\ Sane(r) /\ r.owner # NoThread
      /\ r.waiting_count = IF LockBlocks(mx, t) THEN mx.waiting_count + 1 ELSE mx.waiting_count
  BY LockedSane
<1>4. CASE LockBlocks(mx, t)
  <2>1. blockedOn' = [blockedOn EXCEPT ![t] = [lock |-> l, id |-> id]]
    BY <1>4 DEF LockOn
  <2>2. /\ BlockedExact'
        /\ WaitersFor(id)' = WaitersFor(id) \cup {t} /\ t \notin WaitersFor(id)
        /\ \A i : i \notin {0, id} => WaitersFor(i)' = WaitersFor(i)
    BY <1>2, <2>1, WaitersAdded
  <2>3. Cardinality(WaitersFor(id)') = Cardinality(WaitersFor(id)) + 1
    BY <2>2, WaitersFinite, FS_AddElement
  <2>4. r.waiting_count = Cardinality(WaitersFor(id)')
    BY <1>3, <1>4, <2>3
  <2>5. TableInv'
    BY <1>2, <1>3, <2>2, <2>4, PutInv
  <2>6. r.owner = mx.owner /\ r.count = mx.count /\ r.phantom = mx.phantom
    BY <1>1, <1>4, LockedTaken DEF LockBlocks
  <2>7. HoldOf(r) = HoldOf(mx)
    BY <1>2, <2>6 DEF HoldOf
  <2>8. UNCHANGED HeldNow
    BY <2>7, HeldKept
  <2>9. QED
    BY <2>5, <2>8 DEF AbstractStep
<1>5. CASE ~LockBlocks(mx, t)
  <2>1. blockedOn' = blockedOn
    BY <1>5 DEF LockOn
  <2>2. BlockedExact' /\ \A i : WaitersFor(i)' = WaitersFor(i)
    BY <1>2, <2>1, WaitersKept
  <2>3. r.waiting_count = Cardinality(WaitersFor(id)')
    BY <1>3, <1>5, <2>2
  <2>4. TableInv'
    BY <1>2, <1>3, <2>2, <2>3, PutInv
  <2>5. HeldNow' = [HeldNow EXCEPT ![l] = HoldOf(r)]
    BY PutHeld
  <2>6. mx.phantom \in [Thread -> Nat] /\ mx.count \in Nat /\ mx.type \in {"NORMAL", "RECURSIVE"}
    BY DEF Sane, Mutex, MutexType
  <2>7. CASE mx.owner = NoThread
    <3>1. r.owner = t /\ r.count = 1 /\ r.phantom = mx.phantom
      BY <1>1, <2>7, LockedFree
    <3>2. mx.phantom[t] = 0
      BY <2>6, <2>7, NoThreadIsNone DEF Sane
    <3>3. HoldOf(r) = [by |-> t, depth |-> 1] /\ HoldOf(mx) = [by |-> NoThread, depth |-> 0]
      BY <1>2, <1>3, <2>7, <3>1, <3>2 DEF HoldOf
    <3>4. QED
      BY <2>4, <2>5, <3>3, Acquired DEF AbstractStep
  <2>8. CASE mx.owner = t
    <3> DEFINE d == mx.count + mx.phantom[t]
    <3>1. /\ r.owner = t
          /\ mx.type = "NORMAL" =>
               r.count = mx.count /\ r.phantom = [mx.phantom EXCEPT ![t] = @ + 1]
          /\ mx.type = "RECURSIVE" => r.count = mx.count + 1 /\ r.phantom = mx.phantom
      BY <1>1, <2>8, LockedAgain
    <3>2. d \in Nat /\ r.count + r.phantom[t] = d + 1
      BY <2>6, <3>1
    <3>3. HoldOf(mx) = [by |-> t, depth |-> d] /\ HoldOf(r) = [by |-> t, depth |-> d + 1]
      BY <1>2, <1>3, <2>8, <3>1, <3>2 DEF HoldOf
    <3> HIDE DEF d
    <3>4. QED
      BY <2>4, <2>5, <3>2, <3>3, Reacquired DEF AbstractStep
  <2>9. QED
    BY <1>5, <2>7, <2>8 DEF LockBlocks
<1>6. QED
  BY <1>4, <1>5

LEMMA LockOldStep ==
  ASSUME TableInv, NEW l \in LockNames, NEW t \in Thread, ThreadRuns(t), mutexOf[l] > 0,
         LockOn(t, l, mutexOf[l], MutexFor(l)), UNCHANGED <<mutex_count, mutexOf>>
  PROVE  TableInv' /\ AbstractStep
<1> DEFINE mx == MutexFor(l)
<1>1. PICK id : id = mutexOf[l]
  OBVIOUS
<1>2. /\ id \in 1 .. MaxIds /\ mx = mutexes[id] /\ Sane(mx) /\ mx.live
      /\ mx.waiting_count = Cardinality(WaitersFor(id))
      /\ mutexOf = [mutexOf EXCEPT ![l] = id]
  BY <1>1, OldId
<1>3. l \in SyncObjects => mx.type = "RECURSIVE"
  BY DEF TableInv, SyncUsed
<1>4. HeldNow[l] = HoldOf(mx)
  BY HeldIsHold DEF MutexFor
<1>5. LockOn(t, l, id, mx)
  BY <1>1
<1>6. PICK m : m = mx
  OBVIOUS
<1>7. mutexes' = [mutexes EXCEPT ![id] = Locked(m, t)]
  BY <1>5, <1>6 DEF LockOn
<1>8. Locked(m, t).live /\ Sane(Locked(m, t))
  BY <1>2, <1>6, LockedKeeps, LockedSane DEF Sane
<1>9. Put(l, id, Locked(m, t))
  BY <1>1, <1>2, <1>7, <1>8 DEF Put
<1> HIDE DEF mx
<1>10. QED
  BY <1>2, <1>3, <1>4, <1>5, <1>6, <1>9, LockStep

LEMMA LockNewStep ==
  ASSUME TableInv, NEW l \in LockNames, NEW t \in Thread, ThreadRuns(t), ~(mutexOf[l] > 0),
         NEW type \in {"NORMAL", "RECURSIVE"}, l \in SyncObjects => type = "RECURSIVE",
         LockOrRegister(t, l, type)
  PROVE  TableInv' /\ AbstractStep
<1>1. PICK id : id = mutex_count + 1
  OBVIOUS
<1>2. PICK mx : mx = FreshMutex(type)
  OBVIOUS
<1>3. /\ mutex_count < MaxIds /\ mutex_count' = mutex_count + 1
      /\ mutexOf' = [mutexOf EXCEPT ![l] = id] /\ LockOn(t, l, id, mx)
  BY <1>1, <1>2 DEF LockOrRegister
<1>4. id \in 1 .. MaxIds /\ WaitersFor(id) = {}
  BY <1>1, <1>3, NewId
<1>5. /\ Sane(mx) /\ mx.live /\ mx.type = type /\ mx.owner = NoThread /\ mx.waiting_count = 0
      /\ mx \in Mutex
  BY <1>2, FreshSane DEF Sane
<1>6. Locked(mx, t).live /\ Sane(Locked(mx, t))
  BY <1>5, LockedKeeps, LockedSane
<1>7. mutexOf[l] <= 0
  BY DEF TableInv, TableType
<1>8. Put(l, id, Locked(mx, t))
  BY <1>1, <1>3, <1>4, <1>6, <1>7 DEF Put, LockOn
<1>9. HeldNow[l] = HoldOf(mx)
  BY <1>5, <1>7, HeldIsHold DEF HoldOf
<1>10. mx.waiting_count = Cardinality(WaitersFor(id))
  BY <1>4, <1>5, FS_EmptySet
<1>11. QED
  BY <1>3, <1>5, <1>8, <1>9, <1>10, LockStep

LEMMA LockOrRegisterStep ==
  ASSUME TableInv, NEW l \in LockNames, NEW t \in Thread, ThreadRuns(t),
         NEW type \in {"NORMAL", "RECURSIVE"}, l \in SyncObjects => type = "RECURSIVE",
         LockOrRegister(t, l, type)
  PROVE  TableInv' /\ AbstractStep
<1>1. CASE mutexOf[l] > 0
  BY <1>1, LockOldStep DEF LockOrRegister
<1>2. CASE ~(mutexOf[l] > 0)
  BY <1>2, LockNewStep
<1>3. QED
  BY <1>1, <1>2
LEMMA NewLockStep ==
  ASSUME TableInv, NEW l \in LockNames, NEW t \in Thread, l \notin SyncObjects, NewLock(t, l)
  PROVE  TableInv' /\ AbstractStep
<1>1. PICK id : id = mutex_count + 1
  OBVIOUS
<1>2. PICK mx : mx = FreshMutex(LockTypeOf(l))
  OBVIOUS
<1>3. id \in 1 .. MaxIds /\ WaitersFor(id) = {}
  BY <1>1, NewId DEF NewLock
<1>4. Sane(mx) /\ mx.live /\ mx.owner = NoThread /\ mx.waiting_count = 0
  BY <1>2, FreshSane DEF LockTypeOf
<1>5. Put(l, id, mx)
  BY <1>1, <1>2, <1>3, <1>4 DEF Put, NewLock, NoMutex
<1>6. BlockedExact' /\ \A i : WaitersFor(i)' = WaitersFor(i)
  BY <1>4, <1>5, WaitersKept DEF NewLock
<1>7. mx.waiting_count = Cardinality(WaitersFor(id)')
  BY <1>3, <1>4, <1>6, FS_EmptySet
<1>8. TableInv'
  BY <1>5, <1>6, <1>7, PutInv
<1>9. HoldOf(mx) = HeldNow[l]
  <2>1. mutexOf[l] <= 0
    BY DEF NewLock, NoMutex
  <2>2. QED
    BY <1>4, <2>1, HeldIsHold DEF HoldOf
<1>10. QED
  BY <1>5, <1>8, <1>9, HeldKept DEF AbstractStep

(* Unlocking l; the mutex left is destroyed or not. *)
LEMMA UnlockStep ==
  ASSUME TableInv, NEW l \in LockNames, NEW t \in Thread, mutexOf[l] > 0,
         MutexFor(l).owner = t, NEW r, r = Unlocked(MutexFor(l), t),
         NEW q, q = r \/ (q = Destroyed(r) /\ r.count = 0 /\ ~DestroyFails(r)),
         Put(l, mutexOf[l], q), blockedOn' = blockedOn,
         l \in SyncObjects /\ q = r /\ r.live => r.owner # NoThread \/ DestroyFails(r)
  PROVE  TableInv' /\ AbstractStep
<1>1. PICK id : id = mutexOf[l]
  OBVIOUS
<1>2. PICK mx : mx = MutexFor(l)
  OBVIOUS
<1>3. /\ id \in 1 .. MaxIds /\ mx = mutexes[id] /\ Sane(mx) /\ mx.live /\ mx.owner = t
      /\ mx.waiting_count = Cardinality(WaitersFor(id))
  BY <1>1, <1>2, OldId
<1>4. PICK d : d = mx.count + mx.phantom[t]
  OBVIOUS
<1>5. /\ Sane(r) /\ r.live /\ r.type = mx.type /\ r.waiting_count = mx.waiting_count
      /\ \/ r.owner = NoThread /\ d = 1
         \/ r.owner = t /\ r.count + r.phantom[t] = d - 1 /\ d > 1
  <2>1. r = Unlocked(mx, t)
    BY <1>2
  <2>2. LET u == Unlocked(mx, t) IN
        /\ Sane(u) /\ u.live = mx.live /\ u.type = mx.type
        /\ u.waiting_count = mx.waiting_count
        /\ \/ u.owner = NoThread /\ mx.count + mx.phantom[t] = 1
           \/ u.owner = t /\ u.count + u.phantom[t] = mx.count + mx.phantom[t] - 1
              /\ mx.count + mx.phantom[t] > 1
    BY <1>3, UnlockedSane
  <2>3. Sane(r) /\ r.live /\ r.type = mx.type /\ r.waiting_count = mx.waiting_count
    BY <1>3, <2>1, <2>2
  <2>4. \/ r.owner = NoThread /\ mx.count + mx.phantom[t] = 1
        \/ r.owner = t /\ r.count + r.phantom[t] = mx.count + mx.phantom[t] - 1
           /\ mx.count + mx.phantom[t] > 1
    BY <2>1, <2>2
  <2>5. /\ mx.count \in Nat /\ mx.phantom[t] \in Nat
        /\ r.count \in Nat /\ r.phantom[t] \in Nat
    BY <1>3, <2>3 DEF Sane, Mutex
  <2>6. \/ r.owner = NoThread /\ d = 1
        \/ r.owner = t /\ r.count + r.phantom[t] = d - 1 /\ d > 1
    BY <1>4, <2>4, <2>5
  <2>7. QED
    BY <2>3, <2>6
<1>6. d \in Nat /\ d >= 1
  BY <1>3, <1>4, <1>5 DEF Sane, Mutex
<1>7. HeldNow[l] = [by |-> t, depth |-> d]
  BY <1>2, <1>3, <1>4, HeldIsHold, NoThreadIsNone DEF MutexFor, HoldOf
<1>8. Put(l, id, q)
  BY <1>1
<1>9. q = r \/ WaitersFor(id) = {}
  <2>1. CASE q # r
    <3>1. Cardinality(WaitersFor(id)) = 0
      BY <1>3, <1>5, <2>1 DEF DestroyFails
    <3>2. QED
      BY <3>1, WaitersFinite, FS_EmptySet
  <2>2. QED
    BY <2>1
<1>10. BlockedExact' /\ \A i : WaitersFor(i)' = WaitersFor(i)
  BY <1>5, <1>8, <1>9, WaitersKept
<1>11. q.live => q = r
  BY <1>5, DestroyedSane
<1>12. q.live => q.waiting_count = Cardinality(WaitersFor(id)')
  BY <1>3, <1>5, <1>10, <1>11
<1>13. ASSUME l \in SyncObjects, q.live
       PROVE  q.type = "RECURSIVE" /\ (q.owner # NoThread \/ WaitersFor(id)' # {})
  <2>1. mx.type = "RECURSIVE"
    BY <1>2, <1>13 DEF TableInv, SyncUsed
  <2>2. r.owner # NoThread \/ r.waiting_count # 0
    BY <1>5, <1>11, <1>13 DEF DestroyFails
  <2>3. r.waiting_count # 0 => WaitersFor(id) # {}
    BY <1>3, <1>5, FS_EmptySet
  <2>4. QED
    BY <1>5, <1>10, <1>11, <1>13, <2>1, <2>2, <2>3
<1>14. TableInv'
  BY <1>8, <1>10, <1>12, <1>13, PutInv
<1>15. HeldNow' = [HeldNow EXCEPT ![l] = HoldOf(q)]
  BY <1>8, PutHeld
<1>16. HoldOf(q) = IF d = 1 THEN [by |-> NoThread, depth |-> 0] ELSE [by |-> t, depth |-> d - 1]
  <2>1. CASE d = 1
    BY <1>5, <1>6, <1>11, <2>1 DEF HoldOf
  <2>2. CASE d # 1
    <3>1. r.owner = t /\ r.count + r.phantom[t] = d - 1
      BY <1>5, <2>2
    <3>2. q = r
      BY <3>1, NoThreadIsNone DEF DestroyFails
    <3>3. QED
      BY <1>5, <2>2, <3>1, <3>2, NoThreadIsNone DEF HoldOf
  <2>3. QED
    BY <2>1, <2>2
<1>17. HeldNow' = [HeldNow EXCEPT ![l] = IF d = 1 THEN [by |-> NoThread, depth |-> 0]
                                         ELSE [by |-> t, depth |-> d - 1]]
  BY <1>15, <1>16
<1>18. Exclusion!LocksNext
  BY <1>6, <1>7, <1>17, Released
<1>19. QED
  BY <1>14, <1>18 DEF AbstractStep

LEMMA UnlockOwnStep ==
  ASSUME TableInv, NEW l \in LockNames, NEW t \in Thread, l \notin SyncObjects, UnlockOwn(t, l)
  PROVE  TableInv' /\ AbstractStep
<1>1. PICK r : r = Unlocked(MutexFor(l), t)
  OBVIOUS
<1>2. /\ mutexOf[l] > 0 /\ MutexFor(l).owner = t /\ blockedOn' = blockedOn
      /\ mutexes' = [mutexes EXCEPT ![mutexOf[l]] = r]
      /\ mutexOf' = mutexOf /\ mutex_count' = mutex_count
  BY <1>1 DEF UnlockOwn, MutexFor
<1>3. /\ mutexOf[l] \in 1 .. MaxIds /\ Sane(MutexFor(l)) /\ MutexFor(l).live
      /\ mutexOf = [mutexOf EXCEPT ![l] = mutexOf[l]]
  BY <1>2, OldId
<1>4. Sane(r) /\ r.live
  BY <1>1, <1>2, <1>3, UnlockedSane
<1>5. Put(l, mutexOf[l], r)
  BY <1>2, <1>3, <1>4 DEF Put
<1>6. QED
  BY <1>1, <1>2, <1>5, UnlockStep

LEMMA SyncExitStep ==
  ASSUME TableInv, NEW o \in SyncObjects, NEW t \in Thread, objc_sync_exit(t, o)
  PROVE  TableInv' /\ AbstractStep
<1>1. PICK r : r = Unlocked(MutexFor(o), t)
  OBVIOUS
<1>2. PICK q : q = IF MutexEnds(r) THEN Destroyed(r) ELSE r
  OBVIOUS
<1>3. /\ mutexOf[o] > 0 /\ ~UnlockFails(MutexFor(o), t) /\ blockedOn' = blockedOn
      /\ mutexes' = [mutexes EXCEPT ![mutexOf[o]] = q]
      /\ mutexOf' = [mutexOf EXCEPT ![o] = IF MutexEnds(r) THEN NoMutex ELSE mutexOf[o]]
      /\ mutex_count' = mutex_count
  BY <1>1, <1>2 DEF objc_sync_exit
<1>4. o \in LockNames
  BY DEF LockNames
<1>5. /\ mutexOf[o] \in 1 .. MaxIds /\ Sane(MutexFor(o)) /\ MutexFor(o).live
      /\ MutexFor(o).type = "RECURSIVE"
  BY <1>3, <1>4, OldId DEF TableInv, SyncUsed
<1>6. MutexFor(o).owner = t
  <2>1. PICK mx : mx = MutexFor(o)
    OBVIOUS
  <2>2. mx.phantom[t] \in Nat
    BY <1>5, <2>1 DEF Sane, Mutex
  <2>3. CASE mx.phantom[t] > 0
    BY <1>5, <2>1, <2>3 DEF Sane
  <2>4. CASE mx.phantom[t] = 0
    BY <1>3, <1>5, <2>1, <2>4 DEF UnlockFails
  <2>5. QED
    BY <2>2, <2>3, <2>4
<1>7. Sane(r) /\ r.live /\ r \in Mutex
  BY <1>1, <1>5, <1>6, UnlockedSane DEF Sane
<1>8. Sane(q) /\ (q.live <=> ~MutexEnds(r))
  BY <1>2, <1>7, DestroyedSane
<1>9. Put(o, mutexOf[o], q)
  BY <1>3, <1>5, <1>8 DEF Put
<1>10. q = r \/ (q = Destroyed(r) /\ r.count = 0 /\ ~DestroyFails(r))
  BY <1>2 DEF MutexEnds
<1>11. r.owner = NoThread => r.count = 0
  BY <1>7 DEF Sane
<1>12. q = r /\ r.live => r.owner # NoThread \/ DestroyFails(r)
  BY <1>8, <1>11 DEF MutexEnds
<1>13. QED
  BY <1>1, <1>3, <1>4, <1>6, <1>9, <1>10, <1>12, UnlockStep

LEMMA FreeStep ==
  ASSUME TableInv, NEW l \in LockNames, NEW t \in Thread, FreeUnused(t, l)
  PROVE  TableInv' /\ AbstractStep
<1>1. PICK id : id = mutexOf[l]
  OBVIOUS
<1>2. PICK q : q = Destroyed(MutexFor(l))
  OBVIOUS
<1>3. /\ id > 0 /\ MutexFor(l).owner = NoThread /\ blockedOn' = blockedOn
      /\ \A u \in Thread : blockedOn[u].lock # l
      /\ mutexes' = [mutexes EXCEPT ![id] = q]
      /\ mutexOf' = [mutexOf EXCEPT ![l] = NoMutex] /\ mutex_count' = mutex_count
  BY <1>1, <1>2 DEF FreeUnused, Unused, MutexFor
<1>4. id \in 1 .. MaxIds /\ Sane(MutexFor(l)) /\ MutexFor(l).live
  BY <1>1, <1>3, OldId
<1>5. Sane(q) /\ ~q.live
  BY <1>2, <1>4, DestroyedSane
<1>6. Put(l, id, q)
  BY <1>1, <1>3, <1>4, <1>5 DEF Put
<1>7. ASSUME NEW u \in Thread, blockedOn[u].id = id PROVE FALSE
  <2>1. CASE blockedOn[u] = NoBlock
    BY <1>3, <1>7, <2>1 DEF NoBlock, NoMutex
  <2>2. CASE blockedOn[u] # NoBlock
    <3>1. PICK k \in LockNames : mutexOf[k] > 0 /\ blockedOn[u] = [lock |-> k, id |-> mutexOf[k]]
      BY <2>2 DEF TableInv, BlockedExact
    <3>2. mutexOf[k] = id /\ blockedOn[u].lock = k
      BY <1>7, <3>1
    <3>3. k = l
      BY <1>1, <3>1, <3>2 DEF TableInv, TableOwned
    <3>4. QED
      BY <1>3, <3>2, <3>3
  <2>3. QED
    BY <2>1, <2>2
<1>8. WaitersFor(id) = {}
  BY <1>7 DEF WaitersFor
<1>9. BlockedExact' /\ \A i : WaitersFor(i)' = WaitersFor(i)
  BY <1>3, <1>6, <1>8, WaitersKept
<1>10. TableInv'
  BY <1>5, <1>6, <1>9, PutInv
<1>11. HoldOf(q) = HeldNow[l]
  BY <1>1, <1>3, <1>5, HeldIsHold DEF HoldOf, MutexFor
<1>12. QED
  BY <1>6, <1>10, <1>11, HeldKept DEF AbstractStep

LEMMA ScheduledStep ==
  ASSUME TableInv, NEW t \in Thread, LockScheduled(t)
  PROVE  TableInv' /\ AbstractStep
<1>1. PICK l \in LockNames : mutexOf[l] > 0 /\ blockedOn[t] = [lock |-> l, id |-> mutexOf[l]]
  BY DEF TableInv, BlockedExact, LockScheduled, ThreadRuns
<1>2. PICK id : id = mutexOf[l]
  OBVIOUS
<1>3. PICK mx : mx = mutexes[id]
  OBVIOUS
<1>4. blockedOn[t] = [lock |-> l, id |-> id] /\ blockedOn[t].id = id
  BY <1>1, <1>2
<1>5. /\ id \in 1 .. MaxIds /\ Sane(mx) /\ mx.live /\ MutexFor(l) = mx
      /\ mx.waiting_count = Cardinality(WaitersFor(id))
      /\ mutexOf = [mutexOf EXCEPT ![l] = id]
  BY <1>1, <1>2, <1>3, OldId
<1>6. PICK r : r = Relocked(mx, t)
  OBVIOUS
<1>7. /\ mx.owner = NoThread /\ mutexes' = [mutexes EXCEPT ![id] = r]
      /\ blockedOn' = [blockedOn EXCEPT ![t] = NoBlock]
      /\ mutexOf' = mutexOf /\ mutex_count' = mutex_count
  BY <1>3, <1>4, <1>5, <1>6 DEF LockScheduled, IsLocked
<1>8. /\ Sane(r) /\ r.live /\ r.type = mx.type /\ r.owner = t /\ r.count + r.phantom[t] = 1
      /\ r.waiting_count = IF mx.waiting_count > 0 THEN mx.waiting_count - 1 ELSE mx.waiting_count
  BY <1>5, <1>6, <1>7, RelockedSane
<1>9. Put(l, id, r)
  BY <1>2, <1>5, <1>7, <1>8 DEF Put
<1>10. /\ BlockedExact'
       /\ WaitersFor(id)' = WaitersFor(id) \ {t} /\ t \in WaitersFor(id)
       /\ \A i : i \notin {0, id} => WaitersFor(i)' = WaitersFor(i)
  BY <1>1, <1>2, <1>4, <1>7, <1>8, <1>9, WaitersLeft
<1>11. Cardinality(WaitersFor(id)') = Cardinality(WaitersFor(id)) - 1
  BY <1>10, WaitersFinite, FS_RemoveElement
<1>12. Cardinality(WaitersFor(id)) > 0
  <2>1. WaitersFor(id) # {}
    BY <1>10
  <2>2. QED
    BY <2>1, WaitersFinite, FS_EmptySet
<1>13. r.waiting_count = Cardinality(WaitersFor(id)')
  BY <1>5, <1>8, <1>11, <1>12
<1>14. l \in SyncObjects => r.type = "RECURSIVE"
  BY <1>1, <1>5, <1>8 DEF TableInv, SyncUsed
<1>15. TableInv'
  BY <1>8, <1>9, <1>10, <1>13, <1>14, NoThreadIsNone, PutInv
<1>16. HeldNow[l] = [by |-> NoThread, depth |-> 0]
  BY <1>1, <1>2, <1>3, <1>7, HeldIsHold DEF HoldOf
<1>17. HeldNow' = [HeldNow EXCEPT ![l] = [by |-> t, depth |-> 1]]
  BY <1>8, <1>9, NoThreadIsNone, PutHeld DEF HoldOf
<1>18. QED
  BY <1>15, <1>16, <1>17, Acquired DEF AbstractStep
-----------------------------------------------------------------------------
LEMMA TableInit == ObjcLocksInit => TableInv /\ Exclusion!LocksInit
<1> SUFFICES ASSUME ObjcLocksInit PROVE TableInv /\ Exclusion!LocksInit
  OBVIOUS
<1>1. /\ mutexes = [id \in 1 .. MaxIds |-> NoMutexYet] /\ mutex_count = 0
      /\ mutexOf = [l \in LockNames |-> IF l \in RwLocks THEN -1 ELSE 0]
      /\ blockedOn = [t \in Thread |-> NoBlock]
  BY DEF ObjcLocksInit, Static, NoMutex
<1>2. Sane(NoMutexYet) /\ ~NoMutexYet.live
  <2>1. NoMutexYet = Destroyed(FreshMutex("NORMAL"))
    BY DEF NoMutexYet, Destroyed
  <2>2. QED
    BY <2>1, FreshSane, DestroyedSane
<1>3. TableType
  BY <1>1, <1>2, LocksAssumption DEF TableType, Sane
<1>4. TableOwned
  BY <1>1, <1>2 DEF TableOwned
<1>5. BlockedExact
  BY <1>1 DEF BlockedExact
<1>6. WaitingCounted
  BY <1>1, <1>2 DEF WaitingCounted
<1>7. SyncUsed
  <2>1. ASSUME NEW o \in SyncObjects PROVE mutexOf[o] = 0
    BY <1>1, LocksAssumption DEF LockNames
  <2>2. QED
    BY <2>1 DEF SyncUsed
<1>8. Exclusion!LocksInit
  BY <1>1 DEF Exclusion!LocksInit, Exclusion!FreeLock, HeldNow
<1>9. QED
  BY <1>3, <1>4, <1>5, <1>6, <1>7, <1>8 DEF TableInv

LEMMA TableNext == TableInv /\ [ObjcLocksNext]_lockVars => TableInv' /\ AbstractStep
<1> SUFFICES ASSUME TableInv, [ObjcLocksNext]_lockVars PROVE TableInv' /\ AbstractStep
  OBVIOUS
<1>1. CASE UNCHANGED lockVars
  <2>1. UNCHANGED HeldNow
    BY <1>1 DEF lockVars, HeldNow, MutexFor
  <2>2. TableInv'
    BY <1>1 DEF lockVars, TableInv, TableType, TableOwned, BlockedExact, WaitingCounted, SyncUsed,
                MutexFor, WaitersFor
  <2>3. QED
    BY <2>1, <2>2 DEF AbstractStep
<1>2. CASE ObjcLocksNext
  <2>1. PICK t \in Thread :
          \/ \E o \in SyncObjects : objc_sync_enter(t, o) \/ objc_sync_exit(t, o)
          \/ \E l \in LockObjects : NSLock_lock(t, l) \/ NSLock_tryLock(t, l)
          \/ \E l \in RwLocks : rwlock_lock(t, l) \/ rwlock_trylock(t, l)
          \/ \E l \in LockObjects \cup RwLocks : \/ NewLock(t, l)
                                                 \/ UnlockOwn(t, l)
                                                 \/ FreeUnused(t, l)
          \/ LockScheduled(t)
    BY <1>2 DEF ObjcLocksNext
  <2>2. /\ \A o \in SyncObjects : o \in LockNames
        /\ \A l \in LockObjects \cup RwLocks : l \in LockNames /\ l \notin SyncObjects
    BY LocksAssumption DEF LockNames, LockObjects
  <2>3. ASSUME NEW o \in SyncObjects, objc_sync_enter(t, o) PROVE TableInv' /\ AbstractStep
    BY <2>2, <2>3, LockOrRegisterStep DEF objc_sync_enter
  <2>4. ASSUME NEW o \in SyncObjects, objc_sync_exit(t, o) PROVE TableInv' /\ AbstractStep
    BY <2>4, SyncExitStep
  <2>5. ASSUME NEW l \in LockObjects, NSLock_lock(t, l) \/ NSLock_tryLock(t, l)
        PROVE  TableInv' /\ AbstractStep
    BY <2>2, <2>5, LockOldStep DEF NSLock_lock, NSLock_tryLock
  <2>6. ASSUME NEW l \in RwLocks, rwlock_lock(t, l) \/ rwlock_trylock(t, l)
        PROVE  TableInv' /\ AbstractStep
    BY <2>2, <2>6, LockOrRegisterStep DEF rwlock_lock, rwlock_trylock
  <2>7. ASSUME NEW l \in LockObjects \cup RwLocks, NewLock(t, l) PROVE TableInv' /\ AbstractStep
    BY <2>2, <2>7, NewLockStep
  <2>8. ASSUME NEW l \in LockObjects \cup RwLocks, UnlockOwn(t, l) PROVE TableInv' /\ AbstractStep
    BY <2>2, <2>8, UnlockOwnStep
  <2>9. ASSUME NEW l \in LockObjects \cup RwLocks, FreeUnused(t, l) PROVE TableInv' /\ AbstractStep
    BY <2>2, <2>9, FreeStep
  <2>10. CASE LockScheduled(t)
    BY <2>10, ScheduledStep
  <2>11. QED
    BY <2>1, <2>3, <2>4, <2>5, <2>6, <2>7, <2>8, <2>9, <2>10
<1>3. QED
  BY <1>1, <1>2

LEMMA TableExact == TableInv => SyncTableExact
<1> SUFFICES ASSUME TableInv PROVE SyncTableExact
  OBVIOUS
<1>1. ASSUME NEW t \in Thread, ~ThreadRuns(t) PROVE mutexOf[blockedOn[t].lock] = blockedOn[t].id
  <2>1. PICK l \in LockNames : blockedOn[t] = [lock |-> l, id |-> mutexOf[l]]
    BY <1>1 DEF TableInv, BlockedExact, ThreadRuns
  <2>2. QED
    BY <2>1
<1>2. ASSUME NEW o \in SyncObjects, mutexOf[o] # NoMutex PROVE ~Unused(o)
  <2>1. /\ o \in LockNames /\ mutexOf[o] > 0
        /\ MutexFor(o).owner # NoThread \/ WaitersFor(mutexOf[o]) # {}
    BY <1>2 DEF TableInv, TableType, SyncUsed, LockNames, NoMutex
  <2>2. CASE MutexFor(o).owner # NoThread
    BY <2>1, <2>2 DEF Unused
  <2>3. CASE WaitersFor(mutexOf[o]) # {}
    <3>1. PICK t \in Thread : blockedOn[t].id = mutexOf[o]
      BY <2>3 DEF WaitersFor
    <3>2. blockedOn[t] # NoBlock
      BY <2>1, <3>1 DEF NoBlock, NoMutex
    <3>3. PICK l \in LockNames : mutexOf[l] > 0 /\ blockedOn[t] = [lock |-> l, id |-> mutexOf[l]]
      BY <3>2 DEF TableInv, BlockedExact
    <3>4. l = o /\ blockedOn[t].lock = l
      BY <2>1, <3>1, <3>3 DEF TableInv, TableOwned
    <3>5. QED
      BY <3>4 DEF Unused
  <2>4. QED
    BY <2>1, <2>2, <2>3
<1>3. ASSUME NEW id \in 1 .. MaxIds
      PROVE  Cardinality({l \in LockNames : mutexOf[l] = id}) = IF mutexes[id].live THEN 1 ELSE 0
  <2>1. id > 0
    OBVIOUS
  <2>2. CASE mutexes[id].live
    <3>1. PICK l \in LockNames : mutexOf[l] = id
      BY <2>2 DEF TableInv, TableOwned
    <3>2. {k \in LockNames : mutexOf[k] = id} = {l}
      BY <2>1, <3>1 DEF TableInv, TableOwned
    <3>3. QED
      BY <2>2, <3>2, FS_Singleton
  <2>3. CASE ~mutexes[id].live
    <3>1. {k \in LockNames : mutexOf[k] = id} = {}
      BY <2>1, <2>3 DEF TableInv, TableOwned
    <3>2. QED
      BY <2>3, <3>1, FS_EmptySet
  <2>4. QED
    BY <2>2, <2>3
<1>4. QED
  BY <1>1, <1>2, <1>3 DEF SyncTableExact

LEMMA TableInvAlways == ObjcLocksSpec => []TableInv
<1>1. ObjcLocksInit => TableInv
  BY TableInit
<1>2. TableInv /\ [ObjcLocksNext]_lockVars => TableInv'
  BY TableNext
<1>3. QED
  BY <1>1, <1>2, PTL DEF ObjcLocksSpec

(* A thread inside or waiting for @synchronized(o) keeps o's entry and its *)
(* mutex, the last one to leave removes both, and no two locks ever share  *)
(* a mutex, for any number of threads and locks.                           *)
THEOREM SyncTableIsExact == ObjcLocksSpec => []SyncTableExact
  BY TableInvAlways, TableExact, PTL

(* objc_sync_enter and _exit, NSLock, NSRecursiveLock and the rwlock calls *)
(* implement the locks the guest was promised: at most one thread holds    *)
(* each, and only its holder's calls release it, although waiters barge    *)
(* and mutexes are made and destroyed between the calls.                   *)
THEOREM LocksImplemented == ObjcLocksSpec => ImplementsLocks
<1>1. ObjcLocksInit => Exclusion!LocksInit
  BY TableInit
<1>2. TableInv /\ [ObjcLocksNext]_lockVars => [Exclusion!LocksNext]_HeldNow
  BY TableNext DEF AbstractStep
<1>3. QED
  BY <1>1, <1>2, TableInvAlways, PTL DEF ObjcLocksSpec, ImplementsLocks, Exclusion!LocksSpec

-----------------------------------------------------------------------------
(* NSCondition and NSConditionLock *)

(* Queues: what they hold, and that they hold it once. *)

Member(q, x) == \E i \in 1 .. Len(q) : q[i] = x
Once(q) == \A i, j \in 1 .. Len(q) : q[i] = q[j] => i = j

LEMMA EmptyMember ==
  ASSUME NEW S, NEW q \in Seq(S)
  PROVE  /\ q = <<>> <=> \A x \in S : ~Member(q, x)
         /\ q = <<>> => Once(q)
         /\ \A x : Member(q, x) => x \in S
         /\ q = <<>> => \A x : ~Member(q, x)
<1>1. Len(q) \in Nat /\ (q = <<>> <=> Len(q) = 0) /\ \A i \in 1 .. Len(q) : q[i] \in S
  OBVIOUS
<1>2. ASSUME \A x \in S : ~Member(q, x) PROVE Len(q) = 0
  <2>1. CASE 1 \in 1 .. Len(q)
    BY <1>1, <1>2, <2>1 DEF Member
  <2>2. CASE 1 \notin 1 .. Len(q)
    BY <1>1, <2>2
  <2>3. QED
    BY <2>1, <2>2
<1>3. QED
  BY <1>1, <1>2 DEF Member, Once

LEMMA AppendMember ==
  ASSUME NEW S, NEW q \in Seq(S), NEW x \in S
  PROVE  /\ Append(q, x) \in Seq(S)
         /\ \A y : Member(Append(q, x), y) <=> Member(q, y) \/ y = x
         /\ Once(q) /\ ~Member(q, x) => Once(Append(q, x))
<1> DEFINE a == Append(q, x)
<1>1. Len(a) = Len(q) + 1 /\ Len(q) \in Nat /\ a \in Seq(S)
  OBVIOUS
<1>2. a[Len(q) + 1] = x /\ \A i \in 1 .. Len(q) : a[i] = q[i]
  OBVIOUS
<1> HIDE DEF a
<1>3. \A i \in 1 .. Len(a) : i \in 1 .. Len(q) \/ i = Len(q) + 1
  BY <1>1
<1>4. \A y : Member(a, y) <=> Member(q, y) \/ y = x
  BY <1>1, <1>2, <1>3 DEF Member
<1>5. Once(q) /\ ~Member(q, x) => Once(a)
  BY <1>1, <1>2, <1>3 DEF Member, Once
<1>6. QED
  BY <1>1, <1>4, <1>5 DEF a

LEMMA RemovedElements ==
  ASSUME NEW S, NEW q \in Seq(S), NEW k \in 1 .. Len(q)
  PROVE  /\ RemoveAt(q, k) \in Seq(S) /\ Len(RemoveAt(q, k)) = Len(q) - 1
         /\ \A i \in 1 .. Len(q) - 1 :
              RemoveAt(q, k)[i] = IF i < k THEN q[i] ELSE q[i + 1]
<1> DEFINE a == SubSeq(q, 1, k - 1)
           b == SubSeq(q, k + 1, Len(q))
<1>1. Len(q) \in Nat /\ k \in 1 .. Len(q)
  OBVIOUS
<1>2. /\ a \in Seq(S) /\ Len(a) = k - 1
      /\ \A i \in 1 .. k - 1 : a[i] = q[i]
  BY <1>1
<1>3. /\ b \in Seq(S) /\ Len(b) = Len(q) - k
      /\ \A i \in 1 .. Len(q) - k : b[i] = q[k + i]
  BY <1>1
<1>4. RemoveAt(q, k) = a \o b
  BY DEF RemoveAt
<1> HIDE DEF a, b
<1>5. a \o b \in Seq(S) /\ Len(a \o b) = Len(q) - 1
  <2>1. a \in Seq(S) /\ b \in Seq(S)
    BY <1>2, <1>3
  <2>2. a \o b \in Seq(S) /\ Len(a \o b) = Len(a) + Len(b)
    BY <2>1
  <2>3. QED
    BY <1>1, <1>2, <1>3, <2>2
<1>6. ASSUME NEW i \in 1 .. Len(q) - 1
      PROVE  (a \o b)[i] = IF i < k THEN q[i] ELSE q[i + 1]
  <2>1. CASE i < k
    BY <1>1, <1>2, <1>3, <2>1
  <2>2. CASE ~(i < k)
    <3>1. i - (k - 1) \in 1 .. Len(q) - k /\ k + (i - (k - 1)) = i + 1 /\ i > Len(a)
      BY <1>1, <1>2, <2>2
    <3>2. (a \o b)[i] = b[i - Len(a)]
      <4>1. i \in 1 .. Len(a) + Len(b) /\ i \notin 1 .. Len(a)
        BY <1>1, <1>2, <1>3, <3>1
      <4>2. QED
        BY <1>2, <1>3, <4>1
    <3>3. b[i - (k - 1)] = q[k + (i - (k - 1))]
      BY <1>3, <3>1
    <3>4. QED
      BY <1>2, <2>2, <3>1, <3>2, <3>3
  <2>3. QED
    BY <2>1, <2>2
<1>7. QED
  BY <1>4, <1>5, <1>6

LEMMA RemovedMember ==
  ASSUME NEW S, NEW q \in Seq(S), NEW k \in 1 .. Len(q), Once(q)
  PROVE  /\ RemoveAt(q, k) \in Seq(S) /\ Once(RemoveAt(q, k))
         /\ \A y : Member(RemoveAt(q, k), y) <=> Member(q, y) /\ y # q[k]
<1>1. PICK r : r = RemoveAt(q, k)
  OBVIOUS
<1>2. /\ r \in Seq(S) /\ Len(r) = Len(q) - 1 /\ Len(q) \in Nat
      /\ \A i \in 1 .. Len(q) - 1 : r[i] = IF i < k THEN q[i] ELSE q[i + 1]
  BY <1>1, RemovedElements
<1> DEFINE old(i) == IF i < k THEN i ELSE i + 1
<1>3. \A i \in 1 .. Len(r) : old(i) \in 1 .. Len(q) /\ r[i] = q[old(i)] /\ old(i) # k
  BY <1>2
<1>4. \A i, j \in 1 .. Len(r) : old(i) = old(j) => i = j
  BY <1>2
<1>5. Once(r)
  BY <1>3, <1>4 DEF Once
<1>6. ASSUME NEW y, Member(r, y) PROVE Member(q, y) /\ y # q[k]
  <2>1. PICK i \in 1 .. Len(r) : r[i] = y
    BY <1>6 DEF Member
  <2>2. old(i) \in 1 .. Len(q) /\ q[old(i)] = y /\ old(i) # k
    BY <1>3, <2>1
  <2>3. QED
    BY <2>2 DEF Member, Once
<1>7. ASSUME NEW y, Member(q, y), y # q[k] PROVE Member(r, y)
  <2>1. PICK i \in 1 .. Len(q) : q[i] = y
    BY <1>7 DEF Member
  <2>2. CASE i < k
    BY <1>2, <2>1, <2>2 DEF Member
  <2>3. CASE ~(i < k)
    <3>1. i > k
      BY <1>2, <1>7, <2>1, <2>3
    <3>2. i - 1 \in 1 .. Len(r) /\ ~(i - 1 < k) /\ (i - 1) + 1 = i
      BY <1>2, <3>1
    <3>3. r[i - 1] = q[(i - 1) + 1]
      BY <1>2, <3>2
    <3>4. r[i - 1] = y
      BY <2>1, <3>2, <3>3
    <3>5. QED
      BY <3>2, <3>4 DEF Member
  <2>4. QED
    BY <2>2, <2>3
<1>8. QED
  BY <1>1, <1>2, <1>5, <1>6, <1>7

LEMMA TailMember ==
  ASSUME NEW S, NEW q \in Seq(S), q # <<>>, Once(q)
  PROVE  /\ Tail(q) \in Seq(S) /\ Once(Tail(q)) /\ Head(q) \in S /\ Member(q, Head(q))
         /\ \A y : Member(Tail(q), y) <=> Member(q, y) /\ y # Head(q)
<1> DEFINE r == Tail(q)
<1>1. r \in Seq(S) /\ Head(q) \in S /\ Len(q) \in Nat /\ Len(q) # 0
  OBVIOUS
<1>2. Len(r) = Len(q) - 1 /\ Head(q) = q[1]
  BY <1>1
<1>3. \A i \in 1 .. Len(q) - 1 : r[i] = q[i + 1]
  BY <1>1
<1> HIDE DEF r
<1>4. \A i \in 1 .. Len(r) : i + 1 \in 1 .. Len(q) /\ r[i] = q[i + 1]
  BY <1>1, <1>2, <1>3
<1>5. Once(r)
  <2>1. ASSUME NEW i \in 1 .. Len(r), NEW j \in 1 .. Len(r), r[i] = r[j] PROVE i = j
    <3>1. i + 1 = j + 1
      BY <1>4, <2>1 DEF Once
    <3>2. QED
      BY <1>2, <3>1
  <2>2. QED
    BY <2>1 DEF Once
<1>6. ASSUME NEW y, Member(r, y) PROVE Member(q, y) /\ y # Head(q)
  <2>1. PICK i \in 1 .. Len(r) : r[i] = y
    BY <1>6 DEF Member
  <2>2. i + 1 \in 1 .. Len(q) /\ 1 \in 1 .. Len(q) /\ q[i + 1] = y /\ i + 1 # 1
    BY <1>1, <1>4, <2>1
  <2>3. QED
    BY <1>2, <2>2 DEF Member, Once
<1>7. ASSUME NEW y, Member(q, y), y # Head(q) PROVE Member(r, y)
  <2>1. PICK i \in 1 .. Len(q) : q[i] = y
    BY <1>7 DEF Member
  <2>2. i # 1
    BY <1>2, <1>7, <2>1
  <2>3. i - 1 \in 1 .. Len(r) /\ (i - 1) + 1 = i
    BY <1>1, <1>2, <2>1, <2>2
  <2>4. r[i - 1] = q[(i - 1) + 1]
    BY <1>4, <2>3
  <2>5. QED
    BY <2>1, <2>3, <2>4 DEF Member
<1>8. Member(q, Head(q))
  BY <1>1, <1>2 DEF Member
<1>9. QED
  BY <1>1, <1>5, <1>6, <1>7, <1>8 DEF r

(* A queue has a first place of any kind it has a place of. *)
LEMMA FirstExists ==
  ASSUME NEW places \in SUBSET Nat
  PROVE  /\ places # {} => \E i : FirstIn(places) = {i} /\ i \in places
         /\ places = {} => FirstIn(places) = {}
<1>1. ASSUME places # {} PROVE \E i \in places : \A j \in places : ~(<<j, i>> \in OpToRel(<, Nat))
  BY <1>1, WFMin, NatLessThanWellFounded
<1>2. ASSUME NEW i \in Nat, NEW j \in Nat, j < i PROVE <<j, i>> \in OpToRel(<, Nat)
  BY <1>2 DEF OpToRel
<1>3. ASSUME places # {} PROVE \E i \in places : \A j \in places : ~(j < i)
  BY <1>1, <1>2, <1>3
<1>4. ASSUME NEW i \in places, \A j \in places : ~(j < i)
      PROVE  FirstIn(places) = {i}
  <2>1. \A j \in places : i <= j
    BY <1>4
  <2>2. ASSUME NEW x \in places, \A j \in places : x <= j PROVE x = i
    <3>1. x <= i /\ i <= x /\ x \in Nat /\ i \in Nat
      BY <2>1, <2>2
    <3>2. QED
      BY <3>1
  <2>3. i \in FirstIn(places) /\ \A x \in FirstIn(places) : x = i
    BY <2>1, <2>2 DEF FirstIn
  <2>4. QED
    BY <2>3
<1>5. places # {} => \E i : FirstIn(places) = {i} /\ i \in places
  BY <1>3, <1>4
<1>6. QED
  BY <1>5 DEF FirstIn
(* position() and remove() of the thread t, in a queue that holds it once. *)
LEMMA LeftMember ==
  ASSUME NEW S, NEW q \in Seq(S), NEW t \in S, NEW places \in SUBSET DOMAIN q, Once(q),
         places = {i \in DOMAIN q : q[i] = t}
  PROVE  /\ WithoutPlaces(q, FirstIn(places)) \in Seq(S)
         /\ Once(WithoutPlaces(q, FirstIn(places)))
         /\ \A y : Member(WithoutPlaces(q, FirstIn(places)), y) <=> Member(q, y) /\ y # t
<1> DEFINE r == WithoutPlaces(q, FirstIn(places))
<1>1. DOMAIN q = 1 .. Len(q) /\ Len(q) \in Nat /\ places \in SUBSET Nat
  OBVIOUS
<1>2. CASE places = {}
  <2>1. r = q
    BY <1>1, <1>2, FirstExists DEF WithoutPlaces
  <2>2. ~Member(q, t)
    BY <1>1, <1>2 DEF Member
  <2>3. QED
    BY <2>1, <2>2
<1>3. CASE places # {}
  <2>1. PICK k : FirstIn(places) = {k} /\ k \in places
    BY <1>1, <1>3, FirstExists
  <2>2. k \in 1 .. Len(q) /\ q[k] = t
    BY <1>1, <2>1
  <2>3. r = RemoveAt(q, k)
    BY <2>1 DEF WithoutPlaces
  <2> HIDE DEF r
  <2>4. /\ r \in Seq(S) /\ Once(r)
        /\ \A y : Member(r, y) <=> Member(q, y) /\ y # t
    BY <2>2, <2>3, RemovedMember
  <2>5. QED
    BY <2>4 DEF r
<1>4. QED
  BY <1>2, <1>3

LEMMA LeftPairs ==
  ASSUME NEW A, NEW B, NEW q \in Seq(A \X B), Once(q), NEW t,
         \A c, d : Member(q, <<t, c>>) /\ Member(q, <<t, d>>) => c = d
  PROVE  LET r == WithoutPlaces(q, FirstIn({i \in DOMAIN q : q[i][1] = t})) IN
         /\ r \in Seq(A \X B) /\ Once(r)
         /\ \A u, c : Member(r, <<u, c>>) <=> Member(q, <<u, c>>) /\ u # t
<1> DEFINE places == {i \in DOMAIN q : q[i][1] = t}
           r == WithoutPlaces(q, FirstIn(places))
<1>1. DOMAIN q = 1 .. Len(q) /\ Len(q) \in Nat /\ places \in SUBSET Nat
  OBVIOUS
<1>2. CASE places = {}
  <2>1. r = q
    BY <1>1, <1>2, FirstExists DEF WithoutPlaces
  <2>2. ASSUME NEW c, Member(q, <<t, c>>) PROVE FALSE
    <3>1. PICK i \in 1 .. Len(q) : q[i] = <<t, c>>
      BY <2>2 DEF Member
    <3>2. q[i][1] = t
      BY <3>1
    <3>3. QED
      BY <1>1, <1>2, <3>2
  <2>3. QED
    BY <2>1, <2>2
<1>3. CASE places # {}
  <2>1. PICK k : FirstIn(places) = {k} /\ k \in places
    BY <1>1, <1>3, FirstExists
  <2>2. k \in 1 .. Len(q) /\ q[k][1] = t
    BY <1>1, <2>1
  <2>3. r = RemoveAt(q, k)
    BY <2>1 DEF WithoutPlaces
  <2> HIDE DEF r
  <2>4. PICK c : q[k] = <<t, c>>
    <3>1. q[k] \in A \X B
      BY <2>2
    <3>2. q[k] = <<q[k][1], q[k][2]>>
      BY <3>1
    <3>3. QED
      BY <2>2, <3>2
  <2>5. Member(q, <<t, c>>)
    BY <2>2, <2>4 DEF Member
  <2>6. /\ r \in Seq(A \X B) /\ Once(r)
        /\ \A y : Member(r, y) <=> Member(q, y) /\ y # <<t, c>>
    BY <2>2, <2>3, <2>4, RemovedMember
  <2>7. ASSUME NEW u, NEW d
        PROVE  Member(r, <<u, d>>) <=> Member(q, <<u, d>>) /\ u # t
    <3>1. Member(r, <<u, d>>) <=> Member(q, <<u, d>>) /\ <<u, d>> # <<t, c>>
      BY <2>6
    <3>2. u # t => <<u, d>> # <<t, c>>
      OBVIOUS
    <3>3. ASSUME u = t, Member(q, <<u, d>>) PROVE <<u, d>> = <<t, c>>
      BY <2>5, <3>3
    <3>4. QED
      BY <3>1, <3>2, <3>3
  <2>8. QED
    BY <2>6, <2>7 DEF r
<1>4. QED
  BY <1>2, <1>3

-----------------------------------------------------------------------------
(* NSCondition and NSConditionLock: who holds the locks. *)

HoldersOf(class) == {t \in CondThreads : class \in holder[t]}

HoldersInv ==
  /\ DOMAIN holder = CondThreads
  /\ locked \in BOOLEAN /\ lock.locked \in BOOLEAN
  /\ DOMAIN lock = {"locked", "condition", "waiting"}
  /\ IF locked THEN \E t : HoldersOf("NSCondition") = {t} ELSE HoldersOf("NSCondition") = {}
  /\ IF lock.locked THEN \E t : HoldersOf("NSConditionLock") = {t}
     ELSE HoldersOf("NSConditionLock") = {}

LEMMA HoldersInit == CondInit => HoldersInv
<1> SUFFICES ASSUME CondInit PROVE HoldersInv
  OBVIOUS
<1>1. lock.locked = FALSE /\ DOMAIN lock = {"locked", "condition", "waiting"}
  BY DEF CondInit
<1>2. \A c : HoldersOf(c) = {}
  BY DEF CondInit, HoldersOf
<1>3. QED
  BY <1>1, <1>2 DEF CondInit, HoldersInv

(* t is given or gives up the lock of one class. *)
LEMMA HolderGiven ==
  ASSUME DOMAIN holder = CondThreads, NEW t \in CondThreads, NEW class,
         holder' = [holder EXCEPT ![t] = @ \cup {class}]
  PROVE  /\ HoldersOf(class)' = HoldersOf(class) \cup {t} /\ DOMAIN holder' = CondThreads
         /\ \A c : c # class => HoldersOf(c)' = HoldersOf(c)
<1>1. \A u \in CondThreads : holder'[u] = IF u = t THEN holder[t] \cup {class} ELSE holder[u]
  OBVIOUS
<1>2. QED
  BY <1>1 DEF HoldersOf

LEMMA HolderTaken ==
  ASSUME DOMAIN holder = CondThreads, NEW t \in CondThreads, NEW class,
         holder' = [holder EXCEPT ![t] = @ \ {class}]
  PROVE  /\ HoldersOf(class)' = HoldersOf(class) \ {t} /\ DOMAIN holder' = CondThreads
         /\ \A c : c # class => HoldersOf(c)' = HoldersOf(c)
<1>1. \A u \in CondThreads : holder'[u] = IF u = t THEN holder[t] \ {class} ELSE holder[u]
  OBVIOUS
<1>2. QED
  BY <1>1 DEF HoldersOf

LEMMA HoldersKept ==
  ASSUME HoldersInv, UNCHANGED <<holder, locked>>, lock'.locked = lock.locked,
         DOMAIN lock' = DOMAIN lock
  PROVE  HoldersInv'
  BY DEF HoldersInv, HoldersOf

LEMMA LockRoundHolders ==
  ASSUME HoldersInv, NEW t \in CondThreads, LockRound(t), lock' = lock
  PROVE  HoldersInv'
<1>1. CASE locked
  BY <1>1, HoldersKept DEF LockRound, HoldersInv
<1>2. CASE ~locked
  <2>1. /\ holder' = [holder EXCEPT ![t] = @ \cup {"NSCondition"}] /\ locked' = TRUE
        /\ DOMAIN holder = CondThreads /\ HoldersOf("NSCondition") = {}
    BY <1>2 DEF LockRound, HoldersInv
  <2>2. /\ HoldersOf("NSCondition")' = HoldersOf("NSCondition") \cup {t}
        /\ HoldersOf("NSConditionLock")' = HoldersOf("NSConditionLock")
        /\ DOMAIN holder' = CondThreads
    BY <2>1, HolderGiven
  <2>3. HoldersOf("NSCondition")' = {t}
    BY <2>1, <2>2
  <2>4. QED
    BY <2>1, <2>2, <2>3 DEF HoldersInv
<1>3. QED
  BY <1>1, <1>2

LEMMA GiveUpHolders ==
  ASSUME HoldersInv, NEW t \in CondThreads, "NSCondition" \in holder[t], NEW blocks,
         GiveUp(t, blocks), lock' = lock
  PROVE  HoldersInv'
<1>1. /\ holder' = [holder EXCEPT ![t] = @ \ {"NSCondition"}] /\ locked' = FALSE
      /\ DOMAIN holder = CondThreads
  BY DEF GiveUp, HoldersInv
<1>2. HoldersOf("NSCondition") = {t}
  <2>1. t \in HoldersOf("NSCondition")
    BY DEF HoldersOf
  <2>2. QED
    BY <2>1 DEF HoldersInv
<1>3. /\ HoldersOf("NSCondition")' = HoldersOf("NSCondition") \ {t}
      /\ HoldersOf("NSConditionLock")' = HoldersOf("NSConditionLock")
      /\ DOMAIN holder' = CondThreads
  <2>1. "NSConditionLock" # "NSCondition"
    OBVIOUS
  <2>2. QED
    BY <1>1, <2>1, HolderTaken, Zenon
<1>4. HoldersOf("NSCondition")' = {}
  BY <1>2, <1>3
<1>5. QED
  BY <1>1, <1>3, <1>4 DEF HoldersInv

LEMMA TakeHolders ==
  ASSUME HoldersInv, NEW t \in CondThreads, NEW cond, Takes(cond), locked' = locked,
         lock'.locked = TRUE, DOMAIN lock' = DOMAIN lock,
         holder' = [holder EXCEPT ![t] = @ \cup {"NSConditionLock"}]
  PROVE  HoldersInv'
<1>1. DOMAIN holder = CondThreads /\ HoldersOf("NSConditionLock") = {}
  BY DEF Takes, HoldersInv
<1>2. /\ HoldersOf("NSConditionLock")' = HoldersOf("NSConditionLock") \cup {t}
      /\ HoldersOf("NSCondition")' = HoldersOf("NSCondition")
      /\ DOMAIN holder' = CondThreads
  BY <1>1, HolderGiven
<1>3. HoldersOf("NSConditionLock")' = {t}
  BY <1>1, <1>2
<1>4. QED
  BY <1>2, <1>3 DEF HoldersInv

LEMMA HoldersNext == HoldersInv /\ [CondNext]_condVars => HoldersInv'
<1> SUFFICES ASSUME HoldersInv, [CondNext]_condVars PROVE HoldersInv'
  OBVIOUS
<1>1. CASE UNCHANGED condVars
  BY <1>1, HoldersKept DEF condVars
<1>2. ASSUME NEW t \in CondThreads,
             Condition_lock(t) \/ Condition_resumes(t) \/ Condition_wakes(t)
      PROVE  HoldersInv'
  BY <1>2, LockRoundHolders DEF Condition_lock, Condition_resumes, Condition_wakes, Keeps
<1>3. ASSUME NEW t \in CondThreads,
             Condition_unlock(t) \/ Condition_wait(t) \/ Condition_waitUntilDate(t)
      PROVE  HoldersInv'
  BY <1>3, GiveUpHolders DEF Condition_unlock, Condition_wait, Condition_waitUntilDate, Keeps
<1>4. ASSUME NEW t \in CondThreads, Condition_signal(t) \/ Condition_broadcast(t) \/ SleepEnds(t)
      PROVE  HoldersInv'
  BY <1>4, HoldersKept DEF Condition_signal, Condition_broadcast, SleepEnds, Keeps
<1>5. ASSUME NEW t \in CondThreads, NEW cond, Takes(cond), Take(t), KeepsCondition
      PROVE  HoldersInv'
  <2>1. lock'.locked = TRUE /\ DOMAIN lock' = DOMAIN lock
    BY <1>5 DEF Take, HoldersInv
  <2>2. QED
    BY <1>5, <2>1, TakeHolders DEF Take, KeepsCondition
<1>6. ASSUME NEW t \in CondThreads, NEW cond, Lock_lockWhenCondition(t, cond) PROVE HoldersInv'
  <2>1. CASE Takes(cond)
    BY <1>5, <1>6, <2>1 DEF Lock_lockWhenCondition
  <2>2. CASE ~Takes(cond)
    <3>1. /\ Queue(t, "lockWhenCondition", cond, SelfSuspended) /\ KeepsCondition
      BY <1>6, <2>2 DEF Lock_lockWhenCondition
    <3>2. lock'.locked = lock.locked /\ DOMAIN lock' = DOMAIN lock
      BY <3>1 DEF Queue, HoldersInv
    <3>3. QED
      BY <3>1, <3>2, HoldersKept DEF Queue, KeepsCondition
  <2>3. QED
    BY <2>1, <2>2
<1>7. ASSUME NEW t \in CondThreads, NEW cond, Lock_tryLock(t, cond) PROVE HoldersInv'
  BY <1>5, <1>7 DEF Lock_tryLock
<1>8. ASSUME NEW t \in CondThreads, NEW cond, Lock_lockBeforeDate(t, cond) PROVE HoldersInv'
  <2>1. PICK left :
          \/ /\ Takes(cond)
             /\ lock' = [lock EXCEPT !.locked = TRUE, !.waiting = left]
             /\ holder' = [holder EXCEPT ![t] = @ \cup {"NSConditionLock"}]
          \/ lock' = [lock EXCEPT !.waiting = left] /\ UNCHANGED holder
    BY <1>8 DEF Lock_lockBeforeDate
  <2>2. locked' = locked
    BY <1>8 DEF Lock_lockBeforeDate, KeepsCondition
  <2>3. CASE /\ Takes(cond)
             /\ lock' = [lock EXCEPT !.locked = TRUE, !.waiting = left]
             /\ holder' = [holder EXCEPT ![t] = @ \cup {"NSConditionLock"}]
    <3>1. lock'.locked = TRUE /\ DOMAIN lock' = DOMAIN lock
      BY <2>3 DEF HoldersInv
    <3>2. QED
      BY <2>2, <2>3, <3>1, TakeHolders
  <2>4. CASE lock' = [lock EXCEPT !.waiting = left] /\ UNCHANGED holder
    <3>1. lock'.locked = lock.locked /\ DOMAIN lock' = DOMAIN lock
      BY <2>4 DEF HoldersInv
    <3>2. QED
      BY <2>2, <2>4, <3>1, HoldersKept
  <2>5. QED
    BY <2>1, <2>3, <2>4
<1>9. ASSUME NEW t \in CondThreads, NEW cond, Lock_unlockWithCondition(t, cond) PROVE HoldersInv'
  <2>1. /\ holder' = [holder EXCEPT ![t] = @ \ {"NSConditionLock"}] /\ locked' = locked
        /\ DOMAIN holder = CondThreads /\ "NSConditionLock" \in holder[t]
    BY <1>9 DEF Lock_unlockWithCondition, KeepsCondition, HoldersInv
  <2>2. lock'.locked = FALSE /\ DOMAIN lock' = {"locked", "condition", "waiting"}
    BY <1>9 DEF Lock_unlockWithCondition
  <2>3. t \in HoldersOf("NSConditionLock")
    BY <2>1 DEF HoldersOf
  <2>4. HoldersOf("NSConditionLock") = {t}
    BY <2>3 DEF HoldersInv
  <2>5. /\ HoldersOf("NSConditionLock")' = HoldersOf("NSConditionLock") \ {t}
        /\ HoldersOf("NSCondition")' = HoldersOf("NSCondition")
        /\ DOMAIN holder' = CondThreads
    <3>1. "NSConditionLock" # "NSCondition"
      OBVIOUS
    <3>2. QED
      BY <2>1, <3>1, HolderTaken, Zenon
  <2>6. HoldersOf("NSConditionLock")' = {}
    BY <2>4, <2>5
  <2>7. QED
    BY <2>1, <2>2, <2>5, <2>6 DEF HoldersInv
<1>10. QED
  BY <1>1, <1>2, <1>3, <1>4, <1>6, <1>7, <1>8, <1>9 DEF CondNext

(* -lock, -wait and -waitUntilDate: of one NSCondition and the calls of one *)
(* NSConditionLock never give a lock to a second thread, whichever of the  *)
(* woken threads and the newcomers is first, for any number of threads.    *)
THEOREM ConditionLocksExclusive == CondSpec => []ConditionExclusive
<1>1. CondInit => HoldersInv
  BY HoldersInit
<1>2. HoldersInv /\ [CondNext]_condVars => HoldersInv'
  BY HoldersNext
<1>3. HoldersInv => ConditionExclusive
  <2> SUFFICES ASSUME HoldersInv PROVE ConditionExclusive
    OBVIOUS
  <2>1. Cardinality(HoldersOf("NSCondition")) = IF locked THEN 1 ELSE 0
    BY FS_Singleton, FS_EmptySet DEF HoldersInv
  <2>2. Cardinality(HoldersOf("NSConditionLock")) = IF lock.locked THEN 1 ELSE 0
    BY FS_Singleton, FS_EmptySet DEF HoldersInv
  <2>3. QED
    BY <2>1, <2>2 DEF ConditionExclusive, HoldersOf
<1>4. QED
  BY <1>1, <1>2, <1>3, PTL DEF CondSpec
-----------------------------------------------------------------------------
(* NSCondition and NSConditionLock: who waits where. *)

Fns == {"none", "lock", "wait", "waitUntilDate", "lockWhenCondition", "lockBeforeDate"}
Conds == Conditions \cup {AnyCond}

CondTypes ==
  /\ block \in [CondThreads -> {Awake, SelfSuspended, Sleeping}]
  /\ at \in [CondThreads -> [fn : Fns, cond : Conds]]
  /\ lock_waiting_threads \in Seq(CondThreads)
  /\ waiting_threads \in Seq(CondThreads)
  /\ lock \in [locked : BOOLEAN, condition : Conditions, waiting : Seq(CondThreads \X Conds)]

(* A thread's place in the queues, by the call f it is in and its block b. *)
(* Only a thread that sleeps may wake up while it is queued.               *)
Fits(b, f, inLock, inWait, inCond) ==
  /\ inLock <=> f = "lock" /\ b # Awake
  /\ inWait => f \in {"wait", "waitUntilDate"}
  /\ f = "wait" => (inWait <=> b # Awake)
  /\ f = "waitUntilDate" /\ b # Awake => inWait
  /\ inCond => f \in {"lockWhenCondition", "lockBeforeDate"}
  /\ f = "lockWhenCondition" => (inCond <=> b # Awake)
  /\ f = "lockBeforeDate" /\ b # Awake => inCond
  /\ f = "none" => b = Awake
  /\ b = Sleeping => f \in {"waitUntilDate", "lockBeforeDate"}

Waits(t) == \E c \in Conds : Member(lock.waiting, <<t, c>>)

Placed(t) ==
  Fits(block[t], at[t].fn, Member(lock_waiting_threads, t), Member(waiting_threads, t), Waits(t))

(* An entry of NSConditionLock's queue has the condition its thread waits  *)
(* for.                                                                    *)
Linked ==
  \A t \in CondThreads, c \in Conds : Member(lock.waiting, <<t, c>>) => at[t].cond = c

QueueInv ==
  /\ CondTypes /\ Linked
  /\ Once(lock_waiting_threads) /\ Once(waiting_threads) /\ Once(lock.waiting)
  /\ \A t \in CondThreads : Placed(t)

LEMMA BlocksDiffer == Awake # SelfSuspended /\ Awake # Sleeping /\ SelfSuspended # Sleeping
<1>1. Awake.count = 0 /\ SelfSuspended.count = 1 /\ Sleeping.count = 0
  BY DEF Awake, SelfSuspended, Sleeping
<1>2. Awake.sleeps = FALSE /\ Sleeping.sleeps = TRUE
  BY DEF Awake, Sleeping
<1>3. QED
  BY <1>1, <1>2

LEMMA QueueTypes ==
  ASSUME QueueInv
  PROVE  /\ lock.waiting \in Seq(CondThreads \X Conds) /\ lock.condition \in Conditions
         /\ lock.locked \in BOOLEAN /\ DOMAIN lock = {"locked", "condition", "waiting"}
         /\ \A t \in CondThreads : /\ at[t].fn \in Fns /\ at[t].cond \in Conds
                                   /\ at[t] \in [fn : Fns, cond : Conds]
                                   /\ block[t] \in {Awake, SelfSuspended, Sleeping}
  BY DEF QueueInv, CondTypes

LEMMA QueueInit == CondInit => QueueInv
<1> SUFFICES ASSUME CondInit PROVE QueueInv
  OBVIOUS
<1>1. Idle \in [fn : Fns, cond : Conds] /\ Idle.fn = "none"
  BY DEF Idle, Fns, Conds
<1>2. lock.waiting = <<>> /\ lock \in [locked : BOOLEAN, condition : Conditions,
                                       waiting : Seq(CondThreads \X Conds)]
  <2>1. <<>> \in Seq(CondThreads \X Conds)
    OBVIOUS
  <2>2. QED
    BY <2>1 DEF CondInit
<1>3. CondTypes
  BY <1>1, <1>2 DEF CondInit, CondTypes
<1>4. \A x : ~Member(<<>>, x)
  BY DEF Member
<1>5. Once(<<>>)
  BY DEF Once
<1>6. Linked
  BY <1>2, <1>4 DEF Linked
<1>7. ASSUME NEW t \in CondThreads PROVE Placed(t)
  <2>1. block[t] = Awake /\ at[t].fn = "none"
    BY <1>1 DEF CondInit
  <2>2. ~Waits(t) /\ ~Member(lock_waiting_threads, t) /\ ~Member(waiting_threads, t)
    BY <1>2, <1>4 DEF Waits, CondInit
  <2>3. QED
    BY <2>1, <2>2, BlocksDiffer DEF Placed, Fits
<1>8. QED
  BY <1>2, <1>3, <1>5, <1>6, <1>7 DEF QueueInv, CondInit

(* The call of t moves from fn to another one. *)
LEMMA AtChanges ==
  ASSUME QueueInv, NEW t \in CondThreads, NEW fn \in Fns, NEW cond \in Conds,
         at' = [at EXCEPT ![t] = At(fn, cond)]
  PROVE  /\ at' \in [CondThreads -> [fn : Fns, cond : Conds]]
         /\ at'[t].fn = fn /\ at'[t].cond = cond
         /\ \A u \in CondThreads : u # t => at'[u] = at[u]
<1>1. At(fn, cond) \in [fn : Fns, cond : Conds] /\ At(fn, cond).fn = fn /\ At(fn, cond).cond = cond
  BY DEF At
<1>2. at \in [CondThreads -> [fn : Fns, cond : Conds]]
  BY DEF QueueInv, CondTypes
<1>3. QED
  BY <1>1, <1>2

LEMMA IdleIsAt == Idle = At("none", AnyCond) /\ AnyCond \in Conds
  BY DEF Idle, At, Conds

(* -lock and the end of -wait and -waitUntilDate: *)
LEMMA LockRoundQueues ==
  ASSUME QueueInv, NEW t \in CondThreads, Runs(t),
         at[t].fn \in {"none", "lock", "wait", "waitUntilDate"},
         LockRound(t), lock' = lock,
         waiting_threads' \in Seq(CondThreads), Once(waiting_threads'),
         \A u \in CondThreads : Member(waiting_threads', u) <=> Member(waiting_threads, u) /\ u # t
  PROVE  QueueInv'
<1>1. Fits(Awake, at[t].fn, Member(lock_waiting_threads, t), Member(waiting_threads, t), Waits(t))
  BY DEF QueueInv, Placed, Runs
<1>2. ~Member(lock_waiting_threads, t) /\ ~Waits(t)
  BY <1>1 DEF Fits
<1>3. Linked'
  <2>1. ASSUME NEW u \in CondThreads, NEW c \in Conds, Member(lock.waiting, <<u, c>>)
        PROVE  at'[u].cond = c
    <3>1. u # t
      BY <1>2, <2>1 DEF Waits
    <3>2. at'[u] = at[u]
      BY <3>1 DEF LockRound, QueueInv, CondTypes
    <3>3. QED
      BY <2>1, <3>2 DEF QueueInv, Linked
  <2>2. QED
    BY <2>1 DEF Linked
<1>4. Waits(t)' <=> Waits(t)
  BY DEF Waits
<1>5. CASE ~locked
  <2>1. at' = [at EXCEPT ![t] = At("none", AnyCond)] /\ UNCHANGED <<block, lock_waiting_threads>>
    BY <1>5, IdleIsAt DEF LockRound
  <2>2. /\ at' \in [CondThreads -> [fn : Fns, cond : Conds]]
        /\ at'[t].fn = "none" /\ \A u \in CondThreads : u # t => at'[u] = at[u]
    BY <2>1, AtChanges, IdleIsAt DEF Fns
  <2>3. CondTypes'
    BY <2>1, <2>2 DEF QueueInv, CondTypes
  <2>4. ASSUME NEW u \in CondThreads PROVE Placed(u)'
    <3>1. Waits(u)' <=> Waits(u)
      BY DEF Waits
    <3>2. CASE u = t
      <4>1. Fits(Awake, "none", FALSE, FALSE, FALSE)
        BY BlocksDiffer DEF Fits
      <4>2. QED
        BY <1>2, <2>1, <2>2, <3>1, <3>2, BlocksDiffer DEF Placed, Fits, Runs
    <3>3. CASE u # t
      BY <2>1, <2>2, <3>1, <3>3 DEF QueueInv, Placed, Fits
    <3>4. QED
      BY <3>2, <3>3
  <2>5. QED
    BY <1>3, <2>1, <2>3, <2>4 DEF QueueInv
<1>6. CASE locked
  <2>1. /\ at' = [at EXCEPT ![t] = At("lock", AnyCond)]
        /\ block' = [block EXCEPT ![t] = SelfSuspended]
        /\ lock_waiting_threads' = Append(lock_waiting_threads, t)
    BY <1>6 DEF LockRound
  <2>2. /\ at' \in [CondThreads -> [fn : Fns, cond : Conds]]
        /\ at'[t].fn = "lock" /\ \A u \in CondThreads : u # t => at'[u] = at[u]
    BY <2>1, AtChanges, IdleIsAt DEF Fns
  <2>3. /\ block' \in [CondThreads -> {Awake, SelfSuspended, Sleeping}]
        /\ block'[t] = SelfSuspended /\ \A u \in CondThreads : u # t => block'[u] = block[u]
    BY <2>1 DEF QueueInv, CondTypes
  <2>4. /\ lock_waiting_threads' \in Seq(CondThreads) /\ Once(lock_waiting_threads')
        /\ \A u : Member(lock_waiting_threads', u) <=> Member(lock_waiting_threads, u) \/ u = t
    BY <1>2, <2>1, AppendMember DEF QueueInv, CondTypes
  <2>5. CondTypes'
    BY <2>2, <2>3, <2>4 DEF QueueInv, CondTypes
  <2>6. ASSUME NEW u \in CondThreads PROVE Placed(u)'
    <3>1. Waits(u)' <=> Waits(u)
      BY DEF Waits
    <3>2. CASE u = t
      BY <1>2, <2>2, <2>3, <2>4, <3>1, <3>2, BlocksDiffer DEF Placed, Fits
    <3>3. CASE u # t
      BY <2>2, <2>3, <2>4, <3>1, <3>3 DEF QueueInv, Placed, Fits
    <3>4. QED
      BY <3>2, <3>3
  <2>7. QED
    BY <1>3, <2>4, <2>5, <2>6 DEF QueueInv
<1>7. QED
  BY <1>5, <1>6

LEMMA RestMember ==
  ASSUME NEW S, NEW q \in Seq(S), Once(q)
  PROVE  /\ RestOf(q) \in Seq(S) /\ Once(RestOf(q))
         /\ \A y \in FirstOf(q) : y \in S /\ Member(q, y)
         /\ \A y : Member(RestOf(q), y) <=> Member(q, y) /\ y \notin FirstOf(q)
<1>1. CASE q = <<>>
  BY <1>1 DEF RestOf, FirstOf
<1>2. CASE q # <<>>
  <2>1. RestOf(q) = Tail(q) /\ FirstOf(q) = {Head(q)}
    BY <1>2 DEF RestOf, FirstOf
  <2>2. /\ Tail(q) \in Seq(S) /\ Once(Tail(q)) /\ Head(q) \in S /\ Member(q, Head(q))
        /\ \A y : Member(Tail(q), y) <=> Member(q, y) /\ y # Head(q)
    BY <1>2, TailMember
  <2>3. QED
    BY <2>1, <2>2
<1>3. QED
  BY <1>1, <1>2

LEMMA WokenBlocks ==
  ASSUME NEW blocks \in [CondThreads -> {Awake, SelfSuspended, Sleeping}], NEW threads
  PROVE  /\ Wake(blocks, threads) \in [CondThreads -> {Awake, SelfSuspended, Sleeping}]
         /\ \A u \in CondThreads :
              Wake(blocks, threads)[u] = IF u \in threads THEN Awake ELSE blocks[u]
  BY DEF Wake

(* -unlock, -wait and -waitUntilDate: t gives up the lock and goes on, or  *)
(* waits in waiting_threads.                                               *)
LEMMA GiveUpQueues ==
  ASSUME QueueInv, NEW t \in CondThreads, Runs(t), at[t].fn = "none",
         NEW fn, NEW b,
         \/ fn = "none" /\ b = Awake /\ waiting_threads' = waiting_threads
         \/ /\ \/ fn = "wait" /\ b = SelfSuspended
               \/ fn = "waitUntilDate" /\ b = Sleeping
            /\ waiting_threads' = Append(waiting_threads, t),
         GiveUp(t, [block EXCEPT ![t] = b]), at' = [at EXCEPT ![t] = At(fn, AnyCond)],
         lock' = lock
  PROVE  QueueInv'
<1> DEFINE LQ == lock_waiting_threads
           WQ == waiting_threads
<1>1. Fits(Awake, "none", Member(LQ, t), Member(WQ, t), Waits(t))
  BY DEF QueueInv, Placed, Runs
<1>2. ~Member(LQ, t) /\ ~Member(WQ, t) /\ ~Waits(t)
  BY <1>1 DEF Fits
<1>3. /\ at' \in [CondThreads -> [fn : Fns, cond : Conds]]
      /\ at'[t].fn = fn /\ \A u \in CondThreads : u # t => at'[u] = at[u]
  <2>1. fn \in Fns
    BY DEF Fns
  <2>2. QED
    BY <2>1, AtChanges, IdleIsAt
<1>4. /\ LQ' \in Seq(CondThreads) /\ Once(LQ')
      /\ \A u \in FirstOf(LQ) : u \in CondThreads /\ Member(LQ, u)
      /\ \A u : Member(LQ', u) <=> Member(LQ, u) /\ u \notin FirstOf(LQ)
  <2>1. LQ' = RestOf(LQ)
    BY DEF GiveUp
  <2>2. LQ \in Seq(CondThreads) /\ Once(LQ)
    BY DEF QueueInv, CondTypes
  <2>3. QED
    BY <2>1, <2>2, RestMember
<1>5. /\ block' \in [CondThreads -> {Awake, SelfSuspended, Sleeping}]
      /\ block'[t] = b
      /\ \A u \in CondThreads : u # t => block'[u] = IF u \in FirstOf(LQ) THEN Awake ELSE block[u]
  <2> DEFINE blocks == [block EXCEPT ![t] = b]
  <2>1. /\ blocks \in [CondThreads -> {Awake, SelfSuspended, Sleeping}]
        /\ blocks[t] = b /\ \A u \in CondThreads : u # t => blocks[u] = block[u]
    BY DEF QueueInv, CondTypes
  <2>2. block' = Wake(blocks, FirstOf(LQ))
    BY DEF GiveUp
  <2> HIDE DEF blocks
  <2>3. QED
    BY <1>2, <1>4, <2>1, <2>2, WokenBlocks
<1>6. /\ WQ' \in Seq(CondThreads) /\ Once(WQ')
      /\ \A u : Member(WQ', u) <=> Member(WQ, u) \/ (u = t /\ fn # "none")
  <2>1. WQ \in Seq(CondThreads) /\ Once(WQ)
    BY DEF QueueInv, CondTypes
  <2>2. CASE fn = "none"
    BY <2>1, <2>2
  <2>3. CASE fn # "none"
    <3>1. WQ' = Append(WQ, t)
      BY <2>3
    <3>2. QED
      BY <1>2, <2>1, <2>3, <3>1, AppendMember
  <2>4. QED
    BY <2>2, <2>3
<1>7. CondTypes'
  BY <1>3, <1>4, <1>5, <1>6 DEF QueueInv, CondTypes
<1>8. Linked'
  <2>1. ASSUME NEW u \in CondThreads, NEW c \in Conds, Member(lock.waiting, <<u, c>>)
        PROVE  at'[u].cond = c
    <3>1. u # t
      BY <1>2, <2>1 DEF Waits
    <3>2. QED
      BY <1>3, <2>1, <3>1 DEF QueueInv, Linked
  <2>2. QED
    BY <2>1 DEF Linked
<1>9. ASSUME NEW u \in CondThreads PROVE Placed(u)'
  <2>1. Waits(u)' <=> Waits(u)
    BY DEF Waits
  <2>2. CASE u = t
    BY <1>2, <1>3, <1>4, <1>5, <1>6, <2>1, <2>2, BlocksDiffer DEF Placed, Fits
  <2>3. CASE u # t /\ u \notin FirstOf(LQ)
    BY <1>3, <1>4, <1>5, <1>6, <2>1, <2>3 DEF QueueInv, Placed, Fits
  <2>4. CASE u # t /\ u \in FirstOf(LQ)
    <3>1. Fits(block[u], at[u].fn, TRUE, Member(WQ, u), Waits(u))
      BY <1>4, <2>4 DEF QueueInv, Placed, Fits
    <3>2. at[u].fn = "lock" /\ ~Member(WQ, u) /\ ~Waits(u)
      BY <3>1 DEF Fits
    <3>3. QED
      BY <1>3, <1>4, <1>5, <1>6, <2>1, <2>4, <3>2, BlocksDiffer DEF Placed, Fits
  <2>5. QED
    BY <2>2, <2>3, <2>4
<1>10. QED
  BY <1>4, <1>6, <1>7, <1>8, <1>9 DEF QueueInv

(* -signal and -broadcast wake the threads they take out of the queue. *)
LEMMA WakeQueues ==
  ASSUME QueueInv, NEW threads,
         UNCHANGED <<at, lock, lock_waiting_threads>>, block' = Wake(block, threads),
         waiting_threads' \in Seq(CondThreads), Once(waiting_threads'),
         \A u \in CondThreads : u \in threads => Member(waiting_threads, u),
         \A u \in CondThreads :
           Member(waiting_threads', u) <=> Member(waiting_threads, u) /\ u \notin threads
  PROVE  QueueInv'
<1>1. /\ block' \in [CondThreads -> {Awake, SelfSuspended, Sleeping}]
      /\ \A u \in CondThreads : block'[u] = IF u \in threads THEN Awake ELSE block[u]
  BY WokenBlocks DEF QueueInv, CondTypes
<1>2. CondTypes' /\ Linked'
  BY <1>1 DEF QueueInv, CondTypes, Linked
<1>3. ASSUME NEW u \in CondThreads PROVE Placed(u)'
  <2>1. Waits(u)' <=> Waits(u)
    BY DEF Waits
  <2>2. CASE u \notin threads
    BY <1>1, <2>1, <2>2 DEF QueueInv, Placed, Fits
  <2>3. CASE u \in threads
    <3>1. Fits(block[u], at[u].fn, Member(lock_waiting_threads, u), TRUE, Waits(u))
      BY <2>3 DEF QueueInv, Placed, Fits
    <3>2. /\ at[u].fn \in {"wait", "waitUntilDate"}
          /\ ~Member(lock_waiting_threads, u) /\ ~Waits(u)
      BY <3>1 DEF Fits
    <3>3. QED
      BY <1>1, <2>1, <2>3, <3>2, BlocksDiffer DEF Placed, Fits
  <2>4. QED
    BY <2>2, <2>3
<1>4. QED
  BY <1>2, <1>3 DEF QueueInv

(* The deadline of a sleep: the thread leaves its queue itself. *)
LEMMA SleepEndsQueues ==
  ASSUME QueueInv, NEW t \in CondThreads, SleepEnds(t)
  PROVE  QueueInv'
<1>1. /\ block[t] = Sleeping
      /\ UNCHANGED <<at, locked, lock_waiting_threads, waiting_threads, lock>>
  BY DEF SleepEnds
<1>2. /\ block' \in [CondThreads -> {Awake, SelfSuspended, Sleeping}]
      /\ block'[t] = Awake /\ \A u \in CondThreads : u # t => block'[u] = block[u]
  BY DEF SleepEnds, QueueInv, CondTypes
<1>3. CondTypes' /\ Linked'
  BY <1>1, <1>2 DEF QueueInv, CondTypes, Linked
<1>4. ASSUME NEW u \in CondThreads PROVE Placed(u)'
  <2>1. Waits(u)' <=> Waits(u)
    BY <1>1 DEF Waits
  <2>2. CASE u # t
    BY <1>1, <1>2, <2>1, <2>2 DEF QueueInv, Placed, Fits
  <2>3. CASE u = t
    <3>1. /\ at[u].fn \in {"waitUntilDate", "lockBeforeDate"}
          /\ ~Member(lock_waiting_threads, u)
          /\ Member(waiting_threads, u) => at[u].fn = "waitUntilDate"
          /\ Waits(u) => at[u].fn = "lockBeforeDate"
      BY <1>1, <2>3 DEF QueueInv, Placed, Fits
    <3>2. QED
      BY <1>1, <1>2, <2>1, <2>3, <3>1, BlocksDiffer DEF Placed, Fits
  <2>4. QED
    BY <2>2, <2>3
<1>5. QED
  BY <1>1, <1>3, <1>4 DEF QueueInv

(* A thread that takes NSConditionLock's lock, gives up or queues again: it *)
(* leaves its place in the queue, and has one if it waits.                 *)
LEMMA LockStepQueues ==
  ASSUME QueueInv, NEW t \in CondThreads, Runs(t),
         at[t].fn \in {"none", "lockWhenCondition", "lockBeforeDate"},
         NEW fn, NEW b, NEW cond \in Conds,
         \/ fn = "none" /\ b = Awake
         \/ fn = "lockWhenCondition" /\ b = SelfSuspended
         \/ fn = "lockBeforeDate" /\ b = Sleeping,
         at' = [at EXCEPT ![t] = At(fn, cond)], block' = [block EXCEPT ![t] = b],
         UNCHANGED <<lock_waiting_threads, waiting_threads>>,
         lock' \in [locked : BOOLEAN, condition : Conditions, waiting : Seq(CondThreads \X Conds)],
         Once(lock'.waiting),
         \A u, c : Member(lock'.waiting, <<u, c>>) <=>
                     \/ Member(lock.waiting, <<u, c>>) /\ u # t
                     \/ fn # "none" /\ u = t /\ c = cond
  PROVE  QueueInv'
<1>1. /\ at' \in [CondThreads -> [fn : Fns, cond : Conds]]
      /\ at'[t].fn = fn /\ at'[t].cond = cond /\ \A u \in CondThreads : u # t => at'[u] = at[u]
  <2>1. fn \in Fns
    BY DEF Fns
  <2>2. QED
    BY <2>1, AtChanges
<1>2. /\ block' \in [CondThreads -> {Awake, SelfSuspended, Sleeping}]
      /\ block'[t] = b /\ \A u \in CondThreads : u # t => block'[u] = block[u]
  BY DEF QueueInv, CondTypes
<1>3. CondTypes'
  BY <1>1, <1>2 DEF QueueInv, CondTypes
<1>4. Linked'
  <2>1. ASSUME NEW u \in CondThreads, NEW c \in Conds, Member(lock'.waiting, <<u, c>>)
        PROVE  at'[u].cond = c
    <3>1. CASE u = t
      BY <1>1, <2>1, <3>1
    <3>2. CASE u # t
      BY <1>1, <2>1, <3>2 DEF QueueInv, Linked
    <3>3. QED
      BY <3>1, <3>2
  <2>2. QED
    BY <2>1 DEF Linked
<1>5. ~Member(lock_waiting_threads, t) /\ ~Member(waiting_threads, t)
  BY DEF QueueInv, Placed, Fits, Runs
<1>6. ASSUME NEW u \in CondThreads PROVE Placed(u)'
  <2>1. Waits(u)' <=> IF u = t THEN fn # "none" ELSE Waits(u)
    BY DEF Waits
  <2>2. CASE u = t
    BY <1>1, <1>2, <1>5, <2>1, <2>2, BlocksDiffer DEF Placed, Fits
  <2>3. CASE u # t
    BY <1>1, <1>2, <2>1, <2>3 DEF QueueInv, Placed, Fits
  <2>4. QED
    BY <2>2, <2>3
<1>7. QED
  BY <1>3, <1>4, <1>6 DEF QueueInv

(* The guards of -lock, -lockWhenCondition: and -lockWhenCondition:        *)
(* beforeDate:, on the call and on each round.                             *)
LEMMA LockStepStarts ==
  ASSUME QueueInv, NEW t \in CondThreads, NEW fn, NEW cond,
         \/ Calls(t, "NSConditionLock") /\ "NSConditionLock" \notin holder[t]
         \/ Runs(t) /\ at[t] = At(fn, cond)
  PROVE  /\ Runs(t)
         /\ at[t].fn = "none" \/ (at[t].fn = fn /\ at[t].cond = cond)
<1>1. Idle.fn = "none" /\ At(fn, cond).fn = fn /\ At(fn, cond).cond = cond
  BY DEF Idle, At
<1>2. CASE Calls(t, "NSConditionLock")
  BY <1>1, <1>2 DEF Calls
<1>3. CASE Runs(t) /\ at[t] = At(fn, cond)
  BY <1>1, <1>3
<1>4. QED
  BY <1>2, <1>3

LEMMA AwakeStays ==
  ASSUME QueueInv, NEW t \in CondThreads, Runs(t), UNCHANGED block
  PROVE  block' = [block EXCEPT ![t] = Awake]
  BY DEF Runs, QueueInv, CondTypes

LEMMA TakeQueues ==
  ASSUME QueueInv, NEW t \in CondThreads, Runs(t),
         at[t].fn \in {"none", "lockWhenCondition"}, Take(t), KeepsCondition
  PROVE  QueueInv'
<1>1. ~Waits(t)
  BY DEF QueueInv, Placed, Fits, Runs
<1>2. /\ lock' \in [locked : BOOLEAN, condition : Conditions, waiting : Seq(CondThreads \X Conds)]
      /\ lock'.waiting = lock.waiting
  BY DEF Take, QueueInv, CondTypes
<1>3. \A u, c : Member(lock.waiting, <<u, c>>) => u # t
  <2>1. ASSUME NEW c, Member(lock.waiting, <<t, c>>) PROVE c \in Conds
    <3>1. <<t, c>> \in CondThreads \X Conds
      BY <2>1, QueueTypes, EmptyMember
    <3>2. QED
      BY <3>1
  <2>2. QED
    BY <1>1, <2>1 DEF Waits
<1>4. block' = [block EXCEPT ![t] = Awake] /\ at' = [at EXCEPT ![t] = At("none", AnyCond)]
  BY AwakeStays, IdleIsAt DEF Take
<1>5. UNCHANGED <<lock_waiting_threads, waiting_threads>> /\ Once(lock.waiting)
  BY DEF KeepsCondition, QueueInv
<1>6. \A u, c : Member(lock'.waiting, <<u, c>>) <=> Member(lock.waiting, <<u, c>>) /\ u # t
  BY <1>2, <1>3
<1>7. QED
  BY <1>2, <1>4, <1>5, <1>6, IdleIsAt, LockStepQueues

LEMMA lockWhenConditionQueues ==
  ASSUME QueueInv, NEW t \in CondThreads, NEW cond \in Conds, Lock_lockWhenCondition(t, cond)
  PROVE  QueueInv'
<1>1. /\ Runs(t) /\ at[t].fn \in {"none", "lockWhenCondition"} /\ KeepsCondition
      /\ UNCHANGED <<lock_waiting_threads, waiting_threads>>
  BY LockStepStarts DEF Lock_lockWhenCondition, KeepsCondition
<1>2. CASE Takes(cond)
  BY <1>1, <1>2, TakeQueues DEF Lock_lockWhenCondition
<1>3. CASE ~Takes(cond)
  <2>1. ~Waits(t)
    BY <1>1 DEF QueueInv, Placed, Fits, Runs
  <2>2. Queue(t, "lockWhenCondition", cond, SelfSuspended)
    BY <1>3 DEF Lock_lockWhenCondition
  <2>3. /\ lock.waiting \in Seq(CondThreads \X Conds) /\ Once(lock.waiting)
        /\ <<t, cond>> \in CondThreads \X Conds
    BY QueueTypes DEF QueueInv
  <2>4. ~Member(lock.waiting, <<t, cond>>)
    BY <2>1 DEF Waits
  <2> DEFINE q == Append(lock.waiting, <<t, cond>>)
  <2>5. /\ q \in Seq(CondThreads \X Conds) /\ Once(q)
        /\ \A y : Member(q, y) <=> Member(lock.waiting, y) \/ y = <<t, cond>>
    BY <2>3, <2>4, AppendMember
  <2>6. lock' = [lock EXCEPT !.waiting = q]
    BY <2>2 DEF Queue
  <2> HIDE DEF q
  <2>7. /\ lock' \in [locked : BOOLEAN, condition : Conditions,
                      waiting : Seq(CondThreads \X Conds)]
        /\ lock'.waiting = q
    BY <2>5, <2>6 DEF QueueInv, CondTypes
  <2>8. \A u, c : Member(lock.waiting, <<u, c>>) => u # t
    <3>1. ASSUME NEW c, Member(lock.waiting, <<t, c>>) PROVE c \in Conds
      <4>1. <<t, c>> \in CondThreads \X Conds
        BY <2>3, <3>1, EmptyMember
      <4>2. QED
        BY <4>1
    <3>2. QED
      BY <2>1, <3>1 DEF Waits
  <2>9. \A u, c : Member(lock'.waiting, <<u, c>>) <=>
                    (Member(lock.waiting, <<u, c>>) /\ u # t) \/ (u = t /\ c = cond)
    <3>1. \A u, c : <<u, c>> = <<t, cond>> <=> u = t /\ c = cond
      OBVIOUS
    <3>2. QED
      BY <2>5, <2>7, <2>8, <3>1
  <2>10. /\ block' = [block EXCEPT ![t] = SelfSuspended]
         /\ at' = [at EXCEPT ![t] = At("lockWhenCondition", cond)]
    BY <2>2 DEF Queue
  <2>11. QED
    BY <1>1, <2>5, <2>7, <2>9, <2>10, LockStepQueues
<1>4. QED
  BY <1>2, <1>3

(* What leaving the queue leaves in it. *)
LEMMA LeftLock ==
  ASSUME QueueInv, NEW t \in CondThreads
  PROVE  LET left == WithoutPlaces(lock.waiting,
                       FirstIn({i \in DOMAIN lock.waiting : lock.waiting[i][1] = t}))
         IN  /\ left \in Seq(CondThreads \X Conds) /\ Once(left)
             /\ \A u, c : Member(left, <<u, c>>) <=> Member(lock.waiting, <<u, c>>) /\ u # t
<1>1. lock.waiting \in Seq(CondThreads \X Conds) /\ Once(lock.waiting)
  BY QueueTypes DEF QueueInv
<1>2. ASSUME NEW c, Member(lock.waiting, <<t, c>>) PROVE c = at[t].cond
  <2>1. <<t, c>> \in CondThreads \X Conds
    BY <1>1, <1>2, EmptyMember
  <2>2. c \in Conds
    BY <2>1
  <2>3. QED
    BY <1>2, <2>2 DEF QueueInv, Linked
<1>3. \A c, d : Member(lock.waiting, <<t, c>>) /\ Member(lock.waiting, <<t, d>>) => c = d
  BY <1>2
<1>4. QED
  BY <1>1, <1>3, LeftPairs

LEMMA lockBeforeDateQueues ==
  ASSUME QueueInv, NEW t \in CondThreads, NEW cond \in Conditions, Lock_lockBeforeDate(t, cond)
  PROVE  QueueInv'
<1>1. /\ Runs(t) /\ at[t].fn \in {"none", "lockBeforeDate"}
      /\ UNCHANGED <<lock_waiting_threads, waiting_threads>>
  <2>1. /\ \/ Calls(t, "NSConditionLock") /\ "NSConditionLock" \notin holder[t]
           \/ Runs(t) /\ at[t] = At("lockBeforeDate", cond)
        /\ KeepsCondition
    BY DEF Lock_lockBeforeDate
  <2>2. QED
    BY <2>1, LockStepStarts DEF KeepsCondition
<1>2. PICK left :
        /\ left = WithoutPlaces(lock.waiting,
                    FirstIn({i \in DOMAIN lock.waiting : lock.waiting[i][1] = t}))
        /\ \/ /\ \/ lock' = [lock EXCEPT !.locked = TRUE, !.waiting = left]
                 \/ lock' = [lock EXCEPT !.waiting = left]
              /\ at' = [at EXCEPT ![t] = Idle] /\ UNCHANGED block
           \/ /\ lock' = [lock EXCEPT !.waiting = Append(left, <<t, cond>>)]
              /\ block' = [block EXCEPT ![t] = Sleeping]
              /\ at' = [at EXCEPT ![t] = At("lockBeforeDate", cond)]
  BY DEF Lock_lockBeforeDate
<1>3. /\ left \in Seq(CondThreads \X Conds) /\ Once(left)
      /\ \A u, c : Member(left, <<u, c>>) <=> Member(lock.waiting, <<u, c>>) /\ u # t
  BY <1>2, LeftLock
<1>4. cond \in Conds /\ AnyCond \in Conds
  BY DEF Conds
<1>5. lock \in [locked : BOOLEAN, condition : Conditions, waiting : Seq(CondThreads \X Conds)]
  BY DEF QueueInv, CondTypes
<1>6. CASE /\ \/ lock' = [lock EXCEPT !.locked = TRUE, !.waiting = left]
              \/ lock' = [lock EXCEPT !.waiting = left]
           /\ at' = [at EXCEPT ![t] = Idle] /\ UNCHANGED block
  <2>1. /\ lock' \in [locked : BOOLEAN, condition : Conditions,
                      waiting : Seq(CondThreads \X Conds)]
        /\ lock'.waiting = left
    BY <1>3, <1>5, <1>6
  <2>2. block' = [block EXCEPT ![t] = Awake] /\ at' = [at EXCEPT ![t] = At("none", AnyCond)]
    BY <1>1, <1>6, AwakeStays, IdleIsAt
  <2>3. QED
    BY <1>1, <1>3, <1>4, <2>1, <2>2, LockStepQueues
<1>7. CASE /\ lock' = [lock EXCEPT !.waiting = Append(left, <<t, cond>>)]
           /\ block' = [block EXCEPT ![t] = Sleeping]
           /\ at' = [at EXCEPT ![t] = At("lockBeforeDate", cond)]
  <2>1. ~Member(left, <<t, cond>>) /\ <<t, cond>> \in CondThreads \X Conds
    BY <1>3, <1>4
  <2> DEFINE q == Append(left, <<t, cond>>)
  <2>2. /\ q \in Seq(CondThreads \X Conds) /\ Once(q)
        /\ \A y : Member(q, y) <=> Member(left, y) \/ y = <<t, cond>>
    BY <1>3, <2>1, AppendMember
  <2>3. lock' = [lock EXCEPT !.waiting = q]
    BY <1>7
  <2> HIDE DEF q
  <2>4. /\ lock' \in [locked : BOOLEAN, condition : Conditions,
                      waiting : Seq(CondThreads \X Conds)]
        /\ lock'.waiting = q
    BY <1>5, <2>2, <2>3
  <2>5. \A u, c : Member(lock'.waiting, <<u, c>>) <=>
                    (Member(lock.waiting, <<u, c>>) /\ u # t) \/ (u = t /\ c = cond)
    <3>1. \A u, c : <<u, c>> = <<t, cond>> <=> u = t /\ c = cond
      OBVIOUS
    <3>2. QED
      BY <1>3, <2>2, <2>4, <3>1
  <2>6. at[t].fn \in {"none", "lockWhenCondition", "lockBeforeDate"} /\ Runs(t)
    BY <1>1
  <2>7. /\ block' = [block EXCEPT ![t] = Sleeping]
        /\ at' = [at EXCEPT ![t] = At("lockBeforeDate", cond)]
        /\ UNCHANGED <<lock_waiting_threads, waiting_threads>>
        /\ "lockBeforeDate" # "none"
    BY <1>1, <1>7
  <2>8. Once(lock'.waiting)
    BY <2>2, <2>4
  <2>9. QED
    BY <1>4, <2>4, <2>5, <2>6, <2>7, <2>8, LockStepQueues
<1>8. QED
  BY <1>2, <1>6, <1>7

(* -unlockWithCondition: takes the first matching place out of the queue    *)
(* and wakes its thread, if there is one.                                  *)
LEMMA UnlockWakes ==
  ASSUME QueueInv, NEW t \in CondThreads, NEW cond \in Conditions,
         Lock_unlockWithCondition(t, cond)
  PROVE  \/ /\ MatchingWaiters(cond) = {} /\ block' = Wake(block, {})
            /\ lock'.waiting = lock.waiting
         \/ \E h \in CondThreads, c \in Conds :
              /\ c \in {AnyCond, cond} /\ Member(lock.waiting, <<h, c>>)
              /\ block' = Wake(block, {h})
              /\ lock'.waiting \in Seq(CondThreads \X Conds) /\ Once(lock'.waiting)
              /\ \A y : Member(lock'.waiting, y) <=> Member(lock.waiting, y) /\ y # <<h, c>>
<1> DEFINE q == lock.waiting
           first == FirstIn(MatchingWaiters(cond))
<1>1. q \in Seq(CondThreads \X Conds) /\ Once(q)
  BY QueueTypes DEF QueueInv
<1>2. /\ lock'.waiting = WithoutPlaces(q, first)
      /\ block' = Wake(block, {q[i][1] : i \in first})
  BY DEF Lock_unlockWithCondition
<1>3. MatchingWaiters(cond) \in SUBSET Nat
  BY <1>1 DEF MatchingWaiters
<1>4. CASE MatchingWaiters(cond) = {}
  <2>1. first = {}
    BY <1>3, <1>4, FirstExists
  <2>2. {q[i][1] : i \in first} = {}
    BY <2>1
  <2>3. QED
    BY <1>2, <1>4, <2>1, <2>2 DEF WithoutPlaces
<1>5. CASE MatchingWaiters(cond) # {}
  <2>1. PICK k : first = {k} /\ k \in MatchingWaiters(cond)
    BY <1>3, <1>5, FirstExists
  <2>2. k \in 1 .. Len(q) /\ q[k][2] \in {AnyCond, cond}
    BY <1>1, <2>1 DEF MatchingWaiters
  <2>3. q[k] \in CondThreads \X Conds
    BY <1>1, <2>2
  <2>4. PICK h \in CondThreads, c \in Conds : q[k] = <<h, c>>
    BY <2>3
  <2>5. c \in {AnyCond, cond} /\ Member(q, <<h, c>>)
    BY <2>2, <2>4 DEF Member
  <2>6. {q[i][1] : i \in first} = {h}
    BY <2>1, <2>4
  <2>7. WithoutPlaces(q, first) = RemoveAt(q, k)
    BY <2>1 DEF WithoutPlaces
  <2> HIDE DEF first, q
  <2>8. /\ RemoveAt(q, k) \in Seq(CondThreads \X Conds) /\ Once(RemoveAt(q, k))
        /\ \A y : Member(RemoveAt(q, k), y) <=> Member(q, y) /\ y # <<h, c>>
    BY <1>1, <2>2, <2>4, RemovedMember
  <2>9. QED
    BY <1>2, <2>4, <2>5, <2>6, <2>7, <2>8 DEF q
<1>6. QED
  BY <1>4, <1>5

LEMMA unlockWithConditionQueues ==
  ASSUME QueueInv, NEW t \in CondThreads, NEW cond \in Conditions,
         Lock_unlockWithCondition(t, cond)
  PROVE  QueueInv'
<1>1. /\ UNCHANGED <<at, lock_waiting_threads, waiting_threads>>
      /\ DOMAIN lock' = {"locked", "condition", "waiting"}
      /\ lock'.locked = FALSE /\ lock'.condition = cond
      /\ lock' = [locked |-> FALSE, condition |-> cond, waiting |-> lock'.waiting]
  BY DEF Lock_unlockWithCondition, KeepsCondition
<1>2. lock.waiting \in Seq(CondThreads \X Conds) /\ Once(lock.waiting)
  BY QueueTypes DEF QueueInv
<1>3. PICK woken :
        /\ \A u \in woken : u \in CondThreads /\ Waits(u)
        /\ block' = Wake(block, woken)
        /\ lock'.waiting \in Seq(CondThreads \X Conds) /\ Once(lock'.waiting)
        /\ \A u \in CondThreads, c \in Conds :
             Member(lock'.waiting, <<u, c>>) <=> Member(lock.waiting, <<u, c>>) /\ u \notin woken
  <2>1. CASE /\ MatchingWaiters(cond) = {} /\ block' = Wake(block, {})
             /\ lock'.waiting = lock.waiting
    BY <1>2, <2>1
  <2>2. CASE \E h \in CondThreads, c \in Conds :
               /\ c \in {AnyCond, cond} /\ Member(lock.waiting, <<h, c>>)
               /\ block' = Wake(block, {h})
               /\ lock'.waiting \in Seq(CondThreads \X Conds) /\ Once(lock'.waiting)
               /\ \A y : Member(lock'.waiting, y) <=> Member(lock.waiting, y) /\ y # <<h, c>>
    <3>1. PICK h \in CondThreads, c \in Conds :
               /\ Member(lock.waiting, <<h, c>>)
               /\ block' = Wake(block, {h})
               /\ lock'.waiting \in Seq(CondThreads \X Conds) /\ Once(lock'.waiting)
               /\ \A y : Member(lock'.waiting, y) <=> Member(lock.waiting, y) /\ y # <<h, c>>
      BY <2>2
    <3>2. Waits(h)
      BY <3>1 DEF Waits
    <3>3. ASSUME NEW u \in CondThreads, NEW d \in Conds
          PROVE  Member(lock'.waiting, <<u, d>>) <=> Member(lock.waiting, <<u, d>>) /\ u \notin {h}
      <4>1. Member(lock'.waiting, <<u, d>>) <=> Member(lock.waiting, <<u, d>>) /\ <<u, d>> # <<h, c>>
        BY <3>1
      <4>2. ASSUME u = h, Member(lock.waiting, <<u, d>>) PROVE d = c
        BY <3>1, <4>2 DEF QueueInv, Linked
      <4>3. <<u, d>> = <<h, c>> <=> u = h /\ d = c
        OBVIOUS
      <4>4. QED
        BY <4>1, <4>2, <4>3
    <3>4. QED
      BY <3>1, <3>2, <3>3
  <2>3. QED
    BY <2>1, <2>2, UnlockWakes
<1>4. /\ block' \in [CondThreads -> {Awake, SelfSuspended, Sleeping}]
      /\ \A u \in CondThreads : block'[u] = IF u \in woken THEN Awake ELSE block[u]
  BY <1>3, WokenBlocks DEF QueueInv, CondTypes
<1>5. CondTypes'
  BY <1>1, <1>3, <1>4 DEF QueueInv, CondTypes
<1>6. Linked'
  BY <1>1, <1>3 DEF QueueInv, Linked
<1>7. ASSUME NEW u \in CondThreads PROVE Placed(u)'
  <2>1. Waits(u)' <=> Waits(u) /\ u \notin woken
    BY <1>3 DEF Waits
  <2>2. CASE u \notin woken
    BY <1>1, <1>4, <2>1, <2>2 DEF QueueInv, Placed, Fits
  <2>3. CASE u \in woken
    <3>1. Waits(u)
      BY <1>3, <2>3
    <3>2. /\ at[u].fn \in {"lockWhenCondition", "lockBeforeDate"}
          /\ ~Member(lock_waiting_threads, u) /\ ~Member(waiting_threads, u)
      BY <3>1 DEF QueueInv, Placed, Fits
    <3>3. QED
      BY <1>1, <1>4, <2>1, <2>3, <3>2, BlocksDiffer DEF Placed, Fits
  <2>4. QED
    BY <2>2, <2>3
<1>8. QED
  BY <1>1, <1>3, <1>5, <1>6, <1>7 DEF QueueInv

LEMMA QueueNext == QueueInv /\ [CondNext]_condVars => QueueInv'
<1> SUFFICES ASSUME QueueInv, [CondNext]_condVars PROVE QueueInv'
  OBVIOUS
<1> USE DEF Keeps
<1>0. /\ lock_waiting_threads \in Seq(CondThreads) /\ Once(lock_waiting_threads)
      /\ waiting_threads \in Seq(CondThreads) /\ Once(waiting_threads)
      /\ Idle.fn = "none"
  BY DEF QueueInv, CondTypes, Idle
<1>1. CASE UNCHANGED condVars
  BY <1>1 DEF condVars, QueueInv, CondTypes, Linked, Placed, Waits
<1>2. ASSUME NEW t \in CondThreads, Condition_lock(t) \/ Condition_resumes(t) PROVE QueueInv'
  <2>1. /\ Runs(t) /\ at[t].fn \in {"none", "lock", "wait", "waitUntilDate"}
        /\ at[t].fn # "waitUntilDate" /\ LockRound(t)
        /\ UNCHANGED <<lock, waiting_threads>>
    BY <1>0, <1>2 DEF Condition_lock, Condition_resumes, Calls
  <2>2. ~Member(waiting_threads, t)
    BY <2>1 DEF QueueInv, Placed, Fits, Runs
  <2>3. QED
    BY <1>0, <2>1, <2>2, LockRoundQueues
<1>3. ASSUME NEW t \in CondThreads, Condition_wakes(t) PROVE QueueInv'
  <2>1. /\ Runs(t) /\ at[t].fn \in {"none", "lock", "wait", "waitUntilDate"}
        /\ LockRound(t) /\ UNCHANGED lock
        /\ waiting_threads' = WithoutPlaces(waiting_threads,
             FirstIn({i \in DOMAIN waiting_threads : waiting_threads[i] = t}))
    BY <1>3 DEF Condition_wakes
  <2>2. /\ waiting_threads' \in Seq(CondThreads) /\ Once(waiting_threads')
        /\ \A y : Member(waiting_threads', y) <=> Member(waiting_threads, y) /\ y # t
    <3>1. PICK places : places = {i \in DOMAIN waiting_threads : waiting_threads[i] = t}
      OBVIOUS
    <3>2. LET r == WithoutPlaces(waiting_threads, FirstIn(places)) IN
          /\ r \in Seq(CondThreads) /\ Once(r)
          /\ \A y : Member(r, y) <=> Member(waiting_threads, y) /\ y # t
      <4>1. places \in SUBSET DOMAIN waiting_threads
        BY <3>1
      <4>2. QED
        BY <1>0, <3>1, <4>1, LeftMember
    <3>3. waiting_threads' = WithoutPlaces(waiting_threads, FirstIn(places))
      BY <2>1, <3>1
    <3>4. QED
      BY <3>2, <3>3
  <2>3. QED
    BY <2>1, <2>2, LockRoundQueues
<1>4. ASSUME NEW t \in CondThreads,
             Condition_unlock(t) \/ Condition_wait(t) \/ Condition_waitUntilDate(t)
      PROVE  QueueInv'
  <2>1. Runs(t) /\ at[t] = Idle /\ at[t].fn = "none" /\ UNCHANGED lock
    BY <1>0, <1>4 DEF Condition_unlock, Condition_wait, Condition_waitUntilDate, Calls
  <2>2. CASE Condition_unlock(t)
    <3>1. block = [block EXCEPT ![t] = Awake] /\ at = [at EXCEPT ![t] = At("none", AnyCond)]
      BY <2>1, IdleIsAt DEF Runs, QueueInv, CondTypes
    <3>2. /\ GiveUp(t, [block EXCEPT ![t] = Awake]) /\ waiting_threads' = waiting_threads
          /\ at' = [at EXCEPT ![t] = At("none", AnyCond)]
      BY <2>2, <3>1 DEF Condition_unlock
    <3>3. QED
      BY <2>1, <3>2, GiveUpQueues
  <2>3. CASE Condition_wait(t)
    BY <2>1, <2>3, GiveUpQueues DEF Condition_wait
  <2>4. CASE Condition_waitUntilDate(t)
    BY <2>1, <2>4, GiveUpQueues DEF Condition_waitUntilDate
  <2>5. QED
    BY <1>4, <2>2, <2>3, <2>4
<1>5. ASSUME NEW t \in CondThreads, Condition_signal(t) PROVE QueueInv'
  <2>1. /\ UNCHANGED <<at, lock, lock_waiting_threads>>
        /\ waiting_threads' = RestOf(waiting_threads)
        /\ block' = Wake(block, FirstOf(waiting_threads))
    BY <1>5 DEF Condition_signal
  <2>2. /\ waiting_threads' \in Seq(CondThreads) /\ Once(waiting_threads')
        /\ \A y \in FirstOf(waiting_threads) : Member(waiting_threads, y)
        /\ \A y : Member(waiting_threads', y) <=>
                    Member(waiting_threads, y) /\ y \notin FirstOf(waiting_threads)
    BY <1>0, <2>1, RestMember
  <2>3. QED
    BY <2>1, <2>2, WakeQueues
<1>6. ASSUME NEW t \in CondThreads, Condition_broadcast(t) PROVE QueueInv'
  <2>1. /\ UNCHANGED <<at, lock, lock_waiting_threads>> /\ waiting_threads' = <<>>
        /\ block' = Wake(block, ToSet(waiting_threads))
    BY <1>6 DEF Condition_broadcast
  <2>2. \A u : u \in ToSet(waiting_threads) <=> Member(waiting_threads, u)
    BY <1>0 DEF ToSet, Member
  <2>3. /\ waiting_threads' \in Seq(CondThreads) /\ Once(waiting_threads')
        /\ \A u : ~Member(waiting_threads', u)
    BY <2>1 DEF Once, Member
  <2>4. QED
    BY <2>1, <2>2, <2>3, WakeQueues
<1>7. ASSUME NEW t \in CondThreads, NEW cond \in Conditions \cup {AnyCond},
             Lock_lockWhenCondition(t, cond)
      PROVE  QueueInv'
  BY <1>7, lockWhenConditionQueues DEF Conds
<1>8. ASSUME NEW t \in CondThreads, NEW cond, Lock_tryLock(t, cond) PROVE QueueInv'
  BY <1>0, <1>8, TakeQueues DEF Lock_tryLock, Calls
<1>9. ASSUME NEW t \in CondThreads, NEW cond \in Conditions,
             Lock_lockBeforeDate(t, cond) \/ Lock_unlockWithCondition(t, cond)
      PROVE  QueueInv'
  BY <1>9, lockBeforeDateQueues, unlockWithConditionQueues
<1>10. ASSUME NEW t \in CondThreads, SleepEnds(t) PROVE QueueInv'
  BY <1>10, SleepEndsQueues
<1>11. QED
  BY <1>1, <1>2, <1>3, <1>4, <1>5, <1>6, <1>7, <1>8, <1>9, <1>10 DEF CondNext

LEMMA QueueAlways == CondSpec => []QueueInv
<1>1. CondInit => QueueInv
  BY QueueInit
<1>2. QueueInv /\ [CondNext]_condVars => QueueInv'
  BY QueueNext
<1>3. QED
  BY <1>1, <1>2, PTL DEF CondSpec

(* How often a queue that holds everything once holds t. *)
LEMMA PlacesOfMember ==
  ASSUME NEW S, NEW q \in Seq(S), Once(q), NEW t
  PROVE  Cardinality({i \in DOMAIN q : q[i] = t}) = IF Member(q, t) THEN 1 ELSE 0
<1> DEFINE places == {i \in DOMAIN q : q[i] = t}
<1>1. DOMAIN q = 1 .. Len(q)
  OBVIOUS
<1>2. CASE Member(q, t)
  <2>1. PICK k \in 1 .. Len(q) : q[k] = t
    BY <1>2 DEF Member
  <2>2. places = {k}
    BY <1>1, <2>1 DEF Once
  <2>3. QED
    BY <1>2, <2>2, FS_Singleton
<1>3. CASE ~Member(q, t)
  <2>1. places = {}
    BY <1>1, <1>3 DEF Member
  <2>2. QED
    BY <1>3, <2>1, FS_EmptySet
<1>4. QED
  BY <1>2, <1>3

LEMMA PlacesOfWaiter ==
  ASSUME QueueInv, NEW t \in CondThreads
  PROVE  Cardinality({i \in DOMAIN lock.waiting : lock.waiting[i][1] = t})
           = IF Waits(t) THEN 1 ELSE 0
<1> DEFINE q == lock.waiting
           places == {i \in DOMAIN q : q[i][1] = t}
<1>1. DOMAIN q = 1 .. Len(q) /\ q \in Seq(CondThreads \X Conds) /\ Once(q)
  BY QueueTypes DEF QueueInv
<1>2. ASSUME NEW i \in places PROVE q[i] = <<t, at[t].cond>> /\ Member(q, q[i])
  <2>1. i \in 1 .. Len(q) /\ q[i] \in CondThreads \X Conds /\ q[i][1] = t
    BY <1>1
  <2>2. PICK c \in Conds : q[i] = <<t, c>>
    BY <2>1
  <2>3. Member(q, <<t, c>>)
    BY <2>1, <2>2 DEF Member
  <2>4. QED
    BY <2>2, <2>3 DEF QueueInv, Linked
<1>3. CASE Waits(t)
  <2>1. PICK k \in 1 .. Len(q) : q[k][1] = t
    <3>1. PICK c \in Conds : Member(q, <<t, c>>)
      BY <1>3 DEF Waits
    <3>2. PICK k \in 1 .. Len(q) : q[k] = <<t, c>>
      BY <3>1 DEF Member
    <3>3. q[k][1] = t
      BY <3>2
    <3>4. QED
      BY <3>3
  <2>2. k \in places
    BY <1>1, <2>1
  <2>3. \A i \in places : i = k
    BY <1>1, <1>2, <2>2 DEF Once
  <2>4. places = {k}
    BY <2>2, <2>3
  <2>5. QED
    BY <1>3, <2>4, FS_Singleton
<1>4. CASE ~Waits(t)
  <2>1. ASSUME NEW i \in places PROVE FALSE
    <3>1. Member(q, <<t, at[t].cond>>) /\ at[t].cond \in Conds
      BY <1>2, QueueTypes
    <3>2. QED
      BY <1>4, <3>1 DEF Waits
  <2>2. places = {}
    BY <2>1
  <2>3. QED
    BY <1>4, <2>2, FS_EmptySet
<1>5. QED
  BY <1>3, <1>4

(* However threads are woken, time out and queue again, each one that is   *)
(* blocked in NSCondition or NSConditionLock is in exactly one queue, once, *)
(* and one that is in no call is in none.                                  *)
THEOREM CondThreadsQueuedOnce == CondSpec => []CondQueueExact
<1>1. QueueInv => CondQueueExact
  <2> SUFFICES ASSUME QueueInv, NEW t \in CondThreads
               PROVE  /\ Queued(t) <= 1
                      /\ ~Runs(t) => Queued(t) = 1
                      /\ at[t] = Idle => Queued(t) = 0
    BY DEF CondQueueExact
  <2>1. Queued(t) = (IF Member(lock_waiting_threads, t) THEN 1 ELSE 0)
                    + (IF Member(waiting_threads, t) THEN 1 ELSE 0)
                    + (IF Waits(t) THEN 1 ELSE 0)
    <3>1. Cardinality({i \in DOMAIN lock_waiting_threads : lock_waiting_threads[i] = t})
            = IF Member(lock_waiting_threads, t) THEN 1 ELSE 0
      BY PlacesOfMember DEF QueueInv, CondTypes
    <3>2. Cardinality({i \in DOMAIN waiting_threads : waiting_threads[i] = t})
            = IF Member(waiting_threads, t) THEN 1 ELSE 0
      BY PlacesOfMember DEF QueueInv, CondTypes
    <3>3. Cardinality({i \in DOMAIN lock.waiting : lock.waiting[i][1] = t})
            = IF Waits(t) THEN 1 ELSE 0
      BY PlacesOfWaiter
    <3>4. QED
      BY <3>1, <3>2, <3>3 DEF Queued
  <2>2. Fits(block[t], at[t].fn, Member(lock_waiting_threads, t), Member(waiting_threads, t),
             Waits(t))
    BY DEF QueueInv, Placed
  <2>3. at[t].fn \in Fns /\ (at[t] = Idle => at[t].fn = "none")
    BY QueueTypes DEF Idle
  <2>4. QED
    BY <2>1, <2>2, <2>3 DEF Fits, Fns, Runs
<1>2. QED
  BY <1>1, QueueAlways, PTL

(* The two halves of NoLostWakeup: a thread that is awake in one of the    *)
(* calls that take the lock, when somebody queues for a lock that is free. *)
Comes(t) == Runs(t) /\ at[t].fn \in {"lock", "wait", "waitUntilDate"}
ComesToLock(t) ==
  Runs(t) /\ at[t].fn \in {"lockWhenCondition", "lockBeforeDate"} /\ Takes(at[t].cond)

ConditionWakes ==
  ~locked /\ lock_waiting_threads # <<>> => \E t \in CondThreads : Comes(t)
LockWakes ==
  (\E t \in CondThreads, c \in Conds : Member(lock.waiting, <<t, c>>) /\ Takes(c)) =>
    \E t \in CondThreads : ComesToLock(t)

LEMMA RunsStays ==
  ASSUME NEW u \in CondThreads, NEW blocks, NEW threads, Runs(u), blocks[u] = block[u],
         block' = Wake(blocks, threads)
  PROVE  Runs(u)'
  BY DEF Runs, Wake

LEMMA ConditionWakesNext ==
  ASSUME QueueInv, ConditionWakes, [CondNext]_condVars
  PROVE  ConditionWakes'
<1> USE DEF Keeps
<1>0. Idle.fn = "none"
  BY DEF Idle
<1>1. CASE UNCHANGED condVars
  BY <1>1 DEF condVars, ConditionWakes, Comes, Runs
<1>2. ASSUME NEW t \in CondThreads,
             Condition_lock(t) \/ Condition_resumes(t) \/ Condition_wakes(t)
      PROVE  ConditionWakes'
  BY <1>2 DEF Condition_lock, Condition_resumes, Condition_wakes, LockRound, ConditionWakes
<1>3. ASSUME NEW t \in CondThreads, NEW blocks, GiveUp(t, blocks), at[t].fn = "none",
             \A u \in CondThreads : u # t => at'[u] = at[u]
      PROVE  ConditionWakes'
  <2>1. SUFFICES ASSUME lock_waiting_threads' # <<>>
                 PROVE  \E u \in CondThreads : Comes(u)'
    BY DEF ConditionWakes
  <2>2. /\ lock_waiting_threads # <<>> /\ FirstOf(lock_waiting_threads) = {Head(lock_waiting_threads)}
        /\ block' = Wake(blocks, FirstOf(lock_waiting_threads))
    BY <1>3, <2>1 DEF GiveUp, RestOf, FirstOf
  <2>3. PICK h : h = Head(lock_waiting_threads)
    OBVIOUS
  <2>4. h \in CondThreads /\ Member(lock_waiting_threads, h)
    BY <2>2, <2>3, TailMember DEF QueueInv, CondTypes
  <2>5. at[h].fn = "lock"
    BY <2>4 DEF QueueInv, Placed, Fits
  <2>6. h # t
    BY <1>3, <2>5
  <2>7. block'[h] = Awake
    BY <2>2, <2>3, <2>4 DEF Wake
  <2>8. Comes(h)'
    BY <1>3, <2>4, <2>5, <2>6, <2>7 DEF Comes, Runs
  <2>9. QED
    BY <2>4, <2>8
<1>4. ASSUME NEW t \in CondThreads,
             Condition_unlock(t) \/ Condition_wait(t) \/ Condition_waitUntilDate(t)
      PROVE  ConditionWakes'
  <2>1. at[t].fn = "none" /\ \E blocks : GiveUp(t, blocks)
    BY <1>0, <1>4 DEF Condition_unlock, Condition_wait, Condition_waitUntilDate, Calls
  <2>2. \A u \in CondThreads : u # t => at'[u] = at[u]
    BY <1>4 DEF Condition_unlock, Condition_wait, Condition_waitUntilDate, QueueInv, CondTypes
  <2>3. QED
    BY <1>3, <2>1, <2>2
<1>5. ASSUME NEW threads, block' = Wake(block, threads),
             UNCHANGED <<at, locked, lock_waiting_threads>>
      PROVE  ConditionWakes'
  BY <1>5, RunsStays DEF ConditionWakes, Comes
<1>6. ASSUME NEW t \in CondThreads, Condition_signal(t) \/ Condition_broadcast(t)
      PROVE  ConditionWakes'
  BY <1>5, <1>6 DEF Condition_signal, Condition_broadcast
<1>7. ASSUME NEW t \in CondThreads, UNCHANGED <<locked, lock_waiting_threads>>,
             at[t].fn \notin {"lock", "wait", "waitUntilDate"},
             \A u \in CondThreads : u # t => at'[u] = at[u] /\ block'[u] = block[u]
      PROVE  ConditionWakes'
  <2>1. ASSUME NEW u \in CondThreads, Comes(u) PROVE Comes(u)'
    <3>1. u # t
      BY <1>7, <2>1 DEF Comes
    <3>2. QED
      BY <1>7, <2>1, <3>1 DEF Comes, Runs
  <2>2. QED
    BY <1>7, <2>1 DEF ConditionWakes
<1>8. ASSUME NEW t \in CondThreads, NEW cond, Lock_lockWhenCondition(t, cond)
      PROVE  ConditionWakes'
  <2>1. at[t].fn \in {"none", "lockWhenCondition"}
    BY <1>8, LockStepStarts DEF Lock_lockWhenCondition
  <2>2. \A u \in CondThreads : u # t => at'[u] = at[u] /\ block'[u] = block[u]
    BY <1>8 DEF Lock_lockWhenCondition, Take, Queue, QueueInv, CondTypes
  <2>3. UNCHANGED <<locked, lock_waiting_threads>>
    BY <1>8 DEF Lock_lockWhenCondition, KeepsCondition
  <2>4. QED
    BY <1>7, <2>1, <2>2, <2>3
<1>9. ASSUME NEW t \in CondThreads, NEW cond, Lock_tryLock(t, cond) PROVE ConditionWakes'
  <2>1. at[t].fn = "none"
    BY <1>0, <1>9 DEF Lock_tryLock, Calls
  <2>2. \A u \in CondThreads : u # t => at'[u] = at[u] /\ block'[u] = block[u]
    BY <1>9 DEF Lock_tryLock, Take, QueueInv, CondTypes
  <2>3. UNCHANGED <<locked, lock_waiting_threads>>
    BY <1>9 DEF Lock_tryLock, KeepsCondition
  <2>4. QED
    BY <1>7, <2>1, <2>2, <2>3
<1>10. ASSUME NEW t \in CondThreads, NEW cond, Lock_lockBeforeDate(t, cond) PROVE ConditionWakes'
  <2>1. at[t].fn \in {"none", "lockBeforeDate"}
    <3>1. \/ Calls(t, "NSConditionLock") /\ "NSConditionLock" \notin holder[t]
          \/ Runs(t) /\ at[t] = At("lockBeforeDate", cond)
      BY <1>10 DEF Lock_lockBeforeDate
    <3>2. QED
      BY <3>1, LockStepStarts
  <2>2. \A u \in CondThreads : u # t => at'[u] = at[u] /\ block'[u] = block[u]
    BY <1>10 DEF Lock_lockBeforeDate, QueueInv, CondTypes
  <2>3. UNCHANGED <<locked, lock_waiting_threads>>
    BY <1>10 DEF Lock_lockBeforeDate, KeepsCondition
  <2>4. QED
    BY <1>7, <2>1, <2>2, <2>3
<1>11. ASSUME NEW t \in CondThreads, NEW cond, Lock_unlockWithCondition(t, cond)
       PROVE  ConditionWakes'
  BY <1>5, <1>11 DEF Lock_unlockWithCondition, KeepsCondition
<1>12. ASSUME NEW t \in CondThreads, SleepEnds(t) PROVE ConditionWakes'
  <2>1. /\ UNCHANGED <<at, locked, lock_waiting_threads>> /\ block'[t] = Awake
        /\ \A u \in CondThreads : u # t => block'[u] = block[u]
    BY <1>12 DEF SleepEnds, QueueInv, CondTypes
  <2>2. QED
    BY <2>1 DEF ConditionWakes, Comes, Runs
<1>13. QED
  BY <1>1, <1>2, <1>4, <1>6, <1>8, <1>9, <1>10, <1>11, <1>12 DEF CondNext

LEMMA LockWakesNext ==
  ASSUME QueueInv, LockWakes, [CondNext]_condVars
  PROVE  LockWakes'
<1> USE DEF Keeps
<1>0. Idle.fn = "none"
  BY DEF Idle
<1>1. CASE UNCHANGED condVars
  BY <1>1 DEF condVars, LockWakes, ComesToLock, Runs, Takes
(* NSCondition's calls do not touch NSConditionLock's. *)
<1>2. ASSUME NEW t \in CondThreads, UNCHANGED lock,
             at[t].fn \notin {"lockWhenCondition", "lockBeforeDate"},
             \A u \in CondThreads : u # t => at'[u] = at[u] /\ (Runs(u) => Runs(u)')
      PROVE  LockWakes'
  <2>1. ASSUME NEW u \in CondThreads, ComesToLock(u) PROVE ComesToLock(u)'
    <3>1. u # t
      BY <1>2, <2>1 DEF ComesToLock
    <3>2. QED
      BY <1>2, <2>1, <3>1 DEF ComesToLock, Takes
  <2>2. \A c : Takes(c)' <=> Takes(c)
    BY <1>2 DEF Takes
  <2>3. QED
    BY <1>2, <2>1, <2>2 DEF LockWakes
<1>3. ASSUME NEW t \in CondThreads,
             Condition_lock(t) \/ Condition_resumes(t) \/ Condition_wakes(t)
      PROVE  LockWakes'
  <2>1. at[t].fn \in {"none", "lock", "wait", "waitUntilDate"} /\ LockRound(t) /\ UNCHANGED lock
    BY <1>0, <1>3 DEF Condition_lock, Condition_resumes, Condition_wakes, Calls
  <2>2. \A u \in CondThreads : u # t => at'[u] = at[u] /\ block'[u] = block[u]
    BY <2>1 DEF LockRound, QueueInv, CondTypes
  <2>3. QED
    BY <1>2, <2>1, <2>2 DEF Runs
<1>4. ASSUME NEW t \in CondThreads,
             Condition_unlock(t) \/ Condition_wait(t) \/ Condition_waitUntilDate(t)
      PROVE  LockWakes'
  <2>1. at[t].fn = "none" /\ UNCHANGED lock
    BY <1>0, <1>4 DEF Condition_unlock, Condition_wait, Condition_waitUntilDate, Calls
  <2>2. PICK blocks : GiveUp(t, blocks) /\ \A u \in CondThreads : u # t => blocks[u] = block[u]
    <3>1. \A b : \A u \in CondThreads : u # t => [block EXCEPT ![t] = b][u] = block[u]
      BY DEF QueueInv, CondTypes
    <3>2. \/ GiveUp(t, block) \/ GiveUp(t, [block EXCEPT ![t] = SelfSuspended])
          \/ GiveUp(t, [block EXCEPT ![t] = Sleeping])
      BY <1>4 DEF Condition_unlock, Condition_wait, Condition_waitUntilDate
    <3>3. QED
      BY <3>1, <3>2
  <2>3. \A u \in CondThreads : u # t => at'[u] = at[u]
    BY <1>4 DEF Condition_unlock, Condition_wait, Condition_waitUntilDate, QueueInv, CondTypes
  <2>4. \A u \in CondThreads : u # t /\ Runs(u) => Runs(u)'
    BY <2>2, RunsStays DEF GiveUp
  <2>5. QED
    BY <1>2, <2>1, <2>3, <2>4
<1>5. ASSUME NEW t \in CondThreads, Condition_signal(t) \/ Condition_broadcast(t) \/ SleepEnds(t)
      PROVE  LockWakes'
  <2>1. UNCHANGED <<at, lock>>
    BY <1>5 DEF Condition_signal, Condition_broadcast, SleepEnds
  <2>2. \A u \in CondThreads : Runs(u) => Runs(u)'
    <3>1. CASE SleepEnds(t)
      BY <3>1 DEF SleepEnds, Runs, QueueInv, CondTypes
    <3>2. CASE \E threads : block' = Wake(block, threads)
      BY <3>2, RunsStays
    <3>3. QED
      BY <1>5, <3>1, <3>2 DEF Condition_signal, Condition_broadcast
  <2>3. QED
    BY <2>1, <2>2 DEF LockWakes, ComesToLock, Takes
(* The lock is taken. *)
<1>6. ASSUME lock'.locked = TRUE PROVE LockWakes'
  BY <1>6 DEF LockWakes, Takes
(* A thread that cannot take the lock queues or goes. *)
<1>7. ASSUME NEW t \in CondThreads, NEW cond, ~Takes(cond),
             at[t].fn = "none" \/ at[t].cond = cond,
             \A u \in CondThreads : u # t => at'[u] = at[u] /\ block'[u] = block[u],
             lock'.locked = lock.locked, lock'.condition = lock.condition,
             \A u \in CondThreads, c \in Conds :
               Member(lock'.waiting, <<u, c>>) => Member(lock.waiting, <<u, c>>) \/ c = cond
      PROVE  LockWakes'
  <2>1. \A c : Takes(c)' <=> Takes(c)
    BY <1>7 DEF Takes
  <2>2. ASSUME NEW u \in CondThreads, ComesToLock(u) PROVE ComesToLock(u)'
    <3>1. u # t
      BY <1>7, <2>2 DEF ComesToLock
    <3>2. at'[u] = at[u] /\ (Runs(u)' <=> Runs(u))
      BY <1>7, <3>1 DEF Runs
    <3>3. QED
      BY <1>7, <2>2, <3>2 DEF ComesToLock, Takes
  <2>3. QED
    BY <1>7, <2>1, <2>2 DEF LockWakes
<1>8. ASSUME NEW t \in CondThreads, NEW cond \in Conditions \cup {AnyCond},
             Lock_lockWhenCondition(t, cond)
      PROVE  LockWakes'
  <2>1. CASE Takes(cond)
    <3>1. lock'.locked = TRUE
      BY <1>8, <2>1, QueueTypes DEF Lock_lockWhenCondition, Take
    <3>2. QED
      BY <1>6, <3>1
  <2>2. CASE ~Takes(cond)
    <3>1. Queue(t, "lockWhenCondition", cond, SelfSuspended)
      BY <1>8, <2>2 DEF Lock_lockWhenCondition
    <3>2. at[t].fn = "none" \/ at[t].cond = cond
      BY <1>8, LockStepStarts DEF Lock_lockWhenCondition
    <3>3. \A u \in CondThreads : u # t => at'[u] = at[u] /\ block'[u] = block[u]
      BY <3>1 DEF Queue, QueueInv, CondTypes
    <3>4. /\ lock'.locked = lock.locked /\ lock'.condition = lock.condition
          /\ lock'.waiting = Append(lock.waiting, <<t, cond>>)
      BY <3>1, QueueTypes DEF Queue
    <3>5. \A u, c : Member(lock'.waiting, <<u, c>>) =>
                      Member(lock.waiting, <<u, c>>) \/ <<u, c>> = <<t, cond>>
      <4>1. lock.waiting \in Seq(CondThreads \X Conds) /\ <<t, cond>> \in CondThreads \X Conds
        BY <1>8, QueueTypes DEF Conds
      <4>2. QED
        BY <3>4, <4>1, AppendMember
    <3>6. \A u, c : <<u, c>> = <<t, cond>> => c = cond
      OBVIOUS
    <3>7. QED
      BY <1>7, <2>2, <3>2, <3>3, <3>4, <3>5, <3>6
  <2>3. QED
    BY <2>1, <2>2
<1>9. ASSUME NEW t \in CondThreads, NEW cond, Lock_tryLock(t, cond) PROVE LockWakes'
  <2>1. lock'.locked = TRUE
    BY <1>9, QueueTypes DEF Lock_tryLock, Take
  <2>2. QED
    BY <1>6, <2>1
<1>10. ASSUME NEW t \in CondThreads, NEW cond \in Conditions, Lock_lockBeforeDate(t, cond)
       PROVE  LockWakes'
  <2>1. PICK left :
          /\ left = WithoutPlaces(lock.waiting,
                      FirstIn({i \in DOMAIN lock.waiting : lock.waiting[i][1] = t}))
          /\ \/ lock' = [lock EXCEPT !.locked = TRUE, !.waiting = left]
             \/ /\ ~Takes(cond)
                /\ \/ lock' = [lock EXCEPT !.waiting = left]
                   \/ lock' = [lock EXCEPT !.waiting = Append(left, <<t, cond>>)]
    BY <1>10 DEF Lock_lockBeforeDate
  <2>2. CASE lock' = [lock EXCEPT !.locked = TRUE, !.waiting = left]
    <3>1. lock'.locked = TRUE
      BY <2>2, QueueTypes
    <3>2. QED
      BY <1>6, <3>1
  <2>3. ASSUME ~Takes(cond),
               \/ lock' = [lock EXCEPT !.waiting = left]
               \/ lock' = [lock EXCEPT !.waiting = Append(left, <<t, cond>>)]
        PROVE  LockWakes'
    <3>1. /\ left \in Seq(CondThreads \X Conds)
          /\ \A u, c : Member(left, <<u, c>>) => Member(lock.waiting, <<u, c>>)
      BY <2>1, LeftLock
    <3>2. /\ lock'.locked = lock.locked /\ lock'.condition = lock.condition
          /\ lock'.waiting \in {left, Append(left, <<t, cond>>)}
      BY <2>3, QueueTypes
    <3>3. \A u, c : Member(Append(left, <<t, cond>>), <<u, c>>) =>
                      Member(left, <<u, c>>) \/ <<u, c>> = <<t, cond>>
      <4>1. <<t, cond>> \in CondThreads \X Conds
        BY <1>10 DEF Conds
      <4>2. QED
        BY <3>1, <4>1, AppendMember
    <3>4. \A u, c : <<u, c>> = <<t, cond>> => c = cond
      OBVIOUS
    <3>5. \A u \in CondThreads, c \in Conds :
            Member(lock'.waiting, <<u, c>>) => Member(lock.waiting, <<u, c>>) \/ c = cond
      BY <3>1, <3>2, <3>3, <3>4
    <3>6. at[t].fn = "none" \/ at[t].cond = cond
      <4>1. \/ Calls(t, "NSConditionLock") /\ "NSConditionLock" \notin holder[t]
            \/ Runs(t) /\ at[t] = At("lockBeforeDate", cond)
        BY <1>10 DEF Lock_lockBeforeDate
      <4>2. QED
        BY <4>1, LockStepStarts
    <3>7. \A u \in CondThreads : u # t => at'[u] = at[u] /\ block'[u] = block[u]
      BY <1>10 DEF Lock_lockBeforeDate, QueueInv, CondTypes
    <3>8. QED
      BY <1>7, <2>3, <3>2, <3>5, <3>6, <3>7
  <2>4. QED
    BY <2>1, <2>2, <2>3
(* The thread that is woken waits for any condition or for the new one. *)
<1>11. ASSUME NEW t \in CondThreads, NEW cond \in Conditions, Lock_unlockWithCondition(t, cond)
       PROVE  LockWakes'
  <2>1. lock'.locked = FALSE /\ lock'.condition = cond /\ UNCHANGED at
    BY <1>11 DEF Lock_unlockWithCondition
  <2>2. \A c : Takes(c)' <=> c \in {AnyCond, cond}
    BY <2>1 DEF Takes
  <2>3. CASE MatchingWaiters(cond) = {} /\ lock'.waiting = lock.waiting
    <3>1. ASSUME NEW u, NEW c, Member(lock.waiting, <<u, c>>), c \in {AnyCond, cond} PROVE FALSE
      <4>1. PICK i \in 1 .. Len(lock.waiting) : lock.waiting[i] = <<u, c>>
        BY <3>1 DEF Member
      <4>2. i \in DOMAIN lock.waiting /\ lock.waiting[i][2] = c
        BY <4>1, QueueTypes
      <4>3. QED
        BY <2>3, <3>1, <4>2 DEF MatchingWaiters
    <3>2. QED
      BY <2>2, <2>3, <3>1 DEF LockWakes
  <2>4. CASE \E h \in CondThreads, c \in Conds :
               /\ c \in {AnyCond, cond} /\ Member(lock.waiting, <<h, c>>)
               /\ block' = Wake(block, {h})
    <3>1. PICK h \in CondThreads, c \in Conds :
               /\ c \in {AnyCond, cond} /\ Member(lock.waiting, <<h, c>>)
               /\ block' = Wake(block, {h})
      BY <2>4
    <3>2. at[h].cond = c /\ Waits(h)
      BY <3>1 DEF QueueInv, Linked, Waits
    <3>3. at[h].fn \in {"lockWhenCondition", "lockBeforeDate"}
      BY <3>2 DEF QueueInv, Placed, Fits
    <3>4. Runs(h)'
      BY <3>1 DEF Runs, Wake
    <3>5. at'[h].cond \in {AnyCond, lock'.condition} /\ at'[h].fn \in {"lockWhenCondition", "lockBeforeDate"}
      BY <2>1, <3>1, <3>2, <3>3
    <3>6. ComesToLock(h)'
      BY <2>1, <3>4, <3>5 DEF ComesToLock, Takes
    <3>7. QED
      BY <3>6 DEF LockWakes
  <2>5. QED
    BY <1>11, <2>3, <2>4, UnlockWakes
<1>12. QED
  BY <1>1, <1>3, <1>4, <1>5, <1>8, <1>9, <1>10, <1>11 DEF CondNext

(* No wake-up of NSCondition or NSConditionLock is lost: whatever threads  *)
(* overtake the woken one, time out or queue again, while the lock is free *)
(* and a queued thread could take it, a thread that could take it is awake. *)
THEOREM NoWakeupIsLost == CondSpec => []NoLostWakeup
<1> DEFINE WakeInv == QueueInv /\ ConditionWakes /\ LockWakes
<1>1. CondInit => WakeInv
  <2> SUFFICES ASSUME CondInit PROVE WakeInv
    OBVIOUS
  <2>1. \A x : ~Member(<<>>, x)
    BY DEF Member
  <2>2. lock.waiting = <<>> /\ lock_waiting_threads = <<>>
    BY DEF CondInit
  <2>3. QED
    BY <2>1, <2>2, QueueInit DEF ConditionWakes, LockWakes
<1>2. WakeInv /\ [CondNext]_condVars => WakeInv'
  BY QueueNext, ConditionWakesNext, LockWakesNext
<1>3. WakeInv => NoLostWakeup
  <2> SUFFICES ASSUME WakeInv PROVE NoLostWakeup
    OBVIOUS
  <2>1. ASSUME NEW i \in DOMAIN lock.waiting, Takes(lock.waiting[i][2])
        PROVE  \E t \in CondThreads, c \in Conds : Member(lock.waiting, <<t, c>>) /\ Takes(c)
    <3>1. i \in 1 .. Len(lock.waiting) /\ lock.waiting[i] \in CondThreads \X Conds
      BY QueueTypes
    <3>2. PICK t \in CondThreads, c \in Conds : lock.waiting[i] = <<t, c>>
      BY <3>1
    <3>3. Member(lock.waiting, <<t, c>>) /\ Takes(c)
      BY <2>1, <3>1, <3>2 DEF Member
    <3>4. QED
      BY <3>3
  <2>2. QED
    BY <2>1 DEF NoLostWakeup, ConditionWakes, LockWakes, Comes, ComesToLock
<1>4. QED
  BY <1>1, <1>2, <1>3, PTL DEF CondSpec
=============================================================================
