---------------------------- MODULE ObjcLifetime ----------------------------
(***************************************************************************)
(* The lifetime of Objective-C objects: reference counts and deallocation  *)
(* (objc/objects.rs, foundation/ns_object.rs), the ARC helpers             *)
(* (objc/classes.rs), zeroing weak references (objc/weak.rs) and           *)
(* autorelease pools (foundation/ns_autorelease_pool.rs).                  *)
(*                                                                         *)
(* The guest follows the ownership rules: it releases and stores only what *)
(* it holds, initializes a weak slot before it uses it and destroys it     *)
(* when done.  A dealloc method is guest code: until it reaches NSObject's *)
(* dealloc any other guest code may run, nested in it or on other threads. *)
(***************************************************************************)
EXTENDS Integers, Sequences, FiniteSets, SequencesExt

CONSTANTS
  ObjThreads,      \* guest threads
  Objs,            \* addresses at which objects are allocated, again and again
  Pools,           \* addresses of autorelease pools
  Slots,           \* addresses of __weak variables
  MaxRefs,         \* bound: the reference count of one object
  MaxNested,       \* bound: dealloc and drain calls nested on one thread
  LoadsWhileDying  \* the guest may read a weak slot of an object in dealloc

CONSTANT nil
ASSUME ObjcAssumption ==
  /\ nil \notin Objs
  /\ MaxRefs \in Nat /\ MaxNested \in Nat /\ LoadsWhileDying \in BOOLEAN

VARIABLES
  refcount,    \* ObjC::objects: the count of each object; see Absent and Dying
  held,        \* history: strong references the guest has to each address
  leaked,      \* references autoreleased where there was no pool
  pool_stacks, \* State::pool_stacks of the autorelease pools, bottom first
  pooled,      \* `objects` of each live pool; <<nil>> when there is no such pool
  frames,      \* host calls each thread is inside of, innermost last
  slot,        \* contents of each weak slot
  slotInUse,   \* history: the weak slots the guest has initialized
  weak_refs    \* ObjC::weak_refs: how often each slot is listed for each object

objcVars == <<refcount, held, leaked, pool_stacks, pooled, frames, slot, slotInUse,
              weak_refs>>

Absent == -1   \* no entry in ObjC::objects
Dying == 0     \* refcount: None; dealloc has been sent

NoPool == <<nil>>
PoolLive(p) == pooled[p] # NoPool

-----------------------------------------------------------------------------
(* Frames: a guest dealloc method in progress, or the loop of              *)
(* -[NSAutoreleasePool dealloc] over pools and the objects of one of them. *)

DeallocFrame(o) == [kind |-> "dealloc", obj |-> o, pools |-> <<>>, objects |-> <<>>]
DrainFrame(ps) == [kind |-> "drain", obj |-> nil, pools |-> ps, objects |-> <<>>]

InHost(t) == frames[t] # <<>> /\ Last(frames[t]).kind = "drain"

(* Host code is not interrupted: guest code runs when no thread is in it. *)
Guest == \A t \in ObjThreads : ~InHost(t)

DeallocOf(t) ==
  IF frames[t] # <<>> /\ Last(frames[t]).kind = "dealloc" THEN Last(frames[t]).obj ELSE nil

-----------------------------------------------------------------------------
(* retain and release: increment_refcount, decrement_refcount *)

(* Mutant: the first reference is not counted. *)
IncrementedFromTwo(rc) == IF rc > 1 THEN rc + 1 ELSE rc

Incremented(rc) == IF rc > 0 THEN rc + 1 ELSE rc

(* Mutant: dealloc is sent while one reference is left. *)
ReleaseOnEarly(t, o, rcs, under) ==
  /\ refcount' = [rcs EXCEPT ![o] = IF @ > 0 THEN @ - 1 ELSE @]
  /\ frames' = [frames EXCEPT ![t] =
       IF rcs[o] \in {1, 2} THEN Append(under, DeallocFrame(o)) ELSE under]

(* Release o on thread t, whose frames become `under`: the last reference  *)
(* sends dealloc.                                                          *)
ReleaseOn(t, o, rcs, under) ==
  /\ refcount' = [rcs EXCEPT ![o] = IF @ > 0 THEN @ - 1 ELSE @]
  /\ frames' = [frames EXCEPT ![t] =
       IF rcs[o] = 1 THEN Append(under, DeallocFrame(o)) ELSE under]

(* The bounds. *)
MayNest(t) == Len(frames[t]) < MaxNested
MayRefer(o) == refcount[o] < MaxRefs /\ held[o] < MaxRefs

(* alloc_object_inner *)
alloc_object(o) ==
  /\ Guest /\ refcount[o] = Absent
  /\ refcount' = [refcount EXCEPT ![o] = 1]
  /\ held' = [held EXCEPT ![o] = @ + 1]
  /\ UNCHANGED <<leaked, pool_stacks, pooled, frames, slot, slotInUse, weak_refs>>

retain(o) ==
  /\ Guest /\ held[o] > 0 /\ MayRefer(o)
  /\ refcount' = [refcount EXCEPT ![o] = Incremented(@)]
  /\ held' = [held EXCEPT ![o] = @ + 1]
  /\ UNCHANGED <<leaked, pool_stacks, pooled, frames, slot, slotInUse, weak_refs>>

release(t, o) ==
  /\ Guest /\ held[o] > 0 /\ MayNest(t)
  /\ held' = [held EXCEPT ![o] = @ - 1]
  /\ ReleaseOn(t, o, refcount, frames[t])
  /\ UNCHANGED <<leaked, pool_stacks, pooled, slot, slotInUse, weak_refs>>

(* objc_storeStrong to a variable that owns prev: the new object is        *)
(* retained before the old one is released.                                *)
objc_storeStrong(t, prev, o) ==
  /\ Guest /\ prev # o /\ held[prev] > 0 /\ MayNest(t)
  /\ held[o] > 0 /\ MayRefer(o)
  /\ held' = [held EXCEPT ![prev] = @ - 1, ![o] = @ + 1]
  /\ ReleaseOn(t, prev, [refcount EXCEPT ![o] = Incremented(@)], frames[t])
  /\ UNCHANGED <<leaked, pool_stacks, pooled, slot, slotInUse, weak_refs>>

(* -[NSObject autorelease], +[NSAutoreleasePool addObject:]: to the        *)
(* innermost pool of the thread, or nowhere.                               *)
AddToPool(t, o) ==
  IF pool_stacks[t] = <<>>
    THEN leaked' = [leaked EXCEPT ![o] = @ + 1] /\ UNCHANGED pooled
    ELSE pooled' = [pooled EXCEPT ![Last(pool_stacks[t])] = Append(@, o)]
         /\ UNCHANGED leaked

autorelease(t, o) ==
  /\ Guest /\ held[o] > 0
  /\ held' = [held EXCEPT ![o] = @ - 1]
  /\ AddToPool(t, o)
  /\ UNCHANGED <<refcount, pool_stacks, frames, slot, slotInUse, weak_refs>>

-----------------------------------------------------------------------------
(* Deallocation.  No slot is listed for an object without an entry. *)
NoSlots == [s \in Slots |-> 0]

(* zero_weak_references_for writes nil to the registered slots that still  *)
(* hold the object, and removes the entry.                                 *)
ZeroWeak(o) ==
  /\ slot' = [s \in Slots |->
       IF weak_refs[o][s] > 0 /\ slot[s] = o THEN nil ELSE slot[s]]
  /\ weak_refs' = [weak_refs EXCEPT ![o] = NoSlots]

(* The dealloc method reaches -[NSObject dealloc], that is dealloc_object. *)
dealloc_object(t) ==
  /\ Guest /\ DeallocOf(t) # nil
  /\ ZeroWeak(DeallocOf(t))
  /\ refcount' = [refcount EXCEPT ![DeallocOf(t)] = Absent]
  /\ frames' = [frames EXCEPT ![t] = Front(@)]
  /\ UNCHANGED <<held, leaked, pool_stacks, pooled, slotInUse>>

-----------------------------------------------------------------------------
(* Autorelease pools. *)

(* objc_autoreleasePoolPush: +new on the current thread. *)
objc_autoreleasePoolPush(t, p) ==
  /\ Guest /\ ~PoolLive(p)
  /\ pooled' = [pooled EXCEPT ![p] = <<>>]
  /\ pool_stacks' = [pool_stacks EXCEPT ![t] = Append(@, p)]
  /\ UNCHANGED <<refcount, held, leaked, frames, slot, slotInUse, weak_refs>>

OwnerOf(p) == CHOOSE t \in ObjThreads : p \in ToSet(pool_stacks[t])

IndexOf(p) == CHOOSE i \in DOMAIN pool_stacks[OwnerOf(p)] : pool_stacks[OwnerOf(p)][i] = p

(* Mutant: only the pool itself is taken off the stack. *)
WithoutPool(stack, i) == RemoveAt(stack, i)

(* The stack below its pool i. *)
BelowPool(stack, i) == SubSeq(stack, 1, i - 1)

(* objc_autoreleasePoolPop, -drain or -release of a pool, on any thread:   *)
(* the pool and the pools above it leave the stack of the thread it        *)
(* belongs to at once; they are then emptied from the top.                 *)
objc_autoreleasePoolPop(t, p) ==
  LET owner == OwnerOf(p)
      stack == pool_stacks[owner]
  IN
  /\ Guest /\ MayNest(t)
  /\ \E u \in ObjThreads : p \in ToSet(pool_stacks[u])
  /\ pool_stacks' = [pool_stacks EXCEPT ![owner] = BelowPool(@, IndexOf(p))]
  /\ frames' = [frames EXCEPT ![t] =
       Append(@, DrainFrame(Reverse(SubSeq(stack, IndexOf(p), Len(stack)))))]
  /\ UNCHANGED <<refcount, held, leaked, pooled, slot, slotInUse, weak_refs>>

(* One round of the loop: take the objects of the next pool and deallocate *)
(* the pool; or release the next object; or return.                        *)
DrainTakes(t) ==
  LET f == Last(frames[t]) IN
  /\ InHost(t) /\ f.objects = <<>> /\ f.pools # <<>>
  /\ frames' = [frames EXCEPT ![t] =
       Append(Front(@), [f EXCEPT !.objects = pooled[Head(f.pools)], !.pools = Tail(f.pools)])]
  /\ pooled' = [pooled EXCEPT ![Head(f.pools)] = NoPool]
  /\ UNCHANGED <<refcount, held, leaked, pool_stacks, slot, slotInUse, weak_refs>>

DrainReleases(t) ==
  LET f == Last(frames[t]) IN
  /\ InHost(t) /\ f.objects # <<>>
  /\ ReleaseOn(t, Head(f.objects), refcount,
               Append(Front(frames[t]), [f EXCEPT !.objects = Tail(f.objects)]))
  /\ UNCHANGED <<held, leaked, pool_stacks, pooled, slot, slotInUse, weak_refs>>

DrainEnds(t) ==
  /\ InHost(t) /\ Last(frames[t]).objects = <<>> /\ Last(frames[t]).pools = <<>>
  /\ frames' = [frames EXCEPT ![t] = Front(@)]
  /\ UNCHANGED <<refcount, held, leaked, pool_stacks, pooled, slot, slotInUse, weak_refs>>

-----------------------------------------------------------------------------
(* Weak references. *)

(* push() adds a slot to the list of an object whether it is in it or not; *)
(* retain() leaves nothing of a slot.                                      *)
register_weak(refs, o, s) ==
  IF o = nil THEN refs ELSE [refs EXCEPT ![o] = [refs[o] EXCEPT ![s] = refs[o][s] + 1]]

unregister_weak(refs, o, s) ==
  IF o = nil THEN refs ELSE [refs EXCEPT ![o] = [refs[o] EXCEPT ![s] = 0]]

(* What the guest may store: nil, what it holds, and self in dealloc. *)
MayStore(t, o) == o # nil => held[o] > 0 \/ DeallocOf(t) = o

WeakOnly == UNCHANGED <<refcount, held, leaked, pool_stacks, pooled, frames>>

objc_initWeak(t, s, o) ==
  /\ Guest /\ s \notin slotInUse
  /\ MayStore(t, o)
  /\ slot' = [slot EXCEPT ![s] = o]
  /\ weak_refs' = register_weak(weak_refs, o, s)
  /\ slotInUse' = slotInUse \cup {s}
  /\ WeakOnly

(* Mutant: the slot stays registered for the object it held. *)
objc_storeWeak_registered(t, s, o) ==
  /\ Guest /\ s \in slotInUse
  /\ MayStore(t, o)
  /\ slot' = [slot EXCEPT ![s] = o]
  /\ weak_refs' = register_weak(weak_refs, o, s)
  /\ UNCHANGED slotInUse
  /\ WeakOnly

(* objc_storeWeak and objc_storeWeakOrNil *)
objc_storeWeak(t, s, o) ==
  /\ Guest /\ s \in slotInUse
  /\ MayStore(t, o)
  /\ slot' = [slot EXCEPT ![s] = o]
  /\ weak_refs' = register_weak(unregister_weak(weak_refs, slot[s], s), o, s)
  /\ UNCHANGED slotInUse
  /\ WeakOnly

objc_destroyWeak(s) ==
  /\ Guest /\ s \in slotInUse
  /\ slot' = [slot EXCEPT ![s] = nil]
  /\ weak_refs' = unregister_weak(weak_refs, slot[s], s)
  /\ slotInUse' = slotInUse \ {s}
  /\ WeakOnly

objc_copyWeak(to, from) ==
  /\ Guest /\ from \in slotInUse /\ to \notin slotInUse
  /\ slot' = [slot EXCEPT ![to] = slot[from]]
  /\ weak_refs' = register_weak(weak_refs, slot[from], to)
  /\ slotInUse' = slotInUse \cup {to}
  /\ WeakOnly

objc_moveWeak(to, from) ==
  /\ Guest /\ from \in slotInUse /\ to \notin slotInUse
  /\ slot' = [slot EXCEPT ![to] = slot[from], ![from] = nil]
  /\ weak_refs' =
       register_weak(unregister_weak(weak_refs, slot[from], from), slot[from], to)
  /\ slotInUse' = (slotInUse \cup {to}) \ {from}
  /\ WeakOnly

MayLoad(s) ==
  /\ Guest /\ s \in slotInUse /\ slot[s] # nil
  /\ refcount[slot[s]] = Dying => LoadsWhileDying

objc_loadWeakRetained(s) ==
  /\ MayLoad(s) /\ MayRefer(slot[s])
  /\ refcount' = [refcount EXCEPT ![slot[s]] = Incremented(@)]
  /\ held' = [held EXCEPT ![slot[s]] = @ + 1]
  /\ UNCHANGED <<leaked, pool_stacks, pooled, frames, slot, slotInUse, weak_refs>>

(* The same, and the reference is autoreleased. *)
objc_loadWeak(t, s) ==
  /\ MayLoad(s) /\ MayRefer(slot[s])
  /\ refcount' = [refcount EXCEPT ![slot[s]] = Incremented(@)]
  /\ AddToPool(t, slot[s])
  /\ UNCHANGED <<held, pool_stacks, frames, slot, slotInUse, weak_refs>>

-----------------------------------------------------------------------------
ObjcInit ==
  /\ refcount = [o \in Objs |-> Absent]
  /\ held = [o \in Objs |-> 0]
  /\ leaked = [o \in Objs |-> 0]
  /\ pool_stacks = [t \in ObjThreads |-> <<>>]
  /\ pooled = [p \in Pools |-> NoPool]
  /\ frames = [t \in ObjThreads |-> <<>>]
  /\ slot = [s \in Slots |-> nil]
  /\ slotInUse = {}
  /\ weak_refs = [o \in Objs |-> NoSlots]

ObjcNext ==
  \/ \E o \in Objs : alloc_object(o) \/ retain(o)
  \/ \E t \in ObjThreads, o \in Objs :
       \/ release(t, o)
       \/ autorelease(t, o)
       \/ \E prev \in Objs : objc_storeStrong(t, prev, o)
  \/ \E t \in ObjThreads : \/ dealloc_object(t)
                           \/ DrainTakes(t)
                           \/ DrainReleases(t)
                           \/ DrainEnds(t)
                           \/ \E p \in Pools : \/ objc_autoreleasePoolPush(t, p)
                                               \/ objc_autoreleasePoolPop(t, p)
  \/ \E t \in ObjThreads, s \in Slots, o \in Objs \cup {nil} :
       objc_initWeak(t, s, o) \/ objc_storeWeak(t, s, o)
  \/ \E s \in Slots : \/ objc_destroyWeak(s)
                      \/ objc_loadWeakRetained(s)
                      \/ \E t \in ObjThreads : objc_loadWeak(t, s)
                      \/ \E from \in Slots : objc_copyWeak(s, from) \/ objc_moveWeak(s, from)

ObjcSpec == ObjcInit /\ [][ObjcNext]_objcVars

-----------------------------------------------------------------------------
(* Properties. *)

(* The places where the sequences of f hold x. *)
Places(x, f) == UNION {{k} \X {i \in DOMAIN f[k] : f[k][i] = x} : k \in DOMAIN f}

(* What the calls each thread is inside of have still to release, and to   *)
(* empty, by thread and depth.                                             *)
Depths == ObjThreads \X (1 .. MaxNested + 1)
ObjectsIn ==
  [d \in Depths |-> IF d[2] \in DOMAIN frames[d[1]] THEN frames[d[1]][d[2]].objects ELSE <<>>]
PoolsIn ==
  [d \in Depths |-> IF d[2] \in DOMAIN frames[d[1]] THEN frames[d[1]][d[2]].pools ELSE <<>>]

(* References to o that a pool, or a drain in progress, still owns. *)
OwnedByPools(o) == Cardinality(Places(o, pooled)) + Cardinality(Places(o, ObjectsIn))

(* The count of an object is the number of references the guest, the pools *)
(* and the drains in progress have to it; one in dealloc has none left.    *)
RefcountExact ==
  \A o \in Objs :
    held[o] + leaked[o] + OwnedByPools(o) = IF refcount[o] > 0 THEN refcount[o] ELSE 0

(* An object is in dealloc exactly while one thread runs its dealloc, once. *)
DeallocOnce ==
  \A o \in Objs :
    LET running == {d \in Depths :
                      d[2] \in DOMAIN frames[d[1]] /\ frames[d[1]][d[2]].obj = o}
    IN Cardinality(running) = IF refcount[o] = Dying THEN 1 ELSE 0

(* The weak side table and guest memory agree: a slot is registered once,  *)
(* with the object it holds, so no slot outlives its object.               *)
WeakTableExact ==
  \A s \in Slots, o \in Objs :
    /\ weak_refs[o][s] = IF slot[s] = o THEN 1 ELSE 0
    /\ slot[s] = o => refcount[o] # Absent

(* A live pool is on one stack, once, or waits in one drain: it is emptied *)
(* exactly once, by whichever thread drains it or a pool below it.         *)
PoolsOwnedOnce ==
  \A p \in Pools :
    Cardinality(Places(p, pool_stacks)) + Cardinality(Places(p, PoolsIn))
      = IF PoolLive(p) THEN 1 ELSE 0

(* What weak.rs:112 rests on: there is no object that is deallocating but  *)
(* not yet deallocated, so what a weak load returned stays allocated while *)
(* the guest holds it.                                                     *)
HeldObjectsExist == \A o \in Objs : held[o] > 0 => refcount[o] # Absent
=============================================================================
