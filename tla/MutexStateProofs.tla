-------------------------- MODULE MutexStateProofs --------------------------
(***************************************************************************)
(* What lock, unlock, relock and destroy do to one host mutex, and that    *)
(* they keep its owner, count and phantom locks in agreement with what the *)
(* threads were told.                                                      *)
(***************************************************************************)
EXTENDS MutexState, TLAPS

LEMMA NoThreadIsNone == NoThread \notin Thread
  BY MaxThreadsAssumption DEF Thread, NoThread

-----------------------------------------------------------------------------
(* Types and fields of the results *)

LEMMA FreshFields ==
  ASSUME NEW type \in MutexType
  PROVE  /\ FreshMutex(type) \in Mutex
         /\ FreshMutex(type).live /\ FreshMutex(type).type = type
         /\ FreshMutex(type).owner = NoThread
         /\ \A t \in Thread : FreshMutex(type).phantom[t] = 0
  BY DEF Mutex, FreshMutex

LEMMA LockedType ==
  ASSUME NEW mx \in Mutex, NEW t \in Thread
  PROVE  Locked(mx, t) \in Mutex
<1>1. [mx.phantom EXCEPT ![t] = @ + 1] \in [Thread -> Nat]
  BY DEF Mutex
<1>2. [mx EXCEPT !.phantom[t] = @ + 1] = [mx EXCEPT !.phantom = [mx.phantom EXCEPT ![t] = @ + 1]]
  BY DEF Mutex
<1>3. [mx EXCEPT !.phantom = [mx.phantom EXCEPT ![t] = @ + 1]] \in Mutex
  BY <1>1 DEF Mutex
<1>4. [mx EXCEPT !.count = @ + 1] \in Mutex
  BY DEF Mutex
<1>5. [mx EXCEPT !.waiting_count = @ + 1] \in Mutex
  BY DEF Mutex
<1>6. [mx EXCEPT !.owner = t, !.count = 1] \in Mutex
  BY DEF Mutex
<1>7. QED
  BY <1>2, <1>3, <1>4, <1>5, <1>6 DEF Locked

LEMMA LockedKeeps ==
  ASSUME NEW mx \in Mutex, NEW t \in Thread
  PROVE  /\ Locked(mx, t).live = mx.live
         /\ Locked(mx, t).type = mx.type
<1>1. Locked(mx, t).live = mx.live
  BY DEF Mutex, Locked
<1>2. Locked(mx, t).type = mx.type
  BY DEF Mutex, Locked
<1>3. QED
  BY <1>1, <1>2

LEMMA LockedFree ==
  ASSUME NEW mx \in Mutex, NEW t \in Thread, mx.owner = NoThread
  PROVE  LET r == Locked(mx, t) IN r.owner = t /\ r.count = 1 /\ r.phantom = mx.phantom
  BY DEF Mutex, Locked

LEMMA LockedTaken ==
  ASSUME NEW mx \in Mutex, NEW t \in Thread, mx.owner \notin {NoThread, t}
  PROVE  LET r == Locked(mx, t)
         IN  r.owner = mx.owner /\ r.count = mx.count /\ r.phantom = mx.phantom
  BY DEF Mutex, Locked

LEMMA LockedAgain ==
  ASSUME NEW mx \in Mutex, NEW t \in Thread, mx.owner = t
  PROVE  LET r == Locked(mx, t) IN
         /\ r.owner = t
         /\ mx.type = "NORMAL" =>
              r.count = mx.count /\ r.phantom = [mx.phantom EXCEPT ![t] = @ + 1]
         /\ mx.type = "RECURSIVE" => r.count = mx.count + 1 /\ r.phantom = mx.phantom
         /\ mx.type = "ERRORCHECK" => r.count = mx.count /\ r.phantom = mx.phantom
<1>1. CASE mx.type = "NORMAL"
  BY <1>1, NoThreadIsNone DEF Mutex, Locked
<1>2. CASE mx.type = "RECURSIVE"
  BY <1>2, NoThreadIsNone DEF Mutex, Locked
<1>3. CASE mx.type = "ERRORCHECK"
  BY <1>3, NoThreadIsNone DEF Mutex, Locked
<1>4. QED
  BY <1>1, <1>2, <1>3 DEF Mutex, MutexType

(* Unlocking with a phantom lock left, or the last or another real one. *)
LEMMA UnlockedPhantomFields ==
  ASSUME NEW mx \in Mutex, NEW t \in Thread, mx.phantom[t] > 0
  PROVE  LET r == Unlocked(mx, t) IN
         /\ r \in Mutex /\ r.live = mx.live /\ r.type = mx.type
         /\ r.owner = mx.owner /\ r.count = mx.count
         /\ r.phantom = [mx.phantom EXCEPT ![t] = @ - 1]
<1>1. [mx.phantom EXCEPT ![t] = @ - 1] \in [Thread -> Nat]
  BY DEF Mutex
<1>2. Unlocked(mx, t) = [mx EXCEPT !.phantom = [mx.phantom EXCEPT ![t] = @ - 1]]
  BY DEF Mutex, Unlocked
<1>3. Unlocked(mx, t) \in Mutex
  BY <1>1, <1>2 DEF Mutex
<1>4. QED
  BY <1>2, <1>3 DEF Mutex

LEMMA UnlockedLast ==
  ASSUME NEW mx \in Mutex, NEW t \in Thread, mx.phantom[t] = 0, mx.count = 1
  PROVE  LET r == Unlocked(mx, t) IN
         /\ r \in Mutex /\ r.live = mx.live /\ r.type = mx.type
         /\ r.owner = NoThread /\ r.phantom = mx.phantom
<1>1. Unlocked(mx, t) = [mx EXCEPT !.owner = NoThread, !.count = 0]
  BY DEF Unlocked
<1>2. Unlocked(mx, t) \in Mutex
  BY <1>1 DEF Mutex
<1>3. QED
  BY <1>1, <1>2 DEF Mutex

LEMMA UnlockedOnce ==
  ASSUME NEW mx \in Mutex, NEW t \in Thread, mx.phantom[t] = 0, mx.count > 1
  PROVE  LET r == Unlocked(mx, t) IN
         /\ r \in Mutex /\ r.live = mx.live /\ r.type = mx.type
         /\ r.owner = mx.owner /\ r.count = mx.count - 1 /\ r.phantom = mx.phantom
<1>1. Unlocked(mx, t) = [mx EXCEPT !.count = mx.count - 1]
  BY DEF Unlocked
<1>2. mx.count - 1 \in Nat
  BY DEF Mutex
<1>3. Unlocked(mx, t) \in Mutex
  BY <1>1, <1>2 DEF Mutex
<1>4. QED
  BY <1>1, <1>3 DEF Mutex

LEMMA UnlockedType ==
  ASSUME NEW mx \in Mutex, NEW t \in Thread, mx.owner # NoThread => mx.count >= 1,
         ~UnlockFails(mx, t)
  PROVE  LET r == Unlocked(mx, t) IN
         /\ r \in Mutex /\ r.live = mx.live /\ r.type = mx.type
         /\ r.owner # NoThread => r.count >= 1
<1>1. mx.phantom[t] \in Nat /\ mx.count \in Nat
  BY DEF Mutex
<1>2. CASE mx.phantom[t] > 0
  BY <1>2, UnlockedPhantomFields
<1>3. CASE mx.phantom[t] = 0
  <2>1. mx.count >= 1
    BY <1>3 DEF UnlockFails
  <2>2. CASE mx.count = 1
    BY <1>3, <2>2, UnlockedLast
  <2>3. CASE mx.count > 1
    BY <1>1, <1>3, <2>3, UnlockedOnce
  <2>4. QED
    BY <1>1, <2>1, <2>2, <2>3
<1>4. QED
  BY <1>1, <1>2, <1>3

LEMMA RelockedFields ==
  ASSUME NEW mx \in Mutex, NEW t \in Thread
  PROVE  LET r == Relocked(mx, t) IN
         /\ r \in Mutex /\ r.live = mx.live /\ r.type = mx.type
         /\ r.owner = t /\ r.count = 1 /\ r.phantom = mx.phantom
<1>1. (IF mx.waiting_count > 0 THEN mx.waiting_count - 1 ELSE mx.waiting_count) \in Nat
  BY DEF Mutex
<1>2. Relocked(mx, t) \in Mutex
  BY <1>1 DEF Mutex, Relocked
<1>3. QED
  BY <1>2 DEF Mutex, Relocked

LEMMA DestroyedFields ==
  ASSUME NEW mx \in Mutex
  PROVE  LET r == Destroyed(mx) IN
         /\ r \in Mutex /\ r.type = mx.type /\ r.owner = mx.owner
         /\ r.count = mx.count /\ r.phantom = mx.phantom
<1>1. Destroyed(mx) \in Mutex
  BY DEF Mutex, Destroyed
<1>2. QED
  BY <1>1 DEF Mutex, Destroyed

-----------------------------------------------------------------------------
(* Agreement with what the threads were told *)

(* If t owns the mutex it was told so h times, or is about to be (k = 1),   *)
(* and count and phantom locks agree; if not, it was told nothing.         *)
OwnerExact(mx, t, h, k) ==
  /\ h > 0 => mx.live /\ mx.owner = t
  /\ mx.phantom[t] > 0 => mx.owner = t
  /\ k = 1 => mx.live /\ mx.owner = t /\ mx.count = 1 /\ mx.phantom[t] = 0 /\ h = 0
  /\ (mx.owner = t /\ k = 0) => mx.count >= 1 /\ h = mx.count + mx.phantom[t]

(* A granted lock is one more for the owner, and nobody else has any. *)
LEMMA LockedExact ==
  ASSUME NEW mx \in Mutex, mx.live, NEW t \in Thread, ~LockBlocks(mx, t), ~LockFails(mx, t),
         NEW h \in Nat, OwnerExact(mx, t, h, 0)
  PROVE  OwnerExact(Locked(mx, t), t, h + 1, 0)
<1>1. /\ mx.phantom \in [Thread -> Nat] /\ mx.count \in Nat
      /\ mx.type \in {"NORMAL", "ERRORCHECK", "RECURSIVE"}
  BY DEF Mutex, MutexType
<1>2. Locked(mx, t).live
  BY LockedKeeps
<1>3. CASE mx.owner = NoThread
  <2>1. h = 0 /\ mx.phantom[t] = 0
    BY <1>1, <1>3, NoThreadIsNone DEF OwnerExact
  <2>2. QED
    BY <1>2, <1>3, <2>1, LockedFree DEF OwnerExact
<1>4. CASE mx.owner = t
  <2>1. mx.count >= 1 /\ h = mx.count + mx.phantom[t]
    BY <1>4 DEF OwnerExact
  <2>2. CASE mx.type = "NORMAL"
    <3>1. /\ Locked(mx, t).owner = t /\ Locked(mx, t).count = mx.count
          /\ Locked(mx, t).phantom = [mx.phantom EXCEPT ![t] = @ + 1]
      BY <1>4, <2>2, LockedAgain
    <3>2. Locked(mx, t).phantom[t] = mx.phantom[t] + 1
      BY <1>1, <3>1
    <3>3. QED
      BY <1>1, <1>2, <2>1, <3>1, <3>2 DEF OwnerExact
  <2>3. CASE mx.type = "RECURSIVE"
    <3>1. /\ Locked(mx, t).owner = t /\ Locked(mx, t).count = mx.count + 1
          /\ Locked(mx, t).phantom = mx.phantom
      BY <1>4, <2>3, LockedAgain
    <3>2. QED
      BY <1>1, <1>2, <2>1, <3>1 DEF OwnerExact
  <2>4. QED
    BY <1>1, <1>4, <2>2, <2>3 DEF LockFails
<1>5. QED
  BY <1>3, <1>4 DEF LockBlocks

LEMMA LockedOthers ==
  ASSUME NEW mx \in Mutex, NEW t \in Thread, ~LockBlocks(mx, t), NEW u \in Thread, u # t,
         NEW h \in Nat, NEW k \in {0, 1}, OwnerExact(mx, u, h, k)
  PROVE  OwnerExact(Locked(mx, t), u, h, k)
<1>1. /\ mx.phantom \in [Thread -> Nat]
      /\ mx.type \in {"NORMAL", "ERRORCHECK", "RECURSIVE"}
  BY DEF Mutex, MutexType
<1>2. mx.owner \in {NoThread, t}
  BY DEF LockBlocks
<1>3. Locked(mx, t).owner = t /\ Locked(mx, t).phantom[u] = mx.phantom[u]
  <2>1. CASE mx.owner = NoThread
    BY <2>1, LockedFree
  <2>2. CASE mx.owner = t
    <3>1. /\ Locked(mx, t).owner = t
          /\ \/ Locked(mx, t).phantom = mx.phantom
             \/ Locked(mx, t).phantom = [mx.phantom EXCEPT ![t] = @ + 1]
      BY <1>1, <2>2, LockedAgain
    <3>2. QED
      BY <1>1, <3>1
  <2>3. QED
    BY <1>2, <2>1, <2>2
<1>4. mx.owner # u
  BY <1>2, NoThreadIsNone
<1>5. QED
  BY <1>1, <1>3, <1>4 DEF OwnerExact

(* A lock that blocks or fails changes nobody's hold. *)
LEMMA LockedInVain ==
  ASSUME NEW mx \in Mutex, NEW t \in Thread, LockBlocks(mx, t) \/ LockFails(mx, t),
         NEW u \in Thread, NEW h \in Nat, NEW k \in {0, 1}, OwnerExact(mx, u, h, k)
  PROVE  OwnerExact(Locked(mx, t), u, h, k)
<1>1. LET r == Locked(mx, t)
      IN  r.owner = mx.owner /\ r.count = mx.count /\ r.phantom = mx.phantom
  BY LockedTaken, LockedAgain DEF LockBlocks, LockFails
<1>2. QED
  BY <1>1, LockedKeeps DEF OwnerExact

LEMMA UnlockedExact ==
  ASSUME NEW mx \in Mutex, NEW t \in Thread, mx.owner = t,
         NEW h \in Nat, OwnerExact(mx, t, h, 0)
  PROVE  OwnerExact(Unlocked(mx, t), t, IF h > 0 THEN h - 1 ELSE 0, 0)
<1>1. mx.phantom \in [Thread -> Nat] /\ mx.count \in Nat /\ mx.phantom[t] \in Nat
  BY DEF Mutex
<1>2. h = mx.count + mx.phantom[t] /\ mx.count >= 1 /\ mx.live /\ h > 0
  BY <1>1 DEF OwnerExact
<1>3. CASE mx.phantom[t] > 0
  <2>1. /\ Unlocked(mx, t).live = mx.live
        /\ Unlocked(mx, t).owner = t /\ Unlocked(mx, t).count = mx.count
        /\ Unlocked(mx, t).phantom = [mx.phantom EXCEPT ![t] = @ - 1]
    BY <1>3, UnlockedPhantomFields
  <2>2. Unlocked(mx, t).phantom[t] = mx.phantom[t] - 1
    BY <1>1, <2>1
  <2>3. QED
    BY <1>1, <1>2, <1>3, <2>1, <2>2 DEF OwnerExact
<1>4. CASE mx.phantom[t] = 0 /\ mx.count = 1
  BY <1>1, <1>2, <1>4, UnlockedLast, NoThreadIsNone DEF OwnerExact
<1>5. CASE mx.phantom[t] = 0 /\ mx.count > 1
  <2>1. /\ Unlocked(mx, t).live = mx.live
        /\ Unlocked(mx, t).owner = t /\ Unlocked(mx, t).count = mx.count - 1
        /\ Unlocked(mx, t).phantom = mx.phantom
    BY <1>5, UnlockedOnce
  <2>2. QED
    BY <1>1, <1>2, <1>5, <2>1 DEF OwnerExact
<1>6. \/ mx.phantom[t] > 0
      \/ mx.phantom[t] = 0 /\ mx.count = 1
      \/ mx.phantom[t] = 0 /\ mx.count > 1
  BY <1>1, <1>2
<1>7. QED
  BY <1>3, <1>4, <1>5, <1>6

LEMMA UnlockedOthers ==
  ASSUME NEW mx \in Mutex, NEW t \in Thread, mx.owner = t, mx.count >= 1,
         NEW u \in Thread, u # t, NEW h \in Nat, NEW k \in {0, 1}, OwnerExact(mx, u, h, k)
  PROVE  OwnerExact(Unlocked(mx, t), u, h, k)
<1>1. mx.phantom \in [Thread -> Nat] /\ mx.count \in Nat /\ mx.phantom[t] \in Nat
  BY DEF Mutex
<1>2. Unlocked(mx, t).owner \in {NoThread, t} /\ Unlocked(mx, t).phantom[u] = mx.phantom[u]
  <2>1. CASE mx.phantom[t] > 0
    BY <1>1, <2>1, UnlockedPhantomFields
  <2>2. CASE mx.phantom[t] = 0 /\ mx.count = 1
    BY <2>2, UnlockedLast
  <2>3. CASE mx.phantom[t] = 0 /\ mx.count > 1
    BY <2>3, UnlockedOnce
  <2>4. QED
    BY <1>1, <2>1, <2>2, <2>3
<1>3. QED
  BY <1>1, <1>2, NoThreadIsNone DEF OwnerExact

LEMMA RelockedExact ==
  ASSUME NEW mx \in Mutex, mx.live, mx.owner = NoThread, NEW t \in Thread, NEW u \in Thread,
         NEW h \in Nat, NEW k \in {0, 1}, OwnerExact(mx, u, h, k)
  PROVE  /\ u = t => OwnerExact(Relocked(mx, t), u, h, 1)
         /\ u # t => OwnerExact(Relocked(mx, t), u, h, k)
<1>1. mx.phantom \in [Thread -> Nat] /\ mx.phantom[u] \in Nat
  BY DEF Mutex
<1>2. h = 0 /\ mx.phantom[u] = 0 /\ k = 0
  BY <1>1, NoThreadIsNone DEF OwnerExact
<1>3. QED
  BY <1>1, <1>2, RelockedFields DEF OwnerExact

LEMMA DestroyedExact ==
  ASSUME NEW mx \in Mutex, ~DestroyFails(mx), NEW u \in Thread, NEW h \in Nat,
         NEW k \in {0, 1}, OwnerExact(mx, u, h, k)
  PROVE  OwnerExact(Destroyed(mx), u, h, k)
<1>1. mx.owner = NoThread
  BY DEF DestroyFails
<1>2. QED
  BY <1>1, DestroyedFields, NoThreadIsNone DEF OwnerExact

LEMMA FreshExact ==
  ASSUME NEW type \in MutexType, NEW u \in Thread
  PROVE  OwnerExact(FreshMutex(type), u, 0, 0)
  BY FreshFields, NoThreadIsNone DEF OwnerExact
=============================================================================
