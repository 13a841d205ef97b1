----------------------------- MODULE MCServices -----------------------------
(***************************************************************************)
(* An instance for TLC of what the host does for the guest besides pthreads: *)
(* the clock (GuestClock), the heap (Allocator), the audio queues           *)
(* (AudioQueue), object lifetimes (ObjcLifetime), NSCondition and           *)
(* NSConditionLock (NSCondition), run loops and timers (RunLoop), and       *)
(* @synchronized and the other locks made of host mutexes (ObjcLocks).      *)
(* They share no state, so a behaviour exercises one of them, chosen at     *)
(* the start.  Most have more than one instance, each large in another      *)
(* direction; the constants of this module are the largest of theirs.       *)
(***************************************************************************)
EXTENDS GuestClock, MCHeap, AudioQueue, ObjcLifetime, NSCondition, RunLoop, ObjcLocks, TLC

VARIABLE part

(* MCSegments are segments such as the theorems of HeapProofs are about. *)
ASSUME SegmentsFit == SegmentsAligned /\ SegmentsApart

(* The next time of a late timer is on its beat and not in the past.       *)
ASSUME \A left \in -7 .. 0 :
  Advanced(left) \in 0 .. Interval /\ (Advanced(left) - left) % Interval = 0

(* The parts are given the same model values for what is interchangeable in  *)
(* them, so that a group of four permutations is one for all of them.       *)
ServicesSymmetry == Permutations(AudioQueues) \cup Permutations(AqBuffers)

AtMostOne(S) == Cardinality(S) <= 1

-----------------------------------------------------------------------------
(* Two threads that sleep for a short or a long time, and one at a time     *)
(* that sleeps for a long one, with room before and after it.              *)
ShortClock == INSTANCE GuestClock WITH MaxHost <- 3
LongSleeps == INSTANCE GuestClock WITH Durations <- {Max(Durations)}

ClockParts ==
  /\ \/ part = "sleepers" /\ ShortClock!Next
     \/ /\ part = "sleeper" /\ LongSleeps!Next
        /\ AtMostOne({t \in Threads : blocked_by'[t] # NotBlocked})
  /\ UNCHANGED <<part, allocVars, audioVars, objcVars, condVars, loopVars, lockVars>>

(* Where memory is zeroed when it is freed, any number of blocks; where it  *)
(* is zeroed when it is handed out, and may be dirty in between, one.      *)
OneBlock == INSTANCE Allocator WITH MaxBlocks <- 1

HeapParts ==
  /\ part = "heap"
  /\ IF zero_memory_on_free THEN AllocNext ELSE OneBlock!AllocNext
  /\ UNCHANGED <<part, vars, audioVars, objcVars, condVars, loopVars, lockVars>>

(* One queue at a time with many entries; two queues with one entry each,   *)
(* or with one buffer at a time.                                           *)
OneEntry == INSTANCE AudioQueue WITH MaxEnqueued <- 1
TwoEntries == INSTANCE AudioQueue WITH MaxEnqueued <- 2

AudioParts ==
  /\ \/ /\ part = "queue" /\ AudioNext
        /\ AtMostOne({q \in AudioQueues : aq'[q].live} \cup {h.q : h \in Range(handlers')})
     \/ part = "queues" /\ OneEntry!AudioNext
     \/ /\ part = "buffer" /\ TwoEntries!AudioNext
        /\ AtMostOne(UNION {aq'[q].buffers : q \in AudioQueues})
  /\ UNCHANGED <<part, vars, allocVars, objcVars, condVars, loopVars, lockVars>>

(* Deallocs and drains nested in one another, with one weak slot in use at  *)
(* a time; and slots copied and moved, with one live pool at a time.       *)
OneNested == INSTANCE ObjcLifetime WITH MaxNested <- 1

ObjcParts ==
  /\ \/ part = "objects" /\ ObjcNext /\ AtMostOne(slotInUse')
     \/ /\ part = "weak" /\ OneNested!ObjcNext
        /\ AtMostOne({p \in Pools : pooled'[p] # NoPool})
  /\ UNCHANGED <<part, vars, allocVars, audioVars, condVars, loopVars, lockVars>>

(* Timers in nested runs of a loop, selectors performed without nested      *)
(* runs, and both with one live timer at a time, whose address is used again. *)
NoPerforms == INSTANCE RunLoop WITH PerformThreads <- {}
NotNested == INSTANCE RunLoop WITH MaxRuns <- 1

LoopParts ==
  /\ \/ part = "nested" /\ NoPerforms!LoopNext
     \/ part = "performs" /\ NotNested!LoopNext
     \/ /\ part = "both" /\ LoopNext
        /\ AtMostOne({x \in Timers : timer'[x].live})
  /\ UNCHANGED <<part, vars, allocVars, audioVars, objcVars, condVars, lockVars>>

-----------------------------------------------------------------------------
(* No memory at all, in the parts that are not about the heap. *)
NoHeap ==
  /\ heap = [used |-> {}, unused |-> {}]
  /\ reserved = {} /\ toLoad = {} /\ dirty = {} /\ blocks = {}
  /\ zero_memory_on_free = FALSE

ServicesInit ==
  /\ part \in {"sleepers", "sleeper", "heap", "queue", "queues", "buffer", "objects", "weak",
               "conditions", "nested", "performs", "both", "locks"}
  /\ Init /\ AudioInit /\ ObjcInit /\ CondInit /\ LoopInit /\ ObjcLocksInit
  /\ IF part = "heap" THEN AllocInit ELSE NoHeap
  /\ part # "conditions" => lock.condition = 0

ServicesNext ==
  \/ ClockParts
  \/ HeapParts
  \/ AudioParts
  \/ ObjcParts
  \/ /\ part = "conditions" /\ CondNext
     /\ UNCHANGED <<part, vars, allocVars, audioVars, objcVars, loopVars, lockVars>>
  \/ LoopParts
  \/ /\ part = "locks" /\ ObjcLocksNext
     /\ UNCHANGED <<part, vars, allocVars, audioVars, objcVars, condVars, loopVars>>

ServicesSpec ==
  ServicesInit /\ [][ServicesNext]_<<part, vars, allocVars, audioVars, objcVars, condVars,
                                     loopVars, lockVars>>
=============================================================================
