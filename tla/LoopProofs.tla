----------------------------- MODULE LoopProofs -----------------------------
(***************************************************************************)
(* Proofs about RunLoop: the references to timers, their callbacks, and    *)
(* the threads that wait for a selector to be performed, for any number of *)
(* threads, timers and nested runs.                                        *)
(***************************************************************************)
EXTENDS RunLoop, FiniteSetTheorems, WellFoundedInduction, TLAPS

-----------------------------------------------------------------------------
(* The invariant *)

TimerRecords ==
  [live : BOOLEAN, repeats : BOOLEAN, perform : BOOLEAN, valid : BOOLEAN, left : Int,
   loop : LoopThreads \cup {Nobody}, is_running_callback : BOOLEAN, refs : Nat,
   guest : BOOLEAN, fires : Nat]

(* The frames there can be: one in a callback has a timer; one that passes  *)
(* or sleeps has none and posts nobody.                                    *)
Frames ==
  {f \in [mode : {"single", "run", "until", "fire"},
          phase : {"iterate", "callback", "sleep"}, tmp : SUBSET Timers,
          timer : Timers \cup {NoTimer}, post : LoopThreads \cup {Nobody}] :
     /\ f.phase = "callback" => f.timer \in Timers
     /\ f.phase # "callback" => f.timer = NoTimer /\ f.post = Nobody /\ f.mode # "fire"
     /\ f.phase = "sleep" => f.tmp = {}
     /\ f.mode = "fire" => f.tmp = {} /\ f.post = Nobody}

RunsOK ==
  /\ runs \in [LoopThreads -> Seq(Frames)]
  /\ \A t \in LoopThreads : Len(runs[t]) <= MaxRuns

One(P) == IF P THEN 1 ELSE 0

(* A timer in n loops, c copies and k callbacks, of which there are m       *)
(* references more than that.                                              *)
Exact(tm, n, c, k, m) ==
  /\ tm \in TimerRecords /\ n \in {0, 1} /\ c \in Nat /\ k \in Nat /\ m \in Nat
  /\ tm.refs = One(tm.guest) + n + c + 2 * k + m
  /\ n = 1 => tm.valid
  /\ k = One(tm.is_running_callback)
  /\ tm.fires > 0 => /\ ~tm.repeats /\ tm.fires = 1
                     /\ tm.is_running_callback \/ ~tm.valid

Alive(tm) == IF tm.live THEN tm.refs > 0 ELSE tm = FreeTimer

InLoop(x) == One(\E t \in LoopThreads : x \in timers[t])

Counted(x, c, k) ==
  /\ IsFiniteSet(CopiesOf(x)) /\ Cardinality(CopiesOf(x)) = c
  /\ IsFiniteSet(CallbacksOf(x)) /\ Cardinality(CallbacksOf(x)) = k

TimerOK(x) ==
  /\ \E c, k \in Nat : Counted(x, c, k) /\ Exact(timer[x], InLoop(x), c, k, 0)
  /\ Alive(timer[x])
  /\ \A t \in LoopThreads : x \in timers[t] => timer[x].loop = t

TimersOK ==
  /\ timer \in [Timers -> TimerRecords]
  /\ timers \in [LoopThreads -> SUBSET Timers]
  /\ \A x \in Timers : TimerOK(x)

EntriesOf(t) == {i \in DOMAIN semaphores : semaphores[i][2] = t}

(* The one thing that stands for a wait: its entry in the table, a callback *)
(* that will post it, or that it is posted.                                *)
Paired(t) ==
  /\ EntriesOf(t) = {} \/ \E i : EntriesOf(t) = {i}
  /\ PostsTo(t) = {} \/ \E d : PostsTo(t) = {d}
  /\ t \notin waits => EntriesOf(t) = {} /\ PostsTo(t) = {} /\ t \notin posted
  /\ t \in waits => \/ EntriesOf(t) # {} /\ PostsTo(t) = {} /\ t \notin posted
                    \/ EntriesOf(t) = {} /\ PostsTo(t) # {} /\ t \notin posted
                    \/ EntriesOf(t) = {} /\ PostsTo(t) = {} /\ t \in posted

(* The timer of an entry is one of a performed selector, and the waiting    *)
(* thread has a reference to it.                                           *)
Awaited(tm) == tm.perform /\ tm.guest

EntriesOK ==
  /\ semaphores \in Seq(Timers \X LoopThreads)
  /\ \A i \in DOMAIN semaphores : Awaited(timer[semaphores[i][1]])

WaitsOK == \A t \in LoopThreads : Paired(t)

LoopInv == RunsOK /\ TimersOK /\ EntriesOK /\ WaitsOK

-----------------------------------------------------------------------------
(* Steps of the stacks: one depth changes *)

LEMMA OneChange ==
  ASSUME NEW S, NEW T, NEW d, IsFiniteSet(S), S \ {d} = T \ {d}
  PROVE  /\ IsFiniteSet(T) /\ Cardinality(S) \in Nat
         /\ Cardinality(T) = Cardinality(S) + One(d \in T) - One(d \in S)
<1>1. Cardinality(S) \in Nat
  BY FS_CardinalityType
<1>2. CASE d \in S /\ d \in T
  <2>1. T = S
    BY <1>2
  <2>2. QED
    BY <1>1, <1>2, <2>1 DEF One
<1>3. CASE d \notin S /\ d \notin T
  <2>1. T = S
    BY <1>3
  <2>2. QED
    BY <1>1, <1>3, <2>1 DEF One
<1>4. CASE d \in S /\ d \notin T
  <2>1. T = S \ {d}
    BY <1>4
  <2>2. IsFiniteSet(T) /\ Cardinality(T) = Cardinality(S) - 1
    BY <1>4, <2>1, FS_RemoveElement
  <2>3. QED
    BY <1>1, <1>4, <2>2 DEF One
<1>5. CASE d \notin S /\ d \in T
  <2>1. T = S \cup {d}
    BY <1>5
  <2>2. IsFiniteSet(T) /\ Cardinality(T) = Cardinality(S) + 1
    BY <1>5, <2>1, FS_AddElement
  <2>3. QED
    BY <1>1, <1>5, <2>2 DEF One
<1>6. QED
  BY <1>2, <1>3, <1>4, <1>5

FrameStep(d, old, new) ==
  /\ d \in LoopDepths
  /\ FrameAt(d) = old /\ FrameAt(d)' = new
  /\ \A e \in LoopDepths : e # d => FrameAt(e)' = FrameAt(e)

LEMMA Pushed ==
  ASSUME RunsOK, NEW t \in LoopThreads, NEW f \in Frames, Len(runs[t]) < MaxRuns, Push(t, f),
         NEW n, n = Len(runs[t]) + 1
  PROVE  RunsOK' /\ FrameStep(<<t, n>>, NoFrame, f)
<1>1. /\ runs \in [LoopThreads -> Seq(Frames)] /\ runs[t] \in Seq(Frames) /\ Len(runs[t]) \in Nat
      /\ runs' = [runs EXCEPT ![t] = Append(runs[t], f)] /\ MaxRuns \in Nat
  BY LoopAssumption DEF RunsOK, Push
<1>2. PICK q : q = Append(runs[t], f)
  OBVIOUS
<1>3. /\ q \in Seq(Frames) /\ Len(q) = Len(runs[t]) + 1 /\ q[Len(runs[t]) + 1] = f
      /\ \A i \in 1 .. Len(runs[t]) : q[i] = runs[t][i]
      /\ DOMAIN q = 1 .. Len(runs[t]) + 1 /\ DOMAIN runs[t] = 1 .. Len(runs[t])
  BY <1>1, <1>2
<1>4. runs'[t] = q /\ \A u \in LoopThreads : u # t => runs'[u] = runs[u]
  BY <1>1, <1>2
<1>5. RunsOK'
  BY <1>1, <1>2, <1>3, <1>4 DEF RunsOK
<1>6. <<t, n>> \in LoopDepths
  BY <1>1 DEF LoopDepths
<1>7. FrameAt(<<t, n>>) = NoFrame /\ FrameAt(<<t, n>>)' = f
  <2>1. n \notin DOMAIN runs[t] /\ n \in DOMAIN q
    BY <1>1, <1>3
  <2>2. FrameAt(<<t, n>>) = NoFrame
    BY <2>1 DEF FrameAt
  <2>3. FrameAt(<<t, n>>)' = f
    BY <1>3, <1>4, <2>1 DEF FrameAt
  <2>4. QED
    BY <2>2, <2>3
<1>8. ASSUME NEW e \in LoopDepths, e # <<t, n>>
      PROVE  FrameAt(e)' = FrameAt(e)
  <2>1. PICK u \in LoopThreads, i \in 1 .. MaxRuns : e = <<u, i>>
    BY DEF LoopDepths
  <2>2. CASE u # t
    BY <1>4, <2>1, <2>2 DEF FrameAt, NoFrame, Frame
  <2>3. CASE u = t
    <3>1. i # n
      BY <1>8, <2>1, <2>3
    <3>2. i \in DOMAIN q <=> i \in DOMAIN runs[t]
      BY <1>1, <1>3, <3>1
    <3>3. i \in DOMAIN runs[t] => q[i] = runs[t][i]
      BY <1>3
    <3>4. QED
      BY <1>4, <2>1, <2>3, <3>2, <3>3 DEF FrameAt, NoFrame, Frame
  <2>4. QED
    BY <2>2, <2>3
<1>9. QED
  BY <1>5, <1>6, <1>7, <1>8 DEF FrameStep

LEMMA LastIs ==
  ASSUME RunsOK, NEW t \in LoopThreads, runs[t] # <<>>
  PROVE  /\ Len(runs[t]) \in 1 .. MaxRuns /\ <<t, Len(runs[t])>> \in LoopDepths
         /\ Last(runs[t]) \in Frames /\ FrameAt(<<t, Len(runs[t])>>) = Last(runs[t])
         /\ Phase(t) = Last(runs[t]).phase
<1>1. runs[t] \in Seq(Frames) /\ Len(runs[t]) \in Nat /\ Len(runs[t]) # 0
      /\ DOMAIN runs[t] = 1 .. Len(runs[t]) /\ Len(runs[t]) <= MaxRuns /\ MaxRuns \in Nat
  BY LoopAssumption DEF RunsOK
<1>2. Len(runs[t]) \in 1 .. MaxRuns /\ Len(runs[t]) \in DOMAIN runs[t]
  BY <1>1
<1>3. Last(runs[t]) = runs[t][Len(runs[t])]
  BY DEF Last
<1>4. QED
  BY <1>1, <1>2, <1>3 DEF LoopDepths, FrameAt, Phase

LEMMA Topped ==
  ASSUME RunsOK, NEW t \in LoopThreads, NEW f \in Frames, runs[t] # <<>>, Top(t, f),
         NEW n, n = Len(runs[t])
  PROVE  RunsOK' /\ FrameStep(<<t, n>>, Last(runs[t]), f)
<1>1. /\ runs \in [LoopThreads -> Seq(Frames)] /\ runs[t] \in Seq(Frames) /\ Len(runs[t]) \in Nat
      /\ runs' = [runs EXCEPT ![t] = ReplaceAt(runs[t], Len(runs[t]), f)]
      /\ Len(runs[t]) <= MaxRuns
  BY DEF RunsOK, Top
<1>2. Len(runs[t]) \in 1 .. Len(runs[t])
  BY <1>1, LastIs
<1>3. PICK q : q = [runs[t] EXCEPT ![Len(runs[t])] = f]
  OBVIOUS
<1>4. /\ q \in Seq(Frames) /\ Len(q) = Len(runs[t]) /\ q[Len(runs[t])] = f
      /\ \A i \in 1 .. Len(runs[t]) : i # Len(runs[t]) => q[i] = runs[t][i]
      /\ DOMAIN q = DOMAIN runs[t] /\ DOMAIN runs[t] = 1 .. Len(runs[t])
  BY <1>1, <1>2, <1>3
<1>5. runs'[t] = q /\ \A u \in LoopThreads : u # t => runs'[u] = runs[u]
  BY <1>1, <1>3 DEF ReplaceAt
<1>6. RunsOK'
  BY <1>1, <1>4, <1>5 DEF RunsOK
<1>7. FrameAt(<<t, n>>)' = f
  BY <1>2, <1>4, <1>5 DEF FrameAt
<1>8. ASSUME NEW e \in LoopDepths, e # <<t, n>>
      PROVE  FrameAt(e)' = FrameAt(e)
  <2>1. PICK u \in LoopThreads, i \in 1 .. MaxRuns : e = <<u, i>>
    BY DEF LoopDepths
  <2>2. CASE u # t
    BY <1>5, <2>1, <2>2 DEF FrameAt, NoFrame, Frame
  <2>3. CASE u = t
    <3>1. i # Len(runs[t])
      BY <1>8, <2>1, <2>3
    <3>2. QED
      BY <1>4, <1>5, <2>1, <2>3, <3>1 DEF FrameAt, NoFrame, Frame
  <2>4. QED
    BY <2>2, <2>3
<1>9. QED
  BY <1>6, <1>7, <1>8, LastIs DEF FrameStep

LEMMA Popped ==
  ASSUME RunsOK, NEW t \in LoopThreads, runs[t] # <<>>, Pop(t),
         NEW n, n = Len(runs[t])
  PROVE  RunsOK' /\ FrameStep(<<t, n>>, Last(runs[t]), NoFrame)
<1>1. /\ runs \in [LoopThreads -> Seq(Frames)] /\ runs[t] \in Seq(Frames) /\ Len(runs[t]) \in Nat
      /\ runs' = [runs EXCEPT ![t] = SubSeq(runs[t], 1, Len(runs[t]) - 1)]
      /\ Len(runs[t]) <= MaxRuns /\ MaxRuns \in Nat
  BY LoopAssumption DEF RunsOK, Pop, Front
<1>2. Len(runs[t]) \in 1 .. Len(runs[t]) /\ Len(runs[t]) - 1 \in Nat
  BY <1>1, LastIs
<1>3. PICK q : q = SubSeq(runs[t], 1, Len(runs[t]) - 1)
  OBVIOUS
<1>4. /\ q \in Seq(Frames) /\ Len(q) = Len(runs[t]) - 1
      /\ \A i \in 1 .. Len(runs[t]) - 1 : q[i] = runs[t][i]
      /\ DOMAIN q = 1 .. Len(runs[t]) - 1 /\ DOMAIN runs[t] = 1 .. Len(runs[t])
  <2>1. PICK m \in Nat : m = Len(runs[t]) - 1
    BY <1>2
  <2>2. q = SubSeq(runs[t], 1, m) /\ m \in 0 .. Len(runs[t])
    BY <1>1, <1>3, <2>1
  <2>3. q \in Seq(Frames) /\ Len(q) = m /\ \A i \in 1 .. m : q[i] = runs[t][i]
    BY <1>1, <2>2
  <2>4. QED
    BY <1>1, <2>1, <2>3
<1>5. runs'[t] = q /\ \A u \in LoopThreads : u # t => runs'[u] = runs[u]
  BY <1>1, <1>3
<1>6. RunsOK'
  BY <1>1, <1>2, <1>3, <1>4, <1>5 DEF RunsOK
<1>7. FrameAt(<<t, n>>)' = NoFrame
  <2>1. n \notin DOMAIN q
    BY <1>1, <1>4
  <2>2. QED
    BY <1>5, <2>1 DEF FrameAt, NoFrame, Frame
<1>8. ASSUME NEW e \in LoopDepths, e # <<t, n>>
      PROVE  FrameAt(e)' = FrameAt(e)
  <2>1. PICK u \in LoopThreads, i \in 1 .. MaxRuns : e = <<u, i>>
    BY DEF LoopDepths
  <2>2. CASE u # t
    BY <1>5, <2>1, <2>2 DEF FrameAt, NoFrame, Frame
  <2>3. CASE u = t
    <3>1. i # Len(runs[t])
      BY <1>8, <2>1, <2>3
    <3>2. i \in DOMAIN q <=> i \in DOMAIN runs[t]
      BY <1>1, <1>2, <1>4, <3>1
    <3>3. i \in DOMAIN q => q[i] = runs[t][i]
      BY <1>4
    <3>4. QED
      BY <1>5, <2>1, <2>3, <3>2, <3>3 DEF FrameAt, NoFrame, Frame
  <2>4. QED
    BY <2>2, <2>3
<1>9. QED
  BY <1>6, <1>7, <1>8, LastIs DEF FrameStep

-----------------------------------------------------------------------------
(* What a step of a stack does to the counts *)

CalledBy(f, x) == f.timer = x /\ f.mode # "fire"

(* The copies of x grow by dc, its callbacks by dk. *)
Moves(x, dc, dk) ==
  \A c, k \in Nat : Counted(x, c, k) =>
    c + dc \in Nat /\ k + dk \in Nat /\ Counted(x, c + dc, k + dk)'

LEMMA FrameMoves ==
  ASSUME NEW d, NEW old, NEW new, FrameStep(d, old, new), NEW x,
         NEW dc \in Int, One(x \in new.tmp) - One(x \in old.tmp) = dc,
         NEW dk \in Int, One(CalledBy(new, x)) - One(CalledBy(old, x)) = dk
  PROVE  Moves(x, dc, dk)
<1> SUFFICES ASSUME NEW c \in Nat, NEW k \in Nat, Counted(x, c, k)
             PROVE  c + dc \in Nat /\ k + dk \in Nat /\ Counted(x, c + dc, k + dk)'
  BY DEF Moves
<1>1. d \in LoopDepths /\ FrameAt(d) = old /\ FrameAt(d)' = new
  BY DEF FrameStep
<1>2. \A e \in LoopDepths : e # d => FrameAt(e)' = FrameAt(e)
  BY DEF FrameStep
<1>3. LoopDepths' = LoopDepths
  BY DEF LoopDepths
<1>4. CopiesOf(x)' = {e \in LoopDepths : x \in FrameAt(e)'.tmp}
  BY <1>3 DEF CopiesOf
<1>5. CallbacksOf(x)' = {e \in LoopDepths : FrameAt(e)'.timer = x /\ FrameAt(e)'.mode # "fire"}
  BY <1>3 DEF CallbacksOf
<1>6. PICK C : C = CopiesOf(x)'
  OBVIOUS
<1>7. PICK K : K = CallbacksOf(x)'
  OBVIOUS
<1>8. CopiesOf(x) \ {d} = C \ {d} /\ (d \in C <=> x \in new.tmp) /\ (d \in CopiesOf(x) <=> x \in old.tmp)
  BY <1>1, <1>2, <1>4, <1>6 DEF CopiesOf
<1>9. /\ CallbacksOf(x) \ {d} = K \ {d} /\ (d \in K <=> CalledBy(new, x))
      /\ (d \in CallbacksOf(x) <=> CalledBy(old, x))
  BY <1>1, <1>2, <1>5, <1>7 DEF CallbacksOf, CalledBy
<1>10. IsFiniteSet(C) /\ Cardinality(C) \in Nat /\ Cardinality(C) = c + dc
  <2>1. IsFiniteSet(CopiesOf(x)) /\ Cardinality(CopiesOf(x)) = c
    BY DEF Counted
  <2>2. /\ IsFiniteSet(C)
        /\ Cardinality(C) = Cardinality(CopiesOf(x)) + One(d \in C) - One(d \in CopiesOf(x))
    BY <1>8, <2>1, OneChange
  <2>3. Cardinality(C) = c + One(x \in new.tmp) - One(x \in old.tmp)
    BY <1>8, <2>1, <2>2 DEF One
  <2>4. One(x \in new.tmp) \in {0, 1} /\ One(x \in old.tmp) \in {0, 1}
    BY DEF One
  <2>5. QED
    BY <2>2, <2>3, <2>4, FS_CardinalityType
<1>11. IsFiniteSet(K) /\ Cardinality(K) \in Nat /\ Cardinality(K) = k + dk
  <2>1. IsFiniteSet(CallbacksOf(x)) /\ Cardinality(CallbacksOf(x)) = k
    BY DEF Counted
  <2>2. /\ IsFiniteSet(K)
        /\ Cardinality(K) = Cardinality(CallbacksOf(x)) + One(d \in K) - One(d \in CallbacksOf(x))
    BY <1>9, <2>1, OneChange
  <2>3. Cardinality(K) = k + One(CalledBy(new, x)) - One(CalledBy(old, x))
    BY <1>9, <2>1, <2>2 DEF One
  <2>4. One(CalledBy(new, x)) \in {0, 1} /\ One(CalledBy(old, x)) \in {0, 1}
    BY DEF One
  <2>5. QED
    BY <2>2, <2>3, <2>4, FS_CardinalityType
<1>12. QED
  BY <1>6, <1>7, <1>10, <1>11 DEF Counted

LEMMA FramesStay ==
  ASSUME runs' = runs
  PROVE  /\ \A x : Moves(x, 0, 0)
         /\ \A t : PostsTo(t)' = PostsTo(t)
         /\ RunsOK => RunsOK'
<1>1. \A d : FrameAt(d)' = FrameAt(d)
  BY DEF FrameAt, NoFrame, Frame
<1>2. LoopDepths' = LoopDepths
  BY DEF LoopDepths
<1>3. \A x : CopiesOf(x)' = CopiesOf(x) /\ CallbacksOf(x)' = CallbacksOf(x)
  BY <1>1, <1>2 DEF CopiesOf, CallbacksOf
<1>4. \A t : PostsTo(t)' = PostsTo(t)
  BY <1>1, <1>2 DEF PostsTo
<1>5. RunsOK => RunsOK'
  BY DEF RunsOK
<1>6. \A x : \A c, k \in Nat : c + 0 = c /\ k + 0 = k /\ Counted(x, c, k)' = Counted(x, c, k)
  BY <1>3 DEF Counted
<1>7. QED
  BY <1>4, <1>5, <1>6 DEF Moves

LEMMA PostsStay ==
  ASSUME NEW d, NEW old, NEW new, FrameStep(d, old, new), NEW t,
         new.post = t <=> old.post = t
  PROVE  PostsTo(t)' = PostsTo(t)
<1>1. \A e \in LoopDepths : FrameAt(e)'.post = t <=> FrameAt(e).post = t
  BY DEF FrameStep
<1>2. QED
  BY <1>1 DEF PostsTo, LoopDepths

-----------------------------------------------------------------------------
(* The records of timers *)

LEMMA OneIs ==
  ASSUME NEW P
  PROVE  One(P) \in {0, 1} /\ (One(P) = 1 <=> P)
BY DEF One

LEMMA FreeOK ==
  /\ FreeTimer \in TimerRecords /\ Alive(FreeTimer) /\ Exact(FreeTimer, 0, 0, 0, 0)
  /\ ~FreeTimer.live /\ ~FreeTimer.guest /\ FreeTimer.refs = 0 /\ ~FreeTimer.perform
  /\ ~FreeTimer.valid
BY DEF FreeTimer, TimerRecords, Alive, Exact, One

(* What the fields that the counts say nothing about have in common. *)
Same(tm, new) ==
  /\ new.live = tm.live /\ new.repeats = tm.repeats /\ new.perform = tm.perform
  /\ new.valid = tm.valid /\ new.left = tm.left
  /\ new.is_running_callback = tm.is_running_callback
  /\ new.guest = tm.guest /\ new.fires = tm.fires

LEMMA NewOK ==
  ASSUME NEW repeats \in BOOLEAN, NEW perform \in BOOLEAN, NEW left \in Int
  PROVE  /\ Exact(NewTimer(repeats, perform, left), 0, 0, 0, 0)
         /\ NewTimer(repeats, perform, left).live /\ NewTimer(repeats, perform, left).guest
         /\ NewTimer(repeats, perform, left).refs = 1
         /\ NewTimer(repeats, perform, left).valid
         /\ NewTimer(repeats, perform, left).perform = perform
         /\ NewTimer(repeats, perform, left).loop = Nobody
<1>1. FreeTimer \in TimerRecords /\ 1 \in Nat /\ TRUE \in BOOLEAN
  BY FreeOK
<1>2. /\ NewTimer(repeats, perform, left) \in TimerRecords
      /\ NewTimer(repeats, perform, left).live = TRUE
      /\ NewTimer(repeats, perform, left).guest = TRUE
      /\ NewTimer(repeats, perform, left).refs = 1
      /\ NewTimer(repeats, perform, left).valid = TRUE
      /\ NewTimer(repeats, perform, left).perform = perform
      /\ NewTimer(repeats, perform, left).loop = FreeTimer.loop
      /\ NewTimer(repeats, perform, left).fires = FreeTimer.fires
      /\ NewTimer(repeats, perform, left).is_running_callback = FreeTimer.is_running_callback
  BY <1>1, Zenon DEF NewTimer, TimerRecords
<1>3. FreeTimer.loop = Nobody /\ FreeTimer.fires = 0 /\ FreeTimer.is_running_callback = FALSE
  BY DEF FreeTimer
<1>4. QED
  BY <1>2, <1>3 DEF Exact, One

LEMMA RetainedOK ==
  ASSUME NEW tm, NEW n, NEW c, NEW k, NEW m, Exact(tm, n, c, k, m)
  PROVE  /\ Exact(Retained(tm), n, c, k, m + 1) /\ Same(tm, Retained(tm))
         /\ Retained(tm).loop = tm.loop /\ Retained(tm).refs = tm.refs + 1
<1>1. tm \in TimerRecords
  BY DEF Exact
<1>2. /\ Retained(tm) \in TimerRecords /\ Same(tm, Retained(tm))
      /\ Retained(tm).loop = tm.loop /\ Retained(tm).refs = tm.refs + 1
  BY <1>1 DEF Retained, TimerRecords, Same
<1>3. QED
  BY <1>2 DEF Exact, One, Same

LEMMA InvalidatedOK ==
  ASSUME NEW tm, NEW n, NEW c, NEW k, NEW m, Exact(tm, n, c, k, m)
  PROVE  /\ Exact(Invalidated(tm), 0, c, k, m + n)
         /\ Invalidated(tm).live = tm.live /\ Invalidated(tm).guest = tm.guest
         /\ Invalidated(tm).perform = tm.perform /\ Invalidated(tm).refs = tm.refs
<1>1. tm \in TimerRecords
  BY DEF Exact
<1>2. /\ Invalidated(tm).live = tm.live /\ Invalidated(tm).guest = tm.guest
      /\ Invalidated(tm).perform = tm.perform /\ Invalidated(tm).refs = tm.refs
      /\ Invalidated(tm).repeats = tm.repeats /\ Invalidated(tm).fires = tm.fires
      /\ Invalidated(tm).is_running_callback = tm.is_running_callback
      /\ Invalidated(tm).valid = FALSE
  BY <1>1, Zenon DEF Invalidated, TimerRecords
<1>3. Invalidated(tm) \in TimerRecords
  <2>1. FALSE \in BOOLEAN /\ Nobody \in LoopThreads \cup {Nobody}
    OBVIOUS
  <2>2. QED
    BY <1>1, <2>1, Zenon DEF Invalidated, TimerRecords
<1>4. QED
  BY <1>2, <1>3 DEF Exact, One

LEMMA ReleasedOK ==
  ASSUME NEW tm, NEW n, NEW c, NEW k, NEW m, Exact(tm, n, c, k, m), tm.live
  PROVE  /\ Exact(Released(tm, m), n, c, k, 0) /\ Alive(Released(tm, m))
         /\ tm.guest => Released(tm, m).guest /\ Released(tm, m).perform = tm.perform
         /\ n = 1 => Released(tm, m).loop = tm.loop
<1>1. /\ tm \in TimerRecords /\ n \in {0, 1} /\ c \in Nat /\ k \in Nat /\ m \in Nat
      /\ tm.refs \in Nat /\ tm.refs = One(tm.guest) + n + c + 2 * k + m
  BY DEF Exact, TimerRecords
<1>2. CASE tm.refs <= m
  <2>1. One(tm.guest) \in {0, 1} /\ (One(tm.guest) = 1 <=> tm.guest)
    BY OneIs
  <2>2. n = 0 /\ c = 0 /\ k = 0 /\ ~tm.guest
    BY <1>1, <1>2, <2>1
  <2>3. Released(tm, m) = FreeTimer
    BY <1>2 DEF Released
  <2>4. QED
    BY <2>2, <2>3, FreeOK
<1>3. CASE ~(tm.refs <= m)
  <2>1. Released(tm, m) = [tm EXCEPT !.refs = @ - m]
    BY <1>3 DEF Released
  <2>2. tm.refs - m \in Nat /\ tm.refs - m > 0
    BY <1>1, <1>3
  <2>3. /\ Released(tm, m) \in TimerRecords /\ Same(tm, Released(tm, m))
        /\ Released(tm, m).loop = tm.loop /\ Released(tm, m).refs = tm.refs - m
    BY <1>1, <2>1, <2>2 DEF TimerRecords, Same
  <2>4. tm.refs - m = One(tm.guest) + n + c + 2 * k + 0
    BY <1>1, OneIs
  <2>5. Exact(Released(tm, m), n, c, k, 0)
    BY <2>3, <2>4 DEF Exact, Same, One
  <2>6. QED
    BY <2>2, <2>3, <2>5 DEF Alive, Same
<1>4. QED
  BY <1>2, <1>3

LEMMA CalledOK ==
  ASSUME NEW tm, NEW n, NEW c, NEW k, Exact(tm, n, c, k, 0), Fires(tm), c > 0
  PROVE  /\ Exact(Called(tm), n, c - 1, k + 1, 0) /\ Called(tm).refs = tm.refs + 1
         /\ Called(tm).live = tm.live /\ Called(tm).guest = tm.guest
         /\ Called(tm).perform = tm.perform /\ Called(tm).loop = tm.loop
<1>1. tm \in TimerRecords /\ Interval \in Nat \ {0}
  BY LoopAssumption DEF Exact
<1>2. PICK l : l = IF tm.repeats THEN Advanced(tm.left) ELSE tm.left
  OBVIOUS
<1>3. PICK s : s = IF tm.repeats THEN tm.fires ELSE tm.fires + 1
  OBVIOUS
<1>4. PICK r : r = tm.refs + 1
  OBVIOUS
<1>5. l \in Int
  <2>1. tm.left \in Int
    BY <1>1 DEF TimerRecords
  <2>2. Advanced(tm.left) \in Int
    <3>1. (-tm.left + Interval - 1) \div Interval \in Int
      BY <1>1, <2>1
    <3>2. QED
      BY <1>1, <2>1, <3>1 DEF Advanced
  <2>3. QED
    BY <1>2, <2>1, <2>2
<1>6. s \in Nat
  BY <1>1, <1>3 DEF TimerRecords
<1>7. /\ Called(tm) \in TimerRecords
      /\ Called(tm).live = tm.live /\ Called(tm).repeats = tm.repeats
      /\ Called(tm).perform = tm.perform /\ Called(tm).valid = tm.valid
      /\ Called(tm).left = l /\ Called(tm).loop = tm.loop
      /\ Called(tm).is_running_callback = TRUE /\ Called(tm).refs = r
      /\ Called(tm).guest = tm.guest /\ Called(tm).fires = s
  <2>1. /\ Retained(tm) \in [live : BOOLEAN, repeats : BOOLEAN, perform : BOOLEAN,
             valid : BOOLEAN, left : Int, loop : LoopThreads \cup {Nobody},
             is_running_callback : BOOLEAN, refs : Nat, guest : BOOLEAN, fires : Nat]
        /\ Retained(tm).refs = r /\ Same(tm, Retained(tm)) /\ Retained(tm).loop = tm.loop
    BY <1>1, <1>4 DEF Retained, TimerRecords, Same
  <2>2. PICK rt : rt = Retained(tm)
    OBVIOUS
  <2>3. /\ Called(tm) = [rt EXCEPT !.left = l, !.is_running_callback = TRUE, !.fires = s]
    BY <1>2, <1>3, <2>1, <2>2, Zenon DEF Called, Same
  <2>4. QED
    <3>1. Called(tm) \in TimerRecords
      BY <1>5, <1>6, <2>1, <2>2, <2>3, Zenon DEF TimerRecords
    <3>2. QED
      BY <2>1, <2>2, <2>3, <3>1, Zenon DEF Same
<1>8. /\ ~tm.is_running_callback /\ tm.valid /\ k = 0 /\ tm.fires = 0
      /\ tm.refs \in Nat /\ c \in Nat
  BY <1>1 DEF Fires, Exact, One, TimerRecords
<1>9. s > 0 => ~tm.repeats /\ s = 1
  BY <1>1, <1>3, <1>8 DEF TimerRecords
<1>10. r = One(tm.guest) + n + (c - 1) + 2 * (k + 1) + 0
  BY <1>4, <1>8, OneIs DEF Exact
<1>11. QED
  BY <1>4, <1>7, <1>8, <1>9, <1>10 DEF Exact, One

-----------------------------------------------------------------------------
(* A step that changes one timer *)

LEMMA TimerStays ==
  ASSUME NEW x, TimerOK(x), timer'[x] = timer[x], Moves(x, 0, 0),
         \A t \in LoopThreads : x \in timers'[t] <=> x \in timers[t]
  PROVE  TimerOK(x)'
<1>1. PICK c \in Nat, k \in Nat : Counted(x, c, k) /\ Exact(timer[x], InLoop(x), c, k, 0)
  BY DEF TimerOK
<1>2. c + 0 = c /\ k + 0 = k
  OBVIOUS
<1>3. Counted(x, c, k)'
  BY <1>1, <1>2 DEF Moves
<1>4. InLoop(x)' = InLoop(x)
  BY DEF InLoop
<1>5. Exact(timer[x], InLoop(x), c, k, 0)'
  BY <1>1, <1>4 DEF Exact, TimerRecords
<1>6. QED
  BY <1>3, <1>5 DEF TimerOK, Alive, FreeTimer

LEMMA TimerNow ==
  ASSUME NEW x, NEW tm, NEW n, NEW c, NEW k, timer'[x] = tm, Counted(x, c, k)',
         InLoop(x)' = n, Exact(tm, n, c, k, 0), Alive(tm),
         \A t \in LoopThreads : x \in timers'[t] => tm.loop = t
  PROVE  TimerOK(x)'
<1>1. c \in Nat /\ k \in Nat
  BY DEF Exact
<1>2. Exact(timer[x], InLoop(x), c, k, 0)'
  BY DEF Exact, TimerRecords
<1>3. Alive(timer[x])'
  BY DEF Alive, FreeTimer
<1>4. (\A t \in LoopThreads : x \in timers[t] => timer[x].loop = t)'
  OBVIOUS
<1>5. QED
  BY <1>1, <1>2, <1>3, <1>4 DEF TimerOK

LEMMA OneTimer ==
  ASSUME TimersOK, NEW x \in Timers, NEW tm \in TimerRecords, NEW n, NEW c, NEW k,
         timer' = [timer EXCEPT ![x] = tm], timers' \in [LoopThreads -> SUBSET Timers],
         \A y \in Timers \ {x} : Moves(y, 0, 0),
         \A t \in LoopThreads : timers'[t] \ {x} = timers[t] \ {x},
         Counted(x, c, k)', InLoop(x)' = n, Exact(tm, n, c, k, 0), Alive(tm),
         \A t \in LoopThreads : x \in timers'[t] => tm.loop = t
  PROVE  TimersOK'
<1>1. timer'[x] = tm /\ timer' \in [Timers -> TimerRecords]
  BY DEF TimersOK
<1>2. TimerOK(x)'
  BY <1>1, TimerNow
<1>3. ASSUME NEW y \in Timers, y # x PROVE TimerOK(y)'
  <2>1. timer'[y] = timer[y] /\ TimerOK(y) /\ Moves(y, 0, 0)
    BY <1>3 DEF TimersOK
  <2>2. \A t \in LoopThreads : y \in timers'[t] <=> y \in timers[t]
    BY <1>3
  <2>3. QED
    BY <2>1, <2>2, TimerStays
<1>4. QED
  BY <1>1, <1>2, <1>3 DEF TimersOK

LEMMA InLoopIs ==
  ASSUME TimersOK, NEW x \in Timers
  PROVE  /\ InLoop(x) \in {0, 1}
         /\ InLoop(x) = 1 <=> \E t \in LoopThreads : x \in timers[t]
         /\ InLoop(x) = 1 <=> timer[x].loop # Nobody /\ x \in timers[timer[x].loop]
<1>1. \A t \in LoopThreads : x \in timers[t] => timer[x].loop = t
  BY DEF TimersOK, TimerOK
<1>2. timer[x].loop \in LoopThreads \cup {Nobody} /\ Nobody \notin LoopThreads
  BY LoopAssumption DEF TimersOK, TimerRecords
<1>3. QED
  BY <1>1, <1>2 DEF InLoop, One

LEMMA InvalidateRecord ==
  ASSUME TimersOK, NEW x \in Timers, NEW tm, NEW more \in Nat, NEW c, NEW k, NEW inv,
         tm.loop = timer[x].loop, inv = Invalidated(tm), inv.live,
         Exact(inv, 0, c, k, more + InLoop(x)),
         \A y \in Timers \ {x} : Moves(y, 0, 0), Counted(x, c, k)', Invalidate(x, tm, more)
  PROVE  /\ TimersOK' /\ \A y \in Timers \ {x} : timer'[y] = timer[y]
         /\ inv.guest => timer'[x].guest /\ timer'[x].perform = inv.perform
<1> DEFINE held == tm.loop # Nobody /\ x \in timers[tm.loop]
<1>1. PICK n : n = InLoop(x)
  OBVIOUS
<1>2. n \in {0, 1} /\ (n = 1 <=> held) /\ (n = 1 <=> \E t \in LoopThreads : x \in timers[t])
  BY <1>1, InLoopIs
<1>3. /\ timer \in [Timers -> TimerRecords] /\ timers \in [LoopThreads -> SUBSET Timers]
      /\ \A t \in LoopThreads : x \in timers[t] => tm.loop = t
  BY DEF TimersOK, TimerOK
<1>4. PICK new : new = Released(inv, more + n)
  OBVIOUS
<1>5. Exact(inv, 0, c, k, more + n)
  BY <1>1
<1>6. /\ Exact(new, 0, c, k, 0) /\ Alive(new)
      /\ inv.guest => new.guest /\ new.perform = inv.perform
  BY <1>4, <1>5, ReleasedOK
<1>7. new \in TimerRecords
  BY <1>6 DEF Exact
<1>8. timer' = [timer EXCEPT ![x] = new]
  <2>1. more + (IF held THEN 1 ELSE 0) = more + n
    BY <1>2
  <2>2. timer' = [timer EXCEPT ![x] = Released(Invalidated(tm), more + (IF held THEN 1 ELSE 0))]
    BY DEF Invalidate
  <2>3. QED
    BY <1>4, <2>1, <2>2
<1>9. /\ timers' \in [LoopThreads -> SUBSET Timers]
      /\ \A t \in LoopThreads : timers'[t] = timers[t] \ {x}
  <2>1. CASE held
    <3>1. timers' = [timers EXCEPT ![tm.loop] = timers[tm.loop] \ {x}]
      BY <2>1 DEF Invalidate
    <3>2. QED
      BY <1>3, <3>1
  <2>2. CASE ~held
    <3>1. timers' = timers
      BY <2>2 DEF Invalidate
    <3>2. \A t \in LoopThreads : x \notin timers[t]
      BY <1>2, <2>2
    <3>3. QED
      BY <1>3, <3>1, <3>2
  <2>3. QED
    BY <2>1, <2>2
<1>10. InLoop(x)' = 0
  BY <1>9 DEF InLoop, One
<1>11. (\A t \in LoopThreads : timers'[t] \ {x} = timers[t] \ {x} /\ x \notin timers'[t])
  BY <1>9
<1>12. TimersOK'
  BY <1>6, <1>7, <1>8, <1>9, <1>10, <1>11, OneTimer
<1>13. QED
  BY <1>3, <1>6, <1>8, <1>12

LEMMA InvalidateOK ==
  ASSUME TimersOK, NEW x \in Timers, NEW tm, NEW more, NEW c, NEW k,
         tm.live, tm.loop = timer[x].loop, Exact(tm, InLoop(x), c, k, more),
         \A y \in Timers \ {x} : Moves(y, 0, 0), Counted(x, c, k)', Invalidate(x, tm, more)
  PROVE  /\ TimersOK' /\ \A y \in Timers \ {x} : timer'[y] = timer[y]
         /\ tm.guest => timer'[x].guest /\ timer'[x].perform = tm.perform
<1>1. PICK inv : inv = Invalidated(tm)
  OBVIOUS
<1>2. PICK n : n = InLoop(x)
  OBVIOUS
<1>3. /\ Exact(inv, 0, c, k, more + n) /\ inv.live
      /\ inv.guest = tm.guest /\ inv.perform = tm.perform
  BY <1>1, <1>2, InvalidatedOK
<1>4. more \in Nat /\ Exact(inv, 0, c, k, more + InLoop(x))
  BY <1>2, <1>3 DEF Exact
<1>5. /\ TimersOK' /\ \A y \in Timers \ {x} : timer'[y] = timer[y]
      /\ inv.guest => timer'[x].guest /\ timer'[x].perform = inv.perform
  BY <1>1, <1>3, <1>4, InvalidateRecord
<1>6. QED
  BY <1>3, <1>5

-----------------------------------------------------------------------------
(* Steps that leave the stacks alone *)

LEMMA EntriesStay ==
  ASSUME EntriesOK, semaphores' = semaphores,
         \A i \in DOMAIN semaphores : Awaited(timer[semaphores[i][1]]) => Awaited(timer'[semaphores[i][1]])
  PROVE  EntriesOK'
BY DEF EntriesOK

LEMMA EntryTimer ==
  ASSUME EntriesOK, NEW i \in DOMAIN semaphores
  PROVE  semaphores[i][1] \in Timers /\ semaphores[i][2] \in LoopThreads
BY DEF EntriesOK

LEMMA WaitsStay ==
  ASSUME WaitsOK, Sync, \A t \in LoopThreads : PostsTo(t)' = PostsTo(t)
  PROVE  WaitsOK'
<1>1. \A t \in LoopThreads : EntriesOf(t)' = EntriesOf(t)
  BY DEF EntriesOf, Sync
<1>2. QED
  BY <1>1 DEF WaitsOK, Paired, Sync

LEMMA TimersSame ==
  ASSUME TimersOK, timer' = timer, timers' = timers, \A x \in Timers : Moves(x, 0, 0)
  PROVE  TimersOK'
<1>1. \A x \in Timers : TimerOK(x)'
  BY TimerStays DEF TimersOK
<1>2. QED
  BY <1>1 DEF TimersOK

LEMMA DeadTimer ==
  ASSUME TimersOK, NEW x \in Timers, ~timer[x].live
  PROVE  /\ timer[x] = FreeTimer /\ Counted(x, 0, 0) /\ InLoop(x) = 0
         /\ ~Awaited(timer[x]) /\ \A t \in LoopThreads : x \notin timers[t]
<1>1. TimerOK(x)
  BY DEF TimersOK
<1>2. timer[x] = FreeTimer
  BY <1>1 DEF TimerOK, Alive
<1>3. PICK c \in Nat, k \in Nat : Counted(x, c, k) /\ Exact(timer[x], InLoop(x), c, k, 0)
  BY <1>1 DEF TimerOK
<1>4. FreeTimer.refs = 0 /\ ~FreeTimer.guest /\ ~FreeTimer.perform
  BY FreeOK
<1>5. c = 0 /\ k = 0 /\ InLoop(x) = 0
  BY <1>2, <1>3, <1>4 DEF Exact, One
<1>6. QED
  BY <1>2, <1>3, <1>4, <1>5, InLoopIs DEF Awaited

LEMMA timerStep ==
  ASSUME LoopInv, NEW t \in LoopThreads, NEW x \in Timers, NEW repeats \in BOOLEAN,
         timerWithTimeInterval(t, x, repeats)
  PROVE  LoopInv'
<1>1. /\ timer' = [timer EXCEPT ![x] = NewTimer(repeats, FALSE, Interval)] /\ ~timer[x].live
      /\ runs' = runs /\ timers' = timers /\ Sync /\ TimersOK /\ EntriesOK /\ WaitsOK /\ RunsOK
  BY DEF timerWithTimeInterval, LoopInv
<1>2. RunsOK' /\ (\A y : Moves(y, 0, 0)) /\ \A u : PostsTo(u)' = PostsTo(u)
  BY <1>1, FramesStay
<1>3. /\ Counted(x, 0, 0) /\ InLoop(x) = 0 /\ ~Awaited(timer[x])
      /\ \A u \in LoopThreads : x \notin timers[u]
  BY <1>1, DeadTimer
<1>4. PICK new : new = NewTimer(repeats, FALSE, Interval)
  OBVIOUS
<1>5. Exact(new, 0, 0, 0, 0) /\ new.live /\ new.refs = 1
  <2>1. Interval \in Int /\ FALSE \in BOOLEAN
    BY LoopAssumption
  <2>2. QED
    BY <1>4, <2>1, NewOK
<1>6. Alive(new) /\ new \in TimerRecords
  BY <1>5 DEF Alive, Exact
<1>7. Counted(x, 0, 0)'
  BY <1>2, <1>3 DEF Moves
<1>8. InLoop(x)' = 0
  BY <1>1, <1>3 DEF InLoop, One
<1>9. timers' \in [LoopThreads -> SUBSET Timers]
  BY <1>1 DEF TimersOK
<1>10. TimersOK'
  BY <1>1, <1>2, <1>3, <1>4, <1>5, <1>6, <1>7, <1>8, <1>9, OneTimer
<1>11. EntriesOK'
  <2>1. \A y \in Timers : Awaited(timer[y]) => timer'[y] = timer[y]
    BY <1>1, <1>3 DEF TimersOK
  <2>2. QED
    BY <1>1, <2>1, EntriesStay, EntryTimer DEF Sync
<1>12. QED
  BY <1>1, <1>2, <1>10, <1>11, WaitsStay DEF LoopInv

LEMMA AddTimerOK ==
  ASSUME TimersOK, NEW x \in Timers, NEW tm, NEW u \in LoopThreads, NEW c, NEW k,
         Exact(tm, InLoop(x), c, k, 0), tm.live, tm.valid, tm.refs > 0,
         \A t \in LoopThreads : x \in timers[t] => t = u /\ tm.loop = u,
         \A y \in Timers \ {x} : Moves(y, 0, 0), Counted(x, c, k)', AddTimer(x, tm, u)
  PROVE  /\ TimersOK' /\ \A y \in Timers \ {x} : timer'[y] = timer[y]
         /\ timer'[x].guest = tm.guest /\ timer'[x].perform = tm.perform
<1>1. PICK n : n = InLoop(x)
  OBVIOUS
<1>2. /\ timer \in [Timers -> TimerRecords] /\ timers \in [LoopThreads -> SUBSET Timers]
      /\ tm \in TimerRecords
  BY DEF TimersOK, Exact
<1>3. n \in {0, 1} /\ (n = 1 <=> x \in timers[u])
  BY <1>1, InLoopIs
<1>4. PICK new : new = IF x \in timers[u] THEN tm ELSE [Retained(tm) EXCEPT !.loop = u]
  OBVIOUS
<1>5. /\ Exact(new, 1, c, k, 0) /\ new.loop = u /\ new.live /\ new.refs > 0
      /\ new.guest = tm.guest /\ new.perform = tm.perform
  <2>1. CASE x \in timers[u]
    BY <1>1, <1>3, <1>4, <2>1
  <2>2. CASE x \notin timers[u]
    <3>1. n = 0
      BY <1>3, <2>2
    <3>2. /\ Exact(Retained(tm), 0, c, k, 1) /\ Same(tm, Retained(tm))
          /\ Retained(tm).refs = tm.refs + 1
      <4>1. 0 + 1 = 1
        OBVIOUS
      <4>2. QED
        BY <1>1, <3>1, <4>1, RetainedOK
    <3>3. PICK rt : rt = Retained(tm)
      OBVIOUS
    <3>4. new = [rt EXCEPT !.loop = u] /\ rt \in TimerRecords
      BY <1>4, <2>2, <3>2, <3>3 DEF Exact
    <3>5. /\ new \in TimerRecords /\ Same(rt, new) /\ new.loop = u /\ new.refs = rt.refs
      BY <3>4 DEF TimerRecords, Same
    <3>6. Exact(new, 1, c, k, 0)
      BY <3>2, <3>3, <3>5 DEF Exact, Same, One
    <3>7. tm.refs \in Nat
      BY <1>2 DEF TimerRecords
    <3>8. QED
      BY <3>2, <3>3, <3>5, <3>6, <3>7 DEF Same
  <2>3. QED
    BY <2>1, <2>2
<1>6. Alive(new) /\ new \in TimerRecords
  BY <1>5 DEF Alive, Exact
<1>7. timer' = [timer EXCEPT ![x] = new] /\ timers' = [timers EXCEPT ![u] = timers[u] \cup {x}]
  BY <1>4 DEF AddTimer
<1>8. /\ timers' \in [LoopThreads -> SUBSET Timers]
      /\ \A t \in LoopThreads : /\ timers'[t] \ {x} = timers[t] \ {x}
                                /\ x \in timers'[t] <=> t = u
  BY <1>2, <1>7
<1>9. InLoop(x)' = 1
  BY <1>8 DEF InLoop, One
<1>10. TimersOK'
  BY <1>5, <1>6, <1>7, <1>8, <1>9, OneTimer
<1>11. QED
  BY <1>2, <1>5, <1>7, <1>10

LEMMA addTimerStep ==
  ASSUME LoopInv, NEW t \in LoopThreads, NEW x \in Timers, NEW u \in Runners, addTimer(t, x, u)
  PROVE  LoopInv'
<1>1. /\ AddTimer(x, timer[x], u) /\ timer[x].live /\ timer[x].valid
      /\ timer[x].loop \in {Nobody, u} /\ u \in LoopThreads /\ Nobody \notin LoopThreads
      /\ runs' = runs /\ Sync /\ TimersOK /\ EntriesOK /\ WaitsOK /\ RunsOK
  BY LoopAssumption DEF addTimer, Knows, LoopInv
<1>2. RunsOK' /\ (\A y : Moves(y, 0, 0)) /\ \A w : PostsTo(w)' = PostsTo(w)
  BY <1>1, FramesStay
<1>3. TimerOK(x)
  BY <1>1 DEF TimersOK
<1>4. PICK c \in Nat, k \in Nat : Counted(x, c, k) /\ Exact(timer[x], InLoop(x), c, k, 0)
  BY <1>3 DEF TimerOK
<1>5. Counted(x, c, k)'
  <2>1. c + 0 = c /\ k + 0 = k
    OBVIOUS
  <2>2. QED
    BY <1>2, <1>4, <2>1 DEF Moves
<1>6. PICK tm : tm = timer[x]
  OBVIOUS
<1>7. tm.refs > 0 /\ \A w \in LoopThreads : x \in timers[w] => w = u /\ tm.loop = u
  BY <1>1, <1>3, <1>6 DEF TimerOK, Alive
<1>8. /\ TimersOK' /\ \A y \in Timers \ {x} : timer'[y] = timer[y]
      /\ timer'[x].guest = tm.guest /\ timer'[x].perform = tm.perform
  BY <1>1, <1>2, <1>4, <1>5, <1>6, <1>7, AddTimerOK
<1>9. EntriesOK'
  <2>1. \A y \in Timers : Awaited(timer[y]) => Awaited(timer'[y])
    BY <1>6, <1>8 DEF Awaited
  <2>2. QED
    BY <1>1, <2>1, EntriesStay, EntryTimer DEF Sync
<1>10. QED
  BY <1>1, <1>2, <1>8, <1>9, WaitsStay DEF LoopInv

LEMMA invalidateStep ==
  ASSUME LoopInv, NEW t \in LoopThreads, NEW x \in Timers, invalidate(t, x)
  PROVE  LoopInv'
<1>1. /\ Invalidate(x, timer[x], 0) /\ timer[x].live
      /\ runs' = runs /\ Sync /\ TimersOK /\ EntriesOK /\ WaitsOK /\ RunsOK
  BY DEF invalidate, Knows, LoopInv
<1>2. RunsOK' /\ (\A y : Moves(y, 0, 0)) /\ \A w : PostsTo(w)' = PostsTo(w)
  BY <1>1, FramesStay
<1>3. PICK c \in Nat, k \in Nat : Counted(x, c, k) /\ Exact(timer[x], InLoop(x), c, k, 0)
  BY <1>1 DEF TimersOK, TimerOK
<1>4. Counted(x, c, k)'
  <2>1. c + 0 = c /\ k + 0 = k
    OBVIOUS
  <2>2. QED
    BY <1>2, <1>3, <2>1 DEF Moves
<1>5. PICK tm : tm = timer[x]
  OBVIOUS
<1>6. /\ TimersOK' /\ \A y \in Timers \ {x} : timer'[y] = timer[y]
      /\ tm.guest => timer'[x].guest /\ timer'[x].perform = tm.perform
  BY <1>1, <1>2, <1>3, <1>4, <1>5, InvalidateOK
<1>7. EntriesOK'
  <2>1. \A y \in Timers : Awaited(timer[y]) => Awaited(timer'[y])
    BY <1>5, <1>6 DEF Awaited
  <2>2. QED
    BY <1>1, <2>1, EntriesStay, EntryTimer DEF Sync
<1>8. QED
  BY <1>1, <1>2, <1>6, <1>7, WaitsStay DEF LoopInv

(* A record that differs in nothing the invariant speaks of. *)
Alike(tm, new) ==
  /\ new \in TimerRecords
  /\ new.live = tm.live /\ new.repeats = tm.repeats /\ new.perform = tm.perform
  /\ new.valid = tm.valid /\ new.loop = tm.loop /\ new.refs = tm.refs
  /\ new.is_running_callback = tm.is_running_callback
  /\ new.guest = tm.guest /\ new.fires = tm.fires
  /\ tm.live \/ new = tm

LEMMA AlikeOK ==
  ASSUME TimersOK, timers' = timers, \A x \in Timers : Moves(x, 0, 0),
         timer' \in [Timers -> TimerRecords], \A x \in Timers : Alike(timer[x], timer'[x])
  PROVE  TimersOK'
<1>1. ASSUME NEW x \in Timers PROVE TimerOK(x)'
  <2>1. PICK c \in Nat, k \in Nat : Counted(x, c, k) /\ Exact(timer[x], InLoop(x), c, k, 0)
    BY DEF TimersOK, TimerOK
  <2>2. c + 0 = c /\ k + 0 = k
    OBVIOUS
  <2>3. Counted(x, c, k)'
    BY <2>1, <2>2 DEF Moves
  <2>4. InLoop(x)' = InLoop(x)
    BY DEF InLoop
  <2>5. Alike(timer[x], timer'[x]) /\ TimerOK(x)
    BY DEF TimersOK
  <2>6. Exact(timer'[x], InLoop(x), c, k, 0)
    BY <2>1, <2>5 DEF Exact, Alike, One
  <2>7. Exact(timer[x], InLoop(x), c, k, 0)'
    BY <2>4, <2>6 DEF Exact, TimerRecords
  <2>8. Alive(timer[x])'
    BY <2>5 DEF Alike, Alive, TimerOK, FreeTimer
  <2>9. (\A t \in LoopThreads : x \in timers[t] => timer[x].loop = t)'
    BY <2>5 DEF Alike, TimerOK
  <2>10. QED
    BY <2>3, <2>7, <2>8, <2>9 DEF TimerOK
<1>2. QED
  BY <1>1 DEF TimersOK

LEMMA AlikeStep ==
  ASSUME LoopInv, timers' = timers, runs' = runs, Sync,
         timer' \in [Timers -> TimerRecords], \A x \in Timers : Alike(timer[x], timer'[x])
  PROVE  LoopInv'
<1>1. RunsOK' /\ (\A y : Moves(y, 0, 0)) /\ \A w : PostsTo(w)' = PostsTo(w)
  BY FramesStay DEF LoopInv
<1>2. TimersOK'
  BY <1>1, AlikeOK DEF LoopInv
<1>3. EntriesOK'
  <2>1. \A y \in Timers : Awaited(timer[y]) => Awaited(timer'[y])
    BY DEF Awaited, Alike
  <2>2. QED
    BY <2>1, EntriesStay, EntryTimer DEF Sync, LoopInv
<1>4. QED
  BY <1>1, <1>2, <1>3, WaitsStay DEF LoopInv

LEMMA LeftAlike ==
  ASSUME NEW tm \in TimerRecords, NEW left \in Int, tm.live
  PROVE  Alike(tm, [tm EXCEPT !.left = left])
BY DEF TimerRecords, Alike

LEMMA AlikeSelf ==
  ASSUME NEW tm \in TimerRecords
  PROVE  Alike(tm, tm)
BY DEF Alike

LEMMA setFireDateStep ==
  ASSUME LoopInv, NEW t \in LoopThreads, NEW x \in Timers, NEW left \in {0, Interval},
         setFireDate(t, x, left)
  PROVE  LoopInv'
<1>1. /\ timers' = timers /\ runs' = runs /\ Sync /\ timer[x].live
      /\ timer' = [timer EXCEPT ![x].left = left]
      /\ timer \in [Timers -> TimerRecords] /\ left \in Int
  BY LoopAssumption DEF setFireDate, Knows, LoopInv, TimersOK
<1>2. PICK new : new = [timer[x] EXCEPT !.left = left]
  OBVIOUS
<1>3. Alike(timer[x], new)
  BY <1>1, <1>2, LeftAlike
<1>4. timer' = [timer EXCEPT ![x] = new] /\ new \in TimerRecords
  BY <1>1, <1>2, <1>3 DEF Alike
<1>5. timer' \in [Timers -> TimerRecords] /\ \A y \in Timers : Alike(timer[y], timer'[y])
  BY <1>1, <1>3, <1>4, AlikeSelf
<1>6. QED
  BY <1>1, <1>5, AlikeStep

LEMMA TickStep ==
  ASSUME LoopInv, LoopTick
  PROVE  LoopInv'
<1>1. /\ timers' = timers /\ runs' = runs /\ Sync /\ TimersOK
      /\ timer \in [Timers -> TimerRecords] /\ MaxLate \in Nat
  BY LoopAssumption DEF LoopTick, LoopInv, TimersOK
<1>2. ASSUME NEW x \in Timers
      PROVE  Alike(timer[x], timer'[x])
  <2>1. timer[x] \in TimerRecords /\ Alive(timer[x]) /\ timer[x].left \in Int
    BY <1>1 DEF TimersOK, TimerOK, TimerRecords
  <2>2. timer[x].valid => timer[x].live
    BY <2>1, FreeOK DEF Alive
  <2>3. timer'[x] = timer[x] \/ (timer[x].valid /\ timer'[x] = [timer[x] EXCEPT !.left = timer[x].left - 1])
    BY DEF LoopTick
  <2>4. timer[x].left - 1 \in Int
    BY <2>1
  <2>5. QED
    BY <2>1, <2>2, <2>3, <2>4, LeftAlike, AlikeSelf
<1>3. timer' \in [Timers -> TimerRecords]
  <2>1. PICK g : g = timer'
    OBVIOUS
  <2>2. g = [x \in Timers |-> g[x]]
    BY <2>1 DEF LoopTick
  <2>3. \A x \in Timers : g[x] \in TimerRecords
    BY <1>2, <2>1 DEF Alike
  <2>4. QED
    BY <2>1, <2>2, <2>3
<1>4. QED
  BY <1>1, <1>2, <1>3, AlikeStep

LEMMA stopStep ==
  ASSUME LoopInv, NEW t, NEW u, CFRunLoopStop(t, u)
  PROVE  LoopInv'
<1>1. timers' = timers /\ timer' = timer /\ runs' = runs /\ Sync /\ timer \in [Timers -> TimerRecords]
  BY DEF CFRunLoopStop, LoopInv, TimersOK
<1>2. QED
  BY <1>1, AlikeSelf, AlikeStep

LEMMA DropStep ==
  ASSUME LoopInv, NEW x \in Timers, DropTimer(x)
  PROVE  LoopInv'
<1>1. /\ timer[x].guest /\ \A i \in DOMAIN semaphores : semaphores[i][1] # x
      /\ timer' = [timer EXCEPT ![x] = Released([timer[x] EXCEPT !.guest = FALSE], 1)]
      /\ timers' = timers /\ runs' = runs /\ Sync
      /\ TimersOK /\ EntriesOK /\ WaitsOK /\ RunsOK /\ timer \in [Timers -> TimerRecords]
  BY DEF DropTimer, LoopInv, TimersOK
<1>2. RunsOK' /\ (\A y : Moves(y, 0, 0)) /\ \A w : PostsTo(w)' = PostsTo(w)
  BY <1>1, FramesStay
<1>3. TimerOK(x)
  BY <1>1 DEF TimersOK
<1>4. PICK c \in Nat, k \in Nat : Counted(x, c, k) /\ Exact(timer[x], InLoop(x), c, k, 0)
  BY <1>3 DEF TimerOK
<1>5. Counted(x, c, k)'
  <2>1. c + 0 = c /\ k + 0 = k
    OBVIOUS
  <2>2. QED
    BY <1>2, <1>4, <2>1 DEF Moves
<1>6. PICK n : n = InLoop(x)
  OBVIOUS
<1>7. PICK tm : tm = [timer[x] EXCEPT !.guest = FALSE]
  OBVIOUS
<1>8. Exact(tm, n, c, k, 1) /\ tm.live /\ tm.loop = timer[x].loop
  <2>1. timer[x] \in TimerRecords /\ timer[x].live
    BY <1>1, <1>3, FreeOK DEF TimerOK, Alive
  <2>2. /\ tm \in TimerRecords /\ tm.live = timer[x].live /\ tm.valid = timer[x].valid
        /\ tm.repeats = timer[x].repeats /\ tm.loop = timer[x].loop /\ tm.refs = timer[x].refs
        /\ tm.is_running_callback = timer[x].is_running_callback /\ tm.guest = FALSE
        /\ tm.fires = timer[x].fires
    BY <1>7, <2>1 DEF TimerRecords
  <2>3. timer[x].refs = 1 + n + c + 2 * k
    BY <1>1, <1>4, <1>6 DEF Exact, One
  <2>4. QED
    BY <1>4, <1>6, <2>1, <2>2, <2>3 DEF Exact, One
<1>9. PICK new : new = Released(tm, 1)
  OBVIOUS
<1>10. Exact(new, n, c, k, 0) /\ Alive(new) /\ (n = 1 => new.loop = timer[x].loop)
  BY <1>8, <1>9, ReleasedOK
<1>11. new \in TimerRecords
  BY <1>10 DEF Exact
<1>12. InLoop(x)' = n
  BY <1>1, <1>6 DEF InLoop
<1>13. \A t \in LoopThreads : x \in timers'[t] => new.loop = t
  BY <1>1, <1>3, <1>6, <1>10, InLoopIs DEF TimerOK
<1>14. TimersOK'
  <2>1. timer' = [timer EXCEPT ![x] = new] /\ timers' \in [LoopThreads -> SUBSET Timers]
    BY <1>1, <1>7, <1>9 DEF TimersOK
  <2>2. QED
    BY <1>1, <1>2, <1>5, <1>10, <1>11, <1>12, <1>13, <2>1, OneTimer
<1>15. EntriesOK'
  <2>1. \A y \in Timers : y # x => timer'[y] = timer[y]
    BY <1>1
  <2>2. QED
    BY <1>1, <2>1, EntriesStay, EntryTimer DEF Sync
<1>16. QED
  BY <1>1, <1>2, <1>14, <1>15, WaitsStay DEF LoopInv

LEMMA cancelStep ==
  ASSUME LoopInv, NEW t, NEW u \in LoopThreads, cancelPerformSelectorsWithTarget(t, u)
  PROVE  LoopInv'
<1> DEFINE out == {x \in timers[u] : timer[x].perform}
<1>1. /\ timers' = [timers EXCEPT ![u] = timers[u] \ out]
      /\ timer' = [x \in Timers |->
           IF x \in out THEN Released(Invalidated(timer[x]), 1) ELSE timer[x]]
      /\ runs' = runs /\ Sync
      /\ TimersOK /\ EntriesOK /\ WaitsOK /\ RunsOK
      /\ timer \in [Timers -> TimerRecords] /\ timers \in [LoopThreads -> SUBSET Timers]
  BY DEF cancelPerformSelectorsWithTarget, LoopInv, TimersOK
<1>2. RunsOK' /\ (\A y : Moves(y, 0, 0)) /\ \A w : PostsTo(w)' = PostsTo(w)
  BY <1>1, FramesStay
<1>3. ASSUME NEW x \in Timers, x \in out
      PROVE  TimerOK(x)' /\ timer'[x] \in TimerRecords /\ (timer[x].guest => Awaited(timer'[x]))
  <2>1. TimerOK(x) /\ x \in timers[u] /\ timer[x].perform
    BY <1>1, <1>3 DEF TimersOK
  <2>2. PICK c \in Nat, k \in Nat : Counted(x, c, k) /\ Exact(timer[x], InLoop(x), c, k, 0)
    BY <2>1 DEF TimerOK
  <2>3. Counted(x, c, k)'
    <3>1. c + 0 = c /\ k + 0 = k
      OBVIOUS
    <3>2. QED
      BY <1>2, <2>2, <3>1 DEF Moves
  <2>4. InLoop(x) = 1
    BY <1>1, <2>1, InLoopIs
  <2>5. timer[x].live
    BY <2>1, FreeOK DEF TimerOK, Alive
  <2>6. PICK tm : tm = timer[x]
    OBVIOUS
  <2>7. PICK new : new = Released(Invalidated(tm), 1)
    OBVIOUS
  <2>8. /\ Exact(Invalidated(tm), 0, c, k, 1) /\ Invalidated(tm).live
        /\ Invalidated(tm).guest = tm.guest /\ Invalidated(tm).perform = tm.perform
    <3>1. 0 + 1 = 1
      OBVIOUS
    <3>2. QED
      BY <2>2, <2>4, <2>5, <2>6, <3>1, InvalidatedOK
  <2>9. /\ Exact(new, 0, c, k, 0) /\ Alive(new)
        /\ tm.guest => new.guest /\ new.perform = tm.perform
    BY <2>7, <2>8, ReleasedOK
  <2>10. timer'[x] = new
    BY <1>1, <1>3, <2>6, <2>7
  <2>11. \A w \in LoopThreads : x \notin timers'[w]
    <3>1. \A w \in LoopThreads : x \in timers[w] => w = u
      BY <2>1 DEF TimerOK
    <3>2. QED
      BY <1>1, <1>3, <3>1
  <2>12. InLoop(x)' = 0
    BY <2>11 DEF InLoop, One
  <2>13. TimerOK(x)'
    BY <2>3, <2>9, <2>10, <2>11, <2>12, TimerNow
  <2>14. QED
    BY <2>1, <2>6, <2>9, <2>10, <2>13 DEF Exact, Awaited
<1>4. ASSUME NEW x \in Timers, x \notin out
      PROVE  TimerOK(x)' /\ timer'[x] = timer[x]
  <2>1. timer'[x] = timer[x] /\ TimerOK(x)
    BY <1>1, <1>4 DEF TimersOK
  <2>2. \A w \in LoopThreads : x \in timers'[w] <=> x \in timers[w]
    BY <1>1, <1>4
  <2>3. QED
    BY <1>2, <2>1, <2>2, TimerStays
<1>5. TimersOK'
  <2>1. timer' \in [Timers -> TimerRecords]
    <3>1. PICK g : g = timer'
      OBVIOUS
    <3>2. g = [x \in Timers |-> g[x]] /\ \A x \in Timers : g[x] \in TimerRecords
      BY <1>1, <1>3, <1>4, <3>1
    <3>3. QED
      BY <3>1, <3>2
  <2>2. timers' \in [LoopThreads -> SUBSET Timers]
    BY <1>1
  <2>3. QED
    BY <1>3, <1>4, <2>1, <2>2 DEF TimersOK
<1>6. EntriesOK'
  <2>1. \A y \in Timers : Awaited(timer[y]) => Awaited(timer'[y])
    BY <1>3, <1>4 DEF Awaited
  <2>2. QED
    BY <1>1, <2>1, EntriesStay, EntryTimer DEF Sync
<1>7. QED
  BY <1>1, <1>2, <1>5, <1>6, WaitsStay DEF LoopInv

LEMMA performStep ==
  ASSUME LoopInv, NEW t \in LoopThreads, NEW u \in PerformThreads, NEW x \in Timers,
         NEW wait \in BOOLEAN, perform_selector_on_thread(t, u, x, wait)
  PROVE  LoopInv'
<1>1. /\ AddTimer(x, NewTimer(FALSE, TRUE, 1), u) /\ ~timer[x].live /\ t \notin waits
      /\ semaphores' = (IF wait THEN Append(semaphores, <<x, t>>) ELSE semaphores)
      /\ waits' = (IF wait THEN waits \cup {t} ELSE waits) /\ posted' = posted
      /\ runs' = runs /\ TimersOK /\ EntriesOK /\ WaitsOK /\ RunsOK
      /\ u \in LoopThreads
  BY LoopAssumption DEF perform_selector_on_thread, InGuest, LoopInv
<1>2. RunsOK' /\ (\A y : Moves(y, 0, 0)) /\ \A w : PostsTo(w)' = PostsTo(w)
  BY <1>1, FramesStay
<1>3. /\ Counted(x, 0, 0) /\ InLoop(x) = 0 /\ ~Awaited(timer[x])
      /\ \A w \in LoopThreads : x \notin timers[w]
  BY <1>1, DeadTimer
<1>4. PICK tm : tm = NewTimer(FALSE, TRUE, 1)
  OBVIOUS
<1>5. Exact(tm, 0, 0, 0, 0) /\ tm.live /\ tm.refs = 1 /\ tm.valid /\ tm.guest /\ tm.perform = TRUE
  <2>1. FALSE \in BOOLEAN /\ TRUE \in BOOLEAN /\ 1 \in Int
    OBVIOUS
  <2>2. QED
    BY <1>4, <2>1, NewOK
<1>6. Counted(x, 0, 0)'
  BY <1>2, <1>3 DEF Moves
<1>7. /\ TimersOK' /\ \A y \in Timers \ {x} : timer'[y] = timer[y]
      /\ timer'[x].guest = tm.guest /\ timer'[x].perform = tm.perform
  <2>1. Exact(tm, InLoop(x), 0, 0, 0) /\ tm.refs > 0 /\ AddTimer(x, tm, u)
    <3>1. Exact(tm, InLoop(x), 0, 0, 0)
      BY <1>3, <1>5
    <3>2. AddTimer(x, tm, u)
      BY <1>1, <1>4
    <3>3. QED
      BY <1>5, <3>1, <3>2
  <2>2. \A w \in LoopThreads : x \in timers[w] => w = u /\ tm.loop = u
    BY <1>3
  <2>3. QED
    BY <1>1, <1>2, <1>5, <1>6, <2>1, <2>2, AddTimerOK
<1>8. Awaited(timer'[x]) /\ \A y \in Timers : Awaited(timer[y]) => Awaited(timer'[y])
  BY <1>3, <1>5, <1>7 DEF Awaited
<1>9. CASE ~wait
  <2>1. Sync
    BY <1>1, <1>9 DEF Sync
  <2>2. EntriesOK'
    BY <1>1, <1>8, <2>1, EntriesStay, EntryTimer DEF Sync
  <2>3. QED
    BY <1>1, <1>2, <1>7, <2>1, <2>2, WaitsStay DEF LoopInv
<1>10. CASE wait
  <2>1. PICK q : q = semaphores'
    OBVIOUS
  <2>2. semaphores \in Seq(Timers \X LoopThreads) /\ <<x, t>> \in Timers \X LoopThreads
    BY <1>1 DEF EntriesOK
  <2>3. PICK n \in Nat : n = Len(semaphores)
    BY <2>2
  <2>4. /\ q \in Seq(Timers \X LoopThreads) /\ DOMAIN semaphores = 1 .. n
        /\ DOMAIN q = 1 .. n + 1 /\ q[n + 1] = <<x, t>>
        /\ \A i \in 1 .. n : q[i] = semaphores[i]
    BY <1>1, <1>10, <2>1, <2>2, <2>3
  <2>5. \A i \in 1 .. n + 1 : i \in 1 .. n \/ i = n + 1
    OBVIOUS
  <2>6. EntriesOK'
    <3>1. \A i \in 1 .. n : Awaited(timer'[q[i][1]])
      BY <1>1, <1>8, <2>4, EntryTimer DEF EntriesOK
    <3>2. q[n + 1][1] = x
      BY <2>4
    <3>3. \A i \in DOMAIN q : Awaited(timer'[q[i][1]])
      BY <1>8, <2>4, <2>5, <3>1, <3>2
    <3>4. QED
      BY <2>1, <2>4, <3>3 DEF EntriesOK, Awaited
  <2>7. \A w : EntriesOf(w)' = {i \in DOMAIN q : q[i][2] = w}
    BY <2>1 DEF EntriesOf
  <2>8. q[n + 1][2] = t /\ n + 1 \in 1 .. n + 1
    BY <2>4
  <2>9. /\ EntriesOf(t) = {} /\ PostsTo(t) = {} /\ t \notin posted
    BY <1>1 DEF WaitsOK, Paired
  <2>10. EntriesOf(t)' = {n + 1}
    <3>1. \A i \in 1 .. n : q[i][2] # t
      BY <2>4, <2>9 DEF EntriesOf
    <3>2. QED
      BY <2>4, <2>5, <2>7, <2>8, <3>1
  <2>11. ASSUME NEW w \in LoopThreads, w # t PROVE EntriesOf(w)' = EntriesOf(w)
    <3>1. \A i : i \in EntriesOf(w)' <=> i \in 1 .. n + 1 /\ q[i][2] = w
      BY <2>4, <2>7
    <3>2. \A i : i \in EntriesOf(w) <=> i \in 1 .. n /\ semaphores[i][2] = w
      BY <2>4 DEF EntriesOf
    <3>3. \A i \in 1 .. n : i \in 1 .. n + 1
      OBVIOUS
    <3>4. \A i : i \in EntriesOf(w)' <=> i \in EntriesOf(w)
      <4>1. ASSUME NEW i PROVE i \in EntriesOf(w)' => i \in EntriesOf(w)
        BY <2>4, <2>5, <2>8, <2>11, <3>1, <3>2
      <4>2. ASSUME NEW i PROVE i \in EntriesOf(w) => i \in EntriesOf(w)'
        BY <2>4, <3>1, <3>2, <3>3
      <4>3. QED
        BY <4>1, <4>2
    <3>5. QED
      BY <3>4 DEF EntriesOf
  <2>12. WaitsOK'
    <3>1. Paired(t)'
      BY <1>1, <1>2, <1>10, <2>9, <2>10 DEF Paired
    <3>2. ASSUME NEW w \in LoopThreads, w # t PROVE Paired(w)'
      <4>1. Paired(w) /\ EntriesOf(w)' = EntriesOf(w) /\ PostsTo(w)' = PostsTo(w)
        BY <1>1, <1>2, <2>11, <3>2 DEF WaitsOK
      <4>2. w \in waits' <=> w \in waits
        BY <1>1, <3>2
      <4>3. QED
        BY <1>1, <4>1, <4>2 DEF Paired
    <3>3. QED
      BY <3>1, <3>2 DEF WaitsOK
  <2>13. QED
    BY <1>2, <1>7, <2>6, <2>12 DEF LoopInv
<1>11. QED
  BY <1>9, <1>10

LEMMA WaitReturnsStep ==
  ASSUME LoopInv, NEW t \in LoopThreads, WaitReturns(t)
  PROVE  LoopInv'
<1>1. /\ t \in waits /\ t \in posted /\ waits' = waits \ {t} /\ posted' = posted \ {t}
      /\ timer' = timer /\ timers' = timers /\ runs' = runs /\ semaphores' = semaphores
      /\ TimersOK /\ EntriesOK /\ WaitsOK /\ RunsOK
  BY DEF WaitReturns, LoopInv
<1>2. RunsOK' /\ (\A y : Moves(y, 0, 0)) /\ \A w : PostsTo(w)' = PostsTo(w)
  BY <1>1, FramesStay
<1>3. TimersOK'
  BY <1>1, <1>2, TimersSame
<1>4. EntriesOK'
  BY <1>1, EntriesStay
<1>5. \A w : EntriesOf(w)' = EntriesOf(w)
  BY <1>1 DEF EntriesOf
<1>6. ASSUME NEW w \in LoopThreads PROVE Paired(w)'
  <2>1. Paired(w) /\ EntriesOf(w)' = EntriesOf(w) /\ PostsTo(w)' = PostsTo(w)
    BY <1>1, <1>2, <1>5 DEF WaitsOK
  <2>2. QED
    BY <1>1, <2>1 DEF Paired
<1>7. QED
  BY <1>2, <1>3, <1>4, <1>6 DEF LoopInv, WaitsOK

-----------------------------------------------------------------------------
(* Steps of a run loop *)

LEMMA FrameQuiet ==
  ASSUME NEW d, NEW old, NEW new, FrameStep(d, old, new), new.tmp = old.tmp,
         \A x \in Timers : CalledBy(new, x) <=> CalledBy(old, x), new.post = old.post
  PROVE  /\ \A x \in Timers : Moves(x, 0, 0)
         /\ \A w : PostsTo(w)' = PostsTo(w)
<1>1. ASSUME NEW x \in Timers PROVE Moves(x, 0, 0)
  <2>1. /\ One(x \in new.tmp) - One(x \in old.tmp) = 0
        /\ One(CalledBy(new, x)) - One(CalledBy(old, x)) = 0
    BY DEF One
  <2>2. QED
    BY <2>1, FrameMoves
<1>2. QED
  BY <1>1, PostsStay

LEMMA QuietStep ==
  ASSUME LoopInv, timer' = timer, timers' = timers, Sync, RunsOK',
         \A x \in Timers : Moves(x, 0, 0), \A w : PostsTo(w)' = PostsTo(w)
  PROVE  LoopInv'
<1>1. TimersOK'
  BY TimersSame DEF LoopInv
<1>2. EntriesOK'
  BY EntriesStay DEF LoopInv, Sync
<1>3. QED
  BY <1>1, <1>2, WaitsStay DEF LoopInv

LEMMA NewFrame ==
  ASSUME NEW mode, NEW phase, NEW tmp, NEW tm
  PROVE  /\ Frame(mode, phase, tmp, tm).mode = mode /\ Frame(mode, phase, tmp, tm).phase = phase
         /\ Frame(mode, phase, tmp, tm).tmp = tmp /\ Frame(mode, phase, tmp, tm).timer = tm
         /\ Frame(mode, phase, tmp, tm).post = Nobody
BY DEF Frame

LEMMA NoFrameIs ==
  /\ NoFrame.tmp = {} /\ NoFrame.post = Nobody
  /\ \A x \in Timers : ~CalledBy(NoFrame, x)
BY NewFrame, LoopAssumption DEF NoFrame, CalledBy

LEMMA FrameIn ==
  ASSUME NEW mode \in {"single", "run", "until"}, NEW tmp \in SUBSET Timers
  PROVE  Frame(mode, "iterate", tmp, NoTimer) \in Frames
BY DEF Frame, Frames

LEMMA fireStep ==
  ASSUME LoopInv, NEW t \in LoopThreads, NEW x \in Timers, fire(t, x)
  PROVE  LoopInv'
<1>1. PICK new : new = Frame("fire", "callback", {}, x)
  OBVIOUS
<1>2. new \in Frames
  BY <1>1 DEF Frame, Frames
<1>3. PICK n : n = Len(runs[t]) + 1
  OBVIOUS
<1>4. Push(t, new) /\ timer' = timer /\ timers' = timers /\ Sync /\ Len(runs[t]) < MaxRuns /\ RunsOK
  BY <1>1 DEF fire, MayRun, LoopInv
<1>5. RunsOK' /\ FrameStep(<<t, n>>, NoFrame, new)
  BY <1>2, <1>3, <1>4, Pushed
<1>6. new.tmp = {} /\ new.post = Nobody /\ \A y \in Timers : ~CalledBy(new, y)
  BY <1>1, NewFrame DEF CalledBy
<1>7. (\A y \in Timers : Moves(y, 0, 0)) /\ \A w : PostsTo(w)' = PostsTo(w)
  <2>1. PICK old : old = NoFrame
    OBVIOUS
  <2>2. QED
    BY <1>5, <1>6, <2>1, NoFrameIs, FrameQuiet
<1>8. QED
  BY <1>4, <1>5, <1>7, QuietStep

LEMMA FireReturnsStep ==
  ASSUME LoopInv, NEW t \in LoopThreads, FireReturns(t)
  PROVE  LoopInv'
<1>1. PICK f : f = Last(runs[t])
  OBVIOUS
<1>2. PICK n : n = Len(runs[t])
  OBVIOUS
<1>3. PICK x : x = f.timer
  OBVIOUS
<1>4. /\ Phase(t) = "callback" /\ runs[t] # <<>> /\ f.mode = "fire" /\ Pop(t) /\ Sync
      /\ IF timer[x].repeats THEN UNCHANGED <<timer, timers>> ELSE Invalidate(x, timer[x], 0)
      /\ RunsOK /\ TimersOK /\ EntriesOK /\ WaitsOK
  BY <1>1, <1>3 DEF FireReturns, InGuest, LoopInv
<1>5. f \in Frames /\ f.phase = "callback" /\ FrameStep(<<t, n>>, f, NoFrame) /\ RunsOK'
  BY <1>1, <1>2, <1>4, LastIs, Popped
<1>6. x \in Timers /\ f.tmp = {} /\ f.post = Nobody
  BY <1>3, <1>4, <1>5 DEF Frames
<1>7. (\A y \in Timers : Moves(y, 0, 0)) /\ \A w : PostsTo(w)' = PostsTo(w)
  <2>1. \A y \in Timers : ~CalledBy(f, y)
    BY <1>4 DEF CalledBy
  <2>2. PICK new : new = NoFrame
    OBVIOUS
  <2>3. QED
    BY <1>5, <1>6, <2>1, <2>2, NoFrameIs, FrameQuiet
<1>8. CASE timer[x].repeats
  BY <1>4, <1>5, <1>7, <1>8, QuietStep
<1>9. CASE ~timer[x].repeats /\ timer[x].live
  <2>1. PICK c \in Nat, k \in Nat : Counted(x, c, k) /\ Exact(timer[x], InLoop(x), c, k, 0)
    BY <1>4, <1>6 DEF TimersOK, TimerOK
  <2>2. Counted(x, c, k)'
    <3>1. c + 0 = c /\ k + 0 = k
      OBVIOUS
    <3>2. QED
      BY <1>6, <1>7, <2>1, <3>1 DEF Moves
  <2>3. PICK tm : tm = timer[x]
    OBVIOUS
  <2>4. Invalidate(x, tm, 0)
    BY <1>4, <1>9, <2>3
  <2>5. /\ TimersOK' /\ \A y \in Timers \ {x} : timer'[y] = timer[y]
        /\ tm.guest => timer'[x].guest /\ timer'[x].perform = tm.perform
    BY <1>4, <1>6, <1>7, <1>9, <2>1, <2>2, <2>3, <2>4, InvalidateOK
  <2>6. EntriesOK'
    <3>1. \A y \in Timers : Awaited(timer[y]) => Awaited(timer'[y])
      BY <2>3, <2>5 DEF Awaited
    <3>2. QED
      BY <1>4, <3>1, EntriesStay, EntryTimer DEF Sync
  <2>7. QED
    BY <1>4, <1>5, <1>7, <2>5, <2>6, WaitsStay DEF LoopInv
<1>10. CASE ~timer[x].repeats /\ ~timer[x].live
  <2>1. timer[x] = FreeTimer
    BY <1>4, <1>6, <1>10, DeadTimer
  <2>2. Invalidated(FreeTimer).refs = FreeTimer.refs /\ FreeTimer.loop = Nobody /\ FreeTimer.refs = 0
    BY FreeOK, InvalidatedOK DEF FreeTimer
  <2>3. timers' = timers /\ timer' = [timer EXCEPT ![x] = FreeTimer]
    BY <1>4, <1>10, <2>1, <2>2 DEF Invalidate, Released
  <2>4. timer' = timer
    BY <1>4, <1>6, <2>1, <2>3 DEF TimersOK
  <2>5. QED
    BY <1>4, <1>5, <1>7, <2>3, <2>4, QuietStep
<1>11. QED
  BY <1>8, <1>9, <1>10

LEMMA SleepStep ==
  ASSUME LoopInv, NEW t \in LoopThreads, SleepInLoop(t)
  PROVE  LoopInv'
<1>1. PICK f : f = Last(runs[t])
  OBVIOUS
<1>2. PICK n : n = Len(runs[t])
  OBVIOUS
<1>3. PICK new : new = [f EXCEPT !.phase = "sleep"]
  OBVIOUS
<1>4. /\ Phase(t) = "iterate" /\ f.tmp = {} /\ Top(t, new) /\ timer' = timer /\ timers' = timers
      /\ Sync /\ RunsOK /\ runs[t] # <<>>
  BY <1>1, <1>3 DEF SleepInLoop, LoopInv, Phase
<1>5. f \in Frames /\ f.phase = "iterate"
  BY <1>1, <1>4, LastIs
<1>6. new \in Frames /\ new.tmp = f.tmp /\ new.post = f.post /\ new.timer = f.timer /\ new.mode = f.mode
  BY <1>3, <1>4, <1>5 DEF Frames
<1>7. RunsOK' /\ FrameStep(<<t, n>>, f, new)
  BY <1>1, <1>2, <1>4, <1>6, Topped
<1>8. (\A y \in Timers : Moves(y, 0, 0)) /\ \A w : PostsTo(w)' = PostsTo(w)
  BY <1>6, <1>7, FrameQuiet DEF CalledBy
<1>9. QED
  BY <1>4, <1>7, <1>8, QuietStep

LEMMA LeaveStep ==
  ASSUME LoopInv, NEW t \in LoopThreads, LeaveLoop(t)
  PROVE  LoopInv'
<1>1. PICK f : f = Last(runs[t])
  OBVIOUS
<1>2. PICK n : n = Len(runs[t])
  OBVIOUS
<1>3. /\ Phase(t) = "sleep" /\ Pop(t) /\ timer' = timer /\ timers' = timers
      /\ Sync /\ RunsOK /\ runs[t] # <<>>
  BY DEF LeaveLoop, LoopInv, Phase
<1>4. f \in Frames /\ f.phase = "sleep" /\ RunsOK' /\ FrameStep(<<t, n>>, f, NoFrame)
  BY <1>1, <1>2, <1>3, LastIs, Popped
<1>5. f.tmp = {} /\ f.post = Nobody /\ f.timer = NoTimer
  BY <1>4 DEF Frames
<1>6. (\A y \in Timers : Moves(y, 0, 0)) /\ \A w : PostsTo(w)' = PostsTo(w)
  <2>1. \A y \in Timers : ~CalledBy(f, y)
    BY <1>5, LoopAssumption DEF CalledBy
  <2>2. PICK new : new = NoFrame
    OBVIOUS
  <2>3. QED
    BY <1>4, <1>5, <2>1, <2>2, NoFrameIs, FrameQuiet
<1>7. QED
  BY <1>3, <1>4, <1>6, QuietStep

LEMMA PassOK ==
  ASSUME TimersOK, EntriesOK, NEW t \in LoopThreads, Pass(t),
         \A x \in timers[t] : Moves(x, 1, 0), \A x \in Timers \ timers[t] : Moves(x, 0, 0)
  PROVE  TimersOK' /\ EntriesOK'
<1>1. /\ timer' = [x \in Timers |-> IF x \in timers[t] THEN Retained(timer[x]) ELSE timer[x]]
      /\ timers' = timers /\ semaphores' = semaphores
      /\ timer \in [Timers -> TimerRecords] /\ timers \in [LoopThreads -> SUBSET Timers]
  BY DEF Pass, TimersOK
<1>2. ASSUME NEW x \in timers[t]
      PROVE  TimerOK(x)' /\ timer'[x] \in TimerRecords /\ (Awaited(timer[x]) => Awaited(timer'[x]))
  <2>1. x \in Timers
    BY <1>1
  <2>2. TimerOK(x) /\ InLoop(x) = 1
    BY <1>1, <2>1, InLoopIs DEF TimersOK
  <2>3. PICK c \in Nat, k \in Nat : Counted(x, c, k) /\ Exact(timer[x], InLoop(x), c, k, 0)
    BY <2>2 DEF TimerOK
  <2>4. PICK c1 \in Nat : c1 = c + 1
    OBVIOUS
  <2>5. Counted(x, c1, k)'
    <3>1. k + 0 = k
      OBVIOUS
    <3>2. QED
      BY <1>2, <2>3, <2>4, <3>1 DEF Moves
  <2>6. PICK tm : tm = timer[x]
    OBVIOUS
  <2>7. tm.live /\ tm.refs \in Nat /\ tm.loop = t
    BY <1>1, <2>2, <2>3, <2>6, FreeOK DEF TimerOK, Alive, Exact, TimerRecords
  <2>8. PICK new : new = Retained(tm)
    OBVIOUS
  <2>9. Exact(new, 1, c, k, 1) /\ Same(tm, new) /\ new.loop = tm.loop /\ new.refs = tm.refs + 1
    <3>1. 0 + 1 = 1
      OBVIOUS
    <3>2. QED
      BY <2>2, <2>3, <2>6, <2>8, <3>1, RetainedOK
  <2>10. Exact(new, 1, c1, k, 0)
    BY <2>4, <2>9 DEF Exact, One
  <2>11. Alive(new)
    BY <2>7, <2>9 DEF Alive, Same
  <2>12. timer'[x] = new
    BY <1>1, <2>1, <2>6, <2>8
  <2>13. InLoop(x)' = 1
    BY <1>1, <2>2 DEF InLoop
  <2>14. \A w \in LoopThreads : x \in timers'[w] => new.loop = w
    BY <1>1, <2>2, <2>6, <2>9 DEF TimerOK
  <2>15. TimerOK(x)'
    BY <2>5, <2>10, <2>11, <2>12, <2>13, <2>14, TimerNow
  <2>16. QED
    BY <2>6, <2>9, <2>12, <2>15 DEF Exact, Awaited, Same
<1>3. ASSUME NEW x \in Timers \ timers[t] PROVE TimerOK(x)' /\ timer'[x] = timer[x]
  <2>1. timer'[x] = timer[x] /\ TimerOK(x)
    BY <1>1 DEF TimersOK
  <2>2. QED
    BY <1>1, <2>1, TimerStays
<1>4. timer' \in [Timers -> TimerRecords]
  <2>1. PICK g : g = timer'
    OBVIOUS
  <2>2. g = [x \in Timers |-> g[x]]
    BY <1>1, <2>1
  <2>3. \A x \in Timers : g[x] \in TimerRecords
    BY <1>1, <1>2, <1>3, <2>1
  <2>4. QED
    BY <2>1, <2>2, <2>3
<1>5. TimersOK'
  BY <1>1, <1>2, <1>3, <1>4 DEF TimersOK
<1>6. \A x \in Timers : Awaited(timer[x]) => Awaited(timer'[x])
  BY <1>2, <1>3
<1>7. QED
  BY <1>1, <1>5, <1>6, EntriesStay, EntryTimer

(* A frame that had no copies gets those of the timers in the loop. *)
LEMMA PassMoves ==
  ASSUME NEW d, NEW old, NEW new, FrameStep(d, old, new), NEW T, new.tmp = T, old.tmp = {},
         \A x \in Timers : ~CalledBy(new, x) /\ ~CalledBy(old, x), T \subseteq Timers
  PROVE  (\A x \in T : Moves(x, 1, 0)) /\ \A x \in Timers \ T : Moves(x, 0, 0)
<1>1. ASSUME NEW x \in T PROVE Moves(x, 1, 0)
  <2>1. /\ One(x \in new.tmp) - One(x \in old.tmp) = 1
        /\ One(CalledBy(new, x)) - One(CalledBy(old, x)) = 0
    BY DEF One
  <2>2. QED
    BY <2>1, FrameMoves
<1>2. ASSUME NEW x \in Timers \ T PROVE Moves(x, 0, 0)
  <2>1. /\ One(x \in new.tmp) - One(x \in old.tmp) = 0
        /\ One(CalledBy(new, x)) - One(CalledBy(old, x)) = 0
    BY DEF One
  <2>2. QED
    BY <2>1, FrameMoves
<1>3. QED
  BY <1>1, <1>2

LEMMA PassStep ==
  ASSUME LoopInv, NEW t \in LoopThreads, Pass(t), RunsOK', NEW d, NEW old, NEW new,
         FrameStep(d, old, new), new.tmp = timers[t], old.tmp = {},
         \A x \in Timers : ~CalledBy(new, x) /\ ~CalledBy(old, x), new.post = old.post
  PROVE  LoopInv'
<1>1. PICK T : T = timers[t]
  OBVIOUS
<1>2. T \subseteq Timers
  BY <1>1 DEF LoopInv, TimersOK
<1>3. (\A x \in T : Moves(x, 1, 0)) /\ \A x \in Timers \ T : Moves(x, 0, 0)
  BY <1>1, <1>2, PassMoves
<1>4. TimersOK' /\ EntriesOK'
  BY <1>1, <1>3, PassOK DEF LoopInv
<1>5. WaitsOK'
  BY PostsStay, WaitsStay DEF LoopInv, Sync, Pass
<1>6. QED
  BY <1>4, <1>5 DEF LoopInv

LEMMA runStep ==
  ASSUME LoopInv, NEW t \in LoopThreads, NEW mode \in {"single", "run", "until"},
         run_run_loop(t, mode)
  PROVE  LoopInv'
<1>1. PICK new : new = Frame(mode, "iterate", timers[t], NoTimer)
  OBVIOUS
<1>2. PICK n : n = Len(runs[t]) + 1
  OBVIOUS
<1>3. Push(t, new) /\ Pass(t) /\ Len(runs[t]) < MaxRuns /\ RunsOK /\ timers[t] \in SUBSET Timers
  BY <1>1 DEF run_run_loop, MayRun, LoopInv, TimersOK
<1>4. new \in Frames
  BY <1>1, <1>3, FrameIn
<1>5. RunsOK' /\ FrameStep(<<t, n>>, NoFrame, new)
  BY <1>2, <1>3, <1>4, Pushed
<1>6. new.tmp = timers[t] /\ new.post = Nobody /\ \A x \in Timers : ~CalledBy(new, x)
  BY <1>1, NewFrame, LoopAssumption DEF CalledBy
<1>7. PICK old : old = NoFrame
  OBVIOUS
<1>8. QED
  BY <1>3, <1>5, <1>6, <1>7, NoFrameIs, PassStep

LEMMA NextPassStep ==
  ASSUME LoopInv, NEW t \in LoopThreads, NextPass(t)
  PROVE  LoopInv'
<1>1. PICK f : f = Last(runs[t])
  OBVIOUS
<1>2. PICK n : n = Len(runs[t])
  OBVIOUS
<1>3. PICK new : new = Frame(f.mode, "iterate", timers[t], NoTimer)
  OBVIOUS
<1>4. /\ Phase(t) = "sleep" /\ runs[t] # <<>> /\ Top(t, new) /\ Pass(t) /\ RunsOK
      /\ timers[t] \in SUBSET Timers
  BY <1>1, <1>3 DEF NextPass, Phase, LoopInv, TimersOK
<1>5. f \in Frames /\ f.phase = "sleep"
  BY <1>1, <1>4, LastIs
<1>6. f.tmp = {} /\ f.post = Nobody /\ f.timer = NoTimer /\ f.mode \in {"single", "run", "until"}
  BY <1>5 DEF Frames
<1>7. new \in Frames
  BY <1>3, <1>4, <1>6, FrameIn
<1>8. RunsOK' /\ FrameStep(<<t, n>>, f, new)
  BY <1>1, <1>2, <1>4, <1>7, Topped
<1>9. /\ new.tmp = timers[t] /\ new.post = Nobody
      /\ \A x \in Timers : ~CalledBy(new, x) /\ ~CalledBy(f, x)
  BY <1>3, <1>6, NewFrame, LoopAssumption DEF CalledBy
<1>10. QED
  BY <1>4, <1>6, <1>8, <1>9, PassStep

LEMMA PassOverStep ==
  ASSUME LoopInv, NEW t \in LoopThreads, NEW x \in Timers, PassOver(t, x)
  PROVE  LoopInv'
<1>1. PICK f : f = Last(runs[t])
  OBVIOUS
<1>2. PICK n : n = Len(runs[t])
  OBVIOUS
<1>3. PICK new : new = [f EXCEPT !.tmp = f.tmp \ {x}]
  OBVIOUS
<1>4. /\ Phase(t) = "iterate" /\ runs[t] # <<>> /\ x \in f.tmp /\ Top(t, new)
      /\ timer' = [timer EXCEPT ![x] = Released(timer[x], 1)] /\ timers' = timers /\ Sync
      /\ RunsOK /\ TimersOK /\ EntriesOK /\ WaitsOK /\ timer \in [Timers -> TimerRecords]
  BY <1>1, <1>3 DEF PassOver, Phase, LoopInv, TimersOK
<1>5. f \in Frames /\ f.phase = "iterate"
  BY <1>1, <1>4, LastIs
<1>6. /\ new \in Frames /\ new.tmp = f.tmp \ {x} /\ new.post = f.post /\ new.timer = f.timer
      /\ new.mode = f.mode
  BY <1>3, <1>4, <1>5 DEF Frames
<1>7. RunsOK' /\ FrameStep(<<t, n>>, f, new)
  BY <1>1, <1>2, <1>4, <1>6, Topped
<1>8. Moves(x, -1, 0)
  <2>1. /\ One(x \in new.tmp) - One(x \in f.tmp) = -1
        /\ One(CalledBy(new, x)) - One(CalledBy(f, x)) = 0
    BY <1>4, <1>6 DEF One, CalledBy
  <2>2. QED
    BY <1>7, <2>1, FrameMoves
<1>9. ASSUME NEW y \in Timers \ {x} PROVE Moves(y, 0, 0)
  <2>1. /\ One(y \in new.tmp) - One(y \in f.tmp) = 0
        /\ One(CalledBy(new, y)) - One(CalledBy(f, y)) = 0
    BY <1>6 DEF One, CalledBy
  <2>2. QED
    BY <1>7, <2>1, FrameMoves
<1>10. TimerOK(x)
  BY <1>4 DEF TimersOK
<1>11. PICK c \in Nat, k \in Nat : Counted(x, c, k) /\ Exact(timer[x], InLoop(x), c, k, 0)
  BY <1>10 DEF TimerOK
<1>12. PICK c1 : c1 = c - 1
  OBVIOUS
<1>13. c1 \in Nat /\ Counted(x, c1, k)'
  <2>1. c + -1 = c1 /\ k + 0 = k
    BY <1>12
  <2>2. QED
    BY <1>8, <1>11, <2>1 DEF Moves
<1>14. PICK tm : tm = timer[x]
  OBVIOUS
<1>15. PICK m : m = InLoop(x)
  OBVIOUS
<1>16. Exact(tm, m, c1, k, 1)
  BY <1>11, <1>12, <1>13, <1>14, <1>15 DEF Exact, One
<1>17. tm.live
  <2>1. tm.refs > 0
    BY <1>16 DEF Exact, One
  <2>2. QED
    BY <1>10, <1>14, <2>1, FreeOK DEF TimerOK, Alive
<1>18. PICK rel : rel = Released(tm, 1)
  OBVIOUS
<1>19. /\ Exact(rel, m, c1, k, 0) /\ Alive(rel) /\ (m = 1 => rel.loop = tm.loop)
       /\ tm.guest => rel.guest /\ rel.perform = tm.perform
  BY <1>16, <1>17, <1>18, ReleasedOK
<1>20. TimersOK'
  <2>1. timer' = [timer EXCEPT ![x] = rel] /\ timers' \in [LoopThreads -> SUBSET Timers]
        /\ rel \in TimerRecords
    BY <1>4, <1>14, <1>18, <1>19 DEF TimersOK, Exact
  <2>2. InLoop(x)' = m
    BY <1>4, <1>15 DEF InLoop
  <2>3. \A w \in LoopThreads : x \in timers'[w] => rel.loop = w
    BY <1>4, <1>10, <1>14, <1>15, <1>19, InLoopIs DEF TimerOK
  <2>4. QED
    BY <1>4, <1>9, <1>13, <1>19, <2>1, <2>2, <2>3, OneTimer
<1>21. EntriesOK'
  <2>1. \A y \in Timers : Awaited(timer[y]) => Awaited(timer'[y])
    BY <1>4, <1>14, <1>18, <1>19 DEF Awaited
  <2>2. QED
    BY <1>4, <2>1, EntriesStay, EntryTimer DEF Sync
<1>22. WaitsOK'
  <2>1. \A w : PostsTo(w)' = PostsTo(w)
    BY <1>6, <1>7, PostsStay
  <2>2. QED
    BY <1>4, <2>1, WaitsStay
<1>23. QED
  BY <1>7, <1>20, <1>21, <1>22 DEF LoopInv

-----------------------------------------------------------------------------
(* Callbacks *)

LEMMA ReturnedFrame ==
  ASSUME NEW f \in Frames, f.mode # "fire", NEW new,
         new = [f EXCEPT !.phase = "iterate", !.timer = NoTimer, !.post = Nobody]
  PROVE  /\ new \in Frames /\ new.tmp = f.tmp /\ new.post = Nobody /\ new.timer = NoTimer
         /\ new.mode = f.mode
<1> DEFINE R == [mode : {"single", "run", "until", "fire"},
                 phase : {"iterate", "callback", "sleep"}, tmp : SUBSET Timers,
                 timer : Timers \cup {NoTimer}, post : LoopThreads \cup {Nobody}]
<1>1. f \in R
  BY DEF Frames
<1>2. /\ "iterate" \in {"iterate", "callback", "sleep"} /\ NoTimer \in Timers \cup {NoTimer}
      /\ Nobody \in LoopThreads \cup {Nobody}
  OBVIOUS
<1>3. /\ new \in R /\ new.tmp = f.tmp /\ new.post = Nobody /\ new.timer = NoTimer
      /\ new.mode = f.mode /\ new.phase = "iterate"
  BY <1>1, <1>2, Zenon
<1>4. QED
  BY <1>3 DEF Frames

LEMMA PostsGone ==
  ASSUME NEW d, NEW old, NEW new, FrameStep(d, old, new), NEW w, new.post # w
  PROVE  PostsTo(w)' = PostsTo(w) \ {d}
<1>1. d \in LoopDepths /\ FrameAt(d)'.post # w
  BY DEF FrameStep
<1>2. \A e \in LoopDepths : e # d => FrameAt(e)' = FrameAt(e)
  BY DEF FrameStep
<1>3. PostsTo(w)' = {e \in LoopDepths : FrameAt(e)'.post = w}
  BY DEF PostsTo, LoopDepths
<1>4. QED
  BY <1>1, <1>2, <1>3 DEF PostsTo

LEMMA PostsCome ==
  ASSUME NEW d, NEW old, NEW new, FrameStep(d, old, new), NEW w, new.post = w
  PROVE  PostsTo(w)' = PostsTo(w) \cup {d}
<1>1. d \in LoopDepths /\ FrameAt(d)'.post = w
  BY DEF FrameStep
<1>2. \A e \in LoopDepths : e # d => FrameAt(e)' = FrameAt(e)
  BY DEF FrameStep
<1>3. PostsTo(w)' = {e \in LoopDepths : FrameAt(e)'.post = w}
  BY DEF PostsTo, LoopDepths
<1>4. QED
  BY <1>1, <1>2, <1>3 DEF PostsTo

(* The record of a timer whose callback has returned, before it is         *)
(* invalidated or released.                                                *)
LEMMA ReturnedOK ==
  ASSUME NEW tm, NEW n, NEW c, NEW k, Exact(tm, n, c, k, 0), k > 0, NEW ret,
         ret = [tm EXCEPT !.is_running_callback = FALSE]
  PROVE  /\ k = 1 /\ ret.live = tm.live /\ ret.loop = tm.loop /\ ret.repeats = tm.repeats
         /\ ret.guest = tm.guest /\ ret.perform = tm.perform
         /\ ret.repeats => Exact(ret, n, c, 0, 2)
         /\ Exact(Invalidated(ret), 0, c, 0, 2 + n)
         /\ Invalidated(ret).live = tm.live /\ Invalidated(ret).guest = tm.guest
         /\ Invalidated(ret).perform = tm.perform
<1>1. tm \in TimerRecords /\ k = 1
  BY DEF Exact, One
<1>2. /\ ret \in TimerRecords /\ ret.live = tm.live /\ ret.loop = tm.loop
      /\ ret.repeats = tm.repeats /\ ret.guest = tm.guest /\ ret.perform = tm.perform
      /\ ret.valid = tm.valid /\ ret.fires = tm.fires /\ ret.refs = tm.refs
      /\ ret.is_running_callback = FALSE
  BY <1>1 DEF TimerRecords
<1>3. /\ tm.refs = One(tm.guest) + n + c + 2 /\ n \in {0, 1} /\ c \in Nat /\ 2 + n \in Nat
      /\ n = 1 => tm.valid
      /\ tm.fires > 0 => ~tm.repeats /\ tm.fires = 1
  BY <1>1 DEF Exact, One
<1>4. ret.repeats => Exact(ret, n, c, 0, 2)
  BY <1>2, <1>3 DEF Exact, One
<1>5. /\ Invalidated(ret).live = ret.live /\ Invalidated(ret).guest = ret.guest
      /\ Invalidated(ret).perform = ret.perform /\ Invalidated(ret).refs = ret.refs
      /\ Invalidated(ret).repeats = ret.repeats /\ Invalidated(ret).fires = ret.fires
      /\ Invalidated(ret).is_running_callback = ret.is_running_callback
      /\ Invalidated(ret).valid = FALSE
  BY <1>2, Zenon DEF Invalidated, TimerRecords
<1>6. Invalidated(ret) \in TimerRecords
  <2>1. FALSE \in BOOLEAN /\ Nobody \in LoopThreads \cup {Nobody}
    OBVIOUS
  <2>2. QED
    BY <1>2, <2>1, Zenon DEF Invalidated, TimerRecords
<1>7. Exact(Invalidated(ret), 0, c, 0, 2 + n)
  <2>1. PICK inv : inv = Invalidated(ret)
    OBVIOUS
  <2>2. /\ inv \in TimerRecords /\ inv.refs = tm.refs /\ inv.guest = tm.guest
        /\ inv.fires = tm.fires /\ inv.repeats = tm.repeats /\ inv.valid = FALSE
        /\ inv.is_running_callback = FALSE
    BY <1>2, <1>5, <1>6, <2>1
  <2>3. inv.refs = One(inv.guest) + 0 + c + 2 * 0 + (2 + n)
    BY <1>3, <2>2, OneIs
  <2>4. QED
    BY <1>3, <2>1, <2>2, <2>3 DEF Exact, One
<1>8. QED
  BY <1>1, <1>2, <1>4, <1>5, <1>7

LEMMA CallbackReturnsStep ==
  ASSUME LoopInv, NEW t \in LoopThreads, TimerCallbackReturns(t)
  PROVE  LoopInv'
<1>1. PICK f : f = Last(runs[t])
  OBVIOUS
<1>2. PICK n : n = Len(runs[t])
  OBVIOUS
<1>3. PICK x : x = f.timer
  OBVIOUS
<1>4. PICK tm : tm = timer[x]
  OBVIOUS
<1>5. PICK ret : ret = [tm EXCEPT !.is_running_callback = FALSE]
  OBVIOUS
<1>6. PICK new : new = [f EXCEPT !.phase = "iterate", !.timer = NoTimer, !.post = Nobody]
  OBVIOUS
<1>7. /\ Phase(t) = "callback" /\ runs[t] # <<>> /\ f.mode # "fire" /\ Top(t, new)
      /\ posted' = posted \cup ({f.post} \ {Nobody}) /\ semaphores' = semaphores /\ waits' = waits
  BY <1>1, <1>6, Zenon DEF TimerCallbackReturns, InGuest
<1>8. IF ret.repeats
        THEN timer' = [timer EXCEPT ![x] = Released(ret, 2)] /\ timers' = timers
        ELSE Invalidate(x, ret, 2)
  BY <1>1, <1>3, <1>4, <1>5, Zenon DEF TimerCallbackReturns
<1>9. /\ RunsOK /\ TimersOK /\ EntriesOK /\ WaitsOK
  BY DEF LoopInv
<1>10. f \in Frames /\ f.phase = "callback"
  BY <1>1, <1>7, <1>9, LastIs
<1>11. x \in Timers /\ f.post \in LoopThreads \cup {Nobody}
  BY <1>3, <1>10 DEF Frames
<1>12. /\ new \in Frames /\ new.tmp = f.tmp /\ new.post = Nobody /\ new.timer = NoTimer
       /\ new.mode = f.mode
  BY <1>6, <1>7, <1>10, ReturnedFrame
<1>13. RunsOK' /\ FrameStep(<<t, n>>, f, new)
  BY <1>1, <1>2, <1>7, <1>9, <1>12, Topped
<1>14. Moves(x, 0, -1)
  <2>1. /\ One(x \in new.tmp) - One(x \in f.tmp) = 0
        /\ One(CalledBy(new, x)) - One(CalledBy(f, x)) = -1
    BY <1>3, <1>7, <1>11, <1>12, LoopAssumption DEF One, CalledBy
  <2>2. QED
    BY <1>13, <2>1, FrameMoves
<1>15. ASSUME NEW y \in Timers \ {x} PROVE Moves(y, 0, 0)
  <2>1. /\ One(y \in new.tmp) - One(y \in f.tmp) = 0
        /\ One(CalledBy(new, y)) - One(CalledBy(f, y)) = 0
    BY <1>3, <1>12, LoopAssumption DEF One, CalledBy
  <2>2. QED
    BY <1>13, <2>1, FrameMoves
<1>16. TimerOK(x) /\ timer \in [Timers -> TimerRecords] /\ timers \in [LoopThreads -> SUBSET Timers]
  BY <1>9, <1>11 DEF TimersOK
<1>17. PICK c \in Nat, k \in Nat : Counted(x, c, k) /\ Exact(timer[x], InLoop(x), c, k, 0)
  BY <1>16 DEF TimerOK
<1>18. k > 0
  <2>1. k + -1 \in Nat
    BY <1>14, <1>17 DEF Moves
  <2>2. QED
    BY <2>1
<1>19. PICK m : m = InLoop(x)
  OBVIOUS
<1>20. /\ k = 1 /\ ret.live = tm.live /\ ret.loop = tm.loop /\ ret.repeats = tm.repeats
       /\ ret.guest = tm.guest /\ ret.perform = tm.perform
       /\ ret.repeats => Exact(ret, m, c, 0, 2)
       /\ Exact(Invalidated(ret), 0, c, 0, 2 + m)
       /\ Invalidated(ret).live = tm.live /\ Invalidated(ret).guest = tm.guest
       /\ Invalidated(ret).perform = tm.perform
  BY <1>4, <1>5, <1>17, <1>18, <1>19, ReturnedOK
<1>21. Counted(x, c, 0)'
  <2>1. c + 0 = c /\ k + -1 = 0
    BY <1>20
  <2>2. QED
    BY <1>14, <1>17, <2>1 DEF Moves
<1>22. tm.live
  <2>1. tm.refs > 0
    BY <1>4, <1>17, <1>18 DEF Exact, One
  <2>2. QED
    BY <1>4, <1>16, <2>1, FreeOK DEF TimerOK, Alive
<1>23. /\ TimersOK' /\ \A y \in Timers \ {x} : timer'[y] = timer[y]
       /\ tm.guest => timer'[x].guest /\ timer'[x].perform = tm.perform
  <2>1. CASE ret.repeats
    <3>1. PICK rel : rel = Released(ret, 2)
      OBVIOUS
    <3>2. /\ Exact(rel, m, c, 0, 0) /\ Alive(rel) /\ (m = 1 => rel.loop = ret.loop)
          /\ ret.guest => rel.guest /\ rel.perform = ret.perform
      BY <1>20, <1>22, <2>1, <3>1, ReleasedOK
    <3>3. timer' = [timer EXCEPT ![x] = rel] /\ timers' = timers /\ rel \in TimerRecords
      BY <1>8, <2>1, <3>1, <3>2 DEF Exact
    <3>4. InLoop(x)' = m
      BY <1>19, <3>3 DEF InLoop
    <3>5. \A w \in LoopThreads : x \in timers'[w] => rel.loop = w
      BY <1>4, <1>9, <1>11, <1>16, <1>19, <1>20, <3>2, <3>3, InLoopIs DEF TimerOK
    <3>6. TimersOK'
      BY <1>9, <1>11, <1>15, <1>16, <1>21, <3>2, <3>3, <3>4, <3>5, OneTimer
    <3>7. QED
      BY <1>11, <1>16, <1>20, <3>2, <3>3, <3>6
  <2>2. CASE ~ret.repeats
    <3>1. PICK inv : inv = Invalidated(ret)
      OBVIOUS
    <3>2. Invalidate(x, ret, 2) /\ ret.loop = timer[x].loop /\ 2 \in Nat
      BY <1>4, <1>8, <1>20, <2>2
    <3>3. Exact(inv, 0, c, 0, 2 + InLoop(x)) /\ inv.live
      BY <1>19, <1>20, <1>22, <3>1
    <3>4. /\ TimersOK' /\ \A y \in Timers \ {x} : timer'[y] = timer[y]
          /\ inv.guest => timer'[x].guest /\ timer'[x].perform = inv.perform
      BY <1>9, <1>11, <1>15, <1>21, <3>1, <3>2, <3>3, InvalidateRecord
    <3>5. QED
      BY <1>20, <3>1, <3>4
  <2>3. QED
    BY <2>1, <2>2
<1>24. EntriesOK'
  <2>1. \A y \in Timers : Awaited(timer[y]) => Awaited(timer'[y])
    BY <1>4, <1>23 DEF Awaited
  <2>2. QED
    BY <1>7, <1>9, <2>1, EntriesStay, EntryTimer
<1>25. ASSUME NEW w \in LoopThreads PROVE Paired(w)'
  <2>1. Paired(w) /\ EntriesOf(w)' = EntriesOf(w) /\ waits' = waits /\ w # Nobody
    BY <1>7, <1>9, LoopAssumption DEF WaitsOK, EntriesOf
  <2>2. PICK d : d = <<t, n>>
    OBVIOUS
  <2>3. PostsTo(w)' = PostsTo(w) \ {d}
    BY <1>12, <1>13, <2>1, <2>2, PostsGone
  <2>4. d \in PostsTo(w) <=> f.post = w
    BY <1>13, <2>2 DEF FrameStep, PostsTo
  <2>5. w \in posted' <=> w \in posted \/ f.post = w
    BY <1>7, <2>1
  <2>6. CASE f.post = w
    <3>1. PostsTo(w) = {d}
      BY <2>1, <2>4, <2>6 DEF Paired
    <3>2. PostsTo(w)' = {} /\ w \in waits /\ EntriesOf(w) = {} /\ w \in posted'
      BY <2>1, <2>3, <2>5, <2>6, <3>1 DEF Paired
    <3>3. QED
      BY <2>1, <3>2 DEF Paired
  <2>7. CASE f.post # w
    <3>1. PostsTo(w)' = PostsTo(w) /\ (w \in posted' <=> w \in posted)
      BY <2>3, <2>4, <2>5, <2>7
    <3>2. QED
      BY <2>1, <3>1 DEF Paired
  <2>8. QED
    BY <2>6, <2>7
<1>26. QED
  BY <1>13, <1>23, <1>24, <1>25 DEF LoopInv, WaitsOK

LEMMA MinIn ==
  ASSUME NEW T \in SUBSET Nat, T # {}
  PROVE  Min(T) \in T
<1>1. \E x \in T : \A y \in T : ~(<<y, x>> \in OpToRel(<, Nat))
  BY WFMin, NatLessThanWellFounded
<1>2. ASSUME NEW x \in Nat, NEW y \in Nat, y < x PROVE <<y, x>> \in OpToRel(<, Nat)
  BY <1>2 DEF OpToRel
<1>3. \E x \in T : \A y \in T : ~(y < x)
  BY <1>1, <1>2
<1>4. \E x \in T : \A y \in T : x <= y
  BY <1>3
<1>5. QED
  BY <1>4 DEF Min

LEMMA RemovedElements ==
  ASSUME NEW S, NEW q \in Seq(S), NEW k \in 1 .. Len(q)
  PROVE  /\ RemoveAt(q, k) \in Seq(S) /\ Len(RemoveAt(q, k)) = Len(q) - 1
         /\ \A i \in 1 .. Len(q) - 1 :
              RemoveAt(q, k)[i] = IF i < k THEN q[i] ELSE q[i + 1]
<1> DEFINE a == SubSeq(q, 1, k - 1)
           b == SubSeq(q, k + 1, Len(q))
<1>1. Len(q) \in Nat /\ k \in 1 .. Len(q)
  OBVIOUS
<1>2. /\ a \in Seq(S) /\ Len(a) = k - 1
      /\ \A i \in 1 .. k - 1 : a[i] = q[i]
  BY <1>1
<1>3. /\ b \in Seq(S) /\ Len(b) = Len(q) - k
      /\ \A i \in 1 .. Len(q) - k : b[i] = q[k + i]
  BY <1>1
<1>4. RemoveAt(q, k) = a \o b
  BY DEF RemoveAt
<1> HIDE DEF a, b
<1>5. a \o b \in Seq(S) /\ Len(a \o b) = Len(q) - 1
  <2>1. a \in Seq(S) /\ b \in Seq(S)
    BY <1>2, <1>3
  <2>2. a \o b \in Seq(S) /\ Len(a \o b) = Len(a) + Len(b)
    BY <2>1
  <2>3. QED
    BY <1>1, <1>2, <1>3, <2>2
<1>6. ASSUME NEW i \in 1 .. Len(q) - 1
      PROVE  (a \o b)[i] = IF i < k THEN q[i] ELSE q[i + 1]
  <2>1. CASE i < k
    BY <1>1, <1>2, <1>3, <2>1
  <2>2. CASE ~(i < k)
    <3>1. i - (k - 1) \in 1 .. Len(q) - k /\ k + (i - (k - 1)) = i + 1 /\ i > Len(a)
      BY <1>1, <1>2, <2>2
    <3>2. (a \o b)[i] = b[i - Len(a)]
      <4>1. i \in 1 .. Len(a) + Len(b) /\ i \notin 1 .. Len(a)
        BY <1>1, <1>2, <1>3, <3>1
      <4>2. QED
        BY <1>2, <1>3, <4>1
    <3>3. b[i - (k - 1)] = q[k + (i - (k - 1))]
      BY <1>3, <3>1
    <3>4. QED
      BY <1>2, <2>2, <3>1, <3>2, <3>3
  <2>3. QED
    BY <2>1, <2>2
<1>7. QED
  BY <1>4, <1>5, <1>6

(* An entry that is taken out of the table: those of other threads move.    *)
LEMMA EntryRemoved ==
  ASSUME EntriesOK, NEW j \in DOMAIN semaphores, semaphores' = RemoveAt(semaphores, j),
         NEW v
  PROVE  /\ EntriesOf(v) = {j} => EntriesOf(v)' = {}
         /\ EntriesOf(v) = {} => EntriesOf(v)' = {}
         /\ \A i : i # j /\ EntriesOf(v) = {i} => \E h : EntriesOf(v)' = {h}
         /\ semaphores' \in Seq(Timers \X LoopThreads)
         /\ \A i \in DOMAIN semaphores' : \E h \in DOMAIN semaphores : semaphores'[i] = semaphores[h]
<1>1. PICK S : S = Timers \X LoopThreads
  OBVIOUS
<1>2. PICK s : s = semaphores
  OBVIOUS
<1>3. PICK q : q = semaphores'
  OBVIOUS
<1>4. PICK n \in Nat : n = Len(s)
  BY <1>1, <1>2 DEF EntriesOK
<1>5. s \in Seq(S) /\ DOMAIN s = 1 .. n /\ j \in 1 .. n
  BY <1>1, <1>2, <1>4 DEF EntriesOK
<1>6. /\ q \in Seq(S) /\ Len(q) = n - 1
      /\ \A i \in 1 .. n - 1 : q[i] = IF i < j THEN s[i] ELSE s[i + 1]
  BY <1>2, <1>3, <1>4, <1>5, RemovedElements
<1>7. DOMAIN q = 1 .. n - 1
  BY <1>6
<1>8. EntriesOf(v)' = {i \in 1 .. n - 1 : q[i][2] = v} /\ EntriesOf(v) = {i \in 1 .. n : s[i][2] = v}
  BY <1>2, <1>3, <1>5, <1>7 DEF EntriesOf
<1> DEFINE From(i) == IF i < j THEN i ELSE i + 1
<1>9. \A i \in 1 .. n - 1 : From(i) \in 1 .. n /\ From(i) # j /\ q[i] = s[From(i)]
  BY <1>5, <1>6
<1>10. \A i, h \in 1 .. n - 1 : From(i) = From(h) => i = h
  BY <1>5
<1>11. \A i \in 1 .. n : i # j => \E h \in 1 .. n - 1 : From(h) = i
  <2>1. SUFFICES ASSUME NEW i \in 1 .. n, i # j PROVE \E h \in 1 .. n - 1 : From(h) = i
    OBVIOUS
  <2>2. CASE i < j
    BY <1>5, <2>2
  <2>3. CASE i > j
    <3>1. i - 1 \in 1 .. n - 1 /\ ~(i - 1 < j) /\ (i - 1) + 1 = i
      BY <1>5, <2>3
    <3>2. From(i - 1) = i
      BY <3>1
    <3>3. QED
      BY <3>1, <3>2
  <2>4. QED
    BY <1>5, <2>1, <2>2, <2>3
<1> HIDE DEF From
<1>12. \A i \in EntriesOf(v)' : From(i) \in EntriesOf(v) /\ From(i) # j
  BY <1>8, <1>9
<1>13. (EntriesOf(v) = {j} => EntriesOf(v)' = {}) /\ (EntriesOf(v) = {} => EntriesOf(v)' = {})
  BY <1>8, <1>12
<1>14. ASSUME NEW i, i # j, EntriesOf(v) = {i} PROVE \E h : EntriesOf(v)' = {h}
  <2>1. i \in 1 .. n /\ s[i][2] = v
    BY <1>8, <1>14
  <2>2. PICK h \in 1 .. n - 1 : From(h) = i
    BY <1>11, <1>14, <2>1
  <2>3. h \in EntriesOf(v)'
    BY <1>8, <1>9, <2>1, <2>2
  <2>4. \A g \in EntriesOf(v)' : g = h
    BY <1>8, <1>10, <1>12, <1>14, <2>2
  <2>5. EntriesOf(v)' = {h}
    BY <2>3, <2>4
  <2>6. QED
    BY <2>5
<1>15. \A i \in DOMAIN semaphores' : \E h \in DOMAIN semaphores : semaphores'[i] = semaphores[h]
  BY <1>2, <1>3, <1>5, <1>7, <1>9
<1>16. QED
  BY <1>1, <1>3, <1>6, <1>13, <1>14, <1>15

InCallback(f, x, w) ==
  [f EXCEPT !.tmp = f.tmp \ {x}, !.phase = "callback", !.timer = x, !.post = w]

LEMMA CalledFrame ==
  ASSUME NEW f \in Frames, f.phase = "iterate", NEW x \in Timers, NEW w \in LoopThreads \cup {Nobody},
         NEW new,
         new = InCallback(f, x, w)
  PROVE  /\ new \in Frames /\ new.tmp = f.tmp \ {x} /\ new.post = w /\ new.timer = x
         /\ new.mode = f.mode /\ f.mode # "fire" /\ f.timer = NoTimer /\ f.post = Nobody
<1> DEFINE R == [mode : {"single", "run", "until", "fire"},
                 phase : {"iterate", "callback", "sleep"}, tmp : SUBSET Timers,
                 timer : Timers \cup {NoTimer}, post : LoopThreads \cup {Nobody}]
<1>1. f \in R /\ f.mode # "fire" /\ f.timer = NoTimer /\ f.post = Nobody
  BY DEF Frames
<1>2. /\ "callback" \in {"iterate", "callback", "sleep"} /\ x \in Timers \cup {NoTimer}
      /\ f.tmp \ {x} \in SUBSET Timers
  BY <1>1
<1>3. /\ new \in R /\ new.tmp = f.tmp \ {x} /\ new.post = w /\ new.timer = x
      /\ new.mode = f.mode /\ new.phase = "callback"
  BY <1>1, <1>2, Zenon DEF InCallback
<1>4. QED
  BY <1>1, <1>3 DEF Frames

(* The callback takes over the wait of the entry it takes out of the table. *)
LEMMA TakesOver ==
  ASSUME EntriesOK, WaitsOK, NEW j \in DOMAIN semaphores, NEW d, NEW old, NEW new,
         FrameStep(d, old, new), old.post = Nobody, new.post = semaphores[j][2],
         semaphores' = RemoveAt(semaphores, j), waits' = waits, posted' = posted
  PROVE  WaitsOK'
<1>1. PICK u : u = semaphores[j][2]
  OBVIOUS
<1>2. u \in LoopThreads /\ j \in EntriesOf(u)
  BY <1>1, EntryTimer DEF EntriesOf
<1>3. EntriesOf(u) = {j} /\ u \in waits /\ PostsTo(u) = {} /\ u \notin posted
  BY <1>2 DEF WaitsOK, Paired
<1>4. Paired(u)'
  <2>1. EntriesOf(u)' = {}
    BY <1>3, EntryRemoved
  <2>2. PostsTo(u)' = {d}
    <3>1. PostsTo(u)' = PostsTo(u) \cup {d}
      BY <1>1, PostsCome
    <3>2. QED
      BY <1>3, <3>1
  <2>3. QED
    BY <1>3, <2>1, <2>2 DEF Paired
<1>5. ASSUME NEW v \in LoopThreads, v # u PROVE Paired(v)'
  <2>1. Paired(v) /\ j \notin EntriesOf(v) /\ v # Nobody
    BY <1>1, <1>5, LoopAssumption DEF WaitsOK, EntriesOf
  <2>2. PostsTo(v)' = PostsTo(v)
    BY <1>1, <1>5, <2>1, PostsStay
  <2>3. CASE EntriesOf(v) = {}
    <3>1. EntriesOf(v)' = {}
      BY <2>3, EntryRemoved
    <3>2. QED
      BY <2>1, <2>2, <2>3, <3>1 DEF Paired
  <2>4. CASE EntriesOf(v) # {}
    <3>1. PICK i : EntriesOf(v) = {i} /\ i # j
      BY <2>1, <2>4 DEF Paired
    <3>2. PICK h : EntriesOf(v)' = {h}
      BY <3>1, EntryRemoved
    <3>3. PostsTo(v) = {} /\ v \in waits /\ v \notin posted
      BY <2>1, <2>4 DEF Paired
    <3>4. EntriesOf(v)' # {} /\ PostsTo(v)' = {} /\ v \in waits' /\ v \notin posted'
      BY <2>2, <3>2, <3>3
    <3>5. QED
      BY <3>2, <3>4 DEF Paired
  <2>5. QED
    BY <2>3, <2>4
<1>6. QED
  BY <1>4, <1>5 DEF WaitsOK

LEMMA CallBackStep ==
  ASSUME LoopInv, NEW t \in LoopThreads, NEW x \in Timers, TimerCallBack(t, x)
  PROVE  LoopInv'
<1> DEFINE mine == {i \in DOMAIN semaphores : semaphores[i][1] = x}
           posts == timer[x].perform /\ mine # {}
<1>1. PICK f : f = Last(runs[t])
  OBVIOUS
<1>2. PICK n : n = Len(runs[t])
  OBVIOUS
<1>3. PICK tm : tm = timer[x]
  OBVIOUS
<1>4. PICK j : j = Min(mine)
  OBVIOUS
<1>5. PICK w : w = IF posts THEN semaphores[j][2] ELSE Nobody
  OBVIOUS
<1>6. PICK new : new = InCallback(f, x, w)
  OBVIOUS
<1>7. /\ Phase(t) = "iterate" /\ x \in f.tmp /\ Fires(tm) /\ timers' = timers
      /\ semaphores' = (IF posts THEN RemoveAt(semaphores, j) ELSE semaphores)
      /\ waits' = waits /\ posted' = posted
  BY <1>1, <1>3, <1>4, Zenon DEF TimerCallBack
<1>8. timer' = [timer EXCEPT ![x] = Called(tm)]
  BY <1>3 DEF TimerCallBack
<1>9. f \in Frames /\ f.phase = "iterate" /\ runs[t] # <<>>
  <2>1. runs[t] # <<>>
    BY <1>7 DEF Phase
  <2>2. QED
    BY <1>1, <1>7, <2>1, LastIs DEF LoopInv
<1>10. Top(t, new)
  BY <1>1, <1>4, <1>5, <1>6, <1>9, Zenon DEF TimerCallBack, Frames, InCallback
<1>11. /\ RunsOK /\ TimersOK /\ EntriesOK /\ WaitsOK
  BY DEF LoopInv
<1>12. posts => j \in DOMAIN semaphores
  <2>1. DOMAIN semaphores \subseteq Nat
    BY <1>11 DEF EntriesOK
  <2>2. mine \in SUBSET Nat
    BY <2>1
  <2>3. mine # {} => j \in mine
    BY <1>4, <2>2, MinIn
  <2>4. QED
    BY <2>3
<1>13. w \in LoopThreads \cup {Nobody}
  BY <1>5, <1>11, <1>12, EntryTimer
<1> HIDE DEF mine
<1>14. /\ new \in Frames /\ new.tmp = f.tmp \ {x} /\ new.post = w /\ new.timer = x
       /\ new.mode = f.mode /\ f.mode # "fire" /\ f.timer = NoTimer /\ f.post = Nobody
  BY <1>6, <1>9, <1>13, CalledFrame
<1>15. RunsOK' /\ FrameStep(<<t, n>>, f, new)
  BY <1>1, <1>2, <1>9, <1>10, <1>11, <1>14, Topped
<1>16. Moves(x, -1, 1)
  <2>1. /\ One(x \in new.tmp) - One(x \in f.tmp) = -1
        /\ One(CalledBy(new, x)) - One(CalledBy(f, x)) = 1
    BY <1>7, <1>14, LoopAssumption DEF One, CalledBy
  <2>2. QED
    BY <1>15, <2>1, FrameMoves
<1>17. ASSUME NEW y \in Timers \ {x} PROVE Moves(y, 0, 0)
  <2>1. /\ One(y \in new.tmp) - One(y \in f.tmp) = 0
        /\ One(CalledBy(new, y)) - One(CalledBy(f, y)) = 0
    BY <1>14, LoopAssumption DEF One, CalledBy
  <2>2. QED
    BY <1>15, <2>1, FrameMoves
<1>18. TimerOK(x) /\ timer \in [Timers -> TimerRecords] /\ timers \in [LoopThreads -> SUBSET Timers]
  BY <1>11 DEF TimersOK
<1>19. PICK c \in Nat, k \in Nat : Counted(x, c, k) /\ Exact(timer[x], InLoop(x), c, k, 0)
  BY <1>18 DEF TimerOK
<1>20. PICK c1 : c1 = c - 1
  OBVIOUS
<1>21. PICK k1 : k1 = k + 1
  OBVIOUS
<1>22. c > 0 /\ Counted(x, c1, k1)'
  <2>1. c + -1 = c1
    BY <1>20
  <2>2. c1 \in Nat /\ Counted(x, c1, k1)'
    BY <1>16, <1>19, <1>21, <2>1 DEF Moves
  <2>3. QED
    BY <1>20, <2>2
<1>23. PICK m : m = InLoop(x)
  OBVIOUS
<1>24. PICK cl : cl = Called(tm)
  OBVIOUS
<1>25. /\ Exact(cl, m, c1, k1, 0) /\ cl.refs = tm.refs + 1 /\ cl.live = tm.live
       /\ cl.guest = tm.guest /\ cl.perform = tm.perform /\ cl.loop = tm.loop
  BY <1>3, <1>7, <1>19, <1>20, <1>21, <1>22, <1>23, <1>24, CalledOK
<1>26. tm.live /\ tm.refs \in Nat
  BY <1>3, <1>7, <1>18, FreeOK DEF Fires, TimerOK, Alive, TimerRecords
<1>27. Alive(cl) /\ cl \in TimerRecords
  BY <1>25, <1>26 DEF Alive, Exact
<1>28. TimersOK'
  <2>1. timer' = [timer EXCEPT ![x] = cl] /\ InLoop(x)' = m
    BY <1>7, <1>8, <1>23, <1>24 DEF InLoop
  <2>2. \A v \in LoopThreads : x \in timers'[v] => cl.loop = v
    BY <1>3, <1>7, <1>18, <1>25 DEF TimerOK
  <2>3. QED
    BY <1>7, <1>11, <1>17, <1>18, <1>22, <1>25, <1>27, <2>1, <2>2, OneTimer
<1>29. \A y \in Timers : Awaited(timer[y]) => Awaited(timer'[y])
  BY <1>3, <1>8, <1>18, <1>24, <1>25 DEF Awaited
<1>30. CASE posts
  <2>1. semaphores' = RemoveAt(semaphores, j) /\ j \in DOMAIN semaphores /\ w = semaphores[j][2]
    BY <1>5, <1>7, <1>12, <1>30
  <2>2. EntriesOK'
    <3>1. /\ semaphores' \in Seq(Timers \X LoopThreads)
          /\ \A i \in DOMAIN semaphores' : \E h \in DOMAIN semaphores : semaphores'[i] = semaphores[h]
      BY <1>11, <2>1, EntryRemoved
    <3>2. \A h \in DOMAIN semaphores : Awaited(timer'[semaphores[h][1]])
      BY <1>11, <1>29, EntryTimer DEF EntriesOK
    <3>3. \A i \in DOMAIN semaphores' : Awaited(timer'[semaphores'[i][1]])
      BY <3>1, <3>2
    <3>4. QED
      BY <3>1, <3>3 DEF EntriesOK, Awaited
  <2>3. WaitsOK'
    BY <1>7, <1>11, <1>14, <1>15, <2>1, TakesOver
  <2>4. QED
    BY <1>15, <1>28, <2>2, <2>3 DEF LoopInv
<1>31. CASE ~posts
  <2>1. semaphores' = semaphores /\ w = Nobody
    BY <1>5, <1>7, <1>31
  <2>2. EntriesOK'
    BY <1>11, <1>29, <2>1, EntriesStay, EntryTimer
  <2>3. WaitsOK'
    <3>1. \A v : PostsTo(v)' = PostsTo(v)
      BY <1>14, <1>15, <2>1, PostsStay
    <3>2. QED
      BY <1>7, <1>11, <2>1, <3>1, WaitsStay DEF Sync
  <2>4. QED
    BY <1>15, <1>28, <2>2, <2>3 DEF LoopInv
<1>32. QED
  BY <1>30, <1>31

-----------------------------------------------------------------------------
(* The invariant holds *)

LEMMA LoopInvInit ==
  ASSUME LoopInit
  PROVE  LoopInv
<1>1. RunsOK
  <2>1. <<>> \in Seq(Frames) /\ Len(<<>>) = 0 /\ MaxRuns \in Nat
    BY LoopAssumption
  <2>2. QED
    BY <2>1 DEF LoopInit, RunsOK
<1>2. \A d \in LoopDepths : FrameAt(d) = NoFrame
  <2>1. SUFFICES ASSUME NEW d \in LoopDepths PROVE FrameAt(d) = NoFrame
    OBVIOUS
  <2>2. d[1] \in LoopThreads /\ d[2] \in 1 .. MaxRuns
    BY <2>1 DEF LoopDepths
  <2>3. runs[d[1]] = <<>>
    BY <2>2 DEF LoopInit
  <2>4. d[2] \notin DOMAIN runs[d[1]]
    BY <2>2, <2>3
  <2>5. QED
    BY <2>4 DEF FrameAt
<1>3. \A x \in Timers : CopiesOf(x) = {} /\ CallbacksOf(x) = {}
  BY <1>2, NoFrameIs DEF CopiesOf, CallbacksOf, CalledBy
<1>4. \A t \in LoopThreads : PostsTo(t) = {}
  BY <1>2, NoFrameIs, LoopAssumption DEF PostsTo
<1>5. ASSUME NEW x \in Timers PROVE TimerOK(x)
  <2>1. Counted(x, 0, 0)
    BY <1>3, FS_EmptySet DEF Counted
  <2>2. timer[x] = FreeTimer /\ \A t \in LoopThreads : x \notin timers[t]
    BY DEF LoopInit
  <2>3. InLoop(x) = 0
    BY <2>2 DEF InLoop, One
  <2>4. QED
    BY <2>1, <2>2, <2>3, FreeOK DEF TimerOK
<1>6. TimersOK
  BY <1>5, FreeOK DEF TimersOK, LoopInit
<1>7. EntriesOK
  BY DEF EntriesOK, LoopInit
<1>8. WaitsOK
  <2>1. \A t \in LoopThreads : EntriesOf(t) = {}
    BY DEF EntriesOf, LoopInit
  <2>2. QED
    BY <1>4, <2>1 DEF WaitsOK, Paired, LoopInit
<1>9. QED
  BY <1>1, <1>6, <1>7, <1>8 DEF LoopInv

LEMMA HostStepsStep ==
  ASSUME LoopInv, NEW t \in LoopThreads, HostSteps(t)
  PROVE  LoopInv'
BY PassOverStep, CallBackStep, SleepStep, NextPassStep, LeaveStep, WaitReturnsStep DEF HostSteps

LEMMA TimerSteps ==
  ASSUME LoopInv, NEW t \in LoopThreads, NEW x \in Timers,
         \/ \E repeats \in BOOLEAN : timerWithTimeInterval(t, x, repeats)
         \/ \E u \in Runners : addTimer(t, x, u)
         \/ invalidate(t, x) \/ fire(t, x)
         \/ \E left \in {0, Interval} : setFireDate(t, x, left)
         \/ \E u \in PerformThreads, wait \in BOOLEAN : perform_selector_on_thread(t, u, x, wait)
  PROVE  LoopInv'
BY timerStep, addTimerStep, invalidateStep, fireStep, setFireDateStep, performStep

LEMMA LoopInvNext ==
  ASSUME LoopInv, [LoopNext]_loopVars
  PROVE  LoopInv'
<1>1. CASE UNCHANGED loopVars
  <2>1. timers' = timers /\ timer' = timer /\ runs' = runs /\ Sync /\ timer \in [Timers -> TimerRecords]
    BY <1>1 DEF loopVars, LoopInv, TimersOK, Sync
  <2>2. QED
    BY <2>1, AlikeSelf, AlikeStep
<1>2. CASE \E t \in LoopThreads : HostSteps(t) \/ TimerCallbackReturns(t) \/ FireReturns(t)
  BY <1>2, HostStepsStep, CallbackReturnsStep, FireReturnsStep
<1>3. CASE \E t \in LoopThreads, mode \in {"single", "run", "until"} : run_run_loop(t, mode)
  BY <1>3, runStep
<1>4. CASE \E t \in LoopThreads, x \in Timers :
             \/ \E repeats \in BOOLEAN : timerWithTimeInterval(t, x, repeats)
             \/ \E u \in Runners : addTimer(t, x, u)
             \/ invalidate(t, x) \/ fire(t, x)
             \/ \E left \in {0, Interval} : setFireDate(t, x, left)
             \/ \E u \in PerformThreads, wait \in BOOLEAN : perform_selector_on_thread(t, u, x, wait)
  BY <1>4, TimerSteps
<1>5. CASE \E t \in LoopThreads, u \in Runners :
             CFRunLoopStop(t, u) \/ cancelPerformSelectorsWithTarget(t, u)
  BY <1>5, stopStep, cancelStep, LoopAssumption
<1>6. CASE (\E x \in Timers : DropTimer(x)) \/ LoopTick
  BY <1>6, DropStep, TickStep
<1>7. QED
  BY <1>1, <1>2, <1>3, <1>4, <1>5, <1>6 DEF LoopNext

(* The inductive invariant of RunLoop: the stacks, the records of the      *)
(* timers with their counts, the table of semaphores and the waits.        *)
THEOREM LoopInvariant == LoopSpec => []LoopInv
<1>1. LoopInit => LoopInv
  BY LoopInvInit
<1>2. LoopInv /\ [LoopNext]_loopVars => LoopInv'
  BY LoopInvNext
<1>3. QED
  BY <1>1, <1>2, PTL DEF LoopSpec

LEMMA OwnedNow ==
  ASSUME LoopInv
  PROVE  TimersOwned
<1> SUFFICES ASSUME NEW x \in Timers
             PROVE  /\ timer[x].refs = (IF timer[x].guest THEN 1 ELSE 0)
                                       + Cardinality({t \in LoopThreads : x \in timers[t]})
                                       + Cardinality(CopiesOf(x)) + 2 * Cardinality(CallbacksOf(x))
                    /\ \A t \in LoopThreads : x \in timers[t] => timer[x].valid /\ timer[x].loop = t
  BY DEF TimersOwned
<1>1. TimersOK /\ TimerOK(x)
  BY DEF LoopInv, TimersOK
<1>2. PICK c \in Nat, k \in Nat : Counted(x, c, k) /\ Exact(timer[x], InLoop(x), c, k, 0)
  BY <1>1 DEF TimerOK
<1>3. PICK L : L = {t \in LoopThreads : x \in timers[t]}
  OBVIOUS
<1>4. Cardinality(L) = InLoop(x)
  <2>1. CASE L = {}
    BY <1>3, <2>1, FS_EmptySet DEF InLoop, One
  <2>2. CASE L # {}
    <3>1. PICK u \in LoopThreads : x \in timers[u]
      BY <1>3, <2>2
    <3>2. L = {u}
      BY <1>1, <1>3, <3>1 DEF TimerOK
    <3>3. InLoop(x) = 1
      BY <3>1 DEF InLoop, One
    <3>4. QED
      BY <3>2, <3>3, FS_Singleton
  <2>3. QED
    BY <2>1, <2>2
<1>5. Cardinality(CopiesOf(x)) = c /\ Cardinality(CallbacksOf(x)) = k
  BY <1>2 DEF Counted
<1>6. timer[x].refs = One(timer[x].guest) + InLoop(x) + c + 2 * k + 0 /\ InLoop(x) \in {0, 1}
  BY <1>2 DEF Exact
<1>7. timer[x].refs = (IF timer[x].guest THEN 1 ELSE 0) + Cardinality(L) + c + 2 * k
  BY <1>4, <1>6 DEF One
<1>8. \A t \in LoopThreads : x \in timers[t] => timer[x].valid /\ timer[x].loop = t
  BY <1>1, <1>2, InLoopIs DEF TimerOK, Exact
<1>9. QED
  BY <1>3, <1>5, <1>7, <1>8

(* Whatever the guest, the loops and nested passes do, the count of a      *)
(* timer is exactly the references to it, and the timers of a loop are     *)
(* valid and know it: none is freed while a pass or a callback uses it,    *)
(* none is leaked.                                                         *)
THEOREM LoopTimersOwned == LoopSpec => []TimersOwned
<1>1. LoopInv => TimersOwned
  BY OwnedNow
<1>2. QED
  BY <1>1, LoopInvariant, PTL

(* A timer that does not repeat is called back by a loop at most once, and *)
(* no timer's callback is entered while it runs.                           *)
THEOREM LoopOneShotOnce == LoopSpec => []OneShotOnce
<1>1. ASSUME LoopInv PROVE OneShotOnce
  <2>1. SUFFICES ASSUME NEW x \in Timers
                 PROVE  /\ timer[x].fires <= 1
                        /\ Cardinality(CallbacksOf(x))
                             = IF timer[x].is_running_callback THEN 1 ELSE 0
    BY DEF OneShotOnce
  <2>2. PICK c \in Nat, k \in Nat : Counted(x, c, k) /\ Exact(timer[x], InLoop(x), c, k, 0)
    BY <1>1 DEF LoopInv, TimersOK, TimerOK
  <2>3. timer[x].fires \in Nat
    BY <2>2 DEF Exact, TimerRecords
  <2>4. timer[x].fires <= 1
    BY <2>2, <2>3 DEF Exact
  <2>5. QED
    BY <2>2, <2>4 DEF Exact, Counted, One
<1>2. QED
  BY <1>1, LoopInvariant, PTL

LEMMA PairedNow ==
  ASSUME LoopInv
  PROVE  SyncPerformsPaired
<1>1. ASSUME NEW t \in LoopThreads
      PROVE  /\ Cardinality(EntriesOf(t)) + Cardinality(PostsTo(t)) + (IF t \in posted THEN 1 ELSE 0)
                  = IF t \in waits THEN 1 ELSE 0
             /\ \A i \in EntriesOf(t) : timer[semaphores[i][1]].perform
  <2>1. Paired(t) /\ EntriesOK
    BY DEF LoopInv, WaitsOK
  <2>2. Cardinality(EntriesOf(t)) = One(EntriesOf(t) # {})
    BY <2>1, FS_EmptySet, FS_Singleton DEF Paired, One
  <2>3. Cardinality(PostsTo(t)) = One(PostsTo(t) # {})
    BY <2>1, FS_EmptySet, FS_Singleton DEF Paired, One
  <2>4. One(EntriesOf(t) # {}) + One(PostsTo(t) # {}) + One(t \in posted) = One(t \in waits)
    BY <2>1 DEF Paired, One
  <2>5. \A i \in EntriesOf(t) : timer[semaphores[i][1]].perform
    BY <2>1 DEF EntriesOK, EntriesOf, Awaited
  <2>6. QED
    BY <2>2, <2>3, <2>4, <2>5 DEF One
<1>2. QED
  BY <1>1 DEF SyncPerformsPaired, EntriesOf

(* A thread that waits for a performed selector has one entry, one         *)
(* callback that will post it, or is posted; a thread that does not wait   *)
(* has none of them.                                                       *)
THEOREM LoopSyncPerformsPaired == LoopSpec => []SyncPerformsPaired
<1>1. LoopInv => SyncPerformsPaired
  BY PairedNow
<1>2. QED
  BY <1>1, LoopInvariant, PTL
=============================================================================
