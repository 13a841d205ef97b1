----------------------------- MODULE HostProofs -----------------------------
(***************************************************************************)
(* Proofs about what the host keeps for the guest: the guest clock, for    *)
(* any set of threads, any durations and any bound on host time, and audio *)
(* queues, for any numbers of queues, buffers and OpenAL sources.          *)
(***************************************************************************)
EXTENDS GuestClock, AudioQueue, NaturalsInduction, WellFoundedInduction, TLAPS

-----------------------------------------------------------------------------
(* The guest clock *)

(* Speed::multiplier is positive, and Speed::step stays inside Speed::ALL. *)
LEMMA NumPositive == \A s \in Speed : Num(s) \in Nat /\ Num(s) > 0
  BY DEF Speed, Num

LEMMA StepSpeed == \A s \in Speed, faster \in BOOLEAN : Step(s, faster) \in Speed
  BY DEF Speed, Step

(* Time elapsed since the anchor is a natural number of guest units, and    *)
(* d more host ticks add d times the current rate to it.                   *)
LEMMA Elapsed ==
  ASSUME NEW a \in Nat, NEW h \in Nat, a <= h, NEW d \in Nat, NEW s \in Speed
  PROVE  /\ (h - a) * Num(s) \in Nat
         /\ d * Num(s) \in Nat
         /\ ((h + d) - a) * Num(s) = (h - a) * Num(s) + d * Num(s)
  BY DEF Speed, Num

(* The inductive core of Continuity and Lockstep. *)
ClockInv ==
  /\ TypeOK
  /\ Continuity
  /\ guest_anchor = wall_anchor

LEMMA ClockInit == Init => ClockInv
  BY NumPositive DEF Init, ClockInv, TypeOK, Continuity, Now, ElapsedAt, Speed,
     Normal, NotBlocked, Block

(* HostDeadline never lies in the past. *)
LEMMA HostDeadlineNat ==
  ASSUME TypeOK, NEW due \in Nat, Now \in Nat
  PROVE  HostDeadline(due) \in Nat /\ HostDeadline(due) >= host
<1> DEFINE r == IF due > Now THEN due - Now ELSE 0
<1>1. r \in Nat
  OBVIOUS
<1>2. Num(speed) \in {1, 2, 4, 8, 16}
  BY DEF TypeOK, Speed, Num
<1>3. (r + Num(speed) - 1) \div Num(speed) \in Nat
  <2> HIDE DEF r
  <2> QED BY <1>1, <1>2
<1> QED BY <1>3 DEF HostDeadline, TypeOK

LEMMA ClockNext == ClockInv /\ [Next]_vars => ClockInv'
<1> SUFFICES ASSUME ClockInv, [Next]_vars PROVE ClockInv'
  OBVIOUS
<1> USE DEF ClockInv
<1>a. /\ host \in Nat /\ host_anchor \in Nat /\ host_anchor <= host
      /\ guest_anchor \in Nat /\ wall_anchor \in Nat /\ ideal \in Nat
      /\ speed \in Speed
  BY DEF TypeOK
<1>b. ElapsedAt(host) \in Nat /\ Now \in Nat /\ SystemTime \in Nat
  BY <1>a, Elapsed DEF ElapsedAt, Now, SystemTime
<1>1. ASSUME NEW faster \in BOOLEAN, TakeSpeedRequest(faster) PROVE ClockInv'
  <2>1. Step(speed, faster) \in Speed
    BY <1>a, StepSpeed
  <2>2. Num(Step(speed, faster)) \in Nat
    BY <2>1, NumPositive
  <2>3. ElapsedAt(host)' = 0
    BY <1>1, <1>a, <2>2 DEF TakeSpeedRequest, SetSpeed, ElapsedAt
  <2> QED BY <1>1, <1>a, <1>b, <2>1, <2>3
          DEF TakeSpeedRequest, SetSpeed, TypeOK, Continuity, Now
<1>2. ASSUME NEW d \in Nat, host' = host + d, ideal' = ideal + d * Num(speed),
             UNCHANGED clockVars, blocked_by' \in [Threads -> Block],
             phase' \in {"loop", "guest", "sched"}
      PROVE  ClockInv'
  <2>1. /\ d * Num(speed) \in Nat
        /\ ElapsedAt(host)' = ElapsedAt(host) + d * Num(speed)
    <3>1. /\ d * Num(speed) \in Nat
          /\ ((host + d) - host_anchor) * Num(speed)
               = (host - host_anchor) * Num(speed) + d * Num(speed)
      BY <1>2, <1>a, Elapsed
    <3>2. ElapsedAt(host)' = ((host + d) - host_anchor) * Num(speed)
      BY <1>2 DEF ElapsedAt, clockVars
    <3> QED BY <3>1, <3>2 DEF ElapsedAt
  <2> QED BY <1>2, <1>a, <1>b, <2>1 DEF clockVars, TypeOK, Continuity, Now
<1>3. CASE Tick
  <2>1. 1 * Num(speed) = Num(speed)
    BY <1>a, NumPositive
  <2> QED BY <1>2, <1>3, <2>1 DEF Tick, TypeOK
<1>4. CASE HostSleep
  <2> PICK t \in Threads : /\ host' = Awakening(t)
                           /\ ideal' = ideal + (Awakening(t) - host) * Num(speed)
    BY <1>4 DEF HostSleep
  <2>1. blocked_by[t] \in Block /\ ~Due(t)
    BY <1>4 DEF HostSleep, TypeOK
  <2>2. Awakening(t) \in Nat /\ Awakening(t) >= host
    BY <2>1, <1>a, <1>b, HostDeadlineNat
       DEF Awakening, Due, Block, HostSystemTime
  <2>3. Awakening(t) - host \in Nat /\ host' = host + (Awakening(t) - host)
    BY <2>2, <1>a
  <2> QED BY <1>2, <1>4, <2>3 DEF HostSleep, TypeOK
<1>5. ASSUME UNCHANGED <<host, clockVars, ideal>>,
             blocked_by' \in [Threads -> Block],
             phase' \in {"loop", "guest", "sched"}
      PROVE  ClockInv'
  BY <1>5 DEF clockVars, TypeOK, Continuity, Now, ElapsedAt
<1>6. CASE Resume
  BY <1>5, <1>6 DEF Resume, TypeOK
<1>7. CASE Yield
  BY <1>5, <1>7 DEF Yield, TypeOK
<1>8. ASSUME NEW t \in Threads, NEW d \in Durations, SleepGuest(t, d) PROVE ClockInv'
  BY <1>5, <1>8, <1>b, DurationsAssumption DEF SleepGuest, TypeOK, GuestSleeping, Block
<1>9. ASSUME NEW t \in Threads, NEW d \in Durations, TimedWait(t, d) PROVE ClockInv'
  BY <1>5, <1>9, <1>b, DurationsAssumption DEF TimedWait, TypeOK, Condition, Block
<1>10. ASSUME NEW t \in Threads, Schedule(t) PROVE ClockInv'
  BY <1>5, <1>10 DEF Schedule, TypeOK, NotBlocked, Block
<1>11. CASE UNCHANGED vars
  BY <1>5, <1>11 DEF vars, TypeOK
<1>12. CASE Horizon
  BY <1>11, <1>12 DEF Horizon
<1> QED BY <1>1, <1>3, <1>4, <1>6, <1>7, <1>8, <1>9, <1>10, <1>11, <1>12 DEF Next

(* The guest clock reads exactly the game time that has elapsed, through    *)
(* any sequence of speed changes (set_speed_at) and host sleeps.           *)
THEOREM ClockContinuity == Spec => []Continuity
<1>1. ClockInv => Continuity
  BY DEF ClockInv
<1> QED BY ClockInit, ClockNext, <1>1, PTL DEF Spec

(* No step moves a guest clock backwards: rebasing at a speed change keeps   *)
(* what has elapsed, and host time only adds to it.                        *)
THEOREM ClockMonotonic == Spec => Monotonic
<1>1. ClockInv /\ ClockInv' /\ [Next]_vars => [Now' >= Now /\ SystemTime' >= SystemTime]_vars
  <2> SUFFICES ASSUME ClockInv, ClockInv', [Next]_vars
               PROVE  ideal' >= ideal \/ UNCHANGED vars
    BY DEF ClockInv, Continuity, Now, SystemTime
  <2>1. CASE HostSleep
    <3> PICK t \in Threads : /\ host' = Awakening(t)
                             /\ ideal' = ideal + (Awakening(t) - host) * Num(speed)
      BY <2>1 DEF HostSleep
    <3>1. blocked_by[t] \in Block /\ ~Due(t)
      BY <2>1 DEF HostSleep, ClockInv, TypeOK
    <3>2. Now \in Nat
      BY DEF ClockInv, Continuity, TypeOK
    <3>3. Awakening(t) \in Nat /\ Awakening(t) >= host /\ host \in Nat
      BY <3>1, <3>2, HostDeadlineNat
         DEF Awakening, Due, Block, HostSystemTime, ClockInv, TypeOK
    <3>4. (Awakening(t) - host) * Num(speed) \in Nat
      BY <3>3, Elapsed DEF ClockInv, TypeOK
    <3> QED BY <3>4 DEF ClockInv, TypeOK
  <2>2. CASE Tick
    BY <2>2, NumPositive DEF Tick, ClockInv, TypeOK
  <2>3. ASSUME UNCHANGED ideal PROVE ideal' >= ideal
    BY <2>3 DEF ClockInv, TypeOK
  <2> QED BY <2>1, <2>2, <2>3 DEF Next, TakeSpeedRequest, Resume, Yield, Horizon,
             SleepGuest, TimedWait, Schedule, vars
<1> QED BY ClockInit, ClockNext, <1>1, PTL DEF Spec, Monotonic

(* now() and system_time() advance in lockstep for ever. *)
THEOREM ClockLockstep == Spec => []Lockstep
<1>1. ClockInv => Lockstep
  BY DEF ClockInv, Lockstep, Now, SystemTime
<1> QED BY ClockInit, ClockNext, <1>1, PTL DEF Spec

(* A sleeper becomes runnable only through schedule_next_thread, which       *)
(* compares its deadline with the game time: no speed change, however many *)
(* the sleep lives through, ends it early.                                 *)
THEOREM ClockNoEarlyWake == Spec => NoEarlyWake
<1>1. ASSUME ClockInv, [Next]_vars, NEW t \in Threads,
             blocked_by[t].kind = "GuestSleeping", blocked_by'[t] = NotBlocked
      PROVE  blocked_by[t].due <= Now
  <2>1. /\ DOMAIN blocked_by = Threads /\ NotBlocked.kind # "GuestSleeping"
        /\ blocked_by'[t] # blocked_by[t] /\ blocked_by[t] # NotBlocked
    BY <1>1 DEF ClockInv, TypeOK, NotBlocked
  <2>2. ASSUME NEW u \in Threads, NEW d, SleepGuest(u, d) \/ TimedWait(u, d) PROVE FALSE
    BY <1>1, <2>1, <2>2 DEF SleepGuest, TimedWait
  <2>3. PICK u \in Threads : Schedule(u)
    BY <1>1, <2>1, <2>2 DEF Next, TakeSpeedRequest, Resume, Tick, Yield, HostSleep, Horizon, vars
  <2>4. u = t
    BY <2>1, <2>3 DEF Schedule
  <2>5. QED
    BY <1>1, <2>3, <2>4 DEF Schedule, Due
<1>2. ClockInv /\ [Next]_vars =>
        [\A t \in Threads : (blocked_by[t].kind = "GuestSleeping" /\ blocked_by'[t] = NotBlocked)
                              => blocked_by[t].due <= Now]_vars
  BY <1>1
<1>3. QED
  BY <1>2, ClockInit, ClockNext, PTL DEF Spec, NoEarlyWake

(* Rounding up: k ticks of n units cover r units, and k - 1 do not. *)
LEMMA RoundsUp ==
  ASSUME NEW n \in {1, 2, 4, 8, 16}, NEW r \in Nat \ {0}
  PROVE  LET k == (r + n - 1) \div n IN
         k \in Nat \ {0} /\ k * n >= r /\ (k - 1) * n < r
<1>1. CASE n = 1
  BY <1>1
<1>2. CASE n = 2
  BY <1>2
<1>3. CASE n = 4
  BY <1>3
<1>4. CASE n = 8
  BY <1>4
<1>5. CASE n = 16
  BY <1>5
<1>6. QED
  BY <1>1, <1>2, <1>3, <1>4, <1>5

(* What game time host_deadline_at names: at that tick the deadline has     *)
(* passed, at any earlier one it has not.                                  *)
LEMMA HostDeadlineExact ==
  ASSUME ClockInv, NEW due \in Nat, due > Now
  PROVE  LET h == HostDeadline(due) IN
         /\ h \in Nat /\ h > host
         /\ guest_anchor + ElapsedAt(h) >= due
         /\ \A g \in Nat : (host <= g /\ g < h) => guest_anchor + ElapsedAt(g) < due
<1> DEFINE n == Num(speed)
           r == due - Now
           k == (r + n - 1) \div n
           h == HostDeadline(due)
<1>1. /\ host \in Nat /\ host_anchor \in Nat /\ host_anchor <= host /\ guest_anchor \in Nat
      /\ speed \in Speed
  BY DEF ClockInv, TypeOK
<1>2. n \in {1, 2, 4, 8, 16}
  BY <1>1 DEF Speed, Num
<1>3. Now \in Nat
  BY DEF ClockInv, TypeOK, Continuity
<1>4. r \in Nat \ {0}
  BY <1>3
<1>5. h = host + k
  BY DEF HostDeadline
<1>6. k \in Nat \ {0} /\ k * n >= r /\ (k - 1) * n < r
  <2> HIDE DEF n, r
  <2>1. QED
    BY <1>2, <1>4, RoundsUp
<1> HIDE DEF n, r, k, h
<1>7. ASSUME NEW d \in Nat PROVE guest_anchor + ElapsedAt(host + d) = Now + d * n
  <2>1. /\ (host - host_anchor) * n \in Nat /\ d * n \in Nat
        /\ ((host + d) - host_anchor) * n = (host - host_anchor) * n + d * n
    BY <1>1, <1>7, Elapsed DEF n
  <2>2. /\ ElapsedAt(host + d) = ((host + d) - host_anchor) * n
        /\ Now = guest_anchor + (host - host_anchor) * n
    BY DEF Now, ElapsedAt, n
  <2> HIDE DEF n
  <2>3. QED
    BY <1>1, <2>1, <2>2
<1>8. guest_anchor + ElapsedAt(h) >= due
  <2>1. guest_anchor + ElapsedAt(h) = Now + k * n
    BY <1>5, <1>6, <1>7
  <2>2. k * n \in Nat
    BY <1>2, <1>6
  <2>3. QED
    BY <1>3, <1>4, <1>6, <2>1, <2>2 DEF r
<1>9. ASSUME NEW g \in Nat, host <= g, g < h PROVE guest_anchor + ElapsedAt(g) < due
  <2>1. g - host \in Nat /\ g - host <= k - 1 /\ host + (g - host) = g
    BY <1>1, <1>5, <1>6, <1>9
  <2>2. guest_anchor + ElapsedAt(g) = Now + (g - host) * n
    BY <1>7, <2>1
  <2>3. (g - host) * n <= (k - 1) * n /\ (g - host) * n \in Int /\ (k - 1) * n \in Int
    BY <1>2, <1>6, <2>1
  <2>4. QED
    BY <1>3, <1>4, <1>6, <2>2, <2>3 DEF r
<1>10. h \in Nat /\ h > host
  BY <1>1, <1>5, <1>6
<1>11. QED
  BY <1>8, <1>9, <1>10 DEF h

(* When nobody may run, the scheduler's host sleep ends at the very tick at *)
(* which the first deadline passes, at every speed: rounding the host time *)
(* up wakes it neither for nothing nor late.                               *)
THEOREM ClockSleepsExactly == Spec => SleepsExactly
<1>1. ASSUME ClockInv, [Next]_vars, phase = "sched", host' > host
      PROVE  /\ \E t \in Threads : Due(t)'
             /\ \A t \in Threads : blocked_by[t].kind = "GuestSleeping" =>
                  guest_anchor + ElapsedAt(host' - 1) < blocked_by[t].due
  <2>1. /\ host \in Nat /\ blocked_by \in [Threads -> Block] /\ Now \in Nat
    BY <1>1 DEF ClockInv, TypeOK, Continuity
  <2>2. HostSleep
    <3>1. host' # host
      BY <1>1, <2>1
    <3>2. QED
      BY <1>1, <3>1 DEF Next, TakeSpeedRequest, Resume, Tick, Yield, Horizon, SleepGuest,
                        TimedWait, Schedule, vars
  <2>3. PICK t \in Threads : /\ \A u \in Threads : Awakening(t) <= Awakening(u)
                             /\ host' = Awakening(t)
    BY <2>2 DEF HostSleep
  <2>4. /\ \A u \in Threads : ~Due(u)
        /\ UNCHANGED <<host_anchor, guest_anchor, speed, blocked_by>>
    BY <2>2 DEF HostSleep, clockVars
  <2>5. ASSUME NEW u \in Threads, blocked_by[u].kind = "GuestSleeping"
        PROVE  blocked_by[u].due \in Nat /\ blocked_by[u].due > Now
    BY <2>1, <2>4, <2>5 DEF Due, Block
  <2>6. Due(t)'
    <3>1. CASE blocked_by[t].kind = "GuestSleeping"
      <4>1. host' = HostDeadline(blocked_by[t].due)
        BY <2>3, <3>1 DEF Awakening
      <4>2. guest_anchor + ElapsedAt(host') >= blocked_by[t].due
        BY <1>1, <2>5, <3>1, <4>1, HostDeadlineExact
      <4>3. Now' = guest_anchor + ElapsedAt(host')
        BY <2>4 DEF Now, ElapsedAt
      <4>4. Now' \in Int /\ blocked_by[t].due \in Int /\ Now' >= blocked_by[t].due
        <5>1. ClockInv'
          BY <1>1, ClockNext
        <5>2. Now' \in Int
          BY <5>1 DEF ClockInv, Continuity, TypeOK
        <5>3. QED
          BY <2>5, <3>1, <4>2, <4>3, <5>2
      <4>5. QED
        BY <2>4, <3>1, <4>4 DEF Due
    <3>2. CASE blocked_by[t].kind = "Condition"
      <4>1. host' = (blocked_by[t].due + 3) \div 4 /\ blocked_by[t].due \in Nat
        BY <2>1, <2>3, <3>2 DEF Awakening, Block
      <4>2. blocked_by[t].due <= 4 * host'
        BY <4>1
      <4>3. QED
        BY <2>4, <3>2, <4>2 DEF Due, HostSystemTime
    <3>3. blocked_by[t].kind \in {"NotBlocked", "GuestSleeping", "Condition"}
      BY <2>1 DEF Block
    <3>4. QED
      BY <2>4, <3>1, <3>2, <3>3 DEF Due
  <2>7. ASSUME NEW u \in Threads, blocked_by[u].kind = "GuestSleeping"
        PROVE  guest_anchor + ElapsedAt(host' - 1) < blocked_by[u].due
    <3>1. Awakening(u) = HostDeadline(blocked_by[u].due)
      BY <2>7 DEF Awakening
    <3>2. /\ HostDeadline(blocked_by[u].due) \in Nat
          /\ \A g \in Nat : (host <= g /\ g < HostDeadline(blocked_by[u].due)) =>
               guest_anchor + ElapsedAt(g) < blocked_by[u].due
      BY <1>1, <2>5, <2>7, HostDeadlineExact
    <3>3. host' \in Nat
      BY <1>1, ClockNext DEF ClockInv, TypeOK
    <3>4. host' - 1 \in Nat /\ host <= host' - 1 /\ host' - 1 < HostDeadline(blocked_by[u].due)
      BY <1>1, <2>1, <2>3, <3>1, <3>2, <3>3
    <3>5. QED
      BY <3>2, <3>4
  <2>8. QED
    BY <2>6, <2>7
<1>2. ClockInv /\ [Next]_vars =>
        [(phase = "sched" /\ host' > host) =>
           /\ \E t \in Threads : Due(t)'
           /\ \A t \in Threads : blocked_by[t].kind = "GuestSleeping" =>
                guest_anchor + ElapsedAt(host' - 1) < blocked_by[t].due]_vars
  BY <1>1
<1>3. QED
  BY <1>2, ClockInit, ClockNext, PTL DEF Spec, SleepsExactly

-----------------------------------------------------------------------------
(* Audio queues: prefixes, and the least of a set *)

Leads(s, t) == Len(s) <= Len(t) /\ \A i \in 1 .. Len(s) : s[i] = t[i]

LEMMA LeadsIsPrefix ==
  ASSUME NEW S, NEW s \in Seq(S), NEW t \in Seq(S), Leads(s, t)
  PROVE  IsPrefix(s, t)
<1>1. Len(s) \in Nat /\ Len(t) \in Nat /\ Len(s) <= Len(t)
  BY DEF Leads
<1>2. SubSeq(s, 1, Len(s)) \in Seq(S) /\ SubSeq(t, 1, Len(s)) \in Seq(S)
  BY <1>1
<1>3. Len(SubSeq(s, 1, Len(s))) = Len(s) /\ Len(SubSeq(t, 1, Len(s))) = Len(s)
  BY <1>1
<1>4. \A i \in 1 .. Len(s) : SubSeq(s, 1, Len(s))[i] = s[i] /\ SubSeq(t, 1, Len(s))[i] = t[i]
  BY <1>1
<1>5. SubSeq(s, 1, Len(s)) = SubSeq(t, 1, Len(s))
  BY <1>2, <1>3, <1>4 DEF Leads
<1>6. QED
  BY <1>1, <1>5 DEF IsPrefix

LEMMA LeadsEmpty ==
  ASSUME NEW S, NEW t \in Seq(S)
  PROVE  Leads(<<>>, t)
  BY DEF Leads

LEMMA LeadsAppend ==
  ASSUME NEW S, NEW s \in Seq(S), NEW t \in Seq(S), NEW x \in S, Leads(s, t)
  PROVE  Leads(s, Append(t, x))
<1>1. Len(s) \in Nat /\ Len(t) \in Nat /\ Len(Append(t, x)) = Len(t) + 1
  OBVIOUS
<1>2. \A i \in 1 .. Len(t) : Append(t, x)[i] = t[i]
  OBVIOUS
<1>3. QED
  BY <1>1, <1>2 DEF Leads

(* Both queues lose their first n entries. *)
LEMMA LeadsCut ==
  ASSUME NEW S, NEW s \in Seq(S), NEW t \in Seq(S), Leads(s, t), NEW n \in Nat, n <= Len(s)
  PROVE  Leads(SubSeq(s, n + 1, Len(s)), SubSeq(t, n + 1, Len(t)))
<1>1. Len(s) \in Nat /\ Len(t) \in Nat /\ Len(s) <= Len(t)
  BY DEF Leads
<1>2. Len(SubSeq(s, n + 1, Len(s))) = Len(s) - n /\ Len(SubSeq(t, n + 1, Len(t))) = Len(t) - n
  BY <1>1
<1>3. ASSUME NEW i \in 1 .. (Len(s) - n)
      PROVE  SubSeq(s, n + 1, Len(s))[i] = SubSeq(t, n + 1, Len(t))[i]
  <2>1. SubSeq(s, n + 1, Len(s))[i] = s[n + i] /\ SubSeq(t, n + 1, Len(t))[i] = t[n + i]
    BY <1>1
  <2>2. n + i \in 1 .. Len(s)
    BY <1>1
  <2>3. QED
    BY <2>1, <2>2 DEF Leads
<1>4. QED
  BY <1>1, <1>2, <1>3 DEF Leads

(* What follows in t is added to s. *)
LEMMA LeadsFill ==
  ASSUME NEW S, NEW s \in Seq(S), NEW t \in Seq(S), Leads(s, t),
         NEW n \in Nat, Len(s) <= n, n <= Len(t)
  PROVE  Leads(s \o SubSeq(t, Len(s) + 1, n), t)
<1> DEFINE u == SubSeq(t, Len(s) + 1, n)
<1>1. Len(s) \in Nat /\ Len(t) \in Nat
  OBVIOUS
<1>2. u \in Seq(S) /\ Len(u) = n - Len(s) /\ \A i \in 1 .. (n - Len(s)) : u[i] = t[Len(s) + i]
  BY <1>1
<1> HIDE DEF u
<1>3. Len(s \o u) = n
  BY <1>1, <1>2
<1>4. ASSUME NEW i \in 1 .. n PROVE (s \o u)[i] = t[i]
  <2>1. CASE i <= Len(s)
    BY <1>1, <1>2, <2>1 DEF Leads
  <2>2. CASE i > Len(s)
    <3>1. (s \o u)[i] = u[i - Len(s)]
      BY <1>1, <1>2, <2>2
    <3>2. i - Len(s) \in 1 .. (n - Len(s)) /\ Len(s) + (i - Len(s)) = i
      BY <1>1, <2>2
    <3>3. QED
      BY <1>2, <3>1, <3>2
  <2>3. i <= Len(s) \/ i > Len(s)
    BY <1>1
  <2>4. QED
    BY <2>1, <2>2, <2>3
<1>5. QED
  BY <1>1, <1>3, <1>4 DEF Leads, u

LEMMA MinOfTwo ==
  ASSUME NEW a \in Nat, NEW b \in Nat
  PROVE  Min({a, b}) = IF a <= b THEN a ELSE b
  BY DEF Min

LEMMA MinIn ==
  ASSUME NEW T \in SUBSET Nat, T # {}
  PROVE  Min(T) \in T
<1>1. \E x \in T : \A y \in T : ~(<<y, x>> \in OpToRel(<, Nat))
  BY WFMin, NatLessThanWellFounded
<1>2. ASSUME NEW x \in Nat, NEW y \in Nat, y < x PROVE <<y, x>> \in OpToRel(<, Nat)
  BY <1>2 DEF OpToRel
<1>3. \E x \in T : \A y \in T : ~(y < x)
  BY <1>1, <1>2
<1>4. \E x \in T : \A y \in T : x <= y
  BY <1>3
<1>5. QED
  BY <1>4 DEF Min

-----------------------------------------------------------------------------
(* The invariant *)

QueueRecords ==
  [live : BOOLEAN, is_input : BOOLEAN, buffers : SUBSET AqBuffers,
   buffer_queue : Seq(AqBuffers), is_running : {"Stopped", "Running", "Stopping"},
   al_source : 1 .. MaxSources \cup {NoSource}, is_running_handler : BOOLEAN,
   capture_device : {"none", "recording", "paused"}]

SourceRecords ==
  [state : {"free", "initial", "playing", "paused", "stopped"}, queue : Seq(AqBuffers),
   played : Nat]

(* A queue has devices only while it exists, those of its kind, and         *)
(* records only while it runs.                                             *)
QueueOK(r) ==
  /\ r \in QueueRecords
  /\ ~r.live => r.al_source = NoSource /\ r.buffers = {} /\ r.capture_device = "none"
  /\ r.is_input => r.al_source = NoSource
  /\ r.capture_device # "none" => r.is_input
  /\ r.capture_device = "recording" => r.is_running = "Running"

SourceOK(s) == s \in SourceRecords /\ (s.state = "free" => s = FreeSource)

(* OpenAL's sources in use and the queues that have one correspond. *)
Owned ==
  /\ \A q \in AudioQueues :
       aq[q].al_source # NoSource => al[aq[q].al_source].state # "free"
  /\ \A i \in 1 .. MaxSources :
       al[i].state # "free" => \E q \in AudioQueues : aq[q].al_source = i
  /\ \A p, q \in AudioQueues :
       aq[p].al_source = aq[q].al_source /\ aq[p].al_source # NoSource => p = q

(* A handler of a queue that still exists is of the right kind, and a       *)
(* playing one has its source.                                             *)
GoodHandlers ==
  {h \in [q : AudioQueues, running : {"Stopped", "Running", "Stopping"},
          todo : Seq(AqBuffers), calling : BOOLEAN, notified : BOOLEAN, input : BOOLEAN] :
     aq[h.q].live => /\ h.input = aq[h.q].is_input
                     /\ h.input \/ aq[h.q].al_source # NoSource}

DeviceInv ==
  /\ aq \in [AudioQueues -> QueueRecords]
  /\ \A q \in AudioQueues : QueueOK(aq[q])
  /\ al \in [1 .. MaxSources -> SourceRecords]
  /\ \A i \in 1 .. MaxSources : SourceOK(al[i])
  /\ Owned
  /\ handlers \in Seq(GoodHandlers)

Synced == \A q \in AudioQueues : Leads(SourceOf(q).queue, aq[q].buffer_queue)

-----------------------------------------------------------------------------
(* The shape of a step: one queue becomes r, and its source, if it has or   *)
(* gets one, becomes s.                                                    *)

QueueStep(q, r, s) ==
  /\ aq' = [aq EXCEPT ![q] = r]
  /\ QueueOK(r) /\ SourceOK(s) /\ s.state # "free"
  /\ \/ /\ r.al_source = NoSource /\ aq[q].al_source = NoSource
        /\ al' = al /\ s = NewSource
     \/ /\ r.al_source # NoSource
        /\ \/ r.al_source = aq[q].al_source
           \/ aq[q].al_source = NoSource /\ al[r.al_source] = FreeSource
        /\ al' = [al EXCEPT ![r.al_source] = s]

Keeps(q) ==
  aq'[q].live => /\ aq[q].live /\ aq'[q].is_input = aq[q].is_input
                 /\ aq[q].al_source # NoSource => aq'[q].al_source # NoSource

LEMMA HandlersKept ==
  ASSUME DeviceInv, \A q \in AudioQueues : Active(q) => Keeps(q)
  PROVE  handlers \in Seq(GoodHandlers')
<1>1. handlers \in Seq(GoodHandlers) /\ \A i \in DOMAIN handlers : handlers[i] \in GoodHandlers
  BY DEF DeviceInv
<1>2. ASSUME NEW i \in DOMAIN handlers PROVE handlers[i] \in GoodHandlers'
  <2>1. handlers[i] \in GoodHandlers /\ handlers[i].q \in AudioQueues
    BY <1>1 DEF GoodHandlers
  <2>2. Active(handlers[i].q)
    BY DEF Active
  <2>3. Keeps(handlers[i].q)
    BY <2>1, <2>2
  <2>4. QED
    BY <2>1, <2>3 DEF Keeps, GoodHandlers
<1>3. QED
  BY <1>1, <1>2

LEMMA StepInv ==
  ASSUME DeviceInv, NEW q \in AudioQueues, NEW r, NEW s, QueueStep(q, r, s),
         handlers' \in Seq(GoodHandlers')
  PROVE  DeviceInv'
<1>1. /\ aq \in [AudioQueues -> QueueRecords] /\ al \in [1 .. MaxSources -> SourceRecords]
      /\ Owned /\ NoSource \notin 1 .. MaxSources
  BY AudioAssumption DEF DeviceInv
<1>2. aq' \in [AudioQueues -> QueueRecords] /\ \A p \in AudioQueues : QueueOK(aq'[p])
  BY DEF QueueStep, QueueOK, DeviceInv
<1>3. r.al_source \in 1 .. MaxSources \cup {NoSource} /\ aq'[q] = r
      /\ \A p \in AudioQueues : p # q => aq'[p] = aq[p]
  BY <1>1 DEF QueueStep, QueueOK, QueueRecords
<1>4. al' \in [1 .. MaxSources -> SourceRecords] /\ \A i \in 1 .. MaxSources : SourceOK(al'[i])
  BY <1>1, <1>3 DEF QueueStep, SourceOK, DeviceInv
<1>5. \A p \in AudioQueues : aq[p].al_source \in 1 .. MaxSources \cup {NoSource}
  BY <1>1 DEF QueueRecords
<1>6. CASE r.al_source = NoSource
  <2>1. al' = al /\ aq[q].al_source = NoSource
    BY <1>6 DEF QueueStep
  <2>2. Owned'
    BY <1>1, <1>3, <1>5, <1>6, <2>1 DEF Owned
  <2>3. QED
    BY <1>2, <1>4, <2>2 DEF DeviceInv
<1>7. CASE r.al_source # NoSource
  <2>1. /\ al' = [al EXCEPT ![r.al_source] = s] /\ s.state # "free"
        /\ \/ r.al_source = aq[q].al_source
           \/ aq[q].al_source = NoSource /\ al[r.al_source] = FreeSource
    BY <1>7 DEF QueueStep
  <2>2. r.al_source \in 1 .. MaxSources /\ al'[r.al_source] = s
        /\ \A i \in 1 .. MaxSources : i # r.al_source => al'[i] = al[i]
    BY <1>1, <1>3, <1>7, <2>1
  <2>3. \A p \in AudioQueues : p # q => aq[p].al_source # r.al_source
    BY <1>1, <1>7, <2>1 DEF Owned, FreeSource
  <2>4. Owned'
    BY <1>1, <1>3, <1>5, <1>7, <2>1, <2>2, <2>3 DEF Owned
  <2>5. QED
    BY <1>2, <1>4, <2>4 DEF DeviceInv
<1>8. QED
  BY <1>6, <1>7

LEMMA StepSync ==
  ASSUME DeviceInv, Synced, NEW q \in AudioQueues, NEW r, NEW s, QueueStep(q, r, s),
         Leads(s.queue, r.buffer_queue)
  PROVE  Synced'
<1>1. /\ aq \in [AudioQueues -> QueueRecords] /\ al \in [1 .. MaxSources -> SourceRecords]
      /\ Owned /\ NoSource \notin 1 .. MaxSources
  BY AudioAssumption DEF DeviceInv
<1>2. r.al_source \in 1 .. MaxSources \cup {NoSource} /\ aq'[q] = r
      /\ \A p \in AudioQueues : p # q => aq'[p] = aq[p]
  BY <1>1 DEF QueueStep, QueueOK, QueueRecords
<1>3. SourceOf(q)' = s
  BY <1>1, <1>2 DEF QueueStep, SourceOf
<1>4. ASSUME NEW p \in AudioQueues, p # q PROVE SourceOf(p)' = SourceOf(p)
  <2>1. aq[p].al_source \in 1 .. MaxSources \cup {NoSource} /\ aq'[p] = aq[p]
    BY <1>1, <1>2, <1>4 DEF QueueRecords
  <2>2. CASE aq[p].al_source = NoSource
    BY <2>1, <2>2 DEF SourceOf, NewSource
  <2>3. CASE aq[p].al_source # NoSource
    <3>1. r.al_source # aq[p].al_source
      BY <1>1, <1>4, <2>3 DEF QueueStep, Owned, FreeSource
    <3>2. al'[aq[p].al_source] = al[aq[p].al_source]
      BY <1>1, <1>2, <2>1, <2>3, <3>1 DEF QueueStep
    <3>3. QED
      BY <2>1, <2>3, <3>2 DEF SourceOf
  <2>4. QED
    BY <2>2, <2>3
<1>5. QED
  BY <1>2, <1>3, <1>4 DEF Synced

-----------------------------------------------------------------------------
(* OpenAL's operations *)

LEMMA SourceOps ==
  ASSUME NEW s, SourceOK(s), s.state # "free"
  PROVE  /\ SourceOK(Playing(s)) /\ Playing(s).state # "free" /\ Playing(s).queue = s.queue
         /\ SourceOK(Paused(s)) /\ Paused(s).state # "free" /\ Paused(s).queue = s.queue
         /\ SourceOK(SourceStopped(s)) /\ SourceStopped(s).queue = s.queue
         /\ SourceStopped(s).state \in {"initial", "stopped"}
         /\ SourceStopped(s).state = "initial" => s.state = "initial"
  BY DEF SourceOK, SourceRecords, Playing, Paused, SourceStopped

LEMMA UnqueuedOK ==
  ASSUME NEW s, SourceOK(s), s.state # "free"
  PROVE  /\ SourceOK(Unqueued(s)) /\ Unqueued(s).state # "free"
         /\ Processed(s) \in Nat /\ Len(s.queue) \in Nat
         /\ Unqueued(s).queue = SubSeq(s.queue, Processed(s) + 1, Len(s.queue))
         /\ s.state = "stopped" \/ s.queue = <<>> => Unqueued(s).queue = <<>>
<1>1. s \in SourceRecords /\ s.queue \in Seq(AqBuffers) /\ Len(s.queue) \in Nat
  BY DEF SourceOK, SourceRecords
<1>2. Processed(s) \in Nat
  BY <1>1 DEF Processed, SourceRecords
<1> DEFINE u == SubSeq(s.queue, Processed(s) + 1, Len(s.queue))
<1>3. u \in Seq(AqBuffers)
  BY <1>1, <1>2
<1>4. Unqueued(s) = [s EXCEPT !.queue = u, !.played = 0]
  BY DEF Unqueued
<1>5. s.state = "stopped" \/ s.queue = <<>> => u = <<>>
  BY <1>1, <1>2 DEF Processed
<1> HIDE DEF u
<1>6. Unqueued(s).state = s.state /\ Unqueued(s).queue = u /\ Unqueued(s) \in SourceRecords
  <2>1. ASSUME NEW v \in Seq(AqBuffers), NEW w, w = [s EXCEPT !.queue = v, !.played = 0]
        PROVE  w.state = s.state /\ w.queue = v /\ w \in SourceRecords
    BY <1>1, <2>1 DEF SourceRecords
  <2>2. QED
    BY <1>3, <1>4, <2>1
<1>7. QED
  BY <1>1, <1>2, <1>5, <1>6 DEF SourceOK, u

LEMMA RefillsOK ==
  ASSUME NEW s, SourceOK(s), s.state # "free", NEW bq \in Seq(AqBuffers),
         NEW f \in Refills(s, bq)
  PROVE  /\ SourceOK(f) /\ f.state # "free"
         /\ Leads(s.queue, bq) => Leads(f.queue, bq)
<1> DEFINE enough == IF s.state = "stopped" THEN Len(bq) ELSE Min({Len(bq), s.played + 2})
<1>1. /\ s \in SourceRecords /\ s.queue \in Seq(AqBuffers) /\ Len(s.queue) \in Nat
      /\ s.played \in Nat /\ Len(bq) \in Nat
  BY DEF SourceOK, SourceRecords
<1>2. enough \in Nat /\ enough <= Len(bq)
  <2>1. Min({Len(bq), s.played + 2}) = IF Len(bq) <= s.played + 2 THEN Len(bq) ELSE s.played + 2
    BY <1>1, MinOfTwo
  <2>2. QED
    BY <1>1, <2>1
<1>3. CASE f = s
  BY <1>3
<1>4. ASSUME NEW n \in Len(s.queue) .. enough,
             f = [s EXCEPT !.queue = @ \o SubSeq(bq, Len(@) + 1, n)]
      PROVE  /\ SourceOK(f) /\ f.state # "free"
             /\ Leads(s.queue, bq) => Leads(f.queue, bq)
  <2> DEFINE u == s.queue \o SubSeq(bq, Len(s.queue) + 1, n)
  <2>1. n \in Nat /\ Len(s.queue) <= n /\ n <= Len(bq)
    BY <1>1, <1>2
  <2>2. SubSeq(bq, Len(s.queue) + 1, n) \in Seq(AqBuffers)
    BY <1>1, <2>1
  <2>3. u \in Seq(AqBuffers)
    BY <1>1, <2>2
  <2>4. Leads(s.queue, bq) => Leads(u, bq)
    BY <1>1, <2>1, LeadsFill
  <2>5. f = [s EXCEPT !.queue = u]
    BY <1>4
  <2> HIDE DEF u
  <2>6. QED
    BY <1>1, <2>3, <2>4, <2>5 DEF SourceOK, SourceRecords
<1>5. f = s \/ \E n \in Len(s.queue) .. enough :
                 f = [s EXCEPT !.queue = @ \o SubSeq(bq, Len(@) + 1, n)]
  BY DEF Refills
<1>6. QED
  BY <1>3, <1>4, <1>5

-----------------------------------------------------------------------------
(* Steps of one queue *)

LEMMA QueueFacts ==
  ASSUME DeviceInv, NEW q \in AudioQueues
  PROVE  /\ aq[q] \in QueueRecords /\ QueueOK(aq[q])
         /\ SourceOK(SourceOf(q)) /\ SourceOf(q).state # "free"
         /\ aq[q].al_source # NoSource =>
              /\ aq[q].al_source \in 1 .. MaxSources
              /\ SourceOf(q) = al[aq[q].al_source]
         /\ aq[q].al_source = NoSource => SourceOf(q) = NewSource
<1>1. aq[q] \in QueueRecords /\ QueueOK(aq[q])
  BY DEF DeviceInv
<1>2. aq[q].al_source # NoSource =>
        /\ aq[q].al_source \in 1 .. MaxSources
        /\ SourceOf(q) = al[aq[q].al_source]
  BY <1>1 DEF SourceOf, QueueRecords
<1>3. aq[q].al_source = NoSource => SourceOf(q) = NewSource
  BY DEF SourceOf
<1>4. SourceOK(NewSource) /\ NewSource.state # "free"
  <2>1. <<>> \in Seq(AqBuffers)
    OBVIOUS
  <2>2. NewSource = [state |-> "initial", queue |-> <<>>, played |-> 0]
    BY DEF NewSource, FreeSource
  <2>3. QED
    BY <2>1, <2>2 DEF SourceOK, SourceRecords
<1>5. aq[q].al_source # NoSource => SourceOK(SourceOf(q)) /\ SourceOf(q).state # "free"
  BY <1>2 DEF DeviceInv, Owned
<1>6. QED
  BY <1>1, <1>2, <1>3, <1>4, <1>5

(* What a step has to keep. *)
Kept == DeviceInv' /\ (Synced /\ ~ResetsPrimed => Synced')

LEMMA Stepped ==
  ASSUME DeviceInv, NEW q \in AudioQueues, NEW r, NEW s, QueueStep(q, r, s),
         ~ResetsPrimed /\ Leads(SourceOf(q).queue, aq[q].buffer_queue)
           => Leads(s.queue, r.buffer_queue),
         handlers' \in Seq(GoodHandlers')
  PROVE  Kept
  BY StepInv, StepSync DEF Kept, Synced

(* The guest's call leaves the handlers alone. *)
LEMMA GuestStep ==
  ASSUME DeviceInv, NEW q \in AudioQueues, NEW r, NEW s, QueueStep(q, r, s),
         aq[q].live, r.live, r.is_input = aq[q].is_input,
         ~ResetsPrimed /\ Leads(SourceOf(q).queue, aq[q].buffer_queue)
           => Leads(s.queue, r.buffer_queue),
         handlers' = handlers
  PROVE  Kept
<1>1. aq'[q] = r /\ \A p \in AudioQueues : p # q => aq'[p] = aq[p]
  BY DEF QueueStep, DeviceInv
<1>2. aq[q].al_source # NoSource => r.al_source # NoSource
  BY DEF QueueStep
<1>3. \A p \in AudioQueues : Keeps(p)
  BY <1>1, <1>2 DEF Keeps
<1>4. handlers \in Seq(GoodHandlers')
  BY <1>3, HandlersKept
<1>5. QED
  BY <1>4, Stepped

LEMMA SameSource ==
  ASSUME DeviceInv, NEW q \in AudioQueues, NEW r, QueueOK(r),
         r.al_source = aq[q].al_source, aq' = [aq EXCEPT ![q] = r], al' = al
  PROVE  QueueStep(q, r, SourceOf(q))
<1>1. SourceOK(SourceOf(q)) /\ SourceOf(q).state # "free"
  BY QueueFacts
<1>2. CASE r.al_source = NoSource
  BY <1>1, <1>2, QueueFacts DEF QueueStep
<1>3. CASE r.al_source # NoSource
  <2>1. SourceOf(q) = al[r.al_source] /\ r.al_source \in 1 .. MaxSources
    BY <1>3, QueueFacts
  <2>2. al' = [al EXCEPT ![r.al_source] = SourceOf(q)]
    BY <2>1 DEF DeviceInv
  <2>3. QED
    BY <1>1, <1>3, <2>2 DEF QueueStep
<1>4. QED
  BY <1>2, <1>3

-----------------------------------------------------------------------------
(* The guest's calls *)

LEMMA PlayStep == ASSUME DeviceInv, NEW i \in 1 .. MaxSources, SourcePlays(i) PROVE Kept
<1> DEFINE s == al'[i]
<1>1. /\ aq \in [AudioQueues -> QueueRecords] /\ al \in [1 .. MaxSources -> SourceRecords]
      /\ SourceOK(al[i]) /\ al[i].state = "playing" /\ Owned
  BY DEF DeviceInv, SourcePlays
<1>2. PICK q \in AudioQueues : aq[q].al_source = i
  BY <1>1 DEF Owned
<1>3. SourceOK(s) /\ s.state # "free" /\ s.queue = al[i].queue
  <2>1. \/ s = [al[i] EXCEPT !.state = "stopped", !.played = 0]
        \/ s = [al[i] EXCEPT !.played = @ + 1]
    <3>1. s = BufferPlayed(al[i])
      BY <1>1 DEF SourcePlays
    <3>2. QED
      BY <3>1, Zenon DEF BufferPlayed
  <2>2. al[i] \in SourceRecords /\ al[i].played + 1 \in Nat /\ 0 \in Nat
    BY <1>1 DEF SourceRecords
  <2> HIDE DEF s
  <2>3. CASE s = [al[i] EXCEPT !.state = "stopped", !.played = 0]
    <3>1. s \in SourceRecords /\ s.state = "stopped" /\ s.queue = al[i].queue
      BY <2>2, <2>3 DEF SourceRecords
    <3>2. QED
      BY <3>1 DEF SourceOK
  <2>4. CASE s = [al[i] EXCEPT !.played = @ + 1]
    BY <1>1, <2>2, <2>4 DEF SourceRecords, SourceOK
  <2>5. QED
    BY <2>1, <2>3, <2>4
<1>4. al' = [al EXCEPT ![i] = s] /\ aq' = [aq EXCEPT ![q] = aq[q]] /\ handlers' = handlers
  BY <1>1 DEF SourcePlays
<1> HIDE DEF s
<1>5. aq[q].al_source # NoSource
  BY <1>2, AudioAssumption
<1>6. QueueStep(q, aq[q], s) /\ SourceOf(q) = al[i]
  BY <1>2, <1>3, <1>4, <1>5, QueueFacts DEF QueueStep
<1>7. aq[q].live
  BY <1>5, QueueFacts DEF QueueOK
<1>8. QED
  BY <1>3, <1>4, <1>6, <1>7, GuestStep

LEMMA NewStep ==
  ASSUME DeviceInv, NEW q \in AudioQueues, AudioQueueNewOutput(q) \/ AudioQueueNewInput(q)
  PROVE  Kept
<1>1. PICK input \in BOOLEAN : aq' = [aq EXCEPT ![q] = NewQueue(input)]
  BY DEF AudioQueueNewOutput, AudioQueueNewInput
<1>2. al' = al /\ handlers' = handlers /\ ~Active(q) /\ ~aq[q].live
  BY DEF AudioQueueNewOutput, AudioQueueNewInput
<1> DEFINE r == NewQueue(input)
<1>3. r \in QueueRecords
  <2>1. NoQueue \in QueueRecords
    <3>1. <<>> \in Seq(AqBuffers)
      OBVIOUS
    <3>2. QED
      BY <3>1 DEF NoQueue, QueueRecords
  <2>2. ASSUME NEW n \in QueueRecords
        PROVE  [n EXCEPT !.live = TRUE, !.is_input = input] \in QueueRecords
    BY <2>2 DEF QueueRecords
  <2>3. QED
    BY <2>1, <2>2 DEF NewQueue
<1>4. /\ r.live /\ r.al_source = NoSource /\ r.buffer_queue = <<>> /\ r.capture_device = "none"
  BY DEF NewQueue, NoQueue
<1> HIDE DEF r
<1>5. aq[q].al_source = NoSource /\ SourceOf(q) = NewSource /\ QueueOK(r)
  BY <1>2, <1>3, <1>4, QueueFacts DEF QueueOK
<1>6. QueueStep(q, r, SourceOf(q))
  BY <1>1, <1>2, <1>4, <1>5, SameSource DEF r
<1>7. \A p \in AudioQueues : p # q => aq'[p] = aq[p]
  BY <1>1 DEF DeviceInv
<1>8. \A p \in AudioQueues : Active(p) => Keeps(p)
  BY <1>2, <1>7 DEF Keeps
<1>9. handlers' \in Seq(GoodHandlers')
  BY <1>2, <1>8, HandlersKept
<1>10. Leads(SourceOf(q).queue, r.buffer_queue)
  BY <1>4, <1>5 DEF NewSource, FreeSource, Leads
<1>11. QED
  BY <1>6, <1>9, <1>10, Stepped

LEMMA BufferStep ==
  ASSUME DeviceInv, NEW q \in AudioQueues, NEW b \in AqBuffers,
         \/ AudioQueueAllocateBuffer(q, b)
         \/ AudioQueueEnqueueBuffer(q, b)
         \/ AudioQueueFreeBuffer(q, b)
  PROVE  Kept
<1> DEFINE r == aq'[q]
<1>1. aq \in [AudioQueues -> QueueRecords] /\ aq[q] \in QueueRecords /\ QueueOK(aq[q])
  BY DEF DeviceInv
<1>2. aq[q].live
  BY <1>1 DEF AudioQueueAllocateBuffer, AudioQueueEnqueueBuffer, AudioQueueFreeBuffer, QueueOK
<1>3. al' = al /\ handlers' = handlers /\ aq' = [aq EXCEPT ![q] = r]
  BY <1>1 DEF AudioQueueAllocateBuffer, AudioQueueEnqueueBuffer, AudioQueueFreeBuffer
<1>4. /\ QueueOK(r) /\ r.live /\ r.is_input = aq[q].is_input /\ r.al_source = aq[q].al_source
      /\ r.buffer_queue = aq[q].buffer_queue \/ r.buffer_queue = Append(aq[q].buffer_queue, b)
  <2>1. CASE AudioQueueAllocateBuffer(q, b)
    <3>1. r = [aq[q] EXCEPT !.buffers = @ \cup {b}]
      BY <1>1, <2>1 DEF AudioQueueAllocateBuffer
    <3>2. aq[q].buffers \cup {b} \in SUBSET AqBuffers
      BY <1>1 DEF QueueRecords
    <3>3. QED
      BY <1>1, <1>2, <3>1, <3>2 DEF QueueOK, QueueRecords
  <2>2. CASE AudioQueueEnqueueBuffer(q, b)
    <3>1. r = [aq[q] EXCEPT !.buffer_queue = Append(@, b)]
      BY <1>1, <2>2 DEF AudioQueueEnqueueBuffer
    <3>2. Append(aq[q].buffer_queue, b) \in Seq(AqBuffers)
      BY <1>1 DEF QueueRecords
    <3>3. QED
      BY <1>1, <1>2, <3>1, <3>2 DEF QueueOK, QueueRecords
  <2>3. CASE AudioQueueFreeBuffer(q, b)
    <3>1. r = [aq[q] EXCEPT !.buffers = @ \ {b}]
      BY <1>1, <2>3 DEF AudioQueueFreeBuffer
    <3>2. QED
      BY <1>1, <1>2, <3>1 DEF QueueOK, QueueRecords
  <2>4. QED
    BY <2>1, <2>2, <2>3
<1> HIDE DEF r
<1>5. SourceOf(q).queue \in Seq(AqBuffers) /\ aq[q].buffer_queue \in Seq(AqBuffers)
  BY <1>1, QueueFacts DEF SourceOK, SourceRecords, QueueRecords
<1>6. Leads(SourceOf(q).queue, aq[q].buffer_queue) => Leads(SourceOf(q).queue, r.buffer_queue)
  BY <1>4, <1>5, LeadsAppend
<1>7. QueueStep(q, r, SourceOf(q))
  BY <1>3, <1>4, SameSource
<1>8. QED
  BY <1>2, <1>3, <1>4, <1>6, <1>7, GuestStep

(* The source a queue has, or gets. *)
LEMMA SourceForOK ==
  ASSUME DeviceInv, NEW q \in AudioQueues, SourceFor(q) # NoSource
  PROVE  /\ SourceFor(q) \in 1 .. MaxSources
         /\ \/ SourceFor(q) = aq[q].al_source
            \/ aq[q].al_source = NoSource /\ al[SourceFor(q)] = FreeSource
<1>1. CASE aq[q].al_source # NoSource
  BY <1>1, QueueFacts DEF SourceFor
<1>2. CASE aq[q].al_source = NoSource
  <2>1. FreeSources # {} /\ SourceFor(q) = Min(FreeSources)
    BY <1>2 DEF SourceFor
  <2>2. FreeSources \in SUBSET Nat
    BY AudioAssumption DEF FreeSources
  <2>3. SourceFor(q) \in FreeSources
    BY <2>1, <2>2, MinIn
  <2>4. QED
    BY <1>2, <2>3 DEF FreeSources
<1>3. QED
  BY <1>1, <1>2

LEMMA PrimeStep ==
  ASSUME DeviceInv, NEW q \in AudioQueues, AudioQueuePrime(q) \/ AudioQueueStart(q)
  PROVE  Kept
<1>1. /\ aq[q].live /\ ~aq[q].is_input /\ SourceFor(q) # NoSource /\ handlers' = handlers
  BY DEF AudioQueuePrime, AudioQueueStart
<1>2. aq \in [AudioQueues -> QueueRecords] /\ aq[q] \in QueueRecords /\ QueueOK(aq[q])
  BY DEF DeviceInv
<1>3. /\ SourceFor(q) \in 1 .. MaxSources
      /\ \/ SourceFor(q) = aq[q].al_source
         \/ aq[q].al_source = NoSource /\ al[SourceFor(q)] = FreeSource
  BY <1>1, SourceForOK
<1> DEFINE i == SourceFor(q)
           r == aq'[q]
<1> HIDE DEF i
<1>4. /\ r \in QueueRecords /\ aq' = [aq EXCEPT ![q] = r]
      /\ r.live /\ r.is_input = aq[q].is_input /\ r.al_source = i /\ r.capture_device = aq[q].capture_device
      /\ r.buffer_queue = aq[q].buffer_queue
  <2>1. CASE AudioQueuePrime(q)
    <3>1. aq' = [aq EXCEPT ![q].al_source = i]
      BY <2>1 DEF AudioQueuePrime, i
    <3>2. QED
      BY <1>1, <1>2, <1>3, <3>1 DEF QueueRecords, i
  <2>2. CASE AudioQueueStart(q)
    <3>1. aq' = [aq EXCEPT ![q].al_source = i, ![q].is_running = "Running"]
      BY <2>2 DEF AudioQueueStart, i
    <3>2. i \in 1 .. MaxSources \cup {NoSource}
      BY <1>3 DEF i
    <3>3. QED
      BY <1>1, <1>2, <3>1, <3>2, Zenon DEF QueueRecords
  <2>3. QED
    BY <2>1, <2>2
<1>5. r.capture_device = "none" /\ QueueOK(r)
  BY <1>1, <1>2, <1>4 DEF QueueOK
<1>6. PICK f \in Refills(SourceOf(q), aq[q].buffer_queue) :
        al' = [al EXCEPT ![i] = f] \/ al' = [al EXCEPT ![i] = Playing(f)]
  BY DEF AudioQueuePrime, AudioQueueStart, i
<1>7. aq[q].buffer_queue \in Seq(AqBuffers) /\ SourceOK(SourceOf(q)) /\ SourceOf(q).state # "free"
  BY <1>2, QueueFacts DEF QueueRecords
<1>8. /\ SourceOK(f) /\ f.state # "free"
      /\ Leads(SourceOf(q).queue, aq[q].buffer_queue) => Leads(f.queue, aq[q].buffer_queue)
  BY <1>7, RefillsOK
<1>9. PICK s \in {f, Playing(f)} : al' = [al EXCEPT ![i] = s]
  BY <1>6
<1>10. SourceOK(s) /\ s.state # "free" /\ s.queue = f.queue
  BY <1>8, <1>9, SourceOps
<1> HIDE DEF r
<1>11. QueueStep(q, r, s)
  BY <1>1, <1>3, <1>4, <1>5, <1>9, <1>10 DEF QueueStep, i
<1>12. QED
  BY <1>1, <1>4, <1>8, <1>10, <1>11, GuestStep

LEMMA RecordStep ==
  ASSUME DeviceInv, NEW q \in AudioQueues, start_input_audio_queue(q) \/ StopLater(q)
  PROVE  Kept
<1>1. aq[q].live /\ al' = al /\ handlers' = handlers
  BY DEF start_input_audio_queue, StopLater
<1>2. aq \in [AudioQueues -> QueueRecords] /\ aq[q] \in QueueRecords /\ QueueOK(aq[q])
  BY DEF DeviceInv
<1> DEFINE r == aq'[q]
<1>3. /\ r \in QueueRecords /\ aq' = [aq EXCEPT ![q] = r]
      /\ r.live /\ r.is_input = aq[q].is_input /\ r.al_source = aq[q].al_source
      /\ r.buffer_queue = aq[q].buffer_queue
      /\ \/ aq[q].is_input /\ r.is_running = "Running"
         \/ ~aq[q].is_input /\ r.capture_device = aq[q].capture_device
  <2>1. CASE start_input_audio_queue(q)
    <3>1. PICK device \in {"none", "recording"} :
            aq' = [aq EXCEPT ![q].capture_device = device, ![q].is_running = "Running"]
      BY <2>1 DEF start_input_audio_queue
    <3>2. device \in {"none", "recording", "paused"} /\ aq[q].is_input
      BY <2>1, <3>1 DEF start_input_audio_queue
    <3>3. QED
      BY <1>1, <1>2, <3>1, <3>2, Zenon DEF QueueRecords
  <2>2. CASE StopLater(q)
    <3>1. aq' = [aq EXCEPT ![q].is_running = "Stopping"] /\ ~aq[q].is_input
      BY <2>2 DEF StopLater
    <3>2. QED
      BY <1>1, <1>2, <3>1 DEF QueueRecords
  <2>3. QED
    BY <2>1, <2>2
<1> HIDE DEF r
<1>4. QueueOK(r)
  BY <1>1, <1>2, <1>3 DEF QueueOK
<1>5. QueueStep(q, r, SourceOf(q))
  BY <1>1, <1>3, <1>4, SameSource
<1>6. QED
  BY <1>1, <1>3, <1>5, GuestStep

LEMMA PauseStep ==
  ASSUME DeviceInv, NEW q \in AudioQueues, AudioQueuePause(q) PROVE Kept
<1>1. aq[q].live /\ handlers' = handlers
  BY DEF AudioQueuePause
<1>2. aq \in [AudioQueues -> QueueRecords] /\ aq[q] \in QueueRecords /\ QueueOK(aq[q])
  BY DEF DeviceInv
<1> DEFINE r == aq'[q]
           d == PausedDevice(aq[q].capture_device)
<1>3. d \in {"none", "recording", "paused"} /\ d # "recording"
      /\ (d # "none" => aq[q].capture_device # "none")
  BY <1>2 DEF PausedDevice, QueueRecords
<1>4. aq' = [aq EXCEPT ![q].is_running = "Stopped", ![q].capture_device = d]
  BY <1>2, Zenon DEF AudioQueuePause, QueueRecords
<1> HIDE DEF d
<1>5. /\ r \in QueueRecords /\ aq' = [aq EXCEPT ![q] = r]
      /\ r.live /\ r.is_input = aq[q].is_input /\ r.al_source = aq[q].al_source
      /\ r.buffer_queue = aq[q].buffer_queue /\ r.capture_device = d
  BY <1>1, <1>2, <1>3, <1>4, Zenon DEF QueueRecords
<1> HIDE DEF r
<1>6. QueueOK(r)
  BY <1>1, <1>2, <1>3, <1>5 DEF QueueOK
<1>7. CASE aq[q].al_source = NoSource
  <2>1. al' = al
    BY <1>7 DEF AudioQueuePause
  <2>2. QED
    BY <1>1, <1>5, <1>6, <2>1, SameSource, GuestStep
<1>8. CASE aq[q].al_source # NoSource
  <2>1. al' = [al EXCEPT ![r.al_source] = Paused(SourceOf(q))]
    BY <1>5, <1>8, QueueFacts DEF AudioQueuePause, DeviceInv
  <2>2. QueueStep(q, r, Paused(SourceOf(q))) /\ Paused(SourceOf(q)).queue = SourceOf(q).queue
    BY <1>5, <1>6, <1>8, <2>1, QueueFacts, SourceOps DEF QueueStep
  <2>3. QED
    BY <1>1, <1>5, <2>2, GuestStep
<1>9. QED
  BY <1>7, <1>8

(* Reset and an immediate stop: the buffers go, and with them OpenAL's,     *)
(* unless the source was only primed.                                      *)
LEMMA ResetStep ==
  ASSUME DeviceInv, NEW q \in AudioQueues, AudioQueueReset(q) \/ StopNow(q)
  PROVE  Kept
<1>1. aq[q].live /\ handlers' = handlers /\ (PrimedOnly(q) => ResetsPrimed) /\ ResetSource(q)
  BY DEF AudioQueueReset, StopNow
<1>2. aq \in [AudioQueues -> QueueRecords] /\ aq[q] \in QueueRecords /\ QueueOK(aq[q])
  BY DEF DeviceInv
<1> DEFINE r == aq'[q]
           d == PausedDevice(aq[q].capture_device)
<1>3. d \in {"none", "recording", "paused"} /\ d # "recording"
      /\ (d # "none" => aq[q].capture_device # "none")
  BY <1>2 DEF PausedDevice, QueueRecords
<1>4. <<>> \in Seq(AqBuffers)
  OBVIOUS
<1>5. /\ r \in QueueRecords /\ aq' = [aq EXCEPT ![q] = r]
      /\ r.live /\ r.is_input = aq[q].is_input /\ r.al_source = aq[q].al_source
      /\ r.buffer_queue = <<>>
      /\ \/ r.capture_device = d
         \/ r.capture_device = aq[q].capture_device /\ r.is_running = aq[q].is_running
  <2>1. CASE AudioQueueReset(q)
    <3>1. aq' = [aq EXCEPT ![q].buffer_queue = <<>>]
      BY <2>1 DEF AudioQueueReset
    <3>2. QED
      BY <1>1, <1>2, <1>4, <3>1 DEF QueueRecords
  <2>2. CASE StopNow(q)
    <3>1. aq' = [aq EXCEPT ![q].buffer_queue = <<>>, ![q].is_running = "Stopped",
                           ![q].capture_device = d]
      BY <1>2, <2>2, Zenon DEF StopNow, QueueRecords
    <3> HIDE DEF d
    <3>2. QED
      BY <1>1, <1>2, <1>3, <1>4, <3>1, Zenon DEF QueueRecords
  <2>3. QED
    BY <2>1, <2>2
<1> HIDE DEF r, d
<1>6. QueueOK(r)
  BY <1>1, <1>2, <1>3, <1>5 DEF QueueOK
<1>7. CASE aq[q].al_source = NoSource
  <2>1. al' = al
    BY <1>1, <1>7 DEF ResetSource
  <2>2. Leads(SourceOf(q).queue, r.buffer_queue)
    BY <1>5, <1>7, QueueFacts DEF NewSource, FreeSource, Leads
  <2>3. QED
    BY <1>1, <1>5, <1>6, <2>1, <2>2, SameSource, GuestStep
<1>8. CASE aq[q].al_source # NoSource
  <2> DEFINE st == SourceStopped(SourceOf(q))
  <2>1. al' = [al EXCEPT ![r.al_source] = Unqueued(st)]
    BY <1>1, <1>5, <1>8, QueueFacts DEF ResetSource, DeviceInv
  <2>2. /\ SourceOK(st) /\ st.queue = SourceOf(q).queue /\ st.state \in {"initial", "stopped"}
        /\ st.state = "initial" => SourceOf(q).state = "initial"
    BY QueueFacts, SourceOps
  <2> HIDE DEF st
  <2>3. SourceOK(Unqueued(st)) /\ Unqueued(st).state # "free"
        /\ (st.state = "stopped" \/ st.queue = <<>> => Unqueued(st).queue = <<>>)
    BY <2>2, UnqueuedOK
  <2>4. QueueStep(q, r, Unqueued(st))
    BY <1>5, <1>6, <1>8, <2>1, <2>3 DEF QueueStep
  <2>5. ~ResetsPrimed => Unqueued(st).queue = <<>>
    BY <1>1, <2>2, <2>3 DEF PrimedOnly
  <2>6. ~ResetsPrimed => Leads(Unqueued(st).queue, r.buffer_queue)
    BY <1>4, <1>5, <2>5, LeadsEmpty
  <2>7. QED
    BY <1>1, <1>5, <2>4, <2>6, GuestStep
<1>9. QED
  BY <1>7, <1>8

LEMMA DisposeStep ==
  ASSUME DeviceInv, NEW q \in AudioQueues, AudioQueueDispose(q) PROVE Kept
<1>1. /\ aq \in [AudioQueues -> QueueRecords] /\ al \in [1 .. MaxSources -> SourceRecords]
      /\ \A p \in AudioQueues : QueueOK(aq[p])
      /\ \A i \in 1 .. MaxSources : SourceOK(al[i])
      /\ Owned /\ NoSource \notin 1 .. MaxSources
  BY AudioAssumption DEF DeviceInv
<1>2. <<>> \in Seq(AqBuffers)
  OBVIOUS
<1>3. QueueOK(NoQueue) /\ NoQueue.al_source = NoSource /\ ~NoQueue.live
      /\ NoQueue.buffer_queue = <<>>
  BY <1>2 DEF QueueOK, QueueRecords, NoQueue
<1>4. aq'[q] = NoQueue /\ \A p \in AudioQueues : p # q => aq'[p] = aq[p]
  BY <1>1 DEF AudioQueueDispose
<1>5. aq' \in [AudioQueues -> QueueRecords] /\ \A p \in AudioQueues : QueueOK(aq'[p])
  <2>1. NoQueue \in QueueRecords
    BY <1>3 DEF QueueOK
  <2>2. QED
    BY <1>1, <1>3, <1>4, <2>1 DEF AudioQueueDispose
<1>6. SourceOK(FreeSource) /\ FreeSource \in SourceRecords /\ FreeSource.state = "free"
  BY <1>2 DEF SourceOK, FreeSource, SourceRecords
<1>7. al' \in [1 .. MaxSources -> SourceRecords] /\ \A i \in 1 .. MaxSources : SourceOK(al'[i])
  BY <1>1, <1>6 DEF AudioQueueDispose
<1>8. \A p \in AudioQueues : aq[p].al_source \in 1 .. MaxSources \cup {NoSource}
  BY <1>1 DEF QueueRecords
<1>9. \A i \in 1 .. MaxSources :
        /\ i = aq[q].al_source => al'[i].state = "free"
        /\ i # aq[q].al_source => al'[i] = al[i]
  BY <1>1, <1>6, <1>8 DEF AudioQueueDispose
<1>10. Owned'
  BY <1>1, <1>3, <1>4, <1>8, <1>9 DEF Owned
<1>11. \A p \in AudioQueues : Keeps(p)
  BY <1>3, <1>4 DEF Keeps
<1>12. handlers' \in Seq(GoodHandlers')
  BY <1>11, HandlersKept DEF AudioQueueDispose
<1>13. DeviceInv'
  BY <1>5, <1>7, <1>10, <1>12 DEF DeviceInv
<1>14. ASSUME Synced, NEW p \in AudioQueues
       PROVE  Leads(SourceOf(p).queue, aq[p].buffer_queue)'
  <2>1. CASE p = q
    BY <1>3, <1>4, <2>1 DEF SourceOf, NewSource, FreeSource, Leads
  <2>2. CASE p # q
    <3>1. SourceOf(p)' = SourceOf(p)
      BY <1>1, <1>4, <1>8, <1>9, <2>2 DEF SourceOf, Owned, NewSource
    <3>2. QED
      BY <1>4, <1>14, <2>2, <3>1 DEF Synced
  <2>3. QED
    BY <2>1, <2>2
<1>15. QED
  BY <1>13, <1>14 DEF Kept, Synced

-----------------------------------------------------------------------------
(* The handlers *)

LEMMA HandleOutputStep ==
  ASSUME DeviceInv, NEW q \in AudioQueues, HandleOutput(q) PROVE Kept
<1> DEFINE s == SourceOf(q)
           bq == aq[q].buffer_queue
           n == Min({Processed(s), Len(bq)})
           r == aq'[q]
           h == Handler(q, SubSeq(bq, 1, n))
<1>1. aq \in [AudioQueues -> QueueRecords] /\ aq[q] \in QueueRecords /\ QueueOK(aq[q])
  BY DEF DeviceInv
<1>2. aq[q].live /\ ~aq[q].is_input /\ aq[q].al_source # NoSource
  BY DEF HandleOutput
<1>3. SourceOK(s) /\ s.state # "free" /\ s.queue \in Seq(AqBuffers)
  BY QueueFacts DEF SourceOK, SourceRecords
<1>4. bq \in Seq(AqBuffers) /\ Len(bq) \in Nat /\ Len(s.queue) \in Nat /\ Processed(s) \in Nat
  BY <1>1, <1>3, UnqueuedOK DEF QueueRecords
<1>5. n \in Nat /\ n = IF Processed(s) <= Len(bq) THEN Processed(s) ELSE Len(bq)
  BY <1>4, MinOfTwo
<1>6. al' = [al EXCEPT ![aq[q].al_source] = Unqueued(s)]
  BY <1>2, QueueFacts DEF HandleOutput, DeviceInv
<1>7. /\ aq' = [aq EXCEPT ![q].is_running_handler = TRUE,
                          ![q].buffer_queue = SubSeq(bq, n + 1, Len(bq))]
      /\ handlers' = <<h>> \o handlers
  BY <1>1, Zenon DEF HandleOutput, QueueRecords
<1> HIDE DEF s, bq, n
<1>8. SubSeq(bq, n + 1, Len(bq)) \in Seq(AqBuffers) /\ SubSeq(bq, 1, n) \in Seq(AqBuffers)
  <2>1. n <= Len(bq)
    BY <1>4, <1>5
  <2>2. QED
    BY <1>4, <1>5, <2>1
<1>9. /\ r \in QueueRecords /\ aq' = [aq EXCEPT ![q] = r]
      /\ r.live /\ r.is_input = aq[q].is_input /\ r.al_source = aq[q].al_source
      /\ r.buffer_queue = SubSeq(bq, n + 1, Len(bq)) /\ r.capture_device = aq[q].capture_device
      /\ r.is_running = aq[q].is_running
  BY <1>1, <1>2, <1>7, <1>8, Zenon DEF QueueRecords
<1> HIDE DEF r
<1>10. QueueOK(r)
  BY <1>1, <1>2, <1>9 DEF QueueOK
<1>11. /\ SourceOK(Unqueued(s)) /\ Unqueued(s).state # "free"
       /\ Unqueued(s).queue = SubSeq(s.queue, Processed(s) + 1, Len(s.queue))
  BY <1>3, UnqueuedOK
<1>12. QueueStep(q, r, Unqueued(s))
  BY <1>2, <1>6, <1>9, <1>10, <1>11 DEF QueueStep
<1>13. Leads(s.queue, bq) => Leads(Unqueued(s).queue, r.buffer_queue)
  <2> SUFFICES ASSUME Leads(s.queue, bq) PROVE Leads(Unqueued(s).queue, r.buffer_queue)
    OBVIOUS
  <2>1. CASE Processed(s) <= Len(s.queue)
    <3>1. n = Processed(s)
      BY <1>4, <1>5, <2>1 DEF Leads
    <3>2. QED
      BY <1>3, <1>4, <1>9, <1>11, <2>1, <3>1, LeadsCut
  <2>2. CASE ~(Processed(s) <= Len(s.queue))
    <3>1. Unqueued(s).queue = <<>>
      BY <1>3, <1>4, <1>11, <2>2
    <3>2. QED
      BY <1>8, <1>9, <3>1, LeadsEmpty
  <2>3. QED
    BY <2>1, <2>2
<1>14. \A p \in AudioQueues : Keeps(p)
  BY <1>1, <1>2, <1>9 DEF Keeps
<1>15. handlers \in Seq(GoodHandlers')
  BY <1>14, HandlersKept
<1>16. aq'[q] = r
  BY <1>1, <1>9
<1>17. h \in GoodHandlers'
  BY <1>1, <1>2, <1>8, <1>9, <1>16 DEF GoodHandlers, Handler, QueueRecords
<1>18. handlers' \in Seq(GoodHandlers')
  BY <1>7, <1>15, <1>17
<1>19. QED
  BY <1>12, <1>13, <1>18, Stepped DEF s, bq

LEMMA HandleInputStep ==
  ASSUME DeviceInv, NEW q \in AudioQueues, HandleInput(q) PROVE Kept
<1> DEFINE bq == aq[q].buffer_queue
           r == aq'[q]
<1>1. aq \in [AudioQueues -> QueueRecords] /\ aq[q] \in QueueRecords /\ QueueOK(aq[q])
  BY DEF DeviceInv
<1>2. aq[q].live /\ aq[q].is_input /\ al' = al
  BY DEF HandleInput
<1>3. PICK n \in 0 .. Len(bq) :
        /\ aq' = [aq EXCEPT ![q].is_running_handler = TRUE,
                            ![q].buffer_queue = SubSeq(bq, n + 1, Len(bq))]
        /\ handlers' = <<Handler(q, SubSeq(bq, 1, n))>> \o handlers
  BY <1>1, Zenon DEF HandleInput, QueueRecords
<1>4. bq \in Seq(AqBuffers)
  BY <1>1 DEF QueueRecords
<1>5. SubSeq(bq, n + 1, Len(bq)) \in Seq(AqBuffers) /\ SubSeq(bq, 1, n) \in Seq(AqBuffers)
  BY <1>3, <1>4
<1> HIDE DEF bq
<1>6. /\ r \in QueueRecords /\ aq' = [aq EXCEPT ![q] = r]
      /\ r.live /\ r.is_input = aq[q].is_input /\ r.al_source = aq[q].al_source
      /\ r.buffer_queue = SubSeq(bq, n + 1, Len(bq)) /\ r.capture_device = aq[q].capture_device
      /\ r.is_running = aq[q].is_running
  BY <1>1, <1>2, <1>3, <1>5, Zenon DEF QueueRecords
<1> HIDE DEF r
<1>7. QueueOK(r) /\ aq[q].al_source = NoSource
  BY <1>1, <1>2, <1>6 DEF QueueOK
<1>8. QueueStep(q, r, SourceOf(q))
  BY <1>2, <1>6, <1>7, SameSource
<1>9. Leads(SourceOf(q).queue, r.buffer_queue)
  <2>1. SourceOf(q).queue = <<>>
    BY <1>7 DEF SourceOf, NewSource, FreeSource
  <2>2. QED
    BY <1>5, <1>6, <2>1, LeadsEmpty
<1>10. \A p \in AudioQueues : Keeps(p)
  BY <1>1, <1>2, <1>6 DEF Keeps
<1>11. handlers \in Seq(GoodHandlers')
  BY <1>10, HandlersKept
<1>12. aq'[q] = r
  BY <1>1, <1>6
<1>13. Handler(q, SubSeq(bq, 1, n)) \in GoodHandlers'
  BY <1>1, <1>2, <1>5, <1>6, <1>12 DEF GoodHandlers, Handler, QueueRecords
<1>14. handlers' \in Seq(GoodHandlers')
  BY <1>3, <1>11, <1>13
<1>15. QED
  BY <1>8, <1>9, <1>14, Stepped

(* Steps of a handler that touch only the handler. *)
LEMMA HandlerStep ==
  ASSUME DeviceInv, CallBack \/ CallbackReturns \/ HandlerEndsDisposed
  PROVE  Kept
<1> DEFINE h == Head(handlers)
<1>1. aq' = aq /\ al' = al /\ handlers # <<>> /\ handlers \in Seq(GoodHandlers)
  BY DEF DeviceInv, CallBack, CallbackReturns, HandlerEndsDisposed, InHandler
<1>2. GoodHandlers' = GoodHandlers
  BY <1>1 DEF GoodHandlers
<1>3. h \in GoodHandlers /\ Tail(handlers) \in Seq(GoodHandlers)
  BY <1>1
<1>4. handlers' \in Seq(GoodHandlers)
  <2>1. CASE HandlerEndsDisposed
    BY <1>3, <2>1 DEF HandlerEndsDisposed, PopHandler
  <2>2. CASE CallbackReturns
    <3>1. [h EXCEPT !.calling = FALSE] \in GoodHandlers
      BY <1>3 DEF GoodHandlers
    <3>2. handlers' = <<[h EXCEPT !.calling = FALSE]>> \o Tail(handlers)
      BY <2>2 DEF CallbackReturns
    <3>3. QED
      BY <1>3, <3>1, <3>2
  <2>3. CASE CallBack
    <3> DEFINE todo == Tail(h.todo)
               k == [h EXCEPT !.todo = todo, !.calling = TRUE]
    <3>1. h.todo # <<>> /\ handlers' = <<k>> \o Tail(handlers)
      BY <2>3, Zenon DEF CallBack
    <3>2. todo \in Seq(AqBuffers)
      BY <1>3, <3>1 DEF GoodHandlers
    <3> HIDE DEF todo
    <3>3. k \in GoodHandlers
      BY <1>3, <3>2, Zenon DEF GoodHandlers
    <3> HIDE DEF k
    <3>4. QED
      BY <1>3, <3>1, <3>3
  <2>4. QED
    BY <2>1, <2>2, <2>3
<1>5. DeviceInv'
  BY <1>1, <1>2, <1>4 DEF DeviceInv, Owned
<1>6. Synced => Synced'
  BY <1>1 DEF Synced, SourceOf, NewSource, FreeSource
<1>7. QED
  BY <1>5, <1>6 DEF Kept

LEMMA HandlerEndsStep == ASSUME DeviceInv, HandlerEnds PROVE Kept
<1> DEFINE q == Head(handlers).q
           r == aq'[q]
<1>1. /\ handlers # <<>> /\ handlers \in Seq(GoodHandlers)
      /\ aq \in [AudioQueues -> QueueRecords]
  BY DEF DeviceInv, HandlerEnds, InHandler
<1>2. Head(handlers) \in GoodHandlers
  BY <1>1
<1>3. q \in AudioQueues
  BY <1>2 DEF GoodHandlers
<1>4. /\ aq[q].live /\ aq' = [aq EXCEPT ![q].is_running_handler = FALSE] /\ al' = al
      /\ handlers' = Tail(handlers)
  BY DEF HandlerEnds, PopHandler
<1> HIDE DEF q
<1>5. aq[q] \in QueueRecords /\ QueueOK(aq[q])
  BY <1>3 DEF DeviceInv
<1>6. /\ r \in QueueRecords /\ aq' = [aq EXCEPT ![q] = r]
      /\ r.live /\ r.is_input = aq[q].is_input /\ r.al_source = aq[q].al_source
      /\ r.buffer_queue = aq[q].buffer_queue /\ r.capture_device = aq[q].capture_device
      /\ r.is_running = aq[q].is_running
  BY <1>1, <1>3, <1>4, <1>5 DEF QueueRecords
<1> HIDE DEF r
<1>7. QueueOK(r)
  BY <1>4, <1>5, <1>6 DEF QueueOK
<1>8. QueueStep(q, r, SourceOf(q))
  BY <1>3, <1>4, <1>6, <1>7, SameSource
<1>9. \A p \in AudioQueues : Keeps(p)
  BY <1>1, <1>3, <1>4, <1>6 DEF Keeps
<1>10. handlers \in Seq(GoodHandlers')
  BY <1>9, HandlersKept
<1>11. handlers' \in Seq(GoodHandlers')
  BY <1>1, <1>4, <1>10
<1>12. QED
  BY <1>3, <1>6, <1>8, <1>11, Stepped

LEMMA RefillStep == ASSUME DeviceInv, RefillAndRestart PROVE Kept
<1> DEFINE h == Head(handlers)
           q == h.q
           r == aq'[q]
<1>1. /\ handlers # <<>> /\ handlers \in Seq(GoodHandlers)
      /\ aq \in [AudioQueues -> QueueRecords]
  BY DEF DeviceInv, RefillAndRestart, InHandler
<1>2. h \in GoodHandlers /\ Tail(handlers) \in Seq(GoodHandlers)
  BY <1>1
<1>3. q \in AudioQueues /\ aq[q].live /\ ~h.input
  BY <1>2 DEF GoodHandlers, RefillAndRestart
<1>4. ~aq[q].is_input /\ aq[q].al_source # NoSource
  BY <1>2, <1>3 DEF GoodHandlers
<1>5. PICK f \in Refills(SourceOf(q), aq[q].buffer_queue) :
        LET r1 == Restarted(h, f)
            stops == h.running = "Stopping" /\ r1.state = "stopped"
        IN
        /\ al' = [al EXCEPT ![aq[q].al_source] = IF stops THEN Unqueued(r1) ELSE r1]
        /\ IF stops
           THEN /\ aq' = [aq EXCEPT ![q].buffer_queue = <<>>, ![q].is_running = "Stopped"]
                /\ handlers' = <<[h EXCEPT !.calling = TRUE, !.notified = TRUE]>>
                                 \o Tail(handlers)
           ELSE /\ aq' = [aq EXCEPT ![q].is_running_handler = FALSE]
                /\ PopHandler
  BY Zenon DEF RefillAndRestart
<1> DEFINE g == Restarted(h, f)
<1>6. aq[q] \in QueueRecords /\ QueueOK(aq[q]) /\ aq[q].capture_device = "none"
      /\ aq[q].buffer_queue \in Seq(AqBuffers)
  BY <1>3, <1>4 DEF DeviceInv, QueueOK, QueueRecords
<1>7. /\ SourceOK(f) /\ f.state # "free"
      /\ Leads(SourceOf(q).queue, aq[q].buffer_queue) => Leads(f.queue, aq[q].buffer_queue)
  BY <1>3, <1>6, QueueFacts, RefillsOK
<1>8. SourceOK(g) /\ g.state # "free" /\ g.queue = f.queue
  BY <1>7, SourceOps DEF Restarted
<1>9. \A S, T : S \subseteq T => Seq(S) \subseteq Seq(T)
  OBVIOUS
<1>10. CASE h.running = "Stopping" /\ g.state = "stopped"
  <2> DEFINE k == [h EXCEPT !.calling = TRUE, !.notified = TRUE]
  <2>1. /\ al' = [al EXCEPT ![aq[q].al_source] = Unqueued(g)]
        /\ aq' = [aq EXCEPT ![q].buffer_queue = <<>>, ![q].is_running = "Stopped"]
        /\ handlers' = <<k>> \o Tail(handlers)
    BY <1>5, <1>10, Zenon
  <2>2. k \in GoodHandlers
    BY <1>2, Zenon DEF GoodHandlers
  <2> HIDE DEF g, q, k
  <2>3. <<>> \in Seq(AqBuffers)
    OBVIOUS
  <2>4. /\ r \in QueueRecords /\ aq' = [aq EXCEPT ![q] = r]
        /\ r.live /\ r.is_input = aq[q].is_input /\ r.al_source = aq[q].al_source
        /\ r.buffer_queue = <<>> /\ r.capture_device = aq[q].capture_device
    BY <1>1, <1>3, <1>6, <2>1, <2>3, Zenon DEF QueueRecords
  <2> HIDE DEF r
  <2>5. QueueOK(r)
    BY <1>3, <1>4, <1>6, <2>4 DEF QueueOK
  <2>6. SourceOK(Unqueued(g)) /\ Unqueued(g).state # "free" /\ Unqueued(g).queue = <<>>
    BY <1>8, <1>10, UnqueuedOK
  <2>7. QueueStep(q, r, Unqueued(g))
    BY <1>4, <2>1, <2>4, <2>5, <2>6 DEF QueueStep
  <2>8. Leads(Unqueued(g).queue, r.buffer_queue)
    BY <2>3, <2>4, <2>6, LeadsEmpty
  <2>9. \A p \in AudioQueues : Keeps(p)
    BY <1>1, <1>3, <2>4 DEF Keeps
  <2>10. GoodHandlers \subseteq GoodHandlers'
    BY <2>9 DEF GoodHandlers, Keeps
  <2>11. k \in GoodHandlers' /\ Tail(handlers) \in Seq(GoodHandlers')
    BY <1>2, <1>9, <2>2, <2>10
  <2>12. handlers' \in Seq(GoodHandlers')
    BY <2>1, <2>11
  <2>13. QED
    BY <1>3, <2>7, <2>8, <2>12, Stepped
<1>11. CASE ~(h.running = "Stopping" /\ g.state = "stopped")
  <2>1. /\ al' = [al EXCEPT ![aq[q].al_source] = g]
        /\ aq' = [aq EXCEPT ![q].is_running_handler = FALSE]
        /\ handlers' = Tail(handlers)
    BY <1>5, <1>11, Zenon DEF PopHandler
  <2> HIDE DEF g, q
  <2>2. /\ r \in QueueRecords /\ aq' = [aq EXCEPT ![q] = r]
        /\ r.live /\ r.is_input = aq[q].is_input /\ r.al_source = aq[q].al_source
        /\ r.buffer_queue = aq[q].buffer_queue /\ r.capture_device = aq[q].capture_device
    BY <1>1, <1>3, <1>6, <2>1 DEF QueueRecords
  <2> HIDE DEF r
  <2>3. QueueOK(r)
    BY <1>3, <1>4, <1>6, <2>2 DEF QueueOK
  <2>4. QueueStep(q, r, g)
    BY <1>4, <1>8, <2>1, <2>2, <2>3 DEF QueueStep
  <2>5. \A p \in AudioQueues : Keeps(p)
    BY <1>1, <1>3, <2>2 DEF Keeps
  <2>6. handlers \in Seq(GoodHandlers')
    BY <2>5, HandlersKept
  <2>7. handlers' \in Seq(GoodHandlers')
    BY <1>1, <2>1, <2>6
  <2>8. QED
    BY <1>3, <1>7, <1>8, <2>2, <2>4, <2>7, Stepped
<1>12. QED
  BY <1>10, <1>11

-----------------------------------------------------------------------------
LEMMA AudioStep == ASSUME DeviceInv, [AudioNext]_audioVars PROVE Kept
<1>1. CASE UNCHANGED audioVars
  <2>1. GoodHandlers' = GoodHandlers
    BY <1>1 DEF GoodHandlers, audioVars
  <2>2. DeviceInv'
    BY <1>1, <2>1 DEF DeviceInv, Owned, audioVars
  <2>3. Synced => Synced'
    BY <1>1 DEF Synced, SourceOf, NewSource, FreeSource, audioVars
  <2>4. QED
    BY <2>2, <2>3 DEF Kept
<1>2. CASE AudioNext
  BY <1>2, PlayStep, NewStep, BufferStep, PrimeStep, RecordStep, PauseStep, ResetStep,
     DisposeStep, HandleOutputStep, HandleInputStep, HandlerStep, HandlerEndsStep, RefillStep
     DEF AudioNext
<1>3. QED
  BY <1>1, <1>2

LEMMA AudioStart == AudioInit => DeviceInv /\ Synced
<1> SUFFICES ASSUME AudioInit PROVE DeviceInv /\ Synced
  OBVIOUS
<1>1. <<>> \in Seq(AqBuffers) /\ <<>> \in Seq(GoodHandlers)
  OBVIOUS
<1>2. QueueOK(NoQueue) /\ NoQueue \in QueueRecords /\ NoQueue.al_source = NoSource
      /\ NoQueue.buffer_queue = <<>>
  BY <1>1 DEF QueueOK, QueueRecords, NoQueue
<1>3. SourceOK(FreeSource) /\ FreeSource \in SourceRecords /\ FreeSource.state = "free"
  BY <1>1 DEF SourceOK, FreeSource, SourceRecords
<1>4. DeviceInv
  BY <1>1, <1>2, <1>3 DEF DeviceInv, AudioInit, Owned
<1>5. Synced
  BY <1>2 DEF Synced, AudioInit, SourceOf, NewSource, FreeSource, Leads
<1>6. QED
  BY <1>4, <1>5

(* Through prime, start, stop, dispose and the handlers' callbacks, every   *)
(* OpenAL source in use belongs to exactly one live queue, and the         *)
(* microphone records only for a running one (audio_queue.rs).             *)
THEOREM AudioDevicesOwned == AudioSpec => []DevicesOwned
<1>1. DeviceInv /\ [AudioNext]_audioVars => DeviceInv'
  BY AudioStep DEF Kept
<1>2. DeviceInv => DevicesOwned
  <2> SUFFICES ASSUME DeviceInv PROVE DevicesOwned
    OBVIOUS
  <2>1. \A q \in AudioQueues : QueueOK(aq[q])
    BY DEF DeviceInv
  <2>2. ASSUME NEW i \in 1 .. MaxSources, al[i] # FreeSource
        PROVE  \E q \in AudioQueues :
                 /\ aq[q].live /\ aq[q].al_source = i
                 /\ \A p \in AudioQueues : aq[p].al_source = i => p = q
    <3>1. al[i].state # "free" /\ i # NoSource
      BY <2>2, AudioAssumption DEF DeviceInv, SourceOK
    <3>2. PICK q \in AudioQueues : aq[q].al_source = i
      BY <3>1 DEF DeviceInv, Owned
    <3>3. aq[q].live
      BY <2>1, <3>1, <3>2 DEF QueueOK
    <3>4. \A p \in AudioQueues : aq[p].al_source = i => p = q
      BY <3>1, <3>2 DEF DeviceInv, Owned
    <3>5. QED
      BY <3>2, <3>3, <3>4
  <2>3. \A q \in AudioQueues :
          aq[q].capture_device = "recording" => aq[q].live /\ aq[q].is_running = "Running"
    BY <2>1 DEF QueueOK
  <2>4. QED
    BY <2>2, <2>3 DEF DevicesOwned
<1>3. QED
  BY <1>1, <1>2, AudioStart, PTL DEF AudioSpec

(* OpenAL's queue of a source is always the first part of buffer_queue, as  *)
(* the comment at audio_queue.rs:75 demands, for a guest that does not     *)
(* reset or stop a queue that it primed and has not started.               *)
THEOREM AudioQueuesInSync ==
  ASSUME ~ResetsPrimed
  PROVE  AudioSpec => []QueuesInSync
<1>1. DeviceInv /\ Synced /\ [AudioNext]_audioVars => (DeviceInv /\ Synced)'
  BY AudioStep DEF Kept
<1>2. DeviceInv /\ Synced => QueuesInSync
  <2> SUFFICES ASSUME DeviceInv, Synced, NEW q \in AudioQueues
               PROVE  IsPrefix(SourceOf(q).queue, aq[q].buffer_queue)
    BY DEF QueuesInSync
  <2>1. SourceOf(q).queue \in Seq(AqBuffers) /\ aq[q].buffer_queue \in Seq(AqBuffers)
    BY QueueFacts DEF SourceOK, SourceRecords, QueueRecords
  <2>2. QED
    BY <2>1, LeadsIsPrefix DEF Synced
<1>3. QED
  BY <1>1, <1>2, AudioStart, PTL DEF AudioSpec
=============================================================================
