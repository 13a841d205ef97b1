----------------------------- MODULE GuestClock -----------------------------
(***************************************************************************)
(* Game time (src/guest_clock.rs) and the three users of it that decide    *)
(* when a guest thread runs again: `sleep_guest`, the timed condition wait *)
(* and the scheduler's own host sleep (src/environment.rs).                *)
(*                                                                         *)
(* Units.  Host instants are whole host ticks.  The slowest speed is 1/4,  *)
(* so guest instants are counted in quarters of a tick: one host tick is   *)
(* worth Num(speed) \in {1, 2, 4, 8, 16} guest units, with no rounding.    *)
(***************************************************************************)
EXTENDS Integers

CONSTANTS
  MaxHost,       \* bound: the last host tick a behaviour looks at
  Threads,       \* guest threads that sleep
  Durations      \* guest units a thread asks to sleep or wait for

ASSUME MaxHostAssumption == MaxHost \in Nat
ASSUME DurationsAssumption == Durations \subseteq Nat

VARIABLES
  host,          \* Instant::now(), and the host's wall clock with it
  host_anchor,   \* GuestClock::host_anchor
  guest_anchor,  \* GuestClock::guest_anchor
  wall_anchor,   \* GuestClock::wall_anchor
  speed,         \* GuestClock::speed
  blocked_by,    \* per thread: not blocked, GuestSleeping(due) or Condition(_, deadline)
  phase,         \* where Environment::run is: "loop" top, "guest" code, "sched"uler
  ideal          \* history: guest units that have really elapsed, tick by tick

clockVars == <<host_anchor, guest_anchor, wall_anchor, speed>>
vars == <<host, clockVars, blocked_by, phase, ideal>>

-----------------------------------------------------------------------------
(* Speed *)

(* Positions in Speed::ALL: Quarter, Half, Normal, Double, Quadruple. *)
Speed == 1 .. 5
Normal == 3

(* Guest units per host tick: four times Speed::multiplier. *)
Num(s) == IF s = 1 THEN 1 ELSE IF s = 2 THEN 2 ELSE IF s = 3 THEN 4
          ELSE IF s = 4 THEN 8 ELSE 16

(* The trainer's buttons move one entry along Speed::ALL and stop at its ends. *)
Step(s, faster) ==
  IF faster THEN (IF s < 5 THEN s + 1 ELSE 5)
            ELSE (IF s > 1 THEN s - 1 ELSE 1)

-----------------------------------------------------------------------------
(* GuestClock *)

ElapsedAt(h) == (h - host_anchor) * Num(speed)

Now == guest_anchor + ElapsedAt(host)

SystemTime == wall_anchor + ElapsedAt(host)

(* The host's own wall clock, in the same units as SystemTime. *)
HostSystemTime == 4 * host

(* Mutant: the wall clock is not rebased. *)
SetSpeedForgetsWall(s) ==
  /\ guest_anchor' = guest_anchor + ElapsedAt(host)
  /\ host_anchor' = host
  /\ speed' = s
  /\ UNCHANGED wall_anchor

(* Mutant: only the speed is changed, the past is rescaled with it. *)
SetSpeedNoRebase(s) ==
  /\ speed' = s
  /\ UNCHANGED <<host_anchor, guest_anchor, wall_anchor>>

(* Mutant: the host anchor moves, the time it stood for is dropped. *)
SetSpeedDropsElapsed(s) ==
  /\ host_anchor' = host
  /\ speed' = s
  /\ UNCHANGED <<guest_anchor, wall_anchor>>

SetSpeed(s) ==
  /\ guest_anchor' = guest_anchor + ElapsedAt(host)
  /\ wall_anchor' = wall_anchor + ElapsedAt(host)
  /\ host_anchor' = host
  /\ speed' = s

(* Mutant: the remaining game time is taken for host time. *)
HostDeadlineUnscaled(due) ==
  LET remaining == IF due > Now THEN due - Now ELSE 0
  IN  host + ((remaining + 3) \div 4)

(* The first host tick at which the remaining guest time has passed. *)
HostDeadline(due) ==
  LET remaining == IF due > Now THEN due - Now ELSE 0
  IN  host + ((remaining + Num(speed) - 1) \div Num(speed))

-----------------------------------------------------------------------------
(* Blocks that end by the passing of time *)

NotBlocked == [kind |-> "NotBlocked", due |-> 0]
GuestSleeping(d) == [kind |-> "GuestSleeping", due |-> d]
Condition(d) == [kind |-> "Condition", due |-> d]

(* Mutant: a game-time deadline is compared with the host clock. *)
DueByHostClock(t) ==
  \/ blocked_by[t].kind = "NotBlocked"
  \/ blocked_by[t].due <= HostSystemTime

(* schedule_next_thread: a sleep ends by game time, a timed condition wait  *)
(* by the host's SystemTime::now().                                        *)
Due(t) ==
  \/ blocked_by[t].kind = "NotBlocked"
  \/ blocked_by[t].kind = "GuestSleeping" /\ blocked_by[t].due <= Now
  \/ blocked_by[t].kind = "Condition" /\ blocked_by[t].due <= HostSystemTime

(* The host instant schedule_next_thread would sleep until for thread t. *)
Awakening(t) ==
  IF blocked_by[t].kind = "GuestSleeping"
  THEN HostDeadline(blocked_by[t].due)
  ELSE (blocked_by[t].due + 3) \div 4

Init ==
  /\ host = 0
  /\ host_anchor = 0 /\ guest_anchor = 0 /\ wall_anchor = 0
  /\ speed = Normal
  /\ blocked_by = [t \in Threads |-> NotBlocked]
  /\ phase = "loop"
  /\ ideal = 0

(* The top of the main loop takes a pending speed request, if any. *)
TakeSpeedRequest(faster) ==
  /\ phase = "loop"
  /\ SetSpeed(Step(speed, faster))
  /\ UNCHANGED <<host, blocked_by, phase, ideal>>

Resume ==
  /\ phase = "loop"
  /\ phase' = "guest"
  /\ UNCHANGED <<host, clockVars, blocked_by, ideal>>

(* Host time passes while guest code runs. *)
Tick ==
  /\ phase = "guest" /\ host < MaxHost
  /\ host' = host + 1
  /\ ideal' = ideal + Num(speed)
  /\ UNCHANGED <<clockVars, blocked_by, phase>>

SleepGuest(t, d) ==
  /\ phase = "guest" /\ blocked_by[t] = NotBlocked
  /\ blocked_by' = [blocked_by EXCEPT ![t] = GuestSleeping(Now + d)]
  /\ phase' = "sched"
  /\ UNCHANGED <<host, clockVars, ideal>>

(* The guest reads the time with gettimeofday and adds its timeout. *)
TimedWait(t, d) ==
  /\ phase = "guest" /\ blocked_by[t] = NotBlocked
  /\ blocked_by' = [blocked_by EXCEPT ![t] = Condition(SystemTime + d)]
  /\ phase' = "sched"
  /\ UNCHANGED <<host, clockVars, ideal>>

(* The tick budget of the batch is used up. *)
Yield ==
  /\ phase = "guest"
  /\ phase' = "sched"
  /\ UNCHANGED <<host, clockVars, blocked_by, ideal>>

(* schedule_next_thread returns a thread that may run. *)
Schedule(t) ==
  /\ phase = "sched" /\ Due(t)
  /\ blocked_by' = [blocked_by EXCEPT ![t] = NotBlocked]
  /\ phase' = "loop"
  /\ UNCHANGED <<host, clockVars, ideal>>

(* Nobody may run: the host sleeps until the earliest awakening. *)
HostSleep ==
  /\ phase = "sched"
  /\ \A t \in Threads : ~Due(t)
  /\ \E t \in Threads :
       /\ \A u \in Threads : Awakening(t) <= Awakening(u)
       /\ Awakening(t) <= MaxHost
       /\ host' = Awakening(t)
       /\ ideal' = ideal + (Awakening(t) - host) * Num(speed)
  /\ UNCHANGED <<clockVars, blocked_by, phase>>

(* The bound on host time is reached: the behaviour is not followed further. *)
Horizon ==
  /\ \/ phase = "guest" /\ host = MaxHost
     \/ phase = "sched" /\ \A t \in Threads : ~Due(t) /\ Awakening(t) > MaxHost
  /\ UNCHANGED vars

Next ==
  \/ \E faster \in BOOLEAN : TakeSpeedRequest(faster)
  \/ Resume \/ Tick \/ Yield \/ HostSleep \/ Horizon
  \/ \E t \in Threads, d \in Durations : SleepGuest(t, d)
  \/ \E t \in Threads, d \in Durations : TimedWait(t, d)
  \/ \E t \in Threads : Schedule(t)

Spec == Init /\ [][Next]_vars

-----------------------------------------------------------------------------
(* Properties *)

Block == [kind : {"NotBlocked", "GuestSleeping", "Condition"}, due : Nat]

(* Type invariant: anchors never lie in the future of the host clock. *)
TypeOK ==
  /\ host \in Nat /\ host_anchor \in Nat /\ host_anchor <= host
  /\ guest_anchor \in Nat /\ wall_anchor \in Nat /\ ideal \in Nat
  /\ speed \in Speed
  /\ blocked_by \in [Threads -> Block]
  /\ phase \in {"loop", "guest", "sched"}

(* However often the player changes speed, the guest clock reads exactly    *)
(* the sum of what every host tick was worth at the speed it ran at: the   *)
(* rebasing in set_speed_at neither loses nor repeats time.                *)
Continuity == Now = ideal

(* The guest's monotonic and wall clocks advance in lockstep. *)
Lockstep == Now = SystemTime

(* No step, speed changes included, moves a guest clock backwards. *)
Monotonic == [][Now' >= Now /\ SystemTime' >= SystemTime]_vars

(* A thread in sleep_guest is not made runnable before the game time it     *)
(* asked for, whatever speeds the sleep lived through.                     *)
NoEarlyWake ==
  [][\A t \in Threads :
       (blocked_by[t].kind = "GuestSleeping" /\ blocked_by'[t] = NotBlocked)
         => blocked_by[t].due <= Now]_vars

(* The scheduler's host sleep ends exactly when somebody becomes due: it    *)
(* wakes up for somebody and not a tick later than the first one.          *)
SleepsExactly ==
  [][(phase = "sched" /\ host' > host) =>
       /\ \E t \in Threads : Due(t)'
       /\ \A t \in Threads : blocked_by[t].kind = "GuestSleeping" =>
            guest_anchor + ElapsedAt(host' - 1) < blocked_by[t].due]_vars

(* What the comment on host_deadline asks of scheduler deadlines: a timed   *)
(* condition wait, whose deadline the guest computed from its own clock,   *)
(* is not ended before that clock reaches it.                              *)
TimedWaitUsesGuestTime ==
  [][\A t \in Threads :
       (blocked_by[t].kind = "Condition" /\ blocked_by'[t] = NotBlocked)
         => blocked_by[t].due <= SystemTime]_vars
=============================================================================
