------------------------------- MODULE RunLoop ------------------------------
(***************************************************************************)
(* Run loops, timers and the selectors performed on other threads          *)
(* (ns_run_loop.rs, ns_timer.rs, ns_object.rs).  Every thread has one run  *)
(* loop; it may run it again from inside a timer's callback.               *)
(*                                                                         *)
(* Host code is not interrupted: other threads run while a thread is in    *)
(* guest code (outside the loop or in a callback), asleep, or waiting for  *)
(* a semaphore.  Only the timers of a run loop are modelled; events, audio *)
(* and ports have no part in them.  The guest adds a timer to one run loop *)
(* only, and not once it is invalid.                                       *)
(***************************************************************************)
EXTENDS Integers, Sequences, FiniteSets, SequencesExt, FiniteSetsExt

CONSTANTS
  LoopThreads,     \* guest threads
  PerformThreads,  \* those on which other threads perform selectors
  Timers,          \* addresses of NSTimer objects, used again after dealloc
  Interval,        \* the interval of the guest's own timers
  MaxLate,         \* bound: how late a timer is seen to be
  Runners,         \* bound: the threads that run their loops and call -fire
  MaxRuns          \* bound: runs of a loop and calls of -fire nested on a thread

CONSTANTS NoTimer, Nobody

ASSUME LoopAssumption ==
  /\ PerformThreads \subseteq Runners /\ Runners \subseteq LoopThreads
  /\ NoTimer \notin Timers /\ Nobody \notin LoopThreads
  /\ Interval \in Nat \ {0} /\ MaxLate \in Nat
  /\ MaxRuns \in Nat

VARIABLES
  timer,       \* NSTimerHostObject of each address; see FreeTimer
  timers,      \* NSRunLoopHostObject::timers of each thread's run loop
  stop,        \* NSRunLoopHostObject::stopped
  runs,        \* run_run_loop and -fire calls of each thread, innermost last
  semaphores,  \* SYNC_PERFORM_SEMAPHORES: <<timer, thread that waits>>
  waits,       \* the threads inside sem_wait of a performed selector
  posted       \* those whose semaphore has been posted

loopVars == <<timer, timers, stop, runs, semaphores, waits, posted>>

(* A timer: due in `left` ticks of the guest clock when valid (due_by is   *)
(* Some), `loop` its run_loop; refs its reference count, guest whether one *)
(* reference is the guest's (or its autorelease pool's), fires how often a *)
(* run loop called it back.                                                *)
FreeTimer ==
  [live |-> FALSE, repeats |-> FALSE, perform |-> FALSE, valid |-> FALSE, left |-> 0,
   loop |-> Nobody, is_running_callback |-> FALSE, refs |-> 0, guest |-> FALSE,
   fires |-> 0]

NewTimer(repeats, perform, left) ==
  [FreeTimer EXCEPT !.live = TRUE, !.repeats = repeats, !.perform = perform,
                    !.valid = TRUE, !.left = left, !.refs = 1, !.guest = TRUE]

(* A frame: mode "single", "run" and "until" for the ways to run a loop,    *)
(* "fire" for -fire; phase "iterate" in host code, "callback" or "sleep";   *)
(* tmp the timers of this pass still to be handled; timer the one called   *)
(* back; post the thread whose semaphore the callback will post.           *)
Frame(mode, phase, tmp, tm) ==
  [mode |-> mode, phase |-> phase, tmp |-> tmp, timer |-> tm, post |-> Nobody]

Phase(t) == IF runs[t] = <<>> THEN "callback" ELSE Last(runs[t]).phase

(* t runs guest code and no other thread is in the middle of host code. *)
InGuest(t) ==
  /\ t \notin waits /\ Phase(t) = "callback"
  /\ \A u \in LoopThreads : Phase(u) # "iterate"

MayRun(t) == t \in Runners /\ Len(runs[t]) < MaxRuns

Push(t, frame) == runs' = [runs EXCEPT ![t] = Append(@, frame)]
Top(t, frame) == runs' = [runs EXCEPT ![t] = ReplaceAt(@, Len(@), frame)]
Pop(t) == runs' = [runs EXCEPT ![t] = Front(@)]

-----------------------------------------------------------------------------
(* Reference counts and -invalidate, on the record of a timer. *)

Retained(tm) == [tm EXCEPT !.refs = @ + 1]

(* The last release sends dealloc. *)
Released(tm, n) == IF tm.refs <= n THEN FreeTimer ELSE [tm EXCEPT !.refs = @ - n]

Invalidated(tm) == [tm EXCEPT !.valid = FALSE, !.loop = Nobody]

(* -invalidate, and `more` releases after it: remove_timer takes the timer *)
(* out of the run loop it knows and gives up the loop's reference.         *)
Invalidate(x, tm, more) ==
  LET held == tm.loop # Nobody /\ x \in timers[tm.loop] IN
  /\ timer' = [timer EXCEPT ![x] =
       Released(Invalidated(tm), more + (IF held THEN 1 ELSE 0))]
  /\ timers' = IF held THEN [timers EXCEPT ![tm.loop] = @ \ {x}] ELSE timers

-----------------------------------------------------------------------------
(* The guest's timers.  t may use those it owns and the one it is called   *)
(* back for.                                                               *)

Knows(t, x) ==
  /\ timer[x].live /\ ~timer[x].perform
  /\ timer[x].guest \/ \E i \in DOMAIN runs[t] : runs[t][i].timer = x

Sync == UNCHANGED <<semaphores, waits, posted>>

timerWithTimeInterval(t, x, repeats) ==
  /\ InGuest(t) /\ ~timer[x].live
  /\ timer' = [timer EXCEPT ![x] = NewTimer(repeats, FALSE, Interval)]
  /\ UNCHANGED <<timers, stop, runs>> /\ Sync

(* Mutant: a timer that is in the loop is retained again. *)
AddTimerRetainsAgain(x, tm, u) ==
  /\ timer' = [timer EXCEPT ![x] = [Retained(tm) EXCEPT !.loop = u]]
  /\ timers' = [timers EXCEPT ![u] = @ \cup {x}]

(* -addTimer:forMode: on the record and the list *)
AddTimer(x, tm, u) ==
  /\ timer' = [timer EXCEPT ![x] =
       IF x \in timers[u] THEN tm ELSE [Retained(tm) EXCEPT !.loop = u]]
  /\ timers' = [timers EXCEPT ![u] = @ \cup {x}]

addTimer(t, x, u) ==
  /\ InGuest(t) /\ Knows(t, x)
  /\ timer[x].valid /\ timer[x].loop \in {Nobody, u}
  /\ AddTimer(x, timer[x], u)
  /\ UNCHANGED <<stop, runs>> /\ Sync

invalidate(t, x) ==
  /\ InGuest(t) /\ Knows(t, x)
  /\ Invalidate(x, timer[x], 0)
  /\ UNCHANGED <<stop, runs>> /\ Sync

setFireDate(t, x, left) ==
  /\ InGuest(t) /\ Knows(t, x) /\ timer[x].valid
  /\ timer' = [timer EXCEPT ![x].left = left]
  /\ UNCHANGED <<timers, stop, runs>> /\ Sync

(* The guest, or its autorelease pool, gives up its reference; it keeps it *)
(* during -fire, and the pool keeps it while the thread waits.             *)
DropTimer(x) ==
  /\ \A u \in LoopThreads : /\ Phase(u) # "iterate"
                            /\ \A i \in DOMAIN runs[u] :
                                 runs[u][i].mode = "fire" \/ runs[u][i].post # Nobody =>
                                   runs[u][i].timer # x
  /\ timer[x].guest
  /\ \A i \in DOMAIN semaphores : semaphores[i][1] # x
  /\ timer' = [timer EXCEPT ![x] = Released([timer[x] EXCEPT !.guest = FALSE], 1)]
  /\ UNCHANGED <<timers, stop, runs>> /\ Sync

(* -fire: an invalid timer is not fired.  Nothing marks the callback as    *)
(* running and nothing retains the timer.                                  *)
fire(t, x) ==
  /\ InGuest(t) /\ MayRun(t)
  /\ Knows(t, x) /\ timer[x].guest /\ timer[x].valid
  /\ Push(t, Frame("fire", "callback", {}, x))
  /\ UNCHANGED <<timer, timers, stop>> /\ Sync

FireReturns(t) ==
  LET x == Last(runs[t]).timer IN
  /\ InGuest(t) /\ runs[t] # <<>> /\ Last(runs[t]).mode = "fire"
  /\ Pop(t)
  /\ IF timer[x].repeats THEN UNCHANGED <<timer, timers>>
     ELSE Invalidate(x, timer[x], 0)
  /\ UNCHANGED stop /\ Sync

-----------------------------------------------------------------------------
(* run_run_loop *)

(* The start of a pass, which has a copy of the list: each is retained.    *)
Pass(t) ==
  /\ timer' = [x \in Timers |->
       IF x \in timers[t] THEN Retained(timer[x]) ELSE timer[x]]
  /\ UNCHANGED <<timers, semaphores, waits, posted>>

(* -run, which has no time limit, is not called in a callback. *)
run_run_loop(t, mode) ==
  /\ InGuest(t) /\ MayRun(t)
  /\ mode = "run" => runs[t] = <<>>
  /\ Push(t, Frame(mode, "iterate", timers[t], NoTimer))
  /\ Pass(t)
  /\ UNCHANGED stop

(* Mutant: that the callback is running is not looked at. *)
FiresAgain(tm) == tm.valid /\ tm.left <= 0

(* handle_timer: a timer that is being called back, is invalid or is not   *)
(* due is passed over.                                                     *)
Fires(tm) == ~tm.is_running_callback /\ tm.valid /\ tm.left <= 0

PassOver(t, x) ==
  LET f == Last(runs[t]) IN
  /\ Phase(t) = "iterate" /\ x \in f.tmp /\ ~Fires(timer[x])
  /\ Top(t, [f EXCEPT !.tmp = @ \ {x}])
  /\ timer' = [timer EXCEPT ![x] = Released(@, 1)]
  /\ UNCHANGED <<timers, stop>> /\ Sync

(* The next time on the timer's own beat: late by several intervals, it    *)
(* skips those it missed.                                                  *)
Advanced(left) ==
  LET late == -left
      by   == IF late <= Interval THEN 1 ELSE (late + Interval - 1) \div Interval
  IN left + Interval * by

(* A due timer is rescheduled if it repeats, and called back.  The method   *)
(* that performs a selector takes the entry of its timer out of the table  *)
(* first.                                                                  *)
Called(tm) ==
  [Retained(tm) EXCEPT !.left = IF tm.repeats THEN Advanced(@) ELSE @,
                       !.is_running_callback = TRUE,
                       !.fires = IF tm.repeats THEN @ ELSE @ + 1]

TimerCallBack(t, x) ==
  LET f     == Last(runs[t])
      mine  == {i \in DOMAIN semaphores : semaphores[i][1] = x}
      posts == timer[x].perform /\ mine # {}
  IN
  /\ Phase(t) = "iterate" /\ x \in f.tmp /\ Fires(timer[x])
  /\ timer' = [timer EXCEPT ![x] = Called(@)]
  /\ Top(t, [f EXCEPT !.tmp = @ \ {x}, !.phase = "callback", !.timer = x,
                      !.post = IF posts THEN semaphores[Min(mine)][2] ELSE Nobody])
  /\ semaphores' = IF posts THEN RemoveAt(semaphores, Min(mine)) ELSE semaphores
  /\ UNCHANGED <<timers, stop, waits, posted>>

(* The callback returns: its waiter is posted, a timer that does not       *)
(* repeat is invalidated, and both references taken for it are given up.   *)
TimerCallbackReturns(t) ==
  LET f == Last(runs[t])
      x == f.timer
      tm == [timer[x] EXCEPT !.is_running_callback = FALSE]
  IN
  /\ InGuest(t) /\ runs[t] # <<>> /\ f.mode # "fire"
  /\ posted' = posted \cup ({f.post} \ {Nobody})
  /\ IF tm.repeats
       THEN timer' = [timer EXCEPT ![x] = Released(tm, 2)] /\ UNCHANGED timers
       ELSE Invalidate(x, tm, 2)
  /\ Top(t, [f EXCEPT !.phase = "iterate", !.timer = NoTimer, !.post = Nobody])
  /\ UNCHANGED <<stop, semaphores, waits>>

SleepInLoop(t) ==
  /\ Phase(t) = "iterate" /\ Last(runs[t]).tmp = {}
  /\ Top(t, [Last(runs[t]) EXCEPT !.phase = "sleep"])
  /\ UNCHANGED <<timer, timers, stop>> /\ Sync

(* After the sleep: one pass was asked for, or the loop was stopped, or its *)
(* time is up; otherwise the next pass begins.                             *)
NoHostCode == \A u \in LoopThreads : Phase(u) # "iterate"

LeaveLoop(t) ==
  /\ Phase(t) = "sleep" /\ NoHostCode
  /\ \/ Last(runs[t]).mode = "single" /\ UNCHANGED stop
     \/ Last(runs[t]).mode # "single" /\ stop[t] /\ stop' = [stop EXCEPT ![t] = FALSE]
     \/ Last(runs[t]).mode = "until" /\ ~stop[t] /\ UNCHANGED stop
  /\ Pop(t)
  /\ UNCHANGED <<timer, timers>> /\ Sync

NextPass(t) ==
  /\ Phase(t) = "sleep" /\ NoHostCode
  /\ Last(runs[t]).mode # "single" /\ ~stop[t]
  /\ Top(t, Frame(Last(runs[t]).mode, "iterate", timers[t], NoTimer))
  /\ Pass(t)
  /\ UNCHANGED stop

CFRunLoopStop(t, u) ==
  /\ InGuest(t)
  /\ stop' = [stop EXCEPT ![u] = TRUE]
  /\ UNCHANGED <<timer, timers, runs>> /\ Sync

-----------------------------------------------------------------------------
(* Selectors performed on the thread u: a timer of u's run loop, and with  *)
(* waitUntilDone a semaphore on which the caller waits.  (On u itself a    *)
(* selector to wait for is called at once.)                                *)
perform_selector_on_thread(t, u, x, wait) ==
  /\ InGuest(t) /\ ~timer[x].live
  /\ wait => u # t
  /\ AddTimer(x, NewTimer(FALSE, TRUE, 1), u)
  /\ semaphores' = IF wait THEN Append(semaphores, <<x, t>>) ELSE semaphores
  /\ waits' = IF wait THEN waits \cup {t} ELSE waits
  /\ UNCHANGED <<stop, runs, posted>>

(* Mutant: the semaphore outlives the wait. *)
WaitReturnsKeepsToken(t) ==
  /\ t \in waits \cap posted /\ NoHostCode
  /\ waits' = waits \ {t}
  /\ UNCHANGED <<timer, timers, stop, runs, semaphores, posted>>

(* sem_wait returns and the semaphore is destroyed. *)
WaitReturns(t) ==
  /\ t \in waits \cap posted /\ NoHostCode
  /\ waits' = waits \ {t}
  /\ posted' = posted \ {t}
  /\ UNCHANGED <<timer, timers, stop, runs, semaphores>>

(* All timers whose target is the object selectors are performed on are    *)
(* invalidated.                                                            *)
cancelPerformSelectorsWithTarget(t, u) ==
  LET out == {x \in timers[u] : timer[x].perform} IN
  /\ InGuest(t)
  /\ timers' = [timers EXCEPT ![u] = @ \ out]
  /\ timer' = [x \in Timers |->
       IF x \in out THEN Released(Invalidated(timer[x]), 1) ELSE timer[x]]
  /\ UNCHANGED <<stop, runs>> /\ Sync

(* The guest clock advances. *)
LoopTick ==
  /\ timer' = [x \in Timers |->
       IF timer[x].valid /\ timer[x].left > -MaxLate
         THEN [timer[x] EXCEPT !.left = @ - 1] ELSE timer[x]]
  /\ UNCHANGED <<timers, stop, runs>> /\ Sync

-----------------------------------------------------------------------------
LoopInit ==
  /\ timer = [x \in Timers |-> FreeTimer]
  /\ timers = [t \in LoopThreads |-> {}]
  /\ stop = [t \in LoopThreads |-> FALSE]
  /\ runs = [t \in LoopThreads |-> <<>>]
  /\ semaphores = <<>>
  /\ waits = {}
  /\ posted = {}

HostSteps(t) ==
  \/ \E x \in Timers : PassOver(t, x) \/ TimerCallBack(t, x)
  \/ SleepInLoop(t) \/ NextPass(t) \/ LeaveLoop(t) \/ WaitReturns(t)

LoopNext ==
  \/ \E t \in LoopThreads :
       \/ HostSteps(t)
       \/ TimerCallbackReturns(t) \/ FireReturns(t)
       \/ \E mode \in {"single", "run", "until"} : run_run_loop(t, mode)
       \/ \E x \in Timers :
            \/ \E repeats \in BOOLEAN : timerWithTimeInterval(t, x, repeats)
            \/ \E u \in Runners : addTimer(t, x, u)
            \/ invalidate(t, x) \/ fire(t, x)
            \/ \E left \in {0, Interval} : setFireDate(t, x, left)
            \/ \E u \in PerformThreads, wait \in BOOLEAN :
                 perform_selector_on_thread(t, u, x, wait)
       \/ \E u \in Runners :
            CFRunLoopStop(t, u) \/ cancelPerformSelectorsWithTarget(t, u)
  \/ \E x \in Timers : DropTimer(x)
  \/ LoopTick

LoopSpec == LoopInit /\ [][LoopNext]_loopVars

(* A thread on which selectors are performed keeps running its loop, its   *)
(* callbacks return, time limits are reached, the host's steps and the     *)
(* clock go on.                                                            *)
LoopFairness ==
  /\ WF_loopVars(LoopTick)
  /\ \A t \in LoopThreads : WF_loopVars(HostSteps(t))
  /\ \A t \in LoopThreads : SF_loopVars(TimerCallbackReturns(t) \/ FireReturns(t))
  /\ \A t \in LoopThreads : SF_loopVars(LeaveLoop(t)) /\ SF_loopVars(WaitReturns(t))
  /\ \A t \in PerformThreads : SF_loopVars(run_run_loop(t, "run"))

LoopFairSpec == LoopSpec /\ LoopFairness

-----------------------------------------------------------------------------
(* Properties. *)

LoopDepths == LoopThreads \X (1 .. MaxRuns)

NoFrame == Frame("none", "callback", {}, NoTimer)
FrameAt(d) == IF d[2] \in DOMAIN runs[d[1]] THEN runs[d[1]][d[2]] ELSE NoFrame

CopiesOf(x) == {d \in LoopDepths : x \in FrameAt(d).tmp}
CallbacksOf(x) == {d \in LoopDepths : FrameAt(d).timer = x /\ FrameAt(d).mode # "fire"}
PostsTo(t) == {d \in LoopDepths : FrameAt(d).post = t}

(* Nested runs, callbacks that invalidate timers and passes that copied    *)
(* the list before: a timer's count is exactly the references the guest,   *)
(* the loops and the passes have, and only valid timers are in a loop, in  *)
(* the one they know.                                                      *)
TimersOwned ==
  \A x \in Timers :
    /\ timer[x].refs = (IF timer[x].guest THEN 1 ELSE 0)
                       + Cardinality({t \in LoopThreads : x \in timers[t]})
                       + Cardinality(CopiesOf(x)) + 2 * Cardinality(CallbacksOf(x))
    /\ \A t \in LoopThreads : x \in timers[t] => timer[x].valid /\ timer[x].loop = t

(* However loops are nested and whichever threads run them, a timer that   *)
(* does not repeat is called back by a loop at most once, and no callback  *)
(* of a timer is entered while it runs.                                    *)
OneShotOnce ==
  \A x \in Timers :
    /\ timer[x].fires <= 1
    /\ Cardinality(CallbacksOf(x)) = IF timer[x].is_running_callback THEN 1 ELSE 0

(* A thread that waits for a selector is released at most once and not     *)
(* before the selector is done: its entry is in the table, under a timer   *)
(* that is still allocated and so cannot be mistaken for a later one, or a *)
(* callback is going to post it, or it is posted.                          *)
SyncPerformsPaired ==
  \A t \in LoopThreads :
    LET entries == {i \in DOMAIN semaphores : semaphores[i][2] = t} IN
    /\ Cardinality(entries) + Cardinality(PostsTo(t)) + (IF t \in posted THEN 1 ELSE 0)
         = IF t \in waits THEN 1 ELSE 0
    /\ \A i \in entries : timer[semaphores[i][1]].perform

(* What the comment of _touchHLE_timerFireMethod: (ns_object.rs:766) is     *)
(* after: a thread blocked in performSelectorOnMainThread with             *)
(* waitUntilDone does not hang for ever.                                   *)
SyncPerformsReturn == \A t \in LoopThreads : (t \in waits) ~> (t \notin waits)
=============================================================================
