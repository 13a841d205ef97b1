----------------------------- MODULE MCPrograms -----------------------------
(***************************************************************************)
(* Guest programs for TLC: instances of Environment that differ in what    *)
(* the guest calls, what it misuses and how much there is of everything.   *)
(* A behaviour is one of the programs, chosen at the start; the constants  *)
(* of this module are the largest of theirs.                               *)
(***************************************************************************)
EXTENDS MCEnvironment

VARIABLE program

Mutexes == INSTANCE Environment WITH
  Imports <- MutexCalls, Conds <- {}, GuestSems <- {}, HeapSems <- {}, SemNames <- {}

Owners == INSTANCE Environment WITH
  Imports <- OwnerCalls, MaxMutexes <- 1,
  Conds <- {}, GuestSems <- {}, HeapSems <- {}, SemNames <- {}

Conditions == INSTANCE Environment WITH
  Imports <- CondCalls, MaxSuspend <- 1, PTypes <- {}, MaxMutexes <- 1, MaxCount <- 1,
  GuestSems <- {}, HeapSems <- {}, SemNames <- {}

Semaphores == INSTANCE Environment WITH Imports <- SemCalls, MaxSuspend <- 1

Joins == INSTANCE Environment WITH Imports <- JoinCalls, Misuse <- {"join_main"}

Sleeps == INSTANCE Environment WITH Imports <- SleepCalls, MaxSuspend <- 1

Blocks == INSTANCE Environment WITH
  Imports <- BlockCalls, Misuse <- {"sem_destroy_busy"}, MaxSems <- 1

(* The program the liveness properties are about.  It may initialize a      *)
(* condition variable again that threads wait for.                         *)
Live == INSTANCE Environment WITH
  Imports <- LiveCalls, Misuse <- {"cond_reinit"},
  PTypes <- {}, MaxMutexes <- 1, MaxCount <- 1

Programs ==
  {"mutexes", "owners", "conditions", "semaphores", "joins", "sleeps", "blocks", "live"}

(* Objects a program does not use are as Static says, whatever they are.    *)
ProgramsInit ==
  /\ program \in Programs
  /\ Init
  /\ program \notin {"conditions", "live"} =>
       \A c \in Conds : conds[c].state = "static"
  /\ program \notin {"mutexes", "owners", "conditions", "live"} =>
       \A p \in PMutexes : pmutex[p] = Static

ProgramsNext ==
  /\ \/ program = "mutexes" /\ Mutexes!Next
     \/ program = "owners" /\ Owners!Next
     \/ program = "conditions" /\ Conditions!Next
     \/ program = "semaphores" /\ Semaphores!Next
     \/ program = "joins" /\ Joins!Next
     \/ program = "sleeps" /\ Sleeps!Next
     \/ program = "blocks" /\ Blocks!Next
     \/ program = "live" /\ Live!Next
  /\ UNCHANGED program

(* Environment's Fairness, for the program that needs it. *)
ProgramsFairness ==
  LET live == program = "live" IN
  /\ WF_vars(live /\ Schedule) /\ WF_vars(live /\ Preempt)
  /\ WF_vars(live /\ ReturnFromJoin)
  /\ WF_vars(live /\ ReturnFromLock /\ UNCHANGED <<conds, semVars, joinVars>>)
  /\ WF_vars(live /\ ReturnFromWait /\ UNCHANGED <<semVars, joinVars>>)
  /\ WF_vars(live /\ ReturnFromSemWait /\ UNCHANGED <<mutexVars, conds, joinVars>>)
  /\ \A t \in Thread : WF_vars(live /\ TimePasses(t))

ProgramsSpec ==
  ProgramsInit /\ [][ProgramsNext]_<<vars, program>> /\ ProgramsFairness

-----------------------------------------------------------------------------
(* Properties of Environment that are not about every program here. *)

(* CondQueuesExact, where no condition variable in use is initialized again: *)
(* that empties the queues under the waiters.                              *)
QueuesExactWithoutReinit == program = "live" \/ CondQueuesExact

(* Under fairness, the round robin passes nobody over for ever. *)
LiveRunnableRuns == program = "live" => RunnableRuns

(* Under fairness, every deadline of a sleep or a timed wait is honoured. *)
LiveDeadlinesHonoured == program = "live" => DeadlinesHonoured

(* Under fairness, every joiner of a dead thread returns. *)
LiveJoinersReturn == program = "live" => JoinersReturn
=============================================================================
