----------------------------- MODULE AudioQueue -----------------------------
(***************************************************************************)
(* Audio queues (audio_queue.rs): guest buffers wait in buffer_queue, the  *)
(* first of them are decoded into the queue of an OpenAL source, and a     *)
(* pass of the run loop hands back those that were played by calling the   *)
(* guest.  Recording queues have a capture device in place of a source.    *)
(*                                                                         *)
(* Host code is not interrupted: the guest, on any thread, makes its calls *)
(* outside the handlers and while one of them is inside a callback, where  *)
(* it may run the run loop, and so other handlers, again.  Volume, pan and *)
(* the other parameters, and the decoding, are left out; a queue in an     *)
(* unsupported format is one that gets no source.  OpenAL's buffers are    *)
(* recycled, so an entry of a source's queue is the guest buffer it was    *)
(* decoded from.  The address of a disposed queue is not used again while  *)
(* a handler of that queue is still active.                                *)
(***************************************************************************)
EXTENDS Integers, Sequences, FiniteSetsExt, SequencesExt

CONSTANTS
  AudioQueues,   \* addresses of OpaqueAudioQueue objects
  AqBuffers,     \* addresses of AudioQueueBuffer objects
  MaxSources,    \* the sources OpenAL has
  MaxEnqueued,   \* bound: buffers enqueued in one queue
  ResetsPrimed,  \* whether the guest stops queues it has primed but not started
  NoSource       \* al_source is None

ASSUME AudioAssumption ==
  /\ MaxSources \in Nat /\ MaxEnqueued \in Nat
  /\ ResetsPrimed \in BOOLEAN /\ NoSource \notin 1 .. MaxSources

VARIABLES
  aq,        \* State::audio_queues: the AudioQueueHostObject of each address
  al,        \* the sources of OpenAL
  handlers   \* the handlers that are active, innermost first

audioVars == <<aq, al, handlers>>

NoQueue ==
  [live |-> FALSE, is_input |-> FALSE, buffers |-> {}, buffer_queue |-> <<>>,
   is_running |-> "Stopped", al_source |-> NoSource, is_running_handler |-> FALSE,
   capture_device |-> "none"]

NewQueue(input) == [NoQueue EXCEPT !.live = TRUE, !.is_input = input]

-----------------------------------------------------------------------------
(* OpenAL: `queue` the queued buffers, `played` those the source is past.  *)

FreeSource == [state |-> "free", queue |-> <<>>, played |-> 0]
NewSource == [FreeSource EXCEPT !.state = "initial"]

(* AL_BUFFERS_PROCESSED. *)
Processed(s) == IF s.state = "stopped" THEN Len(s.queue) ELSE s.played

(* alSourcePlay: a paused source goes on, any other starts from its first  *)
(* buffer, and one without buffers stops at once.                          *)
Playing(s) ==
  IF s.queue = <<>> THEN [s EXCEPT !.state = "stopped", !.played = 0]
  ELSE [s EXCEPT !.state = "playing", !.played = IF s.state = "paused" THEN @ ELSE 0]

(* alSourcePause and alSourceStop do nothing to a source that never played. *)
Paused(s) == IF s.state = "playing" THEN [s EXCEPT !.state = "paused"] ELSE s

SourceStopped(s) ==
  IF s.state = "initial" THEN s ELSE [s EXCEPT !.state = "stopped", !.played = 0]

(* unqueue_buffers. *)
Unqueued(s) ==
  [s EXCEPT !.queue = SubSeq(@, Processed(s) + 1, Len(@)), !.played = 0]

(* A buffer has been played; after the last one the source stops. *)
BufferPlayed(s) ==
  IF s.played + 1 = Len(s.queue) THEN [s EXCEPT !.state = "stopped", !.played = 0]
  ELSE [s EXCEPT !.played = @ + 1]

SourcePlays(i) ==
  /\ al[i].state = "playing"
  /\ al' = [al EXCEPT ![i] = BufferPlayed(@)]
  /\ UNCHANGED <<aq, handlers>>

-----------------------------------------------------------------------------
(* Priming *)

FreeSources == {i \in 1 .. MaxSources : al[i] = FreeSource}

(* The source a queue has once prime_audio_queue has tried to get one. *)
SourceFor(q) ==
  IF aq[q].al_source # NoSource \/ FreeSources = {} THEN aq[q].al_source
  ELSE Min(FreeSources)

SourceOf(q) == IF aq[q].al_source = NoSource THEN NewSource ELSE al[aq[q].al_source]

(* Mutant: the next buffer is looked up without the ones already queued. *)
RefillsFromStart(s, bq) ==
  LET enough == IF s.state = "stopped" THEN Len(bq) ELSE Min({Len(bq), s.played + 2})
  IN {s} \cup {[s EXCEPT !.queue = @ \o SubSeq(bq, 1, n - Len(@))] :
                 n \in Len(s.queue) .. enough}

(* The loop of prime_audio_queue decodes the next buffers until two are    *)
(* unprocessed; it ends early when OpenAL has no buffer left, and changes  *)
(* nothing when OpenAL has more than buffer_queue.                         *)
Refills(s, bq) ==
  LET enough == IF s.state = "stopped" THEN Len(bq) ELSE Min({Len(bq), s.played + 2})
  IN {s} \cup {[s EXCEPT !.queue = @ \o SubSeq(bq, Len(@) + 1, n)] :
                 n \in Len(s.queue) .. enough}

-----------------------------------------------------------------------------
(* The guest's calls *)

GuestRuns == handlers # <<>> => Head(handlers).calling

Active(q) == \E i \in DOMAIN handlers : handlers[i].q = q

AudioQueueNewOutput(q) ==
  /\ GuestRuns /\ ~aq[q].live /\ ~Active(q)
  /\ aq' = [aq EXCEPT ![q] = NewQueue(FALSE)]
  /\ UNCHANGED <<al, handlers>>

AudioQueueNewInput(q) ==
  /\ GuestRuns /\ ~aq[q].live /\ ~Active(q)
  /\ aq' = [aq EXCEPT ![q] = NewQueue(TRUE)]
  /\ UNCHANGED <<al, handlers>>

AudioQueueAllocateBuffer(q, b) ==
  /\ GuestRuns /\ aq[q].live
  /\ \A p \in AudioQueues : b \notin aq[p].buffers
  /\ aq' = [aq EXCEPT ![q].buffers = @ \cup {b}]
  /\ UNCHANGED <<al, handlers>>

(* Nothing stops the guest from enqueueing a buffer twice. *)
AudioQueueEnqueueBuffer(q, b) ==
  /\ GuestRuns /\ b \in aq[q].buffers
  /\ Len(aq[q].buffer_queue) < MaxEnqueued
  /\ aq' = [aq EXCEPT ![q].buffer_queue = Append(@, b)]
  /\ UNCHANGED <<al, handlers>>

AudioQueueFreeBuffer(q, b) ==
  /\ GuestRuns /\ b \in aq[q].buffers /\ b \notin ToSet(aq[q].buffer_queue)
  /\ aq' = [aq EXCEPT ![q].buffers = @ \ {b}]
  /\ UNCHANGED <<al, handlers>>

AudioQueuePrime(q) ==
  /\ GuestRuns /\ aq[q].live /\ ~aq[q].is_input /\ SourceFor(q) # NoSource
  /\ aq' = [aq EXCEPT ![q].al_source = SourceFor(q)]
  /\ \E s \in Refills(SourceOf(q), aq[q].buffer_queue) :
       al' = [al EXCEPT ![SourceFor(q)] = s]
  /\ UNCHANGED handlers

(* Without a source the call fails; the listeners that are told at the end *)
(* of a start or a stop are guest code like any other.                     *)
AudioQueueStart(q) ==
  /\ GuestRuns /\ aq[q].live /\ ~aq[q].is_input /\ SourceFor(q) # NoSource
  /\ aq' = [aq EXCEPT ![q].al_source = SourceFor(q), ![q].is_running = "Running"]
  /\ \E s \in Refills(SourceOf(q), aq[q].buffer_queue) :
       al' = [al EXCEPT ![SourceFor(q)] = Playing(s)]
  /\ UNCHANGED handlers

(* Opening the device fails without a microphone or a permission for it. *)
start_input_audio_queue(q) ==
  /\ GuestRuns /\ aq[q].live /\ aq[q].is_input
  /\ \E device \in {"none", "recording"} :
       /\ aq[q].capture_device # "none" => device = "recording"
       /\ aq' = [aq EXCEPT ![q].capture_device = device, ![q].is_running = "Running"]
  /\ UNCHANGED <<al, handlers>>

PausedDevice(device) == IF device = "recording" THEN "paused" ELSE device

AudioQueuePause(q) ==
  /\ GuestRuns /\ aq[q].live
  /\ aq' = [aq EXCEPT ![q].is_running = "Stopped",
                      ![q].capture_device = PausedDevice(@)]
  /\ al' = IF aq[q].al_source = NoSource THEN al
           ELSE [al EXCEPT ![aq[q].al_source] = Paused(@)]
  /\ UNCHANGED handlers

(* What AudioQueueReset does to the source.  Every unqueued buffer pops an  *)
(* entry of buffer_queue with an unwrap, so a behaviour ends, with a panic, *)
(* where that has too few entries.                                         *)
ResetSource(q) ==
  IF aq[q].al_source = NoSource THEN al' = al
  ELSE /\ Processed(SourceStopped(SourceOf(q))) <= Len(aq[q].buffer_queue)
       /\ al' = [al EXCEPT ![aq[q].al_source] = Unqueued(SourceStopped(@))]

PrimedOnly(q) == SourceOf(q).state = "initial" /\ SourceOf(q).queue # <<>>

AudioQueueReset(q) ==
  /\ GuestRuns /\ aq[q].live
  /\ PrimedOnly(q) => ResetsPrimed
  /\ aq' = [aq EXCEPT ![q].buffer_queue = <<>>]
  /\ ResetSource(q)
  /\ UNCHANGED handlers

(* AudioQueueStop of a recording queue, or with in_immediate. *)
StopNow(q) ==
  /\ GuestRuns /\ aq[q].live
  /\ PrimedOnly(q) => ResetsPrimed
  /\ aq' = [aq EXCEPT ![q].buffer_queue = <<>>, ![q].is_running = "Stopped",
                      ![q].capture_device = PausedDevice(@)]
  /\ ResetSource(q)
  /\ UNCHANGED handlers

(* AudioQueueStop without in_immediate: the handler completes it. *)
StopLater(q) ==
  /\ GuestRuns /\ aq[q].live /\ ~aq[q].is_input /\ aq[q].is_running # "Stopped"
  /\ aq' = [aq EXCEPT ![q].is_running = "Stopping"]
  /\ UNCHANGED <<al, handlers>>

(* Mutant: the source is not given back to OpenAL. *)
DisposeKeepingSource(q) ==
  /\ GuestRuns /\ aq[q].live
  /\ aq' = [aq EXCEPT ![q] = NoQueue]
  /\ al' = IF aq[q].al_source = NoSource THEN al
           ELSE [al EXCEPT ![aq[q].al_source] = Unqueued(SourceStopped(@))]
  /\ UNCHANGED handlers

AudioQueueDispose(q) ==
  /\ GuestRuns /\ aq[q].live
  /\ aq' = [aq EXCEPT ![q] = NoQueue]
  /\ al' = IF aq[q].al_source = NoSource THEN al
           ELSE [al EXCEPT ![aq[q].al_source] = FreeSource]
  /\ UNCHANGED handlers

-----------------------------------------------------------------------------
(* The handlers, which a pass of the run loop calls.  A handler: running    *)
(* is_running as it was before the callbacks, todo the buffers still to be *)
(* handed back, calling whether the guest is being called, notified        *)
(* whether that is the listener told of a stop.                            *)

Handler(q, todo) ==
  [q |-> q, running |-> aq[q].is_running, todo |-> todo, calling |-> FALSE,
   notified |-> FALSE, input |-> aq[q].is_input]

HandleOutput(q) ==
  LET s == SourceOf(q)
      bq == aq[q].buffer_queue
      n == Min({Processed(s), Len(bq)})
  IN
  /\ GuestRuns /\ aq[q].live /\ ~aq[q].is_input
  /\ aq[q].al_source # NoSource /\ ~aq[q].is_running_handler
  /\ al' = [al EXCEPT ![aq[q].al_source] = Unqueued(@)]
  /\ aq' = [aq EXCEPT ![q].is_running_handler = TRUE,
                      ![q].buffer_queue = SubSeq(@, n + 1, Len(@))]
  /\ handlers' = <<Handler(q, SubSeq(bq, 1, n))>> \o handlers

(* Sound for n more buffers has been captured, or silence made up. *)
HandleInput(q) ==
  /\ GuestRuns /\ aq[q].live /\ aq[q].is_input
  /\ aq[q].is_running = "Running" /\ ~aq[q].is_running_handler
  /\ \E n \in 0 .. Len(aq[q].buffer_queue) :
       /\ aq' = [aq EXCEPT ![q].is_running_handler = TRUE,
                           ![q].buffer_queue = SubSeq(@, n + 1, Len(@))]
       /\ handlers' = <<Handler(q, SubSeq(aq[q].buffer_queue, 1, n))>> \o handlers
  /\ UNCHANGED al

(* The innermost handler, in host code. *)
InHandler == handlers # <<>> /\ ~Head(handlers).calling

PopHandler == handlers' = Tail(handlers)

(* The recording handler stops calling back once the queue is gone; the    *)
(* playing one goes through its list.                                      *)
CallBack ==
  LET h == Head(handlers) IN
  /\ InHandler /\ h.todo # <<>> /\ (h.input => aq[h.q].live)
  /\ handlers' = <<[h EXCEPT !.todo = Tail(@), !.calling = TRUE]>> \o Tail(handlers)
  /\ UNCHANGED <<aq, al>>

CallbackReturns ==
  /\ handlers # <<>> /\ Head(handlers).calling
  /\ handlers' = <<[Head(handlers) EXCEPT !.calling = FALSE]>> \o Tail(handlers)
  /\ UNCHANGED <<aq, al>>

HandlerEndsDisposed ==
  LET h == Head(handlers) IN
  /\ InHandler /\ ~aq[h.q].live /\ (h.todo = <<>> \/ h.input)
  /\ PopHandler /\ UNCHANGED <<aq, al>>

HandlerEnds ==
  LET h == Head(handlers) IN
  /\ InHandler /\ aq[h.q].live /\ h.todo = <<>> /\ (h.input \/ h.notified)
  /\ aq' = [aq EXCEPT ![h.q].is_running_handler = FALSE]
  /\ PopHandler /\ UNCHANGED al

(* After the callbacks: refill, start the source again if it ran dry and   *)
(* the queue was running, and complete a stop if there is nothing left.    *)
Restarted(h, s) ==
  IF h.running # "Stopped" /\ s.state = "stopped" THEN Playing(s) ELSE s

RefillAndRestart ==
  LET h == Head(handlers) q == h.q IN
  /\ InHandler /\ aq[q].live /\ h.todo = <<>> /\ ~h.input /\ ~h.notified
  /\ \E s \in Refills(SourceOf(q), aq[q].buffer_queue) :
       LET r == Restarted(h, s)
           stops == h.running = "Stopping" /\ r.state = "stopped"
       IN
       /\ al' = [al EXCEPT ![aq[q].al_source] = IF stops THEN Unqueued(r) ELSE r]
       /\ IF stops
          THEN /\ aq' = [aq EXCEPT ![q].buffer_queue = <<>>, ![q].is_running = "Stopped"]
               /\ handlers' = <<[h EXCEPT !.calling = TRUE, !.notified = TRUE]>>
                                \o Tail(handlers)
          ELSE /\ aq' = [aq EXCEPT ![q].is_running_handler = FALSE]
               /\ PopHandler

-----------------------------------------------------------------------------
AudioInit ==
  /\ aq = [q \in AudioQueues |-> NoQueue]
  /\ al = [i \in 1 .. MaxSources |-> FreeSource]
  /\ handlers = <<>>

AudioNext ==
  \/ \E i \in 1 .. MaxSources : SourcePlays(i)
  \/ \E q \in AudioQueues :
       \/ AudioQueueNewOutput(q)
       \/ AudioQueueNewInput(q)
       \/ \E b \in AqBuffers : AudioQueueAllocateBuffer(q, b)
       \/ \E b \in AqBuffers : AudioQueueEnqueueBuffer(q, b)
       \/ \E b \in AqBuffers : AudioQueueFreeBuffer(q, b)
       \/ AudioQueuePrime(q)
       \/ AudioQueueStart(q)
       \/ start_input_audio_queue(q)
       \/ AudioQueuePause(q)
       \/ AudioQueueReset(q)
       \/ StopNow(q)
       \/ StopLater(q)
       \/ AudioQueueDispose(q)
       \/ HandleOutput(q)
       \/ HandleInput(q)
  \/ CallBack
  \/ CallbackReturns
  \/ HandlerEndsDisposed
  \/ HandlerEnds
  \/ RefillAndRestart

AudioSpec == AudioInit /\ [][AudioNext]_audioVars

-----------------------------------------------------------------------------
(* The field's comment: the nth buffer of OpenAL's queue is the nth of     *)
(* buffer_queue, which may be longer.  A handler hands back by position,   *)
(* so otherwise the guest is told to fill a buffer that is still to be     *)
(* played, and a reset panics.                                             *)
QueuesInSync ==
  \A q \in AudioQueues : aq[q].live => IsPrefix(SourceOf(q).queue, aq[q].buffer_queue)

(* Through callbacks that stop, dispose and create queues, every source    *)
(* OpenAL has given out belongs to one queue that exists (or sooner or     *)
(* later no sound can be played), and the microphone is on only for a      *)
(* queue that is running.                                                  *)
DevicesOwned ==
  /\ \A i \in 1 .. MaxSources :
       al[i] # FreeSource =>
         \E q \in AudioQueues :
           /\ aq[q].live /\ aq[q].al_source = i
           /\ \A p \in AudioQueues : aq[p].al_source = i => p = q
  /\ \A q \in AudioQueues :
       aq[q].capture_device = "recording" => aq[q].live /\ aq[q].is_running = "Running"
=============================================================================
