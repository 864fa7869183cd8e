----------------------------- MODULE SdkDelivery ----------------------------
(***************************************************************************)
(* How the SDK delivers captured events to the control plane               *)
(* (sdk/governance_sdk/batch.py, client.py).                               *)
(*                                                                         *)
(* With a batch size of 1 the thread that made the call posts its event.   *)
(* Otherwise threads append to a buffer under a lock; the thread that fills*)
(* it, a timer, or a caller of flush() swaps it for an empty one and posts *)
(* what was in it, holding the lock through all attempts.  A post is tried *)
(* MaxAttempts times; an answer below 500 ends it, and so does an exception*)
(* that is no failure of the request.  Events carry no id: the server gives*)
(* each copy it is sent an id of its own.                                  *)
(*                                                                         *)
(* The server stores of a batch what follows the last item it refuses      *)
(* (VendorIngest); a single event it stores, refuses with 4xx or fails     *)
(* with 5xx.  A request may time out and still be ingested later.  The     *)
(* timer is a daemon thread: when the application ends, it ends.           *)
(***************************************************************************)
EXTENDS Integers, Sequences, FiniteSets, SequencesExt

CONSTANTS
  Threads, Timer,
  Calls,        \* thread -> the events it captures, in order
  BatchSizes,   \* the values of batch_size an application may be configured with
  MaxAttempts,  \* Len of _RETRY_DELAYS
  MayExit,      \* whether the application may end
  NoOne, MaxFaults

ASSUME DeliveryAssumption ==
  /\ Timer \notin Threads /\ NoOne \notin Threads \cup {Timer}
  /\ \A t \in Threads : Calls[t] \in Seq(ToSet(Calls[t]))
  \* each call is an event of its own
  /\ \A t, u \in Threads : \A i \in 1..Len(Calls[t]), j \in 1..Len(Calls[u]) :
       Calls[t][i] = Calls[u][j] => t = u /\ i = j
  /\ BatchSizes \subseteq Nat \ {0} /\ MaxAttempts \in Nat \ {0}
  /\ MayExit \in BOOLEAN /\ MaxFaults \in Nat

Senders == Threads \cup {Timer}
Events == UNION {ToSet(Calls[t]) : t \in Threads}

VARIABLES
  maxSize,    \* batch_size of this application
  running,
  captured,   \* thread -> number of its calls captured so far
  lock, buffer,
  pc,         \* sender -> "idle", "add", "post" or "wait"
  batch, attempt,
  wire,       \* requests that may still reach the server
  reply,      \* sender -> answer to its current attempt, "none" so far
  copies,     \* event -> rows the server has stored for it
  dropped,    \* events given up
  added, handed,  \* history: events appended to the buffer, and flushed from it
  settled,    \* history: events the server has stored or refused
  faults

Batched == maxSize > 1

client == <<running, maxSize, captured, lock, buffer, added, handed>>
sending == <<pc, batch, attempt>>
server == <<copies, settled>>
vars == <<client, sending, wire, reply, server, dropped, faults>>

Init ==
  /\ maxSize \in BatchSizes
  /\ running = TRUE /\ captured = [t \in Threads |-> 0]
  /\ lock = NoOne /\ buffer = <<>> /\ added = <<>> /\ handed = <<>>
  /\ pc = [s \in Senders |-> "idle"] /\ batch = [s \in Senders |-> <<>>]
  /\ attempt = [s \in Senders |-> 0]
  /\ wire = {} /\ reply = [s \in Senders |-> "none"]
  /\ copies = [e \in Events |-> 0] /\ settled = {} /\ dropped = {} /\ faults = 0

-----------------------------------------------------------------------------
(* The buffer *)

StartPost(s, events) ==
  /\ batch' = [batch EXCEPT ![s] = events]
  /\ attempt' = [attempt EXCEPT ![s] = 1]
  /\ pc' = [pc EXCEPT ![s] = "post"]

\* Mutant: the buffer is copied and not emptied.
CopyBuffer(s, events) ==
  /\ lock' = s /\ buffer' = events
  /\ handed' = handed \o events
  /\ StartPost(s, events)
DoFlush(s, events) ==
  /\ lock' = s /\ buffer' = <<>>
  /\ handed' = handed \o events
  /\ StartPost(s, events)

\* A patched or decorated call ends: _send.
Capture(t) ==
  /\ running /\ pc[t] = "idle" /\ captured[t] < Len(Calls[t])
  /\ captured' = [captured EXCEPT ![t] = @ + 1]
  /\ IF Batched
     THEN pc' = [pc EXCEPT ![t] = "add"] /\ UNCHANGED <<batch, attempt>>
     ELSE StartPost(t, <<Calls[t][captured'[t]]>>)
  /\ UNCHANGED <<running, maxSize, lock, buffer, added, handed, wire, reply, server, dropped,
                 faults>>

Add(t) ==
  /\ running /\ pc[t] = "add" /\ lock = NoOne
  /\ LET e == Calls[t][captured[t]]
         full == Append(buffer, e)
     IN  /\ added' = Append(added, e)
         /\ IF Len(full) >= maxSize
            THEN DoFlush(t, full)
            ELSE /\ buffer' = full
                 /\ pc' = [pc EXCEPT ![t] = "idle"]
                 /\ UNCHANGED <<lock, handed, batch, attempt>>
  /\ UNCHANGED <<running, maxSize, captured, wire, reply, server, dropped, faults>>

\* The timer's tick, or flush() by a thread of the application.
Flush(s) ==
  /\ running /\ Batched /\ pc[s] = "idle" /\ lock = NoOne /\ buffer # <<>>
  /\ DoFlush(s, buffer)
  /\ UNCHANGED <<running, maxSize, captured, added, wire, reply, server, dropped, faults>>

-----------------------------------------------------------------------------
(* The attempts of one post *)

Post(s) ==
  /\ running /\ pc[s] = "post"
  /\ wire' = wire \cup {[by |-> s, attempt |-> attempt[s], events |-> batch[s]]}
  /\ reply' = [reply EXCEPT ![s] = "none"]
  /\ pc' = [pc EXCEPT ![s] = "wait"]
  /\ UNCHANGED <<client, batch, attempt, server, dropped, faults>>

\* Mutant: a dropped batch leaves the lock taken.
EndHolding(s) ==
  /\ pc' = [pc EXCEPT ![s] = "idle"] /\ batch' = [batch EXCEPT ![s] = <<>>]
  /\ attempt' = [attempt EXCEPT ![s] = 0] /\ UNCHANGED lock
End(s) ==
  /\ pc' = [pc EXCEPT ![s] = "idle"] /\ batch' = [batch EXCEPT ![s] = <<>>]
  /\ attempt' = [attempt EXCEPT ![s] = 0]
  /\ lock' = IF lock = s THEN NoOne ELSE lock

\* Mutant: the attempts are counted from zero.
OneMoreAttempt(s) == attempt[s] <= MaxAttempts
MayRetry(s) == attempt[s] < MaxAttempts

Retry(s) ==
  /\ reply' = [reply EXCEPT ![s] = "none"]
  /\ IF MayRetry(s)
     THEN /\ attempt' = [attempt EXCEPT ![s] = @ + 1]
          /\ pc' = [pc EXCEPT ![s] = "post"]
          /\ UNCHANGED <<batch, lock, dropped>>
     ELSE dropped' = dropped \cup ToSet(batch[s]) /\ End(s)

Receive(s) ==
  /\ running /\ pc[s] = "wait" /\ reply[s] # "none"
  /\ IF reply[s] = "5xx"
     THEN Retry(s)
     ELSE reply' = [reply EXCEPT ![s] = "none"] /\ End(s) /\ UNCHANGED dropped
  /\ UNCHANGED <<running, maxSize, captured, buffer, added, handed, wire, server, faults>>

\* The request or its answer is lost, or too late.
TimeOut(s) ==
  /\ running /\ pc[s] = "wait" /\ faults < MaxFaults
  /\ faults' = faults + 1
  /\ Retry(s)
  /\ UNCHANGED <<running, maxSize, captured, buffer, added, handed, wire, server>>

\* What the post raises and does not expect ends it at this attempt, before or after
\* the request is sent: the buffer logs it and releases its lock; without a buffer
\* it is left to the caller, who has no other copy.
Abandon(s) ==
  /\ running /\ pc[s] \in {"post", "wait"} /\ faults < MaxFaults
  /\ faults' = faults + 1
  /\ dropped' = dropped \cup ToSet(batch[s])
  /\ reply' = [reply EXCEPT ![s] = "none"]
  /\ End(s)
  /\ UNCHANGED <<running, maxSize, captured, buffer, added, handed, wire, server>>

-----------------------------------------------------------------------------
(* The server *)

Answer(m, status) ==
  /\ wire' = wire \ {m}
  /\ reply' = IF pc[m.by] = "wait" /\ attempt[m.by] = m.attempt /\ batch[m.by] = m.events
              THEN [reply EXCEPT ![m.by] = status] ELSE reply

Ingest(m) ==
  /\ \E last \in 0..Len(m.events) :
       LET stored == {m.events[i] : i \in last + 1 .. Len(m.events)}
       IN  /\ copies' = [e \in Events |-> IF e \in stored THEN copies[e] + 1 ELSE copies[e]]
           /\ settled' = settled \cup ToSet(m.events)
           /\ Answer(m, IF Batched \/ last = 0 THEN "2xx" ELSE "4xx")
  /\ UNCHANGED <<client, sending, dropped, faults>>

FailIngest(m) ==
  /\ faults < MaxFaults
  /\ faults' = faults + 1
  /\ Answer(m, "5xx")
  /\ UNCHANGED <<client, sending, server, dropped>>

\* The application ends with its threads; nothing flushes the buffer then.
Exit ==
  /\ MayExit /\ running
  /\ \A t \in Threads : pc[t] = "idle" /\ captured[t] = Len(Calls[t])
  /\ running' = FALSE
  /\ UNCHANGED <<maxSize, captured, lock, buffer, added, handed, sending, wire, reply, server,
                 dropped, faults>>

-----------------------------------------------------------------------------
Deliver(s) == Post(s) \/ Receive(s)

Quiet ==
  /\ wire = {}
  /\ running => buffer = <<>> /\ \A s \in Senders : pc[s] = "idle"
  /\ \A t \in Threads : captured[t] = Len(Calls[t])

Next ==
  \/ \E t \in Threads : Capture(t) \/ Add(t)
  \/ \E s \in Senders : Flush(s) \/ Deliver(s) \/ TimeOut(s) \/ Abandon(s)
  \/ \E m \in wire : Ingest(m) \/ FailIngest(m)
  \/ Exit
  \/ Quiet /\ UNCHANGED vars

Spec == Init /\ [][Next]_vars

\* Threads run, the timer ticks for as long as the application lives, the lock is
\* granted in turn, and a server that is reached answers.
FairSpec ==
  /\ Spec
  /\ \A t \in Threads : WF_vars(Capture(t)) /\ SF_vars(Add(t))
  /\ SF_vars(Flush(Timer))
  /\ \A s \in Senders : WF_vars(Deliver(s))
  /\ WF_vars(\E m \in wire : Ingest(m))

-----------------------------------------------------------------------------
(* Properties *)

TypeOK ==
  /\ maxSize \in BatchSizes
  /\ running \in BOOLEAN /\ \A t \in Threads : captured[t] \in 0..Len(Calls[t])
  /\ lock \in Senders \cup {NoOne} /\ buffer \in Seq(Events)
  /\ running => Len(buffer) < maxSize
  /\ pc \in [Senders -> {"idle", "add", "post", "wait"}]
  /\ \A s \in Senders :
       /\ attempt[s] \in 0..MaxAttempts
       /\ attempt[s] > 0 <=> pc[s] \in {"post", "wait"}
       /\ batch[s] # <<>> <=> pc[s] \in {"post", "wait"}
       /\ lock = s <=> Batched /\ pc[s] \in {"post", "wait"}
  /\ reply \in [Senders -> {"none", "2xx", "4xx", "5xx"}]
  /\ copies \in [Events -> Nat] /\ dropped \cup settled \subseteq Events
  /\ faults \in 0..MaxFaults

\* Whatever threads, timer and callers of flush() interleave, the buffer neither
\* loses, repeats nor reorders an event: what was flushed, then what is buffered,
\* is what was added.
BufferIsFifo == TypeOK /\ handed \o buffer = added

\* An event is stored at most as often as its post is attempted, timed-out
\* requests that are ingested late included.
CopiesBounded == \A e \in Events : copies[e] <= MaxAttempts

\* Unless the application ends, every event it captures is settled by the server
\* or given up: no thread waits on the buffer's lock for ever.
EventsSettle == \A e \in Events : <>(e \in settled \cup dropped \/ ~running)
=============================================================================
