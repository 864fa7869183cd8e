-------------------------------- MODULE Sdk_proofs --------------------------------
(***************************************************************************)
(* The theorems of the SDK.  Of SdkDelivery, for any threads, calls, batch *)
(* sizes, numbers of attempts and faults: the buffer is a queue, and an    *)
(* event is stored at most as often as its post is attempted.  Of          *)
(* SdkRuntime, for any tasks, frames and depths: the active trace of a     *)
(* task is that of its innermost open frame that pushed one, and events    *)
(* name the trace they were made in.                                       *)
(***************************************************************************)
EXTENDS SdkDelivery, SdkRuntime, SequenceTheorems, FiniteSetTheorems, WellFoundedInduction, TLAPS

Posting == {"post", "wait"}
Steps == {"idle", "add"} \cup Posting
Message == [by : Senders, attempt : Nat, events : Seq(Events)]

Shapes ==
  /\ maxSize \in BatchSizes /\ running \in BOOLEAN
  /\ captured \in [Threads -> Nat]
  /\ lock \in Senders \cup {NoOne}
  /\ buffer \in Seq(Events) /\ added \in Seq(Events) /\ handed \in Seq(Events)
  /\ pc \in [Senders -> Steps] /\ batch \in [Senders -> Seq(Events)]
  /\ attempt \in [Senders -> 0..MaxAttempts]
  /\ wire \subseteq Message /\ IsFiniteSet(wire)
  /\ reply \in [Senders -> {"none", "2xx", "4xx", "5xx"}]
  /\ copies \in [Events -> Nat] /\ dropped \cup settled \subseteq Events
  /\ faults \in 0..MaxFaults

\* The lock is held by the sender of a batch, and by nobody without a buffer; a
\* thread that is about to append has captured an event.
SenderInv ==
  /\ \A t \in Threads : captured[t] \in 0..Len(Calls[t])
  /\ running => Len(buffer) < maxSize
  /\ \A s \in Senders :
       /\ attempt[s] > 0 <=> pc[s] \in Posting
       /\ batch[s] # <<>> <=> pc[s] \in Posting
       /\ lock = s <=> Batched /\ pc[s] \in Posting
       /\ pc[s] = "add" => Batched /\ s \in Threads /\ captured[s] > 0

TypeInv == Shapes /\ SenderInv
FifoInv == TypeInv /\ handed \o buffer = added

\* Where an event is before it is posted.
Ahead(e) ==
  \E t \in Threads : \E i \in 1..Len(Calls[t]) :
    /\ Calls[t][i] = e
    /\ i > captured[t] \/ (i = captured[t] /\ pc[t] = "add")
Buffered(e) == e \in ToSet(buffer)
In(e, s) == e \in ToSet(batch[s])

\* An event is in one place.
PlaceInv ==
  /\ \A e \in Events : Buffered(e) => ~Ahead(e)
  /\ \A s \in Senders, e \in Events : In(e, s) => ~Ahead(e) /\ ~Buffered(e)
  /\ \A s, q \in Senders, e \in Events : In(e, s) /\ In(e, q) => s = q

OnWire(e) == {m \in wire : e \in ToSet(m.events)}
Posts(s) == IF pc[s] = "post" THEN attempt[s] - 1 ELSE attempt[s]
\* The rows of e, and those that may still come of what is on the wire.
Due(e) == copies[e] + Cardinality(OnWire(e))

CopyInv ==
  /\ \A e \in Events : Due(e) <= MaxAttempts
  /\ \A s \in Senders, e \in Events : In(e, s) => Due(e) <= Posts(s)
  /\ \A e \in Events : Ahead(e) \/ Buffered(e) => Due(e) = 0

DeliveryInv == FifoInv /\ PlaceInv /\ CopyInv

-----------------------------------------------------------------------------
(* Sequences and calls *)

LEMMA ToSetOf ==
  ASSUME NEW S, NEW seq \in Seq(S)
  PROVE  /\ \A x : x \in ToSet(seq) <=> \E i \in 1..Len(seq) : x = seq[i]
         /\ ToSet(seq) \subseteq S
  <1>1. DOMAIN seq = 1..Len(seq) /\ \A i \in 1..Len(seq) : seq[i] \in S
    BY LenProperties, ElementOfSeq
  <1>2. QED
    BY <1>1 DEF ToSet

LEMMA ToSetAppend ==
  ASSUME NEW S, NEW seq \in Seq(S), NEW e \in S
  PROVE  ToSet(Append(seq, e)) = ToSet(seq) \cup {e}
  <1>1. /\ Append(seq, e) \in Seq(S) /\ Len(Append(seq, e)) = Len(seq) + 1 /\ Len(seq) \in Nat
        /\ \A i \in 1..Len(seq) : Append(seq, e)[i] = seq[i]
        /\ Append(seq, e)[Len(seq) + 1] = e
    BY AppendProperties, LenProperties
  <1>2. ASSUME NEW x \in ToSet(Append(seq, e))
        PROVE  x \in ToSet(seq) \cup {e}
    <2>1. PICK i \in 1..Len(Append(seq, e)) : x = Append(seq, e)[i]
      <3>1. Append(seq, e) \in Seq(S \cup {e})
        BY <1>1
      <3>2. QED
        BY <1>2, <3>1, ToSetOf
    <2>2. i \in 1..Len(seq) \/ i = Len(seq) + 1
      BY <1>1, <2>1
    <2>3. QED
      BY <1>1, <2>1, <2>2, ToSetOf
  <1>3. ASSUME NEW x \in ToSet(seq) \cup {e}
        PROVE  x \in ToSet(Append(seq, e))
    <2>1. CASE x = e
      <3>1. x = Append(seq, e)[Len(seq) + 1] /\ Len(seq) + 1 \in 1..Len(Append(seq, e))
        BY <1>1, <2>1
      <3>2. QED
        BY <1>1, <3>1, ToSetOf
    <2>2. CASE x \in ToSet(seq)
      <3>1. PICK i \in 1..Len(seq) : x = seq[i]
        BY <2>2, ToSetOf
      <3>2. x = Append(seq, e)[i] /\ i \in 1..Len(Append(seq, e))
        BY <1>1, <3>1
      <3>3. QED
        BY <1>1, <3>2, ToSetOf
    <2>3. QED
      BY <1>3, <2>1, <2>2
  <1>4. QED
    BY <1>2, <1>3

LEMMA ToSetSmall ==
  /\ ToSet(<<>>) = {}
  /\ \A e : ToSet(<<e>>) = {e}
  BY DEF ToSet

LEMMA CallTyped ==
  ASSUME DeliveryAssumption, NEW t \in Threads
  PROVE  /\ Len(Calls[t]) \in Nat
         /\ \A i \in 1..Len(Calls[t]) : Calls[t][i] \in Events
  <1>1. Calls[t] \in Seq(ToSet(Calls[t]))
    BY DEF DeliveryAssumption
  <1>2. Len(Calls[t]) \in Nat /\ \A i \in 1..Len(Calls[t]) : Calls[t][i] \in ToSet(Calls[t])
    BY <1>1, LenProperties, ElementOfSeq
  <1>3. QED
    BY <1>2 DEF Events

-----------------------------------------------------------------------------
(* The steps of a sender, by what they do to its batch *)

\* s, which had no batch, sends one: of its call, of a full buffer, of any other.
Begins(s, events) ==
  /\ pc[s] \in {"idle", "add"} /\ pc' = [pc EXCEPT ![s] = "post"]
  /\ batch' = [batch EXCEPT ![s] = events] /\ attempt' = [attempt EXCEPT ![s] = 1]
  /\ lock' = IF Batched THEN s ELSE lock
  /\ Batched => lock = NoOne
Again(s) ==
  /\ pc[s] = "wait" /\ MayRetry(s) /\ pc' = [pc EXCEPT ![s] = "post"]
  /\ attempt' = [attempt EXCEPT ![s] = attempt[s] + 1]
  /\ UNCHANGED <<batch, lock>>
Ends(s) == pc[s] \in {"post", "wait"} /\ End(s)

\* An answer, or none, to an attempt.
Settles(s) ==
  /\ Again(s) \/ Ends(s)
  /\ UNCHANGED <<running, maxSize, captured, buffer, added, handed, wire, server>>
  /\ reply' \in [Senders -> {"none", "2xx", "4xx", "5xx"}]
  /\ dropped' \subseteq Events /\ faults' \in 0..MaxFaults

LEMMA RetrySettles ==
  ASSUME TypeInv, NEW s \in Senders, pc[s] = "wait", Retry(s)
  PROVE  /\ Again(s) \/ Ends(s)
         /\ reply' \in [Senders -> {"none", "2xx", "4xx", "5xx"}]
         /\ dropped' \subseteq Events
  <1>1. ToSet(batch[s]) \subseteq Events
    BY ToSetOf DEF TypeInv, Shapes
  <1>2. reply' = [reply EXCEPT ![s] = "none"]
    BY DEF Retry
  <1>3. CASE MayRetry(s)
    BY <1>2, <1>3 DEF Retry, Again, TypeInv, Shapes
  <1>4. CASE ~MayRetry(s)
    BY <1>1, <1>2, <1>4 DEF Retry, Ends, TypeInv, Shapes
  <1>5. QED
    BY <1>3, <1>4

LEMMA AnswerSettles ==
  ASSUME DeliveryAssumption, TypeInv, NEW s \in Senders,
         Receive(s) \/ TimeOut(s) \/ Abandon(s)
  PROVE  Settles(s)
  <1>1. CASE Receive(s) /\ reply[s] = "5xx"
    BY <1>1, RetrySettles DEF Receive, Settles, TypeInv, Shapes
  <1>2. CASE Receive(s) /\ reply[s] # "5xx"
    BY <1>2 DEF Receive, Settles, Ends, TypeInv, Shapes
  <1>3. CASE TimeOut(s)
    BY <1>3, RetrySettles DEF TimeOut, Settles, TypeInv, Shapes, DeliveryAssumption
  <1>4. CASE Abandon(s)
    <2>1. ToSet(batch[s]) \subseteq Events
      BY ToSetOf DEF TypeInv, Shapes
    <2>2. QED
      BY <1>4, <2>1 DEF Abandon, Settles, Ends, TypeInv, Shapes, DeliveryAssumption
  <1>5. QED
    BY <1>1, <1>2, <1>3, <1>4

\* A message leaves the wire, ingested or failed.
Arrives(m) ==
  /\ wire' = wire \ {m} /\ faults' \in 0..MaxFaults
  /\ reply' \in [Senders -> {"none", "2xx", "4xx", "5xx"}]
  /\ copies' \in [Events -> Nat] /\ settled' \subseteq Events
  /\ \A e \in Events : \/ copies'[e] = copies[e]
                       \/ copies'[e] = copies[e] + 1 /\ e \in ToSet(m.events)
  /\ UNCHANGED <<client, sending, dropped>>

LEMMA IngestArrives ==
  ASSUME DeliveryAssumption, TypeInv, NEW m \in wire, Ingest(m) \/ FailIngest(m)
  PROVE  Arrives(m)
  <1>1. m.events \in Seq(Events) /\ m.by \in Senders
    BY DEF TypeInv, Shapes, Message
  <1>2. /\ ToSet(m.events) \subseteq Events /\ DOMAIN m.events = 1..Len(m.events)
        /\ Len(m.events) \in Nat
    BY <1>1, ToSetOf, LenProperties
  <1>3. ASSUME NEW status \in {"2xx", "4xx", "5xx"}, Answer(m, status)
        PROVE  wire' = wire \ {m} /\ reply' \in [Senders -> {"none", "2xx", "4xx", "5xx"}]
    BY <1>1, <1>3 DEF Answer, TypeInv, Shapes
  <1>4. CASE Ingest(m)
    <2>1. PICK last \in 0..Len(m.events) :
            /\ copies' = [e \in Events |->
                 IF e \in {m.events[i] : i \in last + 1 .. Len(m.events)}
                 THEN copies[e] + 1 ELSE copies[e]]
            /\ settled' = settled \cup ToSet(m.events)
            /\ Answer(m, IF Batched \/ last = 0 THEN "2xx" ELSE "4xx")
      BY <1>4 DEF Ingest
    <2>2. {m.events[i] : i \in last + 1 .. Len(m.events)} \subseteq ToSet(m.events)
      BY <1>1, <1>2, ToSetOf
    <2>3. wire' = wire \ {m} /\ reply' \in [Senders -> {"none", "2xx", "4xx", "5xx"}]
      <3>1. Answer(m, "2xx") \/ Answer(m, "4xx")
        BY <2>1
      <3>2. QED
        BY <1>3, <3>1
    <2>4. /\ copies' \in [Events -> Nat] /\ settled' \subseteq Events
          /\ \A e \in Events : \/ copies'[e] = copies[e]
                               \/ copies'[e] = copies[e] + 1 /\ e \in ToSet(m.events)
      BY <1>2, <2>1, <2>2 DEF TypeInv, Shapes
    <2>5. UNCHANGED <<client, sending, dropped, faults>>
      BY <1>4 DEF Ingest
    <2>6. QED
      BY <2>3, <2>4, <2>5 DEF Arrives, TypeInv, Shapes
  <1>5. CASE FailIngest(m)
    BY <1>3, <1>5 DEF FailIngest, Arrives, server, TypeInv, Shapes, DeliveryAssumption
  <1>6. QED
    BY <1>4, <1>5

-----------------------------------------------------------------------------
(* Types, and the queue *)

\* With a buffer, the lock lets one sender at a time begin.
LEMMA BeginsTyped ==
  ASSUME DeliveryAssumption, TypeInv, NEW s \in Senders, NEW events \in Seq(Events),
         events # <<>>, Begins(s, events), maxSize' = maxSize,
         \A t \in Threads : t # s => captured'[t] = captured[t]
  PROVE  /\ pc' \in [Senders -> Steps] /\ batch' \in [Senders -> Seq(Events)]
         /\ attempt' \in [Senders -> 0..MaxAttempts] /\ lock' \in Senders \cup {NoOne}
         /\ \A q \in Senders :
              /\ attempt'[q] > 0 <=> pc'[q] \in Posting
              /\ batch'[q] # <<>> <=> pc'[q] \in Posting
              /\ lock' = q <=> Batched' /\ pc'[q] \in Posting
              /\ pc'[q] = "add" => Batched' /\ q \in Threads /\ captured'[q] > 0
  <1>1. /\ pc' \in [Senders -> Steps] /\ batch' \in [Senders -> Seq(Events)]
        /\ attempt' \in [Senders -> 0..MaxAttempts] /\ lock' \in Senders \cup {NoOne}
    BY DEF Begins, TypeInv, Shapes, Steps, Posting, DeliveryAssumption
  <1>2. Batched' = Batched
    BY DEF Batched
  <1>3. NoOne \notin Senders
    BY DEF DeliveryAssumption, Senders
  <1>4. ASSUME NEW q \in Senders
        PROVE  /\ attempt'[q] > 0 <=> pc'[q] \in Posting
               /\ batch'[q] # <<>> <=> pc'[q] \in Posting
               /\ lock' = q <=> Batched' /\ pc'[q] \in Posting
               /\ pc'[q] = "add" => Batched' /\ q \in Threads /\ captured'[q] > 0
    <2>1. CASE q = s
      BY <1>2, <2>1 DEF Begins, TypeInv, Shapes, SenderInv, Posting
    <2>2. CASE q # s
      <3>1. pc'[q] = pc[q] /\ batch'[q] = batch[q] /\ attempt'[q] = attempt[q]
        BY <2>2 DEF Begins, TypeInv, Shapes
      <3>2. lock' = q <=> Batched /\ pc[q] \in Posting
        BY <1>3, <2>2 DEF Begins, TypeInv, SenderInv
      <3>3. QED
        BY <1>2, <2>2, <3>1, <3>2 DEF TypeInv, SenderInv
    <2>3. QED
      BY <2>1, <2>2
  <1>5. QED
    BY <1>1, <1>4

LEMMA CaptureFifo ==
  ASSUME DeliveryAssumption, FifoInv, NEW t \in Threads, Capture(t)
  PROVE  FifoInv'
  <1>1. t \in Senders /\ captured[t] + 1 \in 1..Len(Calls[t]) /\ captured'[t] = captured[t] + 1
    <2>1. t \in Senders /\ Len(Calls[t]) \in Nat
      BY CallTyped DEF Senders
    <2>2. captured[t] \in Nat /\ captured[t] < Len(Calls[t]) /\ captured'[t] = captured[t] + 1
      BY DEF Capture, FifoInv, TypeInv, Shapes
    <2>3. QED
      BY <2>1, <2>2
  <1>2. /\ captured' = [captured EXCEPT ![t] = captured[t] + 1] /\ pc[t] = "idle"
        /\ UNCHANGED <<running, maxSize, lock, buffer, added, handed, wire, reply, server,
                       dropped, faults>>
    BY DEF Capture
  <1>3. captured' \in [Threads -> Nat] /\ \A u \in Threads : captured'[u] \in 0..Len(Calls[u])
    BY <1>1, <1>2 DEF FifoInv, TypeInv, Shapes, SenderInv
  <1>4. CASE Batched
    <2>1. pc' = [pc EXCEPT ![t] = "add"] /\ UNCHANGED <<batch, attempt>>
      BY <1>4 DEF Capture
    <2>2. Shapes'
      BY <1>2, <1>3, <2>1 DEF FifoInv, TypeInv, Shapes, Steps, server
    <2>3. SenderInv'
      BY <1>1, <1>2, <1>3, <1>4, <2>1
      DEF FifoInv, TypeInv, Shapes, SenderInv, Batched, Posting, Steps
    <2>4. QED
      BY <1>2, <2>2, <2>3 DEF FifoInv, TypeInv
  <1>5. CASE ~Batched
    <2> DEFINE e == Calls[t][captured'[t]]
    <2>1. e \in Events
      BY <1>1, CallTyped
    <2>2. <<e>> \in Seq(Events) /\ <<e>> # <<>>
      BY <2>1
    <2>3. Begins(t, <<e>>)
      BY <1>2, <1>5 DEF Capture, StartPost, Begins
    <2>4. /\ pc' \in [Senders -> Steps] /\ batch' \in [Senders -> Seq(Events)]
          /\ attempt' \in [Senders -> 0..MaxAttempts] /\ lock' \in Senders \cup {NoOne}
          /\ \A q \in Senders :
              /\ attempt'[q] > 0 <=> pc'[q] \in Posting
              /\ batch'[q] # <<>> <=> pc'[q] \in Posting
              /\ lock' = q <=> Batched' /\ pc'[q] \in Posting
              /\ pc'[q] = "add" => Batched' /\ q \in Threads /\ captured'[q] > 0
      <3> HIDE DEF e
      <3>1. \A u \in Threads : u # t => captured'[u] = captured[u]
        BY <1>2 DEF FifoInv, TypeInv, Shapes
      <3>2. QED
        BY <1>1, <1>2, <2>2, <2>3, <3>1, BeginsTyped DEF FifoInv
    <2>5. QED
      BY <1>2, <1>3, <2>4 DEF FifoInv, TypeInv, Shapes, SenderInv, server
  <1>6. QED
    BY <1>4, <1>5

\* What DoFlush takes from the buffer goes to the end of what was handed on.
LEMMA FlushFifo ==
  ASSUME DeliveryAssumption, TypeInv, NEW s \in Senders, NEW events \in Seq(Events),
         events # <<>>, pc[s] \in {"idle", "add"}, Batched, lock = NoOne, DoFlush(s, events),
         added' \in Seq(Events), handed \o events = added',
         UNCHANGED <<running, maxSize, captured, wire, reply, server, dropped, faults>>
  PROVE  FifoInv' /\ Begins(s, events)
  <1>1. Begins(s, events)
    BY DEF DoFlush, StartPost, Begins
  <1>2. handed' = handed \o events /\ handed' \in Seq(Events) /\ buffer' = <<>>
    BY ConcatProperties DEF DoFlush, TypeInv, Shapes
  <1>3. handed' \o buffer' = added' /\ buffer' \in Seq(Events) /\ Len(buffer') = 0
    BY <1>2, ConcatEmptySeq, EmptySeq
  <1>4. /\ pc' \in [Senders -> Steps] /\ batch' \in [Senders -> Seq(Events)]
        /\ attempt' \in [Senders -> 0..MaxAttempts] /\ lock' \in Senders \cup {NoOne}
        /\ \A q \in Senders :
             /\ attempt'[q] > 0 <=> pc'[q] \in Posting
             /\ batch'[q] # <<>> <=> pc'[q] \in Posting
             /\ lock' = q <=> Batched' /\ pc'[q] \in Posting
             /\ pc'[q] = "add" => Batched' /\ q \in Threads /\ captured'[q] > 0
    BY <1>1, BeginsTyped
  <1>5. Shapes'
    BY <1>2, <1>3, <1>4 DEF TypeInv, Shapes, server
  <1>6. maxSize' > 1
    BY DEF Batched
  <1>7. SenderInv'
    <2>1. running' => Len(buffer') < maxSize'
      <3>1. maxSize' \in Nat
        BY DeliveryAssumption DEF TypeInv, Shapes
      <3>2. QED
        BY <1>3, <1>6, <3>1
    <2>2. \A t \in Threads : captured'[t] \in 0..Len(Calls[t])
      BY DEF TypeInv, SenderInv
    <2>3. QED
      BY <1>4, <2>1, <2>2 DEF SenderInv
  <1>8. QED
    BY <1>1, <1>3, <1>5, <1>7 DEF FifoInv, TypeInv

LEMMA AddFifo ==
  ASSUME DeliveryAssumption, FifoInv, NEW t \in Threads, Add(t)
  PROVE  FifoInv'
  <1> DEFINE e == Calls[t][captured[t]]
             full == Append(buffer, e)
  <1>1. t \in Senders /\ pc[t] = "add" /\ lock = NoOne /\ Batched /\ e \in Events
    <2>1. t \in Senders /\ pc[t] = "add" /\ lock = NoOne
      BY DEF Senders, Add
    <2>2. Batched /\ captured[t] > 0 /\ captured[t] \in 0..Len(Calls[t])
      BY <2>1 DEF FifoInv, TypeInv, SenderInv
    <2>3. captured[t] \in 1..Len(Calls[t])
      BY <2>2, CallTyped
    <2>4. QED
      BY <2>1, <2>2, <2>3, CallTyped
  <1>2. /\ full \in Seq(Events) /\ full # <<>> /\ Len(full) = Len(buffer) + 1
        /\ added' = Append(added, e) /\ added' \in Seq(Events)
    <2>1. added' = Append(added, e)
      BY DEF Add
    <2>2. buffer \in Seq(Events) /\ added \in Seq(Events)
      BY DEF FifoInv, TypeInv, Shapes
    <2> HIDE DEF e
    <2>3. QED
      BY <1>1, <2>1, <2>2, AppendProperties
  <1>3. handed \o full = added'
    <2>1. buffer \in Seq(Events) /\ added \in Seq(Events) /\ handed \in Seq(Events)
      BY DEF FifoInv, TypeInv, Shapes
    <2>2. handed \o buffer = added
      BY DEF FifoInv
    <2> HIDE DEF e
    <2>3. full = buffer \o <<e>> /\ added' = added \o <<e>> /\ <<e>> \in Seq(Events)
      BY <1>1, <1>2, <2>1, AppendIsConcat
    <2>4. handed \o (buffer \o <<e>>) = (handed \o buffer) \o <<e>>
      BY <2>1, <2>3, ConcatAssociative
    <2>5. QED
      BY <2>2, <2>3, <2>4
  <1>4. UNCHANGED <<running, maxSize, captured, wire, reply, server, dropped, faults>>
    BY DEF Add
  <1>5. CASE Len(full) >= maxSize
    <2>1. DoFlush(t, full)
      BY <1>5 DEF Add
    <2>2. QED
      <3> HIDE DEF full
      <3>1. QED
        BY <1>1, <1>2, <1>3, <1>4, <2>1, FlushFifo DEF FifoInv
  <1>6. CASE ~(Len(full) >= maxSize)
    <2>1. /\ buffer' = full /\ pc' = [pc EXCEPT ![t] = "idle"]
          /\ UNCHANGED <<lock, handed, batch, attempt>>
      BY <1>6 DEF Add
    <2>2. Shapes'
      BY <1>2, <1>4, <2>1 DEF FifoInv, TypeInv, Shapes, Steps, server
    <2>3. Len(buffer') < maxSize'
      <3>1. Len(buffer) \in Nat /\ maxSize \in Nat
        BY LenProperties DEF FifoInv, TypeInv, Shapes, DeliveryAssumption
      <3> HIDE DEF full
      <3>2. QED
        BY <1>2, <1>4, <1>6, <2>1, <3>1
    <2>4. SenderInv'
      BY <1>1, <1>4, <2>1, <2>3 DEF FifoInv, TypeInv, Shapes, SenderInv, Posting, Batched
    <2>5. QED
      BY <1>3, <2>1, <2>2, <2>4 DEF FifoInv, TypeInv
  <1>7. QED
    BY <1>5, <1>6

LEMMA PostFifo ==
  ASSUME DeliveryAssumption, FifoInv, NEW s \in Senders, Post(s)
  PROVE  FifoInv'
  <1> DEFINE m == [by |-> s, attempt |-> attempt[s], events |-> batch[s]]
  <1>1. m \in Message
    BY DEF FifoInv, TypeInv, Shapes, Message, DeliveryAssumption
  <1>2. wire' = wire \cup {m} /\ wire' \subseteq Message /\ IsFiniteSet(wire')
    <2>1. wire' = wire \cup {m}
      BY DEF Post
    <2>2. wire \subseteq Message /\ IsFiniteSet(wire)
      BY DEF FifoInv, TypeInv, Shapes
    <2> HIDE DEF m
    <2>3. IsFiniteSet(wire \cup {m})
      BY <2>2, FS_AddElement
    <2>4. QED
      BY <1>1, <2>1, <2>2, <2>3
  <1>3. /\ pc[s] = "post" /\ pc' = [pc EXCEPT ![s] = "wait"]
        /\ reply' = [reply EXCEPT ![s] = "none"]
        /\ UNCHANGED <<client, batch, attempt, server, dropped, faults>>
    BY DEF Post
  <1>4. Shapes'
    BY <1>2, <1>3 DEF FifoInv, TypeInv, Shapes, Steps, Posting, client, server
  <1>5. SenderInv'
    BY <1>3 DEF FifoInv, TypeInv, Shapes, SenderInv, Posting, Batched, client
  <1>6. QED
    BY <1>3, <1>4, <1>5 DEF FifoInv, TypeInv, client

LEMMA SettlesFifo ==
  ASSUME DeliveryAssumption, FifoInv, NEW s \in Senders, Settles(s)
  PROVE  FifoInv'
  <1>1. pc[s] \in Posting /\ NoOne \notin Senders
    BY DEF Settles, Again, Ends, Posting, DeliveryAssumption, Senders
  <1>2. /\ UNCHANGED <<running, maxSize, captured, buffer, added, handed, wire, server>>
        /\ reply' \in [Senders -> {"none", "2xx", "4xx", "5xx"}]
        /\ dropped' \subseteq Events /\ faults' \in 0..MaxFaults
    BY DEF Settles
  <1>3. Batched' = Batched
    BY <1>2 DEF Batched
  <1>4. CASE Again(s)
    <2>1. attempt[s] + 1 \in 1..MaxAttempts
      BY <1>4 DEF Again, MayRetry, FifoInv, TypeInv, Shapes, DeliveryAssumption
    <2>2. Shapes'
      BY <1>2, <1>4, <2>1 DEF Again, FifoInv, TypeInv, Shapes, Steps, Posting, server
    <2>3. SenderInv'
      BY <1>1, <1>2, <1>3, <1>4, <2>1
      DEF Again, FifoInv, TypeInv, Shapes, SenderInv, Posting
    <2>4. QED
      BY <1>2, <2>2, <2>3 DEF FifoInv, TypeInv
  <1>5. CASE Ends(s)
    <2>1. /\ pc' = [pc EXCEPT ![s] = "idle"] /\ batch' = [batch EXCEPT ![s] = <<>>]
          /\ attempt' = [attempt EXCEPT ![s] = 0]
          /\ lock' = IF lock = s THEN NoOne ELSE lock
      BY <1>5 DEF Ends, End
    <2>2. <<>> \in Seq(Events) /\ 0 \in 0..MaxAttempts
      BY EmptySeq DEF DeliveryAssumption
    <2>3. Shapes'
      BY <1>2, <2>1, <2>2 DEF FifoInv, TypeInv, Shapes, Steps, Posting, server
    <2>4. ASSUME NEW q \in Senders
          PROVE  /\ attempt'[q] > 0 <=> pc'[q] \in Posting
                 /\ batch'[q] # <<>> <=> pc'[q] \in Posting
                 /\ lock' = q <=> Batched' /\ pc'[q] \in Posting
                 /\ pc'[q] = "add" => Batched' /\ q \in Threads /\ captured'[q] > 0
      <3>1. CASE q = s
        BY <1>1, <2>1, <3>1 DEF FifoInv, TypeInv, Shapes, Posting
      <3>2. CASE q # s
        <4>1. pc'[q] = pc[q] /\ batch'[q] = batch[q] /\ attempt'[q] = attempt[q]
          BY <2>1, <3>2 DEF FifoInv, TypeInv, Shapes
        <4>2. lock' = q <=> lock = q
          BY <1>1, <2>1, <3>2
        <4>3. QED
          BY <1>2, <1>3, <4>1, <4>2 DEF FifoInv, TypeInv, SenderInv
      <3>3. QED
        BY <3>1, <3>2
    <2>5. SenderInv'
      BY <1>2, <2>4 DEF FifoInv, TypeInv, SenderInv
    <2>6. QED
      BY <1>2, <2>3, <2>5 DEF FifoInv, TypeInv
  <1>6. QED
    BY <1>4, <1>5 DEF Settles

LEMMA ArrivesFifo ==
  ASSUME DeliveryAssumption, FifoInv, NEW m \in wire, Arrives(m)
  PROVE  FifoInv'
  <1>1. wire' \subseteq Message /\ IsFiniteSet(wire')
    BY FS_RemoveElement DEF Arrives, FifoInv, TypeInv, Shapes
  <1>2. Shapes'
    BY <1>1 DEF Arrives, FifoInv, TypeInv, Shapes, client, sending
  <1>3. SenderInv'
    BY DEF Arrives, FifoInv, TypeInv, SenderInv, client, sending, Batched
  <1>4. QED
    BY <1>2, <1>3 DEF Arrives, FifoInv, TypeInv, client

LEMMA FifoStays ==
  ASSUME FifoInv, running' \in BOOLEAN, running' => running,
         UNCHANGED <<maxSize, captured, lock, buffer, added, handed, sending, wire, reply,
                     server, dropped, faults>>
  PROVE  FifoInv'
  <1>1. Shapes'
    BY DEF FifoInv, TypeInv, Shapes, sending, server
  <1>2. SenderInv'
    BY DEF FifoInv, TypeInv, SenderInv, sending, Batched
  <1>3. QED
    BY <1>1, <1>2 DEF FifoInv, TypeInv

LEMMA InitFifo ==
  ASSUME DeliveryAssumption, Init
  PROVE  FifoInv
  <1>1. /\ <<>> \in Seq(Events) /\ Len(<<>>) = 0 /\ IsFiniteSet({})
        /\ <<>> \o <<>> = <<>> /\ NoOne \notin Senders
    BY EmptySeq, ConcatEmptySeq, FS_EmptySet DEF DeliveryAssumption, Senders
  <1>2. \A t \in Threads : Len(Calls[t]) \in Nat
    BY CallTyped
  <1>3. Shapes
    BY <1>1 DEF Init, Shapes, Steps, DeliveryAssumption
  <1>4. SenderInv
    BY <1>1, <1>2 DEF Init, SenderInv, Posting, DeliveryAssumption
  <1>5. QED
    BY <1>1, <1>3, <1>4 DEF Init, FifoInv, TypeInv

LEMMA StepFifo ==
  ASSUME DeliveryAssumption, FifoInv, [Next]_vars
  PROVE  FifoInv'
  <1>1. ASSUME NEW t \in Threads, Capture(t) \/ Add(t)
        PROVE  FifoInv'
    BY <1>1, CaptureFifo, AddFifo
  <1>2. ASSUME NEW s \in Senders, Flush(s)
        PROVE  FifoInv'
    <2>1. /\ Batched /\ pc[s] = "idle" /\ lock = NoOne /\ buffer # <<>> /\ DoFlush(s, buffer)
          /\ UNCHANGED <<running, maxSize, captured, added, wire, reply, server, dropped, faults>>
      BY <1>2 DEF Flush
    <2>2. added' \in Seq(Events) /\ handed \o buffer = added' /\ buffer \in Seq(Events)
      BY <2>1 DEF FifoInv, TypeInv, Shapes
    <2>3. QED
      BY <2>1, <2>2, FlushFifo DEF FifoInv
  <1>3. ASSUME NEW s \in Senders, Deliver(s) \/ TimeOut(s) \/ Abandon(s)
        PROVE  FifoInv'
    BY <1>3, PostFifo, AnswerSettles, SettlesFifo DEF Deliver, FifoInv
  <1>4. ASSUME NEW m \in wire, Ingest(m) \/ FailIngest(m)
        PROVE  FifoInv'
    BY <1>4, IngestArrives, ArrivesFifo DEF FifoInv
  <1>5. CASE Exit
    BY <1>5, FifoStays DEF Exit
  <1>6. CASE UNCHANGED vars
    BY <1>6, FifoStays DEF vars, client, FifoInv, TypeInv, Shapes
  <1>7. QED
    BY <1>1, <1>2, <1>3, <1>4, <1>5, <1>6 DEF Next

\* The invariant implies what the run checks.
LEMMA FifoChecked ==
  ASSUME FifoInv
  PROVE  BufferIsFifo
  <1>1. TypeOK
    BY DEF FifoInv, TypeInv, Shapes, SenderInv, TypeOK, Posting, Steps
  <1>2. QED
    BY <1>1 DEF FifoInv, BufferIsFifo

\* What was flushed, then what is buffered, is what was added, whatever threads,
\* timer and callers of flush() interleave.
THEOREM BufferIsAQueue ==
  ASSUME DeliveryAssumption
  PROVE  Spec => []BufferIsFifo
  <1>1. Init => FifoInv
    BY InitFifo
  <1>2. FifoInv /\ [Next]_vars => FifoInv'
    BY StepFifo
  <1>3. FifoInv => BufferIsFifo
    BY FifoChecked
  <1>4. QED
    BY <1>1, <1>2, <1>3, PTL DEF Spec

-----------------------------------------------------------------------------
(* Copies *)

LEMMA DueTyped ==
  ASSUME TypeInv, NEW e \in Events
  PROVE  /\ IsFiniteSet(OnWire(e)) /\ Cardinality(OnWire(e)) \in Nat
         /\ copies[e] \in Nat /\ Due(e) \in Nat
  <1>1. IsFiniteSet(wire) /\ copies[e] \in Nat
    BY DEF TypeInv, Shapes
  <1>2. IsFiniteSet(OnWire(e))
    BY <1>1, FS_Subset DEF OnWire
  <1>3. Cardinality(OnWire(e)) \in Nat
    BY <1>2, FS_CardinalityType
  <1>4. QED
    BY <1>1, <1>2, <1>3 DEF Due

LEMMA PostsTyped ==
  ASSUME DeliveryAssumption, TypeInv, NEW s \in Senders
  PROVE  Posts(s) \in Int /\ (pc[s] \in Posting => Posts(s) \in Nat) /\ Posts(s) <= MaxAttempts
  <1>1. attempt[s] \in 0..MaxAttempts /\ MaxAttempts \in Nat
    BY DEF TypeInv, Shapes, DeliveryAssumption
  <1>2. pc[s] \in Posting => attempt[s] > 0
    BY DEF TypeInv, SenderInv
  <1>3. QED
    BY <1>1, <1>2 DEF Posts

LEMMA InPosting ==
  ASSUME TypeInv, NEW s \in Senders, NEW e, In(e, s)
  PROVE  pc[s] \in Posting
  <1>1. CASE batch[s] = <<>>
    BY <1>1, ToSetSmall DEF In
  <1>2. CASE batch[s] # <<>>
    BY <1>2 DEF TypeInv, SenderInv
  <1>3. QED
    BY <1>1, <1>2

\* What keeps an event in one place, and its copies within the attempts of its
\* post: a step may take an event out of the calls, into the buffer, or into the
\* batch of one sender that has not posted it yet.
LEMMA MovesKeep ==
  ASSUME DeliveryAssumption, FifoInv, FifoInv', PlaceInv, CopyInv, NEW s \in Senders,
         \A e \in Events :
           /\ Ahead(e)' => Ahead(e)
           /\ Buffered(e)' => (Buffered(e) \/ Ahead(e)) /\ ~Ahead(e)'
           /\ Due(e)' <= Due(e),
         \A e \in Events, q \in Senders : In(e, q)' =>
           \/ In(e, q) /\ Posts(q)' >= Posts(q)
           \/ /\ q = s /\ Posts(q)' >= 0
              /\ Ahead(e) \/ Buffered(e)
              /\ ~Ahead(e)' /\ ~Buffered(e)'
  PROVE  PlaceInv' /\ CopyInv'
  <1>1. TypeInv /\ TypeInv' /\ MaxAttempts \in Nat
    BY DEF FifoInv, DeliveryAssumption
  <1>2. ASSUME NEW e \in Events
        PROVE  Due(e) \in Nat /\ Due(e)' \in Nat
    <2>1. Due(e) \in Nat
      BY <1>1, DueTyped
    <2>2. Due(e)' \in Nat
      <3>1. IsFiniteSet(wire') /\ copies'[e] \in Nat
        BY <1>1 DEF TypeInv, Shapes
      <3>2. IsFiniteSet({m \in wire' : e \in ToSet(m.events)})
        BY <3>1, FS_Subset
      <3>3. Cardinality({m \in wire' : e \in ToSet(m.events)}) \in Nat
        BY <3>2, FS_CardinalityType
      <3>4. QED
        BY <3>1, <3>3 DEF Due, OnWire
    <2>3. QED
      BY <2>1, <2>2
  <1>3. ASSUME NEW q \in Senders
        PROVE  Posts(q) \in Int /\ Posts(q)' \in Int
    <2>1. attempt[q] \in Int /\ attempt'[q] \in Int
      BY <1>1 DEF TypeInv, Shapes
    <2>2. QED
      BY <2>1 DEF Posts
  <1>4. ASSUME NEW e \in Events, NEW q \in Senders, In(e, q)'
        PROVE  /\ ~Ahead(e)' /\ ~Buffered(e)' /\ Due(e)' <= Posts(q)'
               /\ In(e, q) \/ (q = s /\ (Ahead(e) \/ Buffered(e)))
    <2>1. CASE In(e, q) /\ Posts(q)' >= Posts(q)
      <3>1. ~Ahead(e) /\ ~Buffered(e) /\ Due(e) <= Posts(q)
        BY <2>1 DEF PlaceInv, CopyInv
      <3>2. Due(e)' <= Posts(q)'
        BY <1>2, <1>3, <2>1, <3>1
      <3>3. QED
        BY <2>1, <3>1, <3>2
    <2>2. CASE /\ q = s /\ Posts(q)' >= 0
               /\ Ahead(e) \/ Buffered(e)
               /\ ~Ahead(e)' /\ ~Buffered(e)'
      <3>1. Due(e) = 0
        BY <2>2 DEF CopyInv
      <3>2. Due(e)' <= Posts(q)'
        BY <1>2, <1>3, <2>2, <3>1
      <3>3. QED
        BY <2>2, <3>2
    <2>3. QED
      BY <1>4, <2>1, <2>2
  <1>5. ASSUME NEW e \in Events, NEW q \in Senders, NEW r \in Senders, In(e, q)', In(e, r)'
        PROVE  q = r
    <2>1. /\ In(e, q) \/ (q = s /\ (Ahead(e) \/ Buffered(e)))
          /\ In(e, r) \/ (r = s /\ (Ahead(e) \/ Buffered(e)))
      BY <1>4, <1>5
    <2>2. QED
      BY <2>1 DEF PlaceInv
  <1>6. PlaceInv'
    <2>1. \A e \in Events : Buffered(e)' => ~Ahead(e)'
      OBVIOUS
    <2>2. \A q \in Senders, e \in Events : In(e, q)' => ~Ahead(e)' /\ ~Buffered(e)'
      BY <1>4
    <2>3. \A q, r \in Senders, e \in Events : In(e, q)' /\ In(e, r)' => q = r
      BY <1>5
    <2>4. Events = Events' /\ Senders = Senders'
      BY DEF Events, Senders
    <2>5. QED
      BY <2>1, <2>2, <2>3, <2>4 DEF PlaceInv
  <1>7. CopyInv'
    <2>1. \A e \in Events : Due(e)' <= MaxAttempts
      BY <1>1, <1>2 DEF CopyInv
    <2>2. \A q \in Senders, e \in Events : In(e, q)' => Due(e)' <= Posts(q)'
      BY <1>4
    <2>3. ASSUME NEW e \in Events, Ahead(e)' \/ Buffered(e)'
          PROVE  Due(e)' = 0
      <3>1. Ahead(e) \/ Buffered(e)
        BY <2>3
      <3>2. Due(e) = 0
        BY <3>1 DEF CopyInv
      <3>3. QED
        BY <1>2, <3>2
    <2>4. QED
      BY <2>1, <2>2, <2>3 DEF CopyInv
  <1>8. QED
    BY <1>6, <1>7

LEMMA DueSame ==
  ASSUME NEW e \in Events, TypeInv, UNCHANGED <<wire, copies>>
  PROVE  Due(e)' <= Due(e)
  <1>1. Due(e)' = Due(e)
    BY DEF Due, OnWire
  <1>2. QED
    BY <1>1, DueTyped

\* A sender that is not the one that moves.
LEMMA InSame ==
  ASSUME DeliveryAssumption, TypeInv, NEW e \in Events, NEW q \in Senders, In(e, q)',
         batch'[q] = batch[q], attempt'[q] = attempt[q], pc'[q] = pc[q]
  PROVE  In(e, q) /\ Posts(q)' >= Posts(q)
  <1>1. Posts(q)' = Posts(q) /\ Posts(q) \in Int
    BY PostsTyped DEF Posts
  <1>2. QED
    BY <1>1 DEF In

LEMMA AheadStays ==
  ASSUME captured' = captured, \A t \in Threads : pc'[t] = "add" => pc[t] = "add"
  PROVE  \A e \in Events : Ahead(e)' => Ahead(e)
  BY DEF Ahead

\* A thread's next event leaves its calls, for good: no other call captures it.
LEMMA AheadLeaves ==
  ASSUME DeliveryAssumption, TypeInv, TypeInv', NEW t \in Threads,
         NEW c \in Events, c = Calls[t][captured'[t]],
         \A u \in Threads \ {t} : captured'[u] = captured[u] /\ pc'[u] = pc[u],
         \/ captured'[t] = captured[t] + 1
         \/ captured'[t] = captured[t] /\ pc[t] = "add",
         captured'[t] \in 1..Len(Calls[t]), pc'[t] # "add"
  PROVE  /\ \A e \in Events : Ahead(e)' => Ahead(e)
         /\ Ahead(c) /\ ~Ahead(c)'
  <1>1. captured[t] \in Nat /\ captured'[t] \in Nat
    BY DEF TypeInv, Shapes
  <1>2. ASSUME NEW e \in Events, Ahead(e)'
        PROVE  Ahead(e)
    <2>1. PICK u \in Threads : \E i \in 1..Len(Calls[u]) :
            /\ Calls[u][i] = e
            /\ i > captured'[u] \/ (i = captured'[u] /\ pc'[u] = "add")
      BY <1>2 DEF Ahead
    <2>2. CASE u = t
      BY <1>1, <2>1, <2>2, CallTyped DEF Ahead
    <2>3. CASE u # t
      BY <2>1, <2>3 DEF Ahead
    <2>4. QED
      BY <2>2, <2>3
  <1>3. Ahead(c)
    BY <1>1 DEF Ahead
  <1>4. ASSUME Ahead(c)'
        PROVE  FALSE
    <2>1. PICK u \in Threads : \E i \in 1..Len(Calls[u]) :
            /\ Calls[u][i] = c
            /\ i > captured'[u] \/ (i = captured'[u] /\ pc'[u] = "add")
      BY <1>4 DEF Ahead
    <2>2. PICK i \in 1..Len(Calls[u]) :
            /\ Calls[u][i] = c
            /\ i > captured'[u] \/ (i = captured'[u] /\ pc'[u] = "add")
      BY <2>1
    <2>3. u = t /\ i = captured'[t]
      BY <2>2 DEF DeliveryAssumption
    <2>4. QED
      BY <1>1, <2>2, <2>3
  <1>5. QED
    BY <1>2, <1>3, <1>4

LEMMA BeginsCopy ==
  ASSUME DeliveryAssumption, FifoInv, FifoInv', PlaceInv, CopyInv,
         NEW s \in Senders, NEW events \in Seq(Events), Begins(s, events),
         UNCHANGED <<wire, copies>>,
         \A e \in Events :
           /\ Ahead(e)' => Ahead(e)
           /\ Buffered(e)' => (Buffered(e) \/ Ahead(e)) /\ ~Ahead(e)',
         \A e \in ToSet(events) :
           /\ Ahead(e) \/ Buffered(e)
           /\ ~Ahead(e)' /\ ~Buffered(e)'
  PROVE  PlaceInv' /\ CopyInv'
  <1>1. TypeInv
    BY DEF FifoInv
  <1>2. \A e \in Events : Due(e)' <= Due(e)
    BY <1>1, DueSame
  <1>3. ASSUME NEW e \in Events, NEW q \in Senders, In(e, q)'
        PROVE  \/ In(e, q) /\ Posts(q)' >= Posts(q)
               \/ /\ q = s /\ Posts(q)' >= 0
                  /\ Ahead(e) \/ Buffered(e)
                  /\ ~Ahead(e)' /\ ~Buffered(e)'
    <2>1. CASE q = s
      <3>1. batch'[q] = events /\ pc'[q] = "post" /\ attempt'[q] = 1
        BY <1>1, <2>1 DEF Begins, TypeInv, Shapes
      <3>2. e \in ToSet(events) /\ Posts(q)' = 0
        BY <1>3, <3>1 DEF In, Posts
      <3>3. QED
        BY <2>1, <3>2
    <2>2. CASE q # s
      <3>1. batch'[q] = batch[q] /\ attempt'[q] = attempt[q] /\ pc'[q] = pc[q]
        BY <1>1, <2>2 DEF Begins, TypeInv, Shapes
      <3>2. QED
        BY <1>1, <1>3, <3>1, InSame
    <2>3. QED
      BY <2>1, <2>2
  <1>4. QED
    BY <1>2, <1>3, MovesKeep

LEMMA CaptureCopy ==
  ASSUME DeliveryAssumption, FifoInv, FifoInv', PlaceInv, CopyInv,
         NEW t \in Threads, Capture(t)
  PROVE  PlaceInv' /\ CopyInv'
  <1>1. TypeInv /\ TypeInv' /\ t \in Senders
    BY DEF FifoInv, Senders
  <1>2. /\ captured[t] \in Nat /\ captured'[t] = captured[t] + 1
        /\ \A u \in Threads \ {t} : captured'[u] = captured[u]
        /\ pc[t] = "idle" /\ UNCHANGED <<lock, buffer, wire, copies>>
    BY <1>1 DEF Capture, TypeInv, Shapes, server
  <1>3. captured'[t] \in 1..Len(Calls[t])
    <2>1. Len(Calls[t]) \in Nat /\ captured[t] < Len(Calls[t])
      BY CallTyped DEF Capture
    <2>2. QED
      BY <1>2, <2>1
  <1>4. \A e \in Events : Due(e)' <= Due(e) /\ (Buffered(e)' <=> Buffered(e))
    BY <1>1, <1>2, DueSame DEF Buffered
  <1>5. CASE Batched
    <2>1. pc' = [pc EXCEPT ![t] = "add"] /\ UNCHANGED <<batch, attempt>>
      BY <1>5 DEF Capture
    <2>2. ASSUME NEW e \in Events, Ahead(e)'
          PROVE  Ahead(e)
      <3>1. PICK u \in Threads : \E i \in 1..Len(Calls[u]) :
              /\ Calls[u][i] = e
              /\ i > captured'[u] \/ (i = captured'[u] /\ pc'[u] = "add")
        BY <2>2 DEF Ahead
      <3>2. CASE u = t
        BY <1>2, <3>1, <3>2, CallTyped DEF Ahead
      <3>3. CASE u # t
        <4>1. pc'[u] = "add" => pc[u] = "add"
          BY <1>1, <2>1, <3>3 DEF TypeInv, Shapes
        <4>2. QED
          BY <1>2, <3>1, <3>3, <4>1 DEF Ahead
      <3>4. QED
        BY <3>2, <3>3
    <2>3. \A e \in Events : Buffered(e)' => (Buffered(e) \/ Ahead(e)) /\ ~Ahead(e)'
      BY <1>4, <2>2 DEF PlaceInv
    <2>4. ASSUME NEW e \in Events, NEW q \in Senders, In(e, q)'
          PROVE  In(e, q) /\ Posts(q)' >= Posts(q)
      <3>1. pc'[q] = "post" <=> pc[q] = "post"
        BY <1>1, <1>2, <2>1 DEF TypeInv, Shapes
      <3>2. Posts(q)' = Posts(q) /\ Posts(q) \in Int
        BY <1>1, <2>1, <3>1, PostsTyped DEF Posts
      <3>3. QED
        BY <2>1, <2>4, <3>2 DEF In
    <2>5. QED
      BY <1>1, <1>4, <2>2, <2>3, <2>4, MovesKeep
  <1>6. CASE ~Batched
    <2>1. PICK e \in Events : e = Calls[t][captured'[t]]
      BY <1>3, CallTyped
    <2>2. StartPost(t, <<e>>) /\ <<e>> \in Seq(Events)
      BY <1>6, <2>1 DEF Capture
    <2>3. Begins(t, <<e>>)
      BY <1>2, <1>6, <2>2 DEF StartPost, Begins
    <2>4. /\ pc'[t] # "add"
          /\ \A u \in Threads \ {t} : captured'[u] = captured[u] /\ pc'[u] = pc[u]
      BY <1>1, <1>2, <2>3 DEF Begins, TypeInv, Shapes
    <2>5. (\A c \in Events : Ahead(c)' => Ahead(c)) /\ Ahead(e) /\ ~Ahead(e)'
      BY <1>1, <1>2, <1>3, <2>1, <2>4, AheadLeaves
    <2>6. \A c \in Events : Buffered(c)' => (Buffered(c) \/ Ahead(c)) /\ ~Ahead(c)'
      BY <1>4, <2>5 DEF PlaceInv
    <2>7. ToSet(<<e>>) = {e} /\ ~Buffered(e)'
      BY <1>4, <2>5, <2>6, ToSetSmall DEF PlaceInv
    <2>8. QED
      BY <1>1, <1>2, <2>2, <2>3, <2>5, <2>6, <2>7, BeginsCopy
  <1>7. QED
    BY <1>5, <1>6

LEMMA AddCopy ==
  ASSUME DeliveryAssumption, FifoInv, FifoInv', PlaceInv, CopyInv, NEW t \in Threads, Add(t)
  PROVE  PlaceInv' /\ CopyInv'
  <1>1. /\ TypeInv /\ TypeInv' /\ t \in Senders
        /\ pc[t] = "add" /\ lock = NoOne /\ UNCHANGED <<captured, wire, copies>>
    BY DEF FifoInv, Senders, Add, server
  <1>2. captured[t] \in 1..Len(Calls[t]) /\ Batched
    <2>1. Batched /\ captured[t] > 0 /\ captured[t] \in 0..Len(Calls[t])
      BY <1>1 DEF TypeInv, SenderInv
    <2>2. QED
      BY <2>1, CallTyped
  <1>3. PICK c \in Events : c = Calls[t][captured[t]]
    BY <1>2, CallTyped
  <1>4. PICK full \in Seq(Events) :
          full = Append(buffer, c) /\ ToSet(full) = ToSet(buffer) \cup {c}
    <2>1. buffer \in Seq(Events)
      BY <1>1 DEF TypeInv, Shapes
    <2>2. Append(buffer, c) \in Seq(Events)
      BY <2>1, AppendProperties
    <2>3. ToSet(Append(buffer, c)) = ToSet(buffer) \cup {c}
      BY <2>1, ToSetAppend
    <2>4. QED
      BY <2>2, <2>3
  <1>5. pc'[t] # "add" /\ \A u \in Threads \ {t} : captured'[u] = captured[u] /\ pc'[u] = pc[u]
    BY <1>1 DEF Add, DoFlush, StartPost, TypeInv, Shapes, Senders
  <1>6. c = Calls[t][captured'[t]] /\ captured'[t] \in 1..Len(Calls[t])
    BY <1>1, <1>2, <1>3
  <1>7. (\A e \in Events : Ahead(e)' => Ahead(e)) /\ Ahead(c) /\ ~Ahead(c)'
    BY <1>1, <1>5, <1>6, AheadLeaves
  <1>8. \A e \in Events : e \in ToSet(full) => (Ahead(e) \/ Buffered(e)) /\ ~Ahead(e)'
    BY <1>4, <1>7 DEF Buffered, PlaceInv
  <1>9. CASE Len(full) >= maxSize
    <2>1. DoFlush(t, full)
      BY <1>3, <1>4, <1>9 DEF Add
    <2>2. buffer' = <<>> /\ Begins(t, full)
      BY <1>1, <1>2, <2>1 DEF DoFlush, StartPost, Begins
    <2>3. \A e \in Events : ~Buffered(e)'
      BY <2>2, ToSetSmall DEF Buffered
    <2>4. ToSet(full) \subseteq Events
      BY <1>4, ToSetOf
    <2>5. QED
      BY <1>1, <1>4, <1>7, <1>8, <2>2, <2>3, <2>4, BeginsCopy
  <1>10. CASE ~(Len(full) >= maxSize)
    <2>1. buffer' = full /\ pc' = [pc EXCEPT ![t] = "idle"] /\ UNCHANGED <<batch, attempt>>
      BY <1>3, <1>4, <1>10 DEF Add
    <2>2. \A e \in Events : Buffered(e)' => (Buffered(e) \/ Ahead(e)) /\ ~Ahead(e)'
      BY <1>8, <2>1 DEF Buffered
    <2>3. \A e \in Events : Due(e)' <= Due(e)
      BY <1>1, DueSame
    <2>4. ASSUME NEW e \in Events, NEW q \in Senders, In(e, q)'
          PROVE  In(e, q) /\ Posts(q)' >= Posts(q)
      <3>1. pc'[q] = "post" <=> pc[q] = "post"
        BY <1>1, <2>1 DEF TypeInv, Shapes
      <3>2. Posts(q)' = Posts(q) /\ Posts(q) \in Int
        BY <1>1, <2>1, <3>1, PostsTyped DEF Posts
      <3>3. QED
        BY <2>1, <2>4, <3>2 DEF In
    <2>5. QED
      BY <1>1, <1>7, <2>2, <2>3, <2>4, MovesKeep
  <1>11. QED
    BY <1>9, <1>10

LEMMA FlushCopy ==
  ASSUME DeliveryAssumption, FifoInv, FifoInv', PlaceInv, CopyInv, NEW s \in Senders, Flush(s)
  PROVE  PlaceInv' /\ CopyInv'
  <1>1. /\ TypeInv /\ buffer \in Seq(Events) /\ pc[s] = "idle"
        /\ buffer' = <<>> /\ UNCHANGED <<captured, wire, copies>>
    BY DEF FifoInv, TypeInv, Shapes, Flush, DoFlush, server
  <1>2. Begins(s, buffer)
    BY DEF Flush, DoFlush, StartPost, Begins
  <1>3. \A u \in Threads : pc'[u] = "add" => pc[u] = "add"
    BY <1>1, <1>2 DEF Begins, TypeInv, Shapes, Senders
  <1>4. \A e \in Events : (Ahead(e)' => Ahead(e)) /\ ~Buffered(e)'
    BY <1>1, <1>3, AheadStays, ToSetSmall DEF Buffered
  <1>5. \A e \in ToSet(buffer) : e \in Events /\ Buffered(e) /\ ~Ahead(e)
    BY <1>1, ToSetOf DEF Buffered, PlaceInv
  <1>6. QED
    BY <1>1, <1>2, <1>4, <1>5, BeginsCopy

LEMMA SettlesCopy ==
  ASSUME DeliveryAssumption, FifoInv, FifoInv', PlaceInv, CopyInv, NEW s \in Senders, Settles(s)
  PROVE  PlaceInv' /\ CopyInv'
  <1>1. TypeInv /\ UNCHANGED <<captured, buffer, wire, copies>>
    BY DEF FifoInv, Settles, server
  <1>2. \A u \in Threads : pc'[u] = "add" => pc[u] = "add"
    BY <1>1 DEF Settles, Again, Ends, End, TypeInv, Shapes, Senders
  <1>3. \A e \in Events : /\ Ahead(e)' => Ahead(e)
                          /\ Due(e)' <= Due(e)
                          /\ Buffered(e)' <=> Buffered(e)
    BY <1>1, <1>2, AheadStays, DueSame DEF Buffered
  <1>4. ASSUME NEW e \in Events, NEW q \in Senders, In(e, q)'
        PROVE  In(e, q) /\ Posts(q)' >= Posts(q)
    <2>1. CASE q # s
      <3>1. batch'[q] = batch[q] /\ attempt'[q] = attempt[q] /\ pc'[q] = pc[q]
        BY <1>1, <2>1 DEF Settles, Again, Ends, End, TypeInv, Shapes
      <3>2. QED
        BY <1>1, <1>4, <3>1, InSame
    <2>2. CASE q = s /\ Again(s)
      <3>1. /\ batch'[q] = batch[q] /\ pc[q] = "wait" /\ pc'[q] = "post"
            /\ attempt'[q] = attempt[q] + 1 /\ attempt[q] \in Int
        BY <1>1, <2>2 DEF Again, TypeInv, Shapes
      <3>2. Posts(q)' = Posts(q) /\ Posts(q) \in Int
        BY <3>1 DEF Posts
      <3>3. QED
        BY <1>4, <3>1, <3>2 DEF In
    <2>3. CASE q = s /\ Ends(s)
      <3>1. batch'[q] = <<>>
        BY <1>1, <2>3 DEF Ends, End, TypeInv, Shapes
      <3>2. QED
        BY <1>4, <3>1, ToSetSmall DEF In
    <2>4. QED
      BY <2>1, <2>2, <2>3 DEF Settles
  <1>5. \A e \in Events : Buffered(e)' => (Buffered(e) \/ Ahead(e)) /\ ~Ahead(e)'
    BY <1>3 DEF PlaceInv
  <1>6. QED
    BY <1>3, <1>4, <1>5, MovesKeep

\* A row that comes of a message leaves one message fewer to come.
LEMMA ArrivesDue ==
  ASSUME TypeInv, NEW m \in wire, Arrives(m), NEW e \in Events
  PROVE  Due(e)' <= Due(e)
  <1>1. /\ IsFiniteSet(OnWire(e)) /\ Cardinality(OnWire(e)) \in Nat /\ copies[e] \in Nat
        /\ Due(e) = copies[e] + Cardinality(OnWire(e))
        /\ Due(e)' = copies'[e] + Cardinality(OnWire(e)')
    BY DueTyped DEF Due
  <1>2. CASE e \in ToSet(m.events)
    <2>1. m \in OnWire(e) /\ OnWire(e)' = OnWire(e) \ {m}
      BY <1>2 DEF OnWire, Arrives
    <2>2. Cardinality(OnWire(e)') = Cardinality(OnWire(e)) - 1
      BY <1>1, <2>1, FS_RemoveElement
    <2>3. copies'[e] = copies[e] \/ copies'[e] = copies[e] + 1
      BY DEF Arrives
    <2>4. QED
      BY <1>1, <2>2, <2>3
  <1>3. CASE e \notin ToSet(m.events)
    <2>1. OnWire(e)' = OnWire(e)
      BY <1>3 DEF OnWire, Arrives
    <2>2. copies'[e] = copies[e]
      BY <1>3 DEF Arrives
    <2>3. QED
      BY <1>1, <2>1, <2>2
  <1>4. QED
    BY <1>2, <1>3

LEMMA ArrivesCopy ==
  ASSUME DeliveryAssumption, FifoInv, FifoInv', PlaceInv, CopyInv, NEW m \in wire, Arrives(m)
  PROVE  PlaceInv' /\ CopyInv'
  <1>1. TypeInv /\ UNCHANGED <<captured, buffer, pc, batch, attempt>>
    BY DEF FifoInv, Arrives, client, sending
  <1>2. \A e \in Events : /\ Ahead(e)' => Ahead(e)
                          /\ Due(e)' <= Due(e)
                          /\ Buffered(e)' <=> Buffered(e)
    BY <1>1, AheadStays, ArrivesDue DEF Buffered
  <1>3. \A e \in Events, q \in Senders : In(e, q)' => In(e, q) /\ Posts(q)' >= Posts(q)
    BY <1>1, InSame
  <1>4. \A e \in Events : Buffered(e)' => (Buffered(e) \/ Ahead(e)) /\ ~Ahead(e)'
    BY <1>2 DEF PlaceInv
  <1>5. Timer \in Senders
    BY DEF Senders
  <1>6. QED
    BY <1>2, <1>3, <1>4, <1>5, MovesKeep

LEMMA NothingMoves ==
  ASSUME DeliveryAssumption, FifoInv, FifoInv', PlaceInv, CopyInv,
         UNCHANGED <<captured, buffer, sending, wire, copies>>
  PROVE  PlaceInv' /\ CopyInv'
  <1>1. TypeInv /\ UNCHANGED <<pc, batch, attempt>> /\ Timer \in Senders
    BY DEF FifoInv, sending, Senders
  <1>2. \A e \in Events : /\ Ahead(e)' => Ahead(e)
                          /\ Due(e)' <= Due(e)
                          /\ Buffered(e)' <=> Buffered(e)
    BY <1>1, AheadStays, DueSame DEF Buffered
  <1>3. \A e \in Events, q \in Senders : In(e, q)' => In(e, q) /\ Posts(q)' >= Posts(q)
    BY <1>1, InSame
  <1>4. \A e \in Events : Buffered(e)' => (Buffered(e) \/ Ahead(e)) /\ ~Ahead(e)'
    BY <1>2 DEF PlaceInv
  <1>5. QED
    BY <1>1, <1>2, <1>3, <1>4, MovesKeep

\* A post puts one message on the wire, and that counts as one more of its posts.
LEMMA PostCopy ==
  ASSUME DeliveryAssumption, FifoInv, FifoInv', PlaceInv, CopyInv, NEW s \in Senders, Post(s)
  PROVE  PlaceInv' /\ CopyInv'
  <1> DEFINE m == [by |-> s, attempt |-> attempt[s], events |-> batch[s]]
  <1>1. /\ TypeInv /\ pc[s] = "post" /\ pc' = [pc EXCEPT ![s] = "wait"]
        /\ UNCHANGED <<captured, buffer, batch, attempt, copies>> /\ wire' = wire \cup {m}
        /\ MaxAttempts \in Nat
    BY DEF FifoInv, Post, client, server, DeliveryAssumption
  <1>2. \A e \in Events : (Ahead(e)' => Ahead(e)) /\ (Buffered(e)' <=> Buffered(e))
    <2>1. \A u \in Threads : pc'[u] = "add" => pc[u] = "add"
      BY <1>1 DEF TypeInv, Shapes, Senders
    <2>2. QED
      BY <1>1, <2>1, AheadStays DEF Buffered
  <1>3. \A e \in Events, q \in Senders : In(e, q)' <=> In(e, q)
    BY <1>1 DEF In
  <1>4. \A q \in Senders \ {s} : Posts(q)' = Posts(q)
    BY <1>1 DEF Posts, TypeInv, Shapes
  <1>5. Posts(s)' = Posts(s) + 1 /\ Posts(s)' <= MaxAttempts /\ Posts(s) \in Int
    BY <1>1 DEF Posts, TypeInv, Shapes
  <1>6. ASSUME NEW e \in Events, ~In(e, s)
        PROVE  Due(e)' = Due(e)
    <2>1. OnWire(e)' = OnWire(e)
      BY <1>1, <1>6 DEF OnWire, In
    <2>2. QED
      BY <1>1, <2>1 DEF Due
  <1>7. ASSUME NEW e \in Events, In(e, s)
        PROVE  Due(e)' <= Due(e) + 1 /\ Due(e)' \in Nat
    <2>1. OnWire(e)' = OnWire(e) \cup {m}
      BY <1>1, <1>7 DEF OnWire, In
    <2>2. IsFiniteSet(OnWire(e)) /\ Cardinality(OnWire(e)) \in Nat /\ copies[e] \in Nat
      BY <1>1, DueTyped
    <2> HIDE DEF m
    <2>3. Cardinality(OnWire(e)') \in {Cardinality(OnWire(e)), Cardinality(OnWire(e)) + 1}
      BY <2>1, <2>2, FS_AddElement
    <2>4. QED
      BY <1>1, <2>2, <2>3 DEF Due
  <1>8. PlaceInv'
    BY <1>2, <1>3 DEF PlaceInv, Events, Senders
  <1>9. ASSUME NEW e \in Events
        PROVE  /\ Due(e)' <= MaxAttempts
               /\ Ahead(e)' \/ Buffered(e)' => Due(e)' = 0
               /\ \A q \in Senders : In(e, q)' => Due(e)' <= Posts(q)'
    <2>1. Due(e) \in Nat
      BY <1>1, DueTyped
    <2>2. CASE In(e, s)
      <3>1. ~Ahead(e)' /\ ~Buffered(e)' /\ Due(e) <= Posts(s)
        BY <1>2, <2>2 DEF PlaceInv, CopyInv
      <3>2. \A q \in Senders : In(e, q)' => q = s
        BY <1>3, <2>2 DEF PlaceInv
      <3>3. Due(e)' <= Posts(s)' /\ Due(e)' <= MaxAttempts
        BY <1>1, <1>5, <1>7, <2>1, <2>2, <3>1
      <3>4. QED
        BY <3>1, <3>2, <3>3
    <2>3. CASE ~In(e, s)
      <3>1. Due(e)' = Due(e)
        BY <1>6, <2>3
      <3>2. \A q \in Senders : In(e, q)' => q # s /\ Due(e) <= Posts(q)
        BY <1>3, <2>3 DEF CopyInv
      <3>3. QED
        BY <1>2, <1>4, <3>1, <3>2 DEF CopyInv
    <2>4. QED
      BY <2>2, <2>3
  <1>10. CopyInv'
    BY <1>9 DEF CopyInv
  <1>11. QED
    BY <1>8, <1>10

LEMMA InitCopy ==
  ASSUME DeliveryAssumption, Init
  PROVE  PlaceInv /\ CopyInv
  <1>1. (\A e \in Events : ~Buffered(e)) /\ \A e \in Events, s \in Senders : ~In(e, s)
    BY ToSetSmall DEF Init, Buffered, In
  <1>2. ASSUME NEW e \in Events
        PROVE  Due(e) = 0
    <2>1. OnWire(e) = {} /\ copies[e] = 0
      BY DEF Init, OnWire
    <2>2. QED
      BY <2>1, FS_EmptySet DEF Due
  <1>3. QED
    BY <1>1, <1>2 DEF PlaceInv, CopyInv, DeliveryAssumption

LEMMA StepCopy ==
  ASSUME DeliveryAssumption, DeliveryInv, [Next]_vars
  PROVE  DeliveryInv'
  <1>1. FifoInv /\ FifoInv' /\ PlaceInv /\ CopyInv
    BY StepFifo DEF DeliveryInv
  <1>2. TypeInv
    BY <1>1 DEF FifoInv
  <1>3. ASSUME NEW t \in Threads, Capture(t) \/ Add(t)
        PROVE  PlaceInv' /\ CopyInv'
    BY <1>1, <1>3, CaptureCopy, AddCopy
  <1>4. ASSUME NEW s \in Senders, Flush(s) \/ Deliver(s) \/ TimeOut(s) \/ Abandon(s)
        PROVE  PlaceInv' /\ CopyInv'
    BY <1>1, <1>2, <1>4, FlushCopy, PostCopy, AnswerSettles, SettlesCopy DEF Deliver
  <1>5. ASSUME NEW m \in wire, Ingest(m) \/ FailIngest(m)
        PROVE  PlaceInv' /\ CopyInv'
    BY <1>1, <1>2, <1>5, IngestArrives, ArrivesCopy
  <1>6. ASSUME Exit \/ UNCHANGED vars
        PROVE  PlaceInv' /\ CopyInv'
    BY <1>1, <1>6, NothingMoves DEF Exit, vars, client, server
  <1>7. PlaceInv' /\ CopyInv'
    BY <1>3, <1>4, <1>5, <1>6 DEF Next
  <1>8. QED
    BY <1>1, <1>7 DEF DeliveryInv

\* The server stores an event at most as often as its post is attempted, late
\* requests included: no event is in two posts, and what a post has left on the wire
\* counts against its attempts.
THEOREM CopiesWithinAttempts ==
  ASSUME DeliveryAssumption
  PROVE  Spec => []CopiesBounded
  <1>1. Init => DeliveryInv
    BY InitFifo, InitCopy DEF DeliveryInv
  <1>2. DeliveryInv /\ [Next]_vars => DeliveryInv'
    BY StepCopy
  <1>3. DeliveryInv => CopiesBounded
    <2>1. SUFFICES ASSUME DeliveryInv, NEW e \in Events
                   PROVE  copies[e] <= MaxAttempts
      BY DEF CopiesBounded
    <2>2. TypeInv /\ Due(e) <= MaxAttempts /\ MaxAttempts \in Nat
      BY <2>1 DEF DeliveryInv, FifoInv, CopyInv, DeliveryAssumption
    <2>3. QED
      BY <2>2, DueTyped DEF Due
  <1>4. QED
    BY <1>1, <1>2, <1>3, PTL DEF Spec

-----------------------------------------------------------------------------
(* The runtime *)

Budgets == {None, "under", "over"}
Side == [rules : Seq(Rules), budget : Budgets]

RuntimeShapes ==
  /\ controlPlane \in Side /\ cache \in Side
  /\ refresh \in {"rules", "budget", "sleep"} /\ ready \in BOOLEAN
  /\ ~ready => refresh # "sleep"
  /\ context \in [Tasks -> Ids \cup {None}] /\ base \in [Tasks -> Ids \cup {None}]
  /\ stack \in [Tasks -> Seq(Frame)]
  /\ \A t \in Tasks : Len(stack[t]) <= MaxDepth[t]

\* The id pushed last by the first n frames of seq, or b.
Inner(seq, b, n) ==
  LET pushed == {i \in 1..n : Pushes(seq[i].kind)}
  IN  IF pushed = {} THEN b ELSE seq[Max(pushed)].id

\* The frames of a thread that began with b: each saved what it found, and only a
\* patched call, the innermost frame, is anything but open.
Nested(seq, b) ==
  \A i \in 1..Len(seq) :
    /\ seq[i].saved = Inner(seq, b, i - 1)
    /\ seq[i].kind \in {"trace", "call"} => seq[i].parent = Inner(seq, b, i - 1)
    /\ ~Pushes(seq[i].kind) => seq[i].id = None
    /\ seq[i].step = "open" \/ (seq[i].kind = "call" /\ i = Len(seq))

ContextInv ==
  \A t \in Tasks :
    /\ Nested(stack[t], base[t])
    /\ context[t] = Inner(stack[t], base[t], Len(stack[t]))
IdInv ==
  \A t, u \in Tasks : \A i \in 1..Len(stack[t]), j \in 1..Len(stack[u]) :
    stack[t][i].id # None /\ stack[t][i].id = stack[u][j].id => t = u /\ i = j

RuntimeInv == RuntimeShapes /\ ContextInv /\ IdInv

-----------------------------------------------------------------------------
(* Least and greatest *)

LEMMA MinOf ==
  ASSUME NEW S \in SUBSET Nat, S # {}
  PROVE  Min(S) \in S /\ \A x \in S : Min(S) <= x
  <1> DEFINE below == OpToRel(<, Nat)
  <1>1. \E m \in S : \A x \in S : ~(<<x, m>> \in below)
    <2>1. IsWellFoundedOn(below, Nat)
      BY NatLessThanWellFounded, Zenon
    <2> HIDE DEF below
    <2>2. QED
      BY <2>1, WFMin
  <1>2. PICK m \in S : \A x \in S : ~(x < m)
    BY <1>1 DEF OpToRel
  <1>3. \E m1 \in S : \A x \in S : m1 <= x
    BY <1>2
  <1>4. QED
    BY <1>3 DEF Min

LEMMA MaxOf ==
  ASSUME NEW n \in Nat, NEW S \in SUBSET (1..n), S # {}
  PROVE  Max(S) \in S /\ \A x \in S : Max(S) >= x
  <1> DEFINE D == {n - i : i \in S}
  <1>1. \A i \in S : i \in 1..n /\ n - i \in Nat
    OBVIOUS
  <1>2. D \in SUBSET Nat /\ D # {}
    BY <1>1
  <1>3. Min(D) \in D /\ \A d \in D : Min(D) <= d
    <2> HIDE DEF D
    <2>1. QED
      BY <1>2, MinOf
  <1>4. PICK m \in S : Min(D) = n - m
    BY <1>3
  <1>5. \A x \in S : n - m <= n - x
    BY <1>3, <1>4
  <1>6. \A x \in S : m >= x
    BY <1>1, <1>5
  <1>7. QED
    BY <1>6 DEF Max

-----------------------------------------------------------------------------
(* Frames *)

LEMMA InnerSame ==
  ASSUME NEW n \in Nat, NEW seq, NEW other, NEW b,
         \A i \in 1..n : seq[i].kind = other[i].kind /\ seq[i].id = other[i].id
  PROVE  Inner(seq, b, n) = Inner(other, b, n)
  <1> DEFINE pushed == {i \in 1..n : Pushes(seq[i].kind)}
  <1>1. {i \in 1..n : Pushes(other[i].kind)} = pushed
    OBVIOUS
  <1>2. CASE pushed = {}
    BY <1>1, <1>2 DEF Inner
  <1>3. CASE pushed # {}
    <2>1. pushed \in SUBSET (1..n)
      OBVIOUS
    <2>2. Max(pushed) \in 1..n
      <3> HIDE DEF pushed
      <3>1. QED
        BY <1>3, <2>1, MaxOf
    <2>3. QED
      BY <1>1, <1>3, <2>2 DEF Inner
  <1>4. QED
    BY <1>2, <1>3

LEMMA InnerNext ==
  ASSUME NEW n \in Nat, NEW seq, NEW b
  PROVE  Inner(seq, b, n + 1) =
           IF Pushes(seq[n + 1].kind) THEN seq[n + 1].id ELSE Inner(seq, b, n)
  <1> DEFINE before == {i \in 1..n : Pushes(seq[i].kind)}
             pushed == {i \in 1..n + 1 : Pushes(seq[i].kind)}
  <1>1. CASE Pushes(seq[n + 1].kind)
    <2>1. n + 1 \in pushed /\ \A i \in pushed : i \in Nat /\ n + 1 >= i
      BY <1>1
    <2>2. Max(pushed) = n + 1
      <3> HIDE DEF pushed
      <3>1. QED
        BY <2>1 DEF Max
    <2>3. QED
      BY <1>1, <2>1, <2>2 DEF Inner
  <1>2. CASE ~Pushes(seq[n + 1].kind)
    <2>1. pushed = before
      BY <1>2
    <2>2. QED
      BY <1>2, <2>1 DEF Inner
  <1>3. QED
    BY <1>1, <1>2

LEMMA FrameAt ==
  ASSUME NEW seq \in Seq(Frame), NEW i \in 1..Len(seq)
  PROVE  seq[i] \in Frame /\ seq[i].kind \in AllKinds /\ seq[i].id \in Ids \cup {None}
         /\ seq[i].saved \in Ids \cup {None} /\ seq[i].parent \in Ids \cup {None}
         /\ seq[i].step \in {"open", "gate", "provider"}
  <1>1. seq[i] \in Frame
    BY ElementOfSeq
  <1>2. QED
    BY <1>1 DEF Frame

LEMMA InnerTyped ==
  ASSUME NEW seq \in Seq(Frame), NEW b \in Ids \cup {None}, NEW n \in 0..Len(seq)
  PROVE  Inner(seq, b, n) \in Ids \cup {None}
  <1> DEFINE pushed == {i \in 1..n : Pushes(seq[i].kind)}
  <1>1. CASE pushed = {}
    BY <1>1 DEF Inner
  <1>2. CASE pushed # {}
    <2>1. pushed \in SUBSET (1..n) /\ n \in Nat /\ Len(seq) \in Nat
      BY LenProperties
    <2>2. Max(pushed) \in 1..Len(seq)
      <3> HIDE DEF pushed
      <3>1. Max(pushed) \in 1..n
        BY <1>2, <2>1, MaxOf
      <3>2. QED
        BY <2>1, <3>1
    <2>3. seq[Max(pushed)].id \in Ids \cup {None}
      <3> HIDE DEF pushed
      <3>1. QED
        BY <2>2, FrameAt
    <2>4. QED
      BY <1>2, <2>3 DEF Inner
  <1>3. QED
    BY <1>1, <1>2

LEMMA PopProperties ==
  ASSUME NEW seq \in Seq(Frame), seq # <<>>
  PROVE  /\ Len(seq) \in Nat \ {0} /\ Front(seq) \in Seq(Frame)
         /\ Len(Front(seq)) = Len(seq) - 1
         /\ \A i \in 1 .. Len(seq) - 1 : Front(seq)[i] = seq[i]
  <1>1. Len(seq) \in Nat \ {0}
    BY EmptySeq
  <1>2. \A i \in 1 .. Len(seq) - 1 : seq[i] \in Frame
    BY <1>1, FrameAt
  <1>3. PICK n \in Int : n = Len(seq) - 1
    BY <1>1
  <1>4. /\ SubSeq(seq, 1, n) \in Seq(Frame)
        /\ Len(SubSeq(seq, 1, n)) = IF 1 <= n THEN n - 1 + 1 ELSE 0
        /\ \A i \in 1 .. n - 1 + 1 : SubSeq(seq, 1, n)[i] = seq[1 + i - 1]
    <2>1. \A i \in 1..n : seq[i] \in Frame
      BY <1>2, <1>3
    <2>2. QED
      BY <2>1, SubSeqProperties
  <1>5. Front(seq) = SubSeq(seq, 1, n)
    BY <1>3 DEF Front
  <1>6. QED
    BY <1>1, <1>3, <1>4, <1>5

LEMMA NestedPop ==
  ASSUME NEW seq \in Seq(Frame), seq # <<>>, NEW b, Nested(seq, b)
  PROVE  /\ Nested(Front(seq), b)
         /\ Inner(Front(seq), b, Len(Front(seq))) = Inner(seq, b, Len(seq) - 1)
         /\ Last(seq).saved = Inner(seq, b, Len(seq) - 1)
         /\ Inner(seq, b, Len(seq)) =
              IF Pushes(Last(seq).kind) THEN Last(seq).id ELSE Inner(seq, b, Len(seq) - 1)
  <1> DEFINE front == Front(seq)
             n == Len(seq) - 1
  <1>1. /\ n \in Nat /\ Len(seq) = n + 1 /\ front \in Seq(Frame) /\ Len(front) = n
        /\ \A i \in 1..n : front[i] = seq[i]
    BY PopProperties
  <1> HIDE DEF front, n
  <1>2. ASSUME NEW k \in 0..n
        PROVE  Inner(front, b, k) = Inner(seq, b, k)
    <2>1. k \in Nat /\ \A i \in 1..k : front[i].kind = seq[i].kind /\ front[i].id = seq[i].id
      BY <1>1
    <2>2. QED
      BY <2>1, InnerSame
  <1>3. ASSUME NEW i \in 1..Len(front)
        PROVE  /\ front[i].saved = Inner(front, b, i - 1)
               /\ front[i].kind \in {"trace", "call"} => front[i].parent = Inner(front, b, i - 1)
               /\ ~Pushes(front[i].kind) => front[i].id = None
               /\ front[i].step = "open"
    <2>1. i \in 1..n /\ i \in 1..Len(seq) /\ i # Len(seq) /\ i - 1 \in 0..n /\ front[i] = seq[i]
      BY <1>1
    <2>2. Inner(front, b, i - 1) = Inner(seq, b, i - 1)
      BY <1>2, <2>1
    <2>3. QED
      BY <2>1, <2>2 DEF Nested
  <1>4. Nested(front, b)
    BY <1>3 DEF Nested
  <1>5. Last(seq).saved = Inner(seq, b, n)
    BY <1>1 DEF Nested, Last
  <1>6. Inner(seq, b, n + 1) =
          IF Pushes(seq[n + 1].kind) THEN seq[n + 1].id ELSE Inner(seq, b, n)
    <2>1. QED
      BY <1>1, InnerNext
  <1>7. Inner(front, b, Len(front)) = Inner(seq, b, n)
    BY <1>1, <1>2
  <1>8. QED
    BY <1>1, <1>4, <1>5, <1>6, <1>7 DEF Last, front, n

LEMMA NestedPush ==
  ASSUME NEW seq \in Seq(Frame), NEW b, Nested(seq, b), NEW f \in Frame,
         seq = <<>> \/ Last(seq).step = "open",
         f.saved = Inner(seq, b, Len(seq)),
         f.kind \in {"trace", "call"} => f.parent = Inner(seq, b, Len(seq)),
         ~Pushes(f.kind) => f.id = None,
         f.step = "open" \/ f.kind = "call"
  PROVE  /\ Nested(Append(seq, f), b)
         /\ Inner(Append(seq, f), b, Len(seq) + 1) =
              IF Pushes(f.kind) THEN f.id ELSE Inner(seq, b, Len(seq))
  <1> DEFINE longer == Append(seq, f)
             n == Len(seq)
  <1>1. /\ n \in Nat /\ longer \in Seq(Frame) /\ Len(longer) = n + 1
        /\ \A i \in 1..n : longer[i] = seq[i]
        /\ longer[n + 1] = f
    BY AppendProperties, LenProperties
  <1>2. ASSUME NEW k \in 0..n
        PROVE  Inner(longer, b, k) = Inner(seq, b, k)
    <2>1. k \in Nat /\ \A i \in 1..k : longer[i].kind = seq[i].kind /\ longer[i].id = seq[i].id
      BY <1>1
    <2> HIDE DEF longer
    <2>2. QED
      BY <2>1, InnerSame
  <1>3. \A i \in 1..n : seq[i].step = "open"
    <2>1. seq # <<>> => seq[n].step = "open"
      BY DEF Last
    <2>2. seq = <<>> => n = 0
      BY EmptySeq
    <2>3. QED
      BY <1>1, <2>1, <2>2 DEF Nested
  <1>4. ASSUME NEW i \in 1..Len(longer)
        PROVE  /\ longer[i].saved = Inner(longer, b, i - 1)
               /\ longer[i].kind \in {"trace", "call"} => longer[i].parent = Inner(longer, b, i - 1)
               /\ ~Pushes(longer[i].kind) => longer[i].id = None
               /\ longer[i].step = "open" \/ (longer[i].kind = "call" /\ i = Len(longer))
    <2>1. CASE i \in 1..n
      <3>1. i - 1 \in 0..n /\ longer[i] = seq[i] /\ i \in 1..Len(seq)
        BY <1>1, <2>1
      <3>2. Inner(longer, b, i - 1) = Inner(seq, b, i - 1)
        BY <1>2, <3>1
      <3>3. longer[i].step = "open"
        BY <1>3, <2>1, <3>1
      <3> HIDE DEF longer
      <3>4. QED
        BY <3>1, <3>2, <3>3 DEF Nested
    <2>2. CASE i = n + 1
      <3>1. longer[i] = f /\ i - 1 = n /\ n \in 0..n /\ i = Len(longer)
        BY <1>1, <2>2
      <3>2. Inner(longer, b, i - 1) = Inner(seq, b, Len(seq))
        BY <1>2, <3>1
      <3> HIDE DEF longer, n
      <3>3. QED
        BY <3>1, <3>2
    <2>3. QED
      BY <1>1, <2>1, <2>2
  <1>5. Nested(longer, b)
    BY <1>4 DEF Nested
  <1>6. Inner(longer, b, n + 1) =
          IF Pushes(longer[n + 1].kind) THEN longer[n + 1].id ELSE Inner(longer, b, n)
    <2> HIDE DEF longer, n
    <2>1. QED
      BY <1>1, InnerNext
  <1>7. Inner(longer, b, n) = Inner(seq, b, Len(seq))
    BY <1>1, <1>2
  <1>8. QED
    BY <1>1, <1>5, <1>6, <1>7

-----------------------------------------------------------------------------
(* Steps *)

\* One thread's stack and context change together, and its ids are old or fresh.
LEMMA ThreadStep ==
  ASSUME RuntimeInv, NEW t \in Tasks, NEW seq \in Seq(Frame), NEW c \in Ids \cup {None},
         stack' = [stack EXCEPT ![t] = seq], context' = [context EXCEPT ![t] = c],
         UNCHANGED <<policy, base>>,
         Len(seq) <= MaxDepth[t], Nested(seq, base[t]), c = Inner(seq, base[t], Len(seq)),
         \A i \in 1..Len(seq) :
           \/ seq[i].id = None
           \/ i \in 1..Len(stack[t]) /\ seq[i].id = stack[t][i].id
           \/ i = Len(seq) /\ \A u \in Tasks : \A j \in 1..Len(stack[u]) :
                                stack[u][j].id # seq[i].id
  PROVE  RuntimeInv'
  <1>1. stack'[t] = seq /\ \A u \in Tasks \ {t} : stack'[u] = stack[u]
    BY DEF RuntimeInv, RuntimeShapes
  <1>2. RuntimeShapes'
    BY <1>1 DEF RuntimeInv, RuntimeShapes, policy
  <1>3. ASSUME NEW u \in Tasks
        PROVE  /\ Nested(stack'[u], base'[u])
               /\ context'[u] = Inner(stack'[u], base'[u], Len(stack'[u]))
    <2>1. base'[u] = base[u] /\ context'[u] = IF u = t THEN c ELSE context[u]
      BY DEF RuntimeInv, RuntimeShapes
    <2>2. CASE u = t
      BY <1>1, <2>1, <2>2
    <2>3. CASE u # t
      BY <1>1, <2>1, <2>3 DEF RuntimeInv, ContextInv
    <2>4. QED
      BY <2>2, <2>3
  <1>4. ASSUME NEW u \in Tasks, NEW v \in Tasks,
               NEW i \in 1..Len(stack'[u]), NEW j \in 1..Len(stack'[v]),
               stack'[u][i].id # None, stack'[u][i].id = stack'[v][j].id
        PROVE  u = v /\ i = j
    <2>1. IdInv
      BY DEF RuntimeInv
    <2>2. CASE u = t /\ v = t
      <3>1. /\ i \in 1..Len(seq) /\ j \in 1..Len(seq)
            /\ seq[i].id # None /\ seq[i].id = seq[j].id
        BY <1>1, <1>4, <2>2
      <3>2. CASE i = Len(seq) /\ j = Len(seq)
        BY <2>2, <3>2
      <3>3. CASE i # Len(seq) /\ j # Len(seq)
        <4>1. /\ i \in 1..Len(stack[t]) /\ seq[i].id = stack[t][i].id
              /\ j \in 1..Len(stack[t]) /\ seq[j].id = stack[t][j].id
          BY <3>1, <3>3
        <4>2. stack[t][i].id # None /\ stack[t][i].id = stack[t][j].id
          BY <3>1, <4>1
        <4>3. QED
          BY <2>1, <2>2, <4>1, <4>2 DEF IdInv
      <3>4. CASE i = Len(seq) /\ j # Len(seq)
        <4>1. j \in 1..Len(stack[t]) /\ seq[j].id = stack[t][j].id
          BY <3>1, <3>4
        <4>2. i \in 1..Len(stack[t]) /\ seq[i].id = stack[t][i].id
          BY <3>1, <4>1
        <4>3. stack[t][i].id # None /\ stack[t][i].id = stack[t][j].id
          BY <3>1, <4>1, <4>2
        <4>4. QED
          BY <2>1, <2>2, <4>1, <4>2, <4>3 DEF IdInv
      <3>5. CASE i # Len(seq) /\ j = Len(seq)
        <4>1. i \in 1..Len(stack[t]) /\ seq[i].id = stack[t][i].id
          BY <3>1, <3>5
        <4>2. j \in 1..Len(stack[t]) /\ seq[j].id = stack[t][j].id
          BY <3>1, <4>1
        <4>3. stack[t][i].id # None /\ stack[t][i].id = stack[t][j].id
          BY <3>1, <4>1, <4>2
        <4>4. QED
          BY <2>1, <2>2, <4>1, <4>2, <4>3 DEF IdInv
      <3>6. QED
        BY <3>2, <3>3, <3>4, <3>5
    <2>3. CASE u = t /\ v # t
      <3>1. /\ i \in 1..Len(seq) /\ j \in 1..Len(stack[v])
            /\ seq[i].id # None /\ seq[i].id = stack[v][j].id
        BY <1>1, <1>4, <2>3
      <3>2. i \in 1..Len(stack[t]) /\ seq[i].id = stack[t][i].id
        BY <3>1
      <3>3. QED
        BY <2>1, <2>3, <3>1, <3>2 DEF IdInv
    <2>4. CASE u # t /\ v = t
      <3>1. /\ i \in 1..Len(stack[u]) /\ j \in 1..Len(seq)
            /\ seq[j].id # None /\ seq[j].id = stack[u][i].id
        BY <1>1, <1>4, <2>4
      <3>2. j \in 1..Len(stack[t]) /\ seq[j].id = stack[t][j].id
        BY <3>1
      <3>3. QED
        BY <2>1, <2>4, <3>1, <3>2 DEF IdInv
    <2>5. CASE u # t /\ v # t
      BY <1>1, <1>4, <2>1, <2>5 DEF IdInv
    <2>6. QED
      BY <2>2, <2>3, <2>4, <2>5
  <1>5. QED
    BY <1>2, <1>3, <1>4 DEF RuntimeInv, ContextInv, IdInv

LEMMA FreshId ==
  ASSUME RuntimeInv, Ids \ Used # {}
  PROVE  /\ Fresh \in Ids
         /\ \A u \in Tasks : \A j \in 1..Len(stack[u]) : stack[u][j].id # Fresh
  <1>1. Ids \ Used \in SUBSET Nat
    BY RuntimeAssumption
  <1>2. Fresh \in Ids \ Used
    BY <1>1, MinOf DEF Fresh
  <1>3. ASSUME NEW u \in Tasks, NEW j \in 1..Len(stack[u])
        PROVE  stack[u][j].id \in Used
    <2>1. stack[u] \in Seq(Frame)
      BY DEF RuntimeInv, RuntimeShapes
    <2>2. stack[u][j] \in ToSet(stack[u])
      BY <2>1, LenProperties DEF ToSet
    <2>3. stack[u][j].id \in UNION {{f.id, f.saved, f.parent} : f \in ToSet(stack[u])}
      BY <2>2
    <2>4. QED
      BY <2>3 DEF Used
  <1>4. QED
    BY <1>2, <1>3

LEMMA OpenStep ==
  ASSUME RuntimeInv, NEW t \in Tasks, NEW kind \in AllKinds,
         Open(t, kind)
  PROVE  RuntimeInv'
  <1>1. stack[t] \in Seq(Frame) /\ base[t] \in Ids \cup {None} /\ context[t] \in Ids \cup {None}
    BY DEF RuntimeInv, RuntimeShapes
  <1>2. /\ Nested(stack[t], base[t]) /\ context[t] = Inner(stack[t], base[t], Len(stack[t]))
        /\ Len(stack[t]) \in Nat /\ MaxDepth[t] \in Nat
    BY <1>1, LenProperties, RuntimeAssumption DEF RuntimeInv, ContextInv
  <1>3. PICK f :
          f = [kind |-> kind, id |-> IF Pushes(kind) THEN Fresh ELSE None,
               saved |-> context[t],
               parent |-> IF kind \in {"trace", "call"} THEN context[t] ELSE None,
               step |-> IF kind = "call" THEN "gate" ELSE "open"]
    OBVIOUS
  <1>4. Pushes(kind) => /\ Fresh \in Ids
                        /\ \A u \in Tasks : \A j \in 1..Len(stack[u]) : stack[u][j].id # Fresh
    BY FreshId DEF Open
  <1>5. f \in Frame
    BY <1>1, <1>3, <1>4 DEF Frame
  <1>6. PICK seq : seq = Append(stack[t], f)
    OBVIOUS
  <1>7. PICK c : c = IF Pushes(kind) THEN Fresh ELSE context[t]
    OBVIOUS
  <1>8. /\ stack' = [stack EXCEPT ![t] = seq] /\ context' = [context EXCEPT ![t] = c]
        /\ UNCHANGED <<policy, base>> /\ c \in Ids \cup {None} /\ Len(stack[t]) < MaxDepth[t]
        /\ stack[t] = <<>> \/ Last(stack[t]).step = "open"
    BY <1>1, <1>3, <1>4, <1>6, <1>7
       DEF Open, RuntimeInv, RuntimeShapes, At, Top
  <1>9. /\ seq \in Seq(Frame) /\ Len(seq) = Len(stack[t]) + 1 /\ seq[Len(seq)] = f
        /\ \A i \in 1..Len(stack[t]) : seq[i] = stack[t][i]
    BY <1>1, <1>5, <1>6, AppendProperties
  <1>10. f.kind = kind /\ f.id = (IF Pushes(kind) THEN Fresh ELSE None)
         /\ f.saved = context[t] /\ (kind \in {"trace", "call"} => f.parent = context[t])
         /\ (f.step = "open" \/ kind = "call")
    BY <1>3
  <1>11. /\ Nested(seq, base[t])
         /\ Inner(seq, base[t], Len(stack[t]) + 1) =
              IF Pushes(f.kind) THEN f.id ELSE Inner(stack[t], base[t], Len(stack[t]))
    BY <1>1, <1>2, <1>5, <1>6, <1>8, <1>10, NestedPush
  <1>12. c = Inner(seq, base[t], Len(seq))
    BY <1>2, <1>7, <1>9, <1>10, <1>11
  <1>13. Len(seq) <= MaxDepth[t]
    BY <1>2, <1>8, <1>9
  <1>14. \A i \in 1..Len(seq) :
           \/ seq[i].id = None
           \/ i \in 1..Len(stack[t]) /\ seq[i].id = stack[t][i].id
           \/ i = Len(seq) /\ \A u \in Tasks : \A j \in 1..Len(stack[u]) :
                                stack[u][j].id # seq[i].id
    BY <1>2, <1>4, <1>9, <1>10
  <1>15. QED
    BY <1>8, <1>9, <1>11, <1>12, <1>13, <1>14, ThreadStep

\* The innermost frame ends, and what it saved, or did not change, is the context.
LEMMA PopStep ==
  ASSUME RuntimeInv, NEW t \in Tasks, stack[t] # <<>>, Pop(t),
         UNCHANGED <<policy, base>>,
         Restore(t) \/ (context' = context /\ ~Pushes(Top(t).kind))
  PROVE  RuntimeInv'
  <1>1. /\ stack[t] \in Seq(Frame) /\ base[t] \in Ids \cup {None} /\ Len(stack[t]) <= MaxDepth[t]
        /\ Nested(stack[t], base[t]) /\ context[t] = Inner(stack[t], base[t], Len(stack[t]))
    BY DEF RuntimeInv, RuntimeShapes, ContextInv
  <1>2. PICK seq : seq = Front(stack[t])
    OBVIOUS
  <1>3. /\ Len(stack[t]) \in Nat \ {0} /\ seq \in Seq(Frame) /\ Len(seq) = Len(stack[t]) - 1
        /\ \A i \in 1..Len(seq) : seq[i] = stack[t][i]
    BY <1>1, <1>2, PopProperties
  <1>4. /\ Nested(seq, base[t])
        /\ Inner(seq, base[t], Len(seq)) = Inner(stack[t], base[t], Len(stack[t]) - 1)
        /\ Top(t).saved = Inner(stack[t], base[t], Len(stack[t]) - 1)
        /\ Inner(stack[t], base[t], Len(stack[t])) =
             IF Pushes(Top(t).kind) THEN Top(t).id
             ELSE Inner(stack[t], base[t], Len(stack[t]) - 1)
    BY <1>1, <1>2, NestedPop DEF Top
  <1>5. PICK c : c = Inner(seq, base[t], Len(seq))
    OBVIOUS
  <1>6. c \in Ids \cup {None}
    <2>1. Len(seq) \in 0..Len(seq)
      BY <1>3
    <2>2. QED
      BY <1>1, <1>3, <1>5, <2>1, InnerTyped
  <1>7. context' = [context EXCEPT ![t] = c]
    <2>1. CASE Pushes(Top(t).kind)
      BY <1>4, <1>5, <2>1 DEF Restore
    <2>2. CASE ~Pushes(Top(t).kind)
      <3>1. context' = context /\ context[t] = c
        BY <1>1, <1>4, <1>5, <2>2 DEF Restore
      <3>2. QED
        BY <3>1 DEF RuntimeInv, RuntimeShapes
    <2>3. QED
      BY <2>1, <2>2
  <1>8. stack' = [stack EXCEPT ![t] = seq]
    BY <1>2 DEF Pop
  <1>9. Len(seq) <= MaxDepth[t]
    BY <1>1, <1>3, RuntimeAssumption
  <1>10. \A i \in 1..Len(seq) : i \in 1..Len(stack[t]) /\ seq[i].id = stack[t][i].id
    BY <1>3
  <1>11. QED
    BY <1>3, <1>4, <1>5, <1>6, <1>7, <1>8, <1>9, <1>10, ThreadStep

\* A call passes the gate; nothing of its frame but its step changes.
LEMMA PassStep ==
  ASSUME RuntimeInv, NEW t \in Tasks, Pass(t)
  PROVE  RuntimeInv'
  <1>1. /\ stack[t] \in Seq(Frame) /\ base[t] \in Ids \cup {None} /\ Len(stack[t]) <= MaxDepth[t]
        /\ Nested(stack[t], base[t]) /\ context[t] = Inner(stack[t], base[t], Len(stack[t]))
        /\ context[t] \in Ids \cup {None}
    BY DEF RuntimeInv, RuntimeShapes, ContextInv
  <1>2. PICK n : n = Len(stack[t])
    OBVIOUS
  <1>3. n \in Nat \ {0} /\ n \in 1..n /\ stack[t][n].step = "gate"
    <2>1. stack[t] # <<>> /\ stack[t][n].step = "gate"
      BY <1>2 DEF Pass, At, Top, Last
    <2>2. QED
      BY <1>1, <1>2, <2>1, EmptySeq
  <1>4. PICK f \in Frame : f = [stack[t][n] EXCEPT !.step = "provider"]
    <2>1. stack[t][n] \in Frame
      BY <1>1, <1>2, <1>3, FrameAt
    <2>2. [stack[t][n] EXCEPT !.step = "provider"] \in Frame
      BY <2>1 DEF Frame
    <2>3. QED
      BY <2>2
  <1>5. /\ f.kind = stack[t][n].kind /\ f.id = stack[t][n].id /\ f.saved = stack[t][n].saved
        /\ f.parent = stack[t][n].parent /\ f.step = "provider"
    <2>1. stack[t][n] \in Frame
      BY <1>1, <1>2, <1>3, FrameAt
    <2>2. QED
      BY <1>4, <2>1 DEF Frame
  <1>6. PICK seq : seq = [stack[t] EXCEPT ![n] = f]
    OBVIOUS
  <1>7. /\ seq \in Seq(Frame) /\ Len(seq) = n
        /\ \A i \in 1..n : seq[i] = IF i = n THEN f ELSE stack[t][i]
    BY <1>1, <1>2, <1>3, <1>6, ExceptSeq
  <1>8. \A k \in 0..n : Inner(seq, base[t], k) = Inner(stack[t], base[t], k)
    <2>1. \A i \in 1..n : seq[i].kind = stack[t][i].kind /\ seq[i].id = stack[t][i].id
      BY <1>5, <1>7
    <2>2. QED
      BY <1>3, <2>1, InnerSame
  <1>9. ASSUME NEW i \in 1..Len(seq)
        PROVE  /\ seq[i].saved = Inner(seq, base[t], i - 1)
               /\ seq[i].kind \in {"trace", "call"} => seq[i].parent = Inner(seq, base[t], i - 1)
               /\ ~Pushes(seq[i].kind) => seq[i].id = None
               /\ seq[i].step = "open" \/ (seq[i].kind = "call" /\ i = Len(seq))
    <2>1. i \in 1..Len(stack[t]) /\ i - 1 \in 0..n
      BY <1>2, <1>3, <1>7
    <2>2. /\ seq[i].saved = stack[t][i].saved /\ seq[i].kind = stack[t][i].kind
          /\ seq[i].parent = stack[t][i].parent /\ seq[i].id = stack[t][i].id
      BY <1>5, <1>7
    <2>3. seq[i].step = "open" \/ (seq[i].kind = "call" /\ i = Len(seq))
      <3>1. CASE i = n
        BY <1>1, <1>2, <1>3, <1>7, <2>1, <2>2, <3>1 DEF Nested
      <3>2. CASE i # n
        BY <1>1, <1>2, <1>7, <2>1, <3>2 DEF Nested
      <3>3. QED
        BY <3>1, <3>2
    <2>4. Inner(seq, base[t], i - 1) = Inner(stack[t], base[t], i - 1)
      BY <1>8, <2>1
    <2>5. QED
      BY <1>1, <2>1, <2>2, <2>3, <2>4 DEF Nested
  <1>10. Nested(seq, base[t])
    BY <1>9 DEF Nested
  <1>11. context[t] = Inner(seq, base[t], Len(seq))
    BY <1>1, <1>2, <1>3, <1>7, <1>8
  <1>12. stack' = [stack EXCEPT ![t] = seq] /\ context' = [context EXCEPT ![t] = context[t]]
         /\ UNCHANGED <<policy, base>>
    BY <1>2, <1>4, <1>6 DEF Pass, RuntimeInv, RuntimeShapes
  <1>13. \A i \in 1..Len(seq) : i \in 1..Len(stack[t]) /\ seq[i].id = stack[t][i].id
    BY <1>2, <1>5, <1>7
  <1>14. Len(seq) <= MaxDepth[t]
    BY <1>1, <1>2, <1>7
  <1>15. QED
    BY <1>1, <1>7, <1>10, <1>11, <1>12, <1>13, <1>14, ThreadStep

\* u, with no frame open, begins with a context of its own.
LEMMA StartStep ==
  ASSUME RuntimeInv, NEW t \in Tasks, NEW u \in Tasks, Start(t, u)
  PROVE  RuntimeInv'
  <1>1. PICK c \in Ids \cup {None} :
          /\ context' = [context EXCEPT ![u] = c] /\ base' = [base EXCEPT ![u] = c]
          /\ stack[u] = <<>> /\ UNCHANGED <<policy, stack>>
    BY DEF Start, RuntimeInv, RuntimeShapes
  <1>2. RuntimeShapes'
    BY <1>1 DEF RuntimeInv, RuntimeShapes, policy
  <1>3. ASSUME NEW v \in Tasks
        PROVE  /\ Nested(stack[v], base'[v])
               /\ context'[v] = Inner(stack[v], base'[v], Len(stack[v]))
    <2>1. CASE v = u
      <3>1. Len(stack[v]) = 0 /\ context'[v] = c /\ base'[v] = c
        BY <1>1, <2>1, EmptySeq DEF RuntimeInv, RuntimeShapes
      <3>2. QED
        BY <3>1 DEF Nested, Inner
    <2>2. CASE v # u
      BY <1>1, <2>2 DEF RuntimeInv, RuntimeShapes, ContextInv
    <2>3. QED
      BY <2>1, <2>2
  <1>4. ContextInv'
    BY <1>1, <1>3 DEF ContextInv
  <1>5. IdInv'
    BY <1>1 DEF RuntimeInv, IdInv
  <1>6. QED
    BY <1>2, <1>4, <1>5 DEF RuntimeInv

\* The control plane and the policy cache leave the threads alone.
LEMMA PolicyStep ==
  ASSUME RuntimeInv, UNCHANGED <<context, base, stack>>,
         controlPlane' \in Side /\ cache' \in Side /\ ready' \in BOOLEAN,
         refresh' \in {"rules", "budget", "sleep"}, ~ready' => refresh' # "sleep"
  PROVE  RuntimeInv'
  <1>1. RuntimeShapes' /\ IdInv'
    BY DEF RuntimeInv, RuntimeShapes, IdInv
  <1>2. ContextInv'
    BY DEF RuntimeInv, ContextInv
  <1>3. QED
    BY <1>1, <1>2 DEF RuntimeInv

LEMMA InitRuntime ==
  ASSUME RuntimeInit
  PROVE  RuntimeInv
  <1>1. <<>> \in Seq(Frame) /\ <<>> \in Seq(Rules) /\ Len(<<>>) = 0
    BY EmptySeq
  <1>2. RuntimeShapes
    <2>1. controlPlane \in Side /\ cache \in Side
      BY <1>1 DEF RuntimeInit, Side, Budgets
    <2>2. \A t \in Tasks : stack[t] = <<>> /\ Len(stack[t]) <= MaxDepth[t]
      BY <1>1, RuntimeAssumption DEF RuntimeInit
    <2>3. QED
      BY <1>1, <2>1, <2>2 DEF RuntimeInit, RuntimeShapes
  <1>3. ASSUME NEW t \in Tasks
        PROVE  Nested(stack[t], base[t]) /\ context[t] = Inner(stack[t], base[t], Len(stack[t]))
    <2>1. stack[t] = <<>> /\ context[t] = None /\ base[t] = None
      BY DEF RuntimeInit
    <2>2. QED
      BY <1>1, <2>1 DEF Nested, Inner
  <1>4. IdInv
    BY <1>1 DEF RuntimeInit, IdInv
  <1>5. QED
    BY <1>2, <1>3, <1>4 DEF RuntimeInv, ContextInv

LEMMA StepRuntime ==
  ASSUME RuntimeInv, [RuntimeNext]_runtimeVars
  PROVE  RuntimeInv'
  <1>1. /\ controlPlane \in Side /\ cache \in Side /\ ready \in BOOLEAN
        /\ refresh \in {"rules", "budget", "sleep"} /\ (~ready => refresh # "sleep")
    BY DEF RuntimeInv, RuntimeShapes
  <1>2. CASE SetBudget
    <2>1. controlPlane' \in Side
      BY <1>1, <1>2 DEF SetBudget, Side, Budgets
    <2>2. QED
      BY <1>1, <1>2, <2>1, PolicyStep DEF SetBudget, host
  <1>3. CASE CreateRule
    <2>1. PICK r \in Rules : controlPlane' = [controlPlane EXCEPT !.rules = <<r>> \o @]
      BY <1>3 DEF CreateRule
    <2>2. controlPlane.rules \in Seq(Rules) /\ <<r>> \in Seq(Rules)
      BY <1>1 DEF Side
    <2>3. <<r>> \o controlPlane.rules \in Seq(Rules)
      BY <2>2, ConcatProperties
    <2>4. controlPlane' \in Side
      BY <1>1, <2>1, <2>3 DEF Side
    <2>5. QED
      BY <1>1, <1>3, <2>4, PolicyStep DEF CreateRule, host
  <1>4. CASE PullRules \/ PullBudget \/ MissBudget \/ Wake
    <2>1. cache' \in Side
      BY <1>1, <1>4
         DEF PullRules, PullBudget, MissBudget, Wake, Side
    <2>2. QED
      BY <1>1, <1>4, <2>1, PolicyStep
         DEF PullRules, PullBudget, MissBudget, Wake, host
  <1>5. ASSUME NEW t \in Tasks, NEW kind \in AllKinds, Open(t, kind)
        PROVE  RuntimeInv'
    BY <1>5, OpenStep
  <1>6. ASSUME NEW t \in Tasks, NEW u \in Tasks, Start(t, u)
        PROVE  RuntimeInv'
    BY <1>6, StartStep
  <1>7. ASSUME NEW t \in Tasks, Close(t)
        PROVE  RuntimeInv'
    BY <1>7, PopStep DEF Close, At
  <1>8. ASSUME NEW t \in Tasks, Refuse(t) \/ Answered(t) \/ Failed(t)
        PROVE  RuntimeInv'
    <2>1. /\ stack[t] # <<>> /\ Top(t).step # "open" /\ Pop(t)
          /\ UNCHANGED <<policy, context, base>>
      BY <1>8 DEF Refuse, Answered, Failed, At
    <2>2. stack[t] \in Seq(Frame) /\ Nested(stack[t], base[t])
      BY DEF RuntimeInv, RuntimeShapes, ContextInv
    <2>3. Len(stack[t]) \in 1..Len(stack[t])
      BY <2>1, <2>2, EmptySeq
    <2>4. Top(t).kind = "call"
      BY <2>1, <2>2, <2>3 DEF Nested, Top, Last
    <2>5. ~Pushes(Top(t).kind)
      BY <2>4 DEF Pushes
    <2>6. QED
      BY <2>1, <2>5, PopStep
  <1>9. ASSUME NEW t \in Tasks, Pass(t)
        PROVE  RuntimeInv'
    BY <1>9, PassStep
  <1>10. CASE UNCHANGED runtimeVars
    BY <1>1, <1>10, PolicyStep DEF runtimeVars, policy, host
  <1>11. QED
    BY <1>2, <1>3, <1>4, <1>5, <1>6, <1>7, <1>8, <1>9, <1>10 DEF RuntimeNext

\* The invariant implies what the run checks.
LEMMA RuntimeChecked ==
  ASSUME RuntimeInv
  PROVE  CallsAreLinked
  <1>1. ASSUME NEW t \in Tasks
        PROVE  /\ stack[t] \in Seq(Frame) /\ Len(stack[t]) \in Nat
               /\ DOMAIN stack[t] = 1..Len(stack[t])
               /\ \A i \in 1..Len(stack[t]) : stack[t][i] \in Frame
               /\ \A n : Innermost(t, n) = Inner(stack[t], base[t], n)
    <2>1. stack[t] \in Seq(Frame)
      BY DEF RuntimeInv, RuntimeShapes
    <2>2. QED
      BY <2>1, LenProperties, ElementOfSeq DEF Innermost, Inner
  <1>2. RuntimeTypeOK
    <2>1. ASSUME NEW side \in {controlPlane, cache}
          PROVE  ToSet(side.rules) \subseteq Rules /\ side.budget \in {None, "under", "over"}
      <3>1. side.rules \in Seq(Rules) /\ side.budget \in {None, "under", "over"}
        BY DEF RuntimeInv, RuntimeShapes, Side, Budgets
      <3>2. QED
        BY <3>1, LenProperties, ElementOfSeq DEF ToSet
    <2>2. ASSUME NEW t \in Tasks
          PROVE  /\ ToSet(stack[t]) \subseteq Frame /\ Len(stack[t]) <= MaxDepth[t]
                 /\ \A i \in 1 .. Len(stack[t]) - 1 : stack[t][i].step = "open"
      <3>1. ToSet(stack[t]) \subseteq Frame /\ Len(stack[t]) <= MaxDepth[t]
        BY <1>1 DEF ToSet, RuntimeInv, RuntimeShapes
      <3>2. ASSUME NEW i \in 1 .. Len(stack[t]) - 1
            PROVE  stack[t][i].step = "open"
        <4>1. i \in 1..Len(stack[t]) /\ i # Len(stack[t])
          BY <1>1
        <4>2. QED
          BY <4>1 DEF RuntimeInv, ContextInv, Nested
      <3>3. QED
        BY <3>1, <3>2
    <2>3. QED
      BY <2>1, <2>2 DEF RuntimeTypeOK, RuntimeInv, RuntimeShapes
  <1>3. \A t \in Tasks : context[t] = Innermost(t, Len(stack[t]))
    BY <1>1 DEF RuntimeInv, ContextInv
  <1>4. \A t \in Tasks : \A i \in 1 .. Len(stack[t]) :
          stack[t][i].kind \in {"trace", "call"} => stack[t][i].parent = Innermost(t, i - 1)
    BY <1>1 DEF RuntimeInv, ContextInv, Nested
  <1>5. ASSUME NEW t \in Tasks, NEW u \in Tasks, NEW f \in ToSet(stack[t]),
               NEW g \in ToSet(stack[u]), f.id # None, f.id = g.id
        PROVE  t = u /\ f = g
    <2>1. PICK i \in 1..Len(stack[t]) : f = stack[t][i]
      BY <1>1, <1>5 DEF ToSet
    <2>2. PICK j \in 1..Len(stack[u]) : g = stack[u][j]
      BY <1>1, <1>5 DEF ToSet
    <2>3. QED
      BY <1>5, <2>1, <2>2 DEF RuntimeInv, IdInv
  <1>6. QED
    BY <1>2, <1>3, <1>4, <1>5 DEF CallsAreLinked

\* Whatever ends with an exception, is refused or is started from another task, the
\* active trace of a thread is that of its innermost open frame that pushed one, every
\* call and trace names the one it was made in, and no two frames share an id.
THEOREM CallsStayLinked == RuntimeSpec => []CallsAreLinked
  <1>1. RuntimeInit => RuntimeInv
    BY InitRuntime
  <1>2. RuntimeInv /\ [RuntimeNext]_runtimeVars => RuntimeInv'
    BY StepRuntime
  <1>3. RuntimeInv => CallsAreLinked
    BY RuntimeChecked
  <1>4. QED
    BY <1>1, <1>2, <1>3, PTL DEF RuntimeSpec
=============================================================================
