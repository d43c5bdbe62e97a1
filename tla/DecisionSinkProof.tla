--------------------------- MODULE DecisionSinkProof ---------------------------
(***************************************************************************)
(* Proofs about DecisionSink, for every set of events, every size of       *)
(* channel and batch, and any number of successors.                        *)
(***************************************************************************)
EXTENDS DecisionSink, TLAPS

-----------------------------------------------------------------------------
(* Sequences of events and the sets of what is in them.                    *)

\* The events of a concatenation are those of its parts.
LEMMA ConcatSet ==
  ASSUME NEW s \in Seq(Events), NEW t \in Seq(Events)
  PROVE  ToSet(s \o t) = ToSet(s) \cup ToSet(t)
<1>1. ASSUME NEW e \in ToSet(s \o t)
      PROVE  e \in ToSet(s) \cup ToSet(t)
  BY DEF ToSet
<1>2. ASSUME NEW e \in ToSet(s) PROVE e \in ToSet(s \o t)
  <2>1. PICK i \in DOMAIN s : e = s[i]
    BY DEF ToSet
  <2>2. i \in DOMAIN (s \o t) /\ (s \o t)[i] = e
    BY <2>1
  <2> QED BY <2>2 DEF ToSet
<1>3. ASSUME NEW e \in ToSet(t) PROVE e \in ToSet(s \o t)
  <2>1. PICK i \in DOMAIN t : e = t[i]
    BY DEF ToSet
  <2>2. i + Len(s) \in DOMAIN (s \o t) /\ (s \o t)[i + Len(s)] = e
    BY <2>1
  <2> QED BY <2>2 DEF ToSet
<1> QED BY <1>1, <1>2, <1>3

\* An appended event joins them.
LEMMA AppendSet ==
  ASSUME NEW s \in Seq(Events), NEW e \in Events
  PROVE  ToSet(Append(s, e)) = ToSet(s) \cup {e}
<1>1. ASSUME NEW d \in ToSet(Append(s, e)) PROVE d \in ToSet(s) \cup {e}
  BY DEF ToSet
<1>2. ASSUME NEW d \in ToSet(s) PROVE d \in ToSet(Append(s, e))
  <2>1. PICK i \in DOMAIN s : d = s[i]
    BY DEF ToSet
  <2>2. i \in DOMAIN Append(s, e) /\ Append(s, e)[i] = d
    BY <2>1
  <2> QED BY <2>2 DEF ToSet
<1>3. e \in ToSet(Append(s, e))
  <2>1. Len(s) + 1 \in DOMAIN Append(s, e) /\ Append(s, e)[Len(s) + 1] = e
    OBVIOUS
  <2> QED BY <2>1 DEF ToSet
<1> QED BY <1>1, <1>2, <1>3

\* A concatenation without repetition has parts without, that share nothing.
LEMMA InjectiveParts ==
  ASSUME NEW s \in Seq(Events), NEW t \in Seq(Events), IsInjective(s \o t)
  PROVE  IsInjective(s) /\ IsInjective(t) /\ ToSet(s) \cap ToSet(t) = {}
<1>1. \A i \in DOMAIN s : i \in DOMAIN (s \o t) /\ (s \o t)[i] = s[i]
  OBVIOUS
<1>2. \A i \in DOMAIN t : i + Len(s) \in DOMAIN (s \o t) /\ (s \o t)[i + Len(s)] = t[i]
  OBVIOUS
<1>3. IsInjective(s)
  BY <1>1 DEF IsInjective
<1>4. IsInjective(t)
  <2> SUFFICES ASSUME NEW i \in DOMAIN t, NEW j \in DOMAIN t, t[i] = t[j] PROVE i = j
    BY DEF IsInjective
  <2>1. (s \o t)[i + Len(s)] = (s \o t)[j + Len(s)]
    BY <1>2
  <2>2. i + Len(s) = j + Len(s)
    BY <1>2, <2>1 DEF IsInjective
  <2>3. i \in Int /\ j \in Int /\ Len(s) \in Int
    OBVIOUS
  <2> QED BY <2>2, <2>3
<1>5. ASSUME NEW i \in DOMAIN s, NEW j \in DOMAIN t PROVE s[i] # t[j]
  <2>1. i \in 1 .. Len(s) /\ j \in 1 .. Len(t) /\ Len(s) \in Nat
    OBVIOUS
  <2>2. i # j + Len(s)
    BY <2>1
  <2> QED BY <1>1, <1>2, <2>2 DEF IsInjective
<1> QED BY <1>3, <1>4, <1>5 DEF ToSet

\* A new event makes no repetition.
LEMMA InjectiveAppend ==
  ASSUME NEW s \in Seq(Events), NEW e \in Events, IsInjective(s), e \notin ToSet(s)
  PROVE  IsInjective(Append(s, e))
<1> SUFFICES ASSUME NEW i \in DOMAIN Append(s, e), NEW j \in DOMAIN Append(s, e),
                    Append(s, e)[i] = Append(s, e)[j]
             PROVE  i = j
  BY DEF IsInjective
<1>1. \A k \in DOMAIN s : s[k] # e
  BY DEF ToSet
<1> QED BY <1>1 DEF IsInjective

\* What is gathered moves from the channel to the batch and keeps its place.
LEMMA GatherKeepsOrder ==
  ASSUME NEW s \in Seq(Events), NEW t \in Seq(Events), t # <<>>
  PROVE  Append(s, Head(t)) \o Tail(t) = s \o t
<1>1. Len(Append(s, Head(t)) \o Tail(t)) = Len(s \o t)
  OBVIOUS
<1>2. \A i \in 1 .. Len(s \o t) : (Append(s, Head(t)) \o Tail(t))[i] = (s \o t)[i]
  OBVIOUS
<1>3. Append(s, Head(t)) \o Tail(t) \in Seq(Events) /\ s \o t \in Seq(Events)
  OBVIOUS
<1> QED BY <1>1, <1>2, <1>3

\* A publish appends to what is held.
LEMMA AppendToHeld ==
  ASSUME NEW s \in Seq(Events), NEW t \in Seq(Events), NEW e \in Events
  PROVE  s \o Append(t, e) = Append(s \o t, e)
OBVIOUS

-----------------------------------------------------------------------------
(* Types.  That Wake stays within MaxAttempts needs UploadUnderWay: a        *)
(* backoff never follows the last attempt.                                 *)

TypeInv == TypeOK /\ UploadUnderWay

\* The first process starts with everything empty.
LEMMA InitTypeInv ==
  ASSUME Init
  PROVE  TypeInv
<1>1. <<>> \in Seq(Events) /\ Len(<<>>) = 0
  OBVIOUS
<1>2. MaxRestarts \in Nat /\ QueueSize \in Nat
  BY SinkAssumption
<1>3. DOMAIN objects = {} /\ lost \in [{"crash", "exit"} -> SUBSET Events]
  BY DEF Init
<1>4. handlers \in [Events -> {"none", "handling", "published", "died"}]
  BY DEF Init
<1>5. /\ queue \in Seq(Events) /\ Len(queue) <= QueueSize
      /\ batch \in Seq(Events) /\ bytes \in Nat
  BY <1>1, <1>2 DEF Init
<1>7. attempt \in 0 .. MaxAttempts /\ key \in Keys /\ seq \in Nat
      /\ second \in Nat /\ restarts \in 0 .. MaxRestarts
  BY <1>2 DEF Init, Keys, MaxAttempts
<1>8. TypeOK
  BY <1>3, <1>4, <1>5, <1>7 DEF Init, TypeOK
<1>6. UploadUnderWay
  BY DEF Init, UploadUnderWay, InFlight
<1> QED BY <1>6, <1>8 DEF TypeInv

\* Gathering moves one event of the channel.
LEMMA GatherTypes ==
  ASSUME TypeOK, Gather
  PROVE  /\ queue' \in Seq(Events) /\ Len(queue') <= QueueSize
         /\ batch' \in Seq(Events) /\ bytes' \in Nat
<1>1. queue \in Seq(Events) /\ queue # <<>> /\ Len(queue) <= QueueSize
      /\ batch \in Seq(Events) /\ bytes \in Nat
  BY DEF TypeOK, Gather
<1>2. Head(queue) \in Events /\ Tail(queue) \in Seq(Events) /\ Len(Tail(queue)) = Len(queue) - 1
  BY <1>1
<1>3. Size[Head(queue)] \in Nat /\ QueueSize \in Nat
  BY <1>2, SinkAssumption
<1>4. Len(queue) \in Nat
  BY <1>1
<1>5. Append(batch, Head(queue)) \in Seq(Events)
  BY <1>1, <1>2
<1> QED BY <1>1, <1>2, <1>3, <1>4, <1>5 DEF Gather

\* A PUT adds one object, the batch, under one key.
LEMMA PutTypes ==
  ASSUME TypeOK, Put(key)
  PROVE  /\ DOMAIN objects' = DOMAIN objects \cup {key}
         /\ DOMAIN objects' \subseteq Keys
         /\ \A k \in DOMAIN objects' : objects'[k] = IF k = key THEN batch ELSE objects[k]
         /\ \A k \in DOMAIN objects' : objects'[k] \in Seq(Events)
BY DEF TypeOK, Put

\* A failed attempt stores the batch or nothing.
LEMMA FailedPutTypes ==
  ASSUME TypeOK, FailedPut
  PROVE  /\ DOMAIN objects' \subseteq Keys /\ \A k \in DOMAIN objects' : objects'[k] \in Seq(Events)
         /\ doubtful' \subseteq Events
<1>1. CASE Put(key) /\ doubtful' = doubtful \cup ToSet(batch)
  <2>1. ToSet(batch) \subseteq Events
    BY DEF TypeOK, ToSet
  <2> QED BY <1>1, <2>1, PutTypes DEF TypeOK
<1>2. CASE UNCHANGED <<objects, doubtful>>
  BY <1>2 DEF TypeOK
<1> QED BY <1>1, <1>2 DEF FailedPut

\* A settled batch leaves nothing gathered.
LEMMA SettledTypes ==
  ASSUME TypeOK, Settled
  PROVE  /\ pc' \in {"select", "done"} /\ timer' \in {"armed", "fired", "stopped"}
         /\ batch' \in Seq(Events) /\ bytes' \in Nat
         /\ UNCHANGED <<handlers, queue, attempt, key, seq, fresh, expired, host>>
BY DEF TypeOK, Settled, Resume

\* Every step keeps the types.
LEMMA NextTypeInv ==
  ASSUME TypeInv, [Next]_vars
  PROVE  TypeInv'
<1> USE DEF TypeInv
<1>0. ToSet(batch) \subseteq Events /\ ToSet(queue) \subseteq Events
  BY DEF TypeOK, ToSet
<1>1. ASSUME NEW e \in Events, Handle(e) PROVE TypeInv'
  BY <1>1 DEF Handle, TypeOK, UploadUnderWay, InFlight, Up, loop, host, counters
<1>2. ASSUME NEW e \in Events, Publish(e) PROVE TypeInv'
  <2>1. CASE Len(queue) < QueueSize /\ queue' = Append(queue, e) /\ UNCHANGED dropped
    <3>1. queue' \in Seq(Events) /\ Len(queue') <= QueueSize
      BY <2>1, SinkAssumption DEF TypeOK
    <3> QED BY <1>2, <2>1, <3>1 DEF Publish, TypeOK, UploadUnderWay, InFlight, Up, loop, host
  <2>2. CASE dropped' = dropped \cup {e} /\ UNCHANGED queue
    BY <1>2, <2>2 DEF Publish, TypeOK, UploadUnderWay, InFlight, Up, loop, host
  <2> QED BY <1>2, <2>1, <2>2 DEF Publish
<1>3. CASE TakeDone
  BY <1>3 DEF TakeDone, TypeOK, UploadUnderWay, InFlight, Up, host, counters
<1>4. CASE TakeEvent
  <2>1. Gather /\ pc' \in {"select", "flush"}
    BY <1>4 DEF TakeEvent
  <2> QED BY <1>4, <2>1, GatherTypes DEF TakeEvent, TypeOK, UploadUnderWay, InFlight, Up, host, counters
<1>5. CASE TakeTick
  BY <1>5 DEF TakeTick, TypeOK, UploadUnderWay, InFlight, Up, host, counters
<1>6. CASE Drain
  <2>1. Gather /\ pc = "drain"
    BY <1>6 DEF Drain
  <2> QED BY <1>6, <2>1, GatherTypes DEF Drain, TypeOK, UploadUnderWay, InFlight, Up, loop, host, counters
<1>7. CASE Drained
  BY <1>7 DEF Drained, TypeOK, UploadUnderWay, InFlight, Up, host, counters
<1>8. CASE FlushNothing
  BY <1>8 DEF FlushNothing, Resume, TypeOK, UploadUnderWay, InFlight, Up, host, counters
<1>9. CASE SerializeFails
  <2>1. Settled /\ dropped' = dropped \cup ToSet(batch)
    BY <1>9 DEF SerializeFails, DropBatch
  <2> QED BY <1>0, <1>9, <2>1, SettledTypes DEF SerializeFails, TypeOK, UploadUnderWay, InFlight, host
<1>10. CASE StartUpload
  BY <1>10 DEF StartUpload, TypeOK, UploadUnderWay, InFlight, Up, Keys, MaxAttempts, host, counters
<1>11. CASE PutOK
  <2>1. Settled /\ Put(key) /\ flushed' = flushed \cup ToSet(batch)
    BY <1>11 DEF PutOK
  <2> QED BY <1>0, <1>11, <2>1, SettledTypes, PutTypes DEF PutOK, TypeOK, UploadUnderWay, InFlight, host
<1>12. CASE PutRetries
  <2>1. FailedPut /\ pc = "put" /\ Up
    BY <1>12 DEF PutRetries, FailedPut
  <2> QED BY <1>12, <2>1, FailedPutTypes DEF PutRetries, TypeOK, UploadUnderWay, InFlight, Up, MaxAttempts, host
<1>13. CASE PutExhausted
  <2>1. Settled /\ FailedPut /\ dropped' = dropped \cup ToSet(batch)
    BY <1>13 DEF PutExhausted, DropBatch
  <2> QED BY <1>0, <1>13, <2>1, SettledTypes, FailedPutTypes DEF PutExhausted, TypeOK, UploadUnderWay, InFlight, host
<1>14. CASE Wake
  BY <1>14 DEF Wake, TypeOK, UploadUnderWay, InFlight, Up, MaxAttempts, host, counters
<1>15. CASE GiveUp
  <2>1. Settled /\ dropped' = dropped \cup ToSet(batch)
    BY <1>15 DEF GiveUp, DropBatch
  <2> QED BY <1>0, <1>15, <2>1, SettledTypes DEF GiveUp, TypeOK, UploadUnderWay, InFlight, host
<1>16. CASE TimerFires
  BY <1>16 DEF TimerFires, TypeOK, UploadUnderWay, InFlight, Up, host, counters
<1>17. CASE Expire
  BY <1>17 DEF Expire, TypeOK, UploadUnderWay, InFlight, Up, host, counters
<1>18. CASE Sigterm
  BY <1>18 DEF Sigterm, TypeOK, UploadUnderWay, InFlight, Up, loop, counters
<1>19. CASE Shutdown
  BY <1>19 DEF Shutdown, TypeOK, UploadUnderWay, InFlight, Up, loop, counters
<1>20. ASSUME NEW by \in {"crash", "exit"}, End(by) PROVE TypeInv'
  <2>1. ToSet(Held) \subseteq Events
    BY <1>0, ConcatSet DEF TypeOK, Held
  <2>2. lost' \in [{"crash", "exit"} -> SUBSET Events]
    BY <1>20, <2>1 DEF End, TypeOK
  <2>3. handlers' \in [Events -> {"none", "handling", "published", "died"}]
    BY <1>20 DEF End, TypeOK
  <2>4. ~InFlight'
    BY <1>20 DEF End, InFlight, Up
  <2>5. queue' = <<>> /\ Len(queue') <= QueueSize /\ batch' = <<>> /\ bytes' = 0
    BY <1>20, SinkAssumption DEF End
  <2> QED BY <1>20, <2>2, <2>3, <2>4, <2>5 DEF End, TypeOK, UploadUnderWay, loop
<1>21. CASE Restart
  <2>1. restarts' \in 0 .. MaxRestarts /\ second' \in Nat
    BY <1>21, SinkAssumption DEF Restart, TypeOK
  <2>2. ~InFlight'
    BY <1>21 DEF Restart, InFlight
  <2>3. attempt' \in 0 .. MaxAttempts
    BY <1>21 DEF Restart, MaxAttempts
  <2>4. UNCHANGED <<handlers, queue, batch, bytes, key, objects, flushed, dropped, lost, doubtful>>
    BY <1>21 DEF Restart, counters
  <2>5. TypeOK'
    BY <1>21, <2>1, <2>3, <2>4 DEF Restart, TypeOK
  <2> QED BY <2>2, <2>5 DEF UploadUnderWay
<1>22. CASE UNCHANGED vars
  BY <1>22 DEF vars, TypeOK, UploadUnderWay, InFlight, Up, loop, host, counters
<1> QED
  BY <1>1, <1>2, <1>3, <1>4, <1>5, <1>6, <1>7, <1>8, <1>9, <1>10, <1>11, <1>12, <1>13,
     <1>14, <1>15, <1>16, <1>17, <1>18, <1>19, <1>20, <1>21, <1>22
  DEF Next, Uploading, Exit, Crash

\* Every variable of the sink keeps its type.
THEOREM TypeCorrect == Spec => []TypeOK
<1>1. Init => TypeInv
  BY InitTypeInv
<1>2. TypeInv /\ [Next]_vars => TypeInv'
  BY NextTypeInv
<1>3. TypeInv => TypeOK
  BY DEF TypeInv
<1> QED BY <1>1, <1>2, <1>3, PTL DEF Spec

-----------------------------------------------------------------------------
(* What a step does to the events and to the upload: nothing, or one of     *)
(* eight things.                                                           *)

Steady == /\ InFlight' <=> InFlight
          /\ UNCHANGED <<key, second, seq>>
          /\ InFlight => UNCHANGED batch
Over   == ~InFlight' /\ UNCHANGED <<second, seq>>

Starts    == /\ ~InFlight /\ UNCHANGED <<batch, second>>
             /\ seq' = seq + 1 /\ key' = [second |-> second, seq |-> seq + 1]
Succeeds  == /\ ~InFlight /\ ~InFlight'
             /\ restarts < MaxRestarts /\ second' = second + MinDowntime
Quiet     == /\ UNCHANGED <<handlers, Held, counters>>
             /\ Steady \/ Starts \/ Succeeds

Begins(e)  == /\ handlers[e] = "none"
              /\ handlers' = [handlers EXCEPT ![e] = "handling"]
              /\ UNCHANGED <<Held, counters>> /\ Steady
Leaves(e)  == /\ handlers[e] = "handling"
              /\ handlers' = [handlers EXCEPT ![e] = "published"]
              /\ Steady
Accepts(e) == /\ Leaves(e)
              /\ Held' = Append(Held, e)
              /\ UNCHANGED counters
Refuses(e) == /\ Leaves(e)
              /\ dropped' = dropped \cup {e}
              /\ UNCHANGED <<Held, objects, flushed, lost, doubtful>>

StoresBatch == /\ InFlight /\ Put(key)
               /\ doubtful' = doubtful \cup ToSet(batch)
Stores      == /\ StoresBatch /\ Steady
               /\ UNCHANGED <<handlers, Held, flushed, dropped, lost>>

Settles == /\ batch # <<>> /\ Held' = queue /\ Over
           /\ UNCHANGED <<handlers, lost>>
Flushes == /\ Settles
           /\ InFlight /\ Put(key)
           /\ flushed' = flushed \cup ToSet(batch)
           /\ UNCHANGED <<dropped, doubtful>>
Drops   == /\ Settles
           /\ dropped' = dropped \cup ToSet(batch)
           /\ StoresBatch \/ UNCHANGED <<objects, doubtful>>
           /\ UNCHANGED flushed

Forgets(by) == /\ Held' = <<>> /\ Over
               /\ lost' = [lost EXCEPT ![by] = @ \cup ToSet(Held)]
               /\ handlers' = [e \in Events |->
                                  IF handlers[e] = "handling" THEN "died" ELSE handlers[e]]
               /\ UNCHANGED <<objects, flushed, dropped, doubtful>>

Effect == \/ Quiet
          \/ \E e \in Events : Begins(e) \/ Accepts(e) \/ Refuses(e)
          \/ Stores \/ Flushes \/ Drops
          \/ \E by \in {"crash", "exit"} : Forgets(by)

\* A step that settles the batch leaves the channel.
LEMMA SettledHeld ==
  ASSUME TypeOK, Settled, batch # <<>>, UNCHANGED lost
  PROVE  Settles
<1>1. <<>> \o queue = queue
  BY DEF TypeOK
<1>2. ~InFlight'
  BY DEF Settled, Resume, InFlight
<1> QED BY <1>1, <1>2 DEF Settled, Settles, Over, Held, host

\* Gathering leaves what is held as it is.
LEMMA GatherHeld ==
  ASSUME TypeOK, Gather
  PROVE  Held' = Held
<1>1. queue \in Seq(Events) /\ batch \in Seq(Events) /\ queue # <<>>
  BY DEF TypeOK, Gather
<1> QED BY <1>1, GatherKeepsOrder DEF Gather, Held

\* Every step has one of these effects, whatever the goroutine, the timer, the
\* signals and the process do otherwise.
LEMMA NextEffect ==
  ASSUME TypeInv, [Next]_vars
  PROVE  Effect
<1> USE DEF TypeInv
<1>1. ASSUME NEW e \in Events, Handle(e) PROVE Effect
  <2>1. Steady
    BY <1>1 DEF Handle, Steady, InFlight, Up, loop, host
  <2>2. Begins(e)
    BY <1>1, <2>1 DEF Handle, Begins, Held
  <2> QED BY <2>2 DEF Effect
<1>2. ASSUME NEW e \in Events, Publish(e) PROVE Effect
  <2>1. Leaves(e)
    BY <1>2 DEF Publish, Leaves, Steady, InFlight, Up, loop, host
  <2>2. CASE queue' = Append(queue, e) /\ UNCHANGED dropped
    <3>1. Held' = Append(Held, e)
      BY <1>2, <2>2, AppendToHeld DEF Publish, Held, TypeOK
    <3>2. Accepts(e)
      BY <1>2, <2>1, <2>2, <3>1 DEF Publish, Accepts, counters
    <3> QED BY <3>2 DEF Effect
  <2>3. CASE dropped' = dropped \cup {e} /\ UNCHANGED queue
    <3>1. Refuses(e)
      BY <1>2, <2>1, <2>3 DEF Publish, Refuses, Held
    <3> QED BY <3>1 DEF Effect
  <2> QED BY <1>2, <2>2, <2>3 DEF Publish
<1>3. CASE TakeEvent \/ Drain
  <2>1. Gather /\ ~InFlight /\ ~InFlight' /\ UNCHANGED <<handlers, key, second, seq, counters>>
    BY <1>3 DEF TakeEvent, Drain, InFlight, loop, host
  <2> QED BY <2>1, GatherHeld DEF Effect, Quiet, Steady
<1>4. CASE TakeDone \/ TakeTick \/ Drained \/ FlushNothing
  <2>1. ~InFlight /\ ~InFlight' /\ UNCHANGED <<handlers, queue, batch, key, second, seq, counters>>
    BY <1>4 DEF TakeDone, TakeTick, Drained, FlushNothing, Resume, InFlight, host
  <2> QED BY <2>1 DEF Effect, Quiet, Steady, Held
<1>5. CASE Wake \/ TimerFires \/ Expire \/ Sigterm \/ Shutdown \/ UNCHANGED vars
  <2>1. (InFlight' <=> InFlight) /\ UNCHANGED <<handlers, queue, batch, key, second, seq, counters>>
    BY <1>5 DEF Wake, TimerFires, Expire, Sigterm, Shutdown, InFlight, Up, vars, loop, host
  <2> QED BY <2>1 DEF Effect, Quiet, Steady, Held
<1>6. CASE StartUpload
  <2>1. Starts
    BY <1>6 DEF StartUpload, Starts, InFlight, host
  <2> QED BY <1>6, <2>1 DEF StartUpload, Effect, Quiet, Held
<1>7. CASE Restart
  <2>1. Succeeds
    BY <1>7 DEF Restart, Succeeds, InFlight
  <2> QED BY <1>7, <2>1 DEF Restart, Effect, Quiet, Held
<1>8. CASE SerializeFails
  <2>1. batch # <<>>
    BY <1>8 DEF SerializeFails, ToSet
  <2>2. Settles
    BY <1>8, <2>1, SettledHeld DEF SerializeFails, DropBatch
  <2> QED BY <1>8, <2>2 DEF SerializeFails, DropBatch, Drops, Effect
<1>9. CASE PutOK
  <2>1. InFlight /\ batch # <<>>
    BY <1>9 DEF PutOK, InFlight, UploadUnderWay
  <2>2. Settles
    BY <1>9, <2>1, SettledHeld DEF PutOK
  <2> QED BY <1>9, <2>1, <2>2 DEF PutOK, Flushes, Effect
<1>10. ASSUME FailedPut PROVE StoresBatch \/ UNCHANGED <<objects, doubtful>>
  BY <1>10 DEF FailedPut, StoresBatch, InFlight
<1>11. CASE PutRetries
  <2>1. Steady /\ UNCHANGED <<handlers, Held, flushed, dropped, lost>>
    BY <1>11 DEF PutRetries, FailedPut, Steady, InFlight, Up, Held, host
  <2> QED BY <1>10, <1>11, <2>1 DEF PutRetries, Stores, Quiet, Effect, counters
<1>12. CASE PutExhausted
  <2>1. batch # <<>>
    BY <1>12 DEF PutExhausted, FailedPut, InFlight, UploadUnderWay
  <2>2. Settles
    BY <1>12, <2>1, SettledHeld DEF PutExhausted, DropBatch
  <2> QED BY <1>10, <1>12, <2>2 DEF PutExhausted, DropBatch, Drops, Effect
<1>13. CASE GiveUp
  <2>1. batch # <<>>
    BY <1>13 DEF GiveUp, InFlight, UploadUnderWay
  <2>2. Settles
    BY <1>13, <2>1, SettledHeld DEF GiveUp, DropBatch
  <2> QED BY <1>13, <2>2 DEF GiveUp, DropBatch, Drops, Effect
<1>14. ASSUME NEW by \in {"crash", "exit"}, End(by) PROVE Effect
  <2>1. Over
    BY <1>14 DEF End, Over, InFlight, Up, loop
  <2>2. Forgets(by)
    BY <1>14, <2>1 DEF End, Forgets, Held
  <2> QED BY <2>2 DEF Effect
<1> QED
  BY <1>1, <1>2, <1>3, <1>4, <1>5, <1>6, <1>7, <1>8, <1>9, <1>11, <1>12, <1>13, <1>14
  DEF Next, Uploading, Exit, Crash

-----------------------------------------------------------------------------
(* Every event in one place.                                               *)

PlaceInv == TypeInv /\ EveryEventInOnePlace

\* What is held is what is gathered, then what waits in the channel.
LEMMA HeldFacts ==
  ASSUME PlaceInv
  PROVE  /\ Held \in Seq(Events)
         /\ ToSet(Held) = ToSet(batch) \cup ToSet(queue)
         /\ ToSet(Held) \subseteq Events /\ ToSet(batch) \subseteq Events
         /\ IsInjective(batch) /\ IsInjective(queue) /\ ToSet(batch) \cap ToSet(queue) = {}
<1>1. batch \in Seq(Events) /\ queue \in Seq(Events)
  BY DEF PlaceInv, TypeInv, TypeOK
<1>2. Held \in Seq(Events) /\ ToSet(Held) = ToSet(batch) \cup ToSet(queue)
  BY <1>1, ConcatSet DEF Held
<1>3. IsInjective(batch) /\ IsInjective(queue) /\ ToSet(batch) \cap ToSet(queue) = {}
  BY <1>1, InjectiveParts DEF PlaceInv, EveryEventInOnePlace, Held
<1>4. ToSet(Held) \subseteq Events
  BY <1>2 DEF ToSet
<1> QED BY <1>2, <1>3, <1>4

\* An event that is being handled is nowhere yet.
LEMMA NewEvent ==
  ASSUME PlaceInv, NEW e \in Events, handlers[e] # "published"
  PROVE  e \notin ToSet(Held) /\ e \notin flushed /\ e \notin dropped /\ e \notin Lost
BY DEF PlaceInv, EveryEventInOnePlace

\* An event that is published enters one place.
LEMMA EntersOnePlace ==
  ASSUME PlaceInv, NEW e \in Events, Accepts(e) \/ Refuses(e)
  PROVE  EveryEventInOnePlace'
<1>1. e \notin ToSet(Held) /\ e \notin flushed /\ e \notin dropped /\ e \notin Lost
  BY NewEvent DEF Accepts, Refuses, Leaves
<1>2. \A d \in Events : handlers'[d] = IF d = e THEN "published" ELSE handlers[d]
  BY DEF Accepts, Refuses, Leaves, PlaceInv, TypeInv, TypeOK
<1>3. CASE Accepts(e)
  <2>1. Held' = Append(Held, e) /\ UNCHANGED <<flushed, dropped, Lost>>
    BY <1>3 DEF Accepts, counters, Lost
  <2>2. ToSet(Held') = ToSet(Held) \cup {e}
    BY <2>1, AppendSet, HeldFacts
  <2>3. IsInjective(Held')
    BY <1>1, <2>1, HeldFacts, InjectiveAppend DEF PlaceInv, EveryEventInOnePlace
  <2> QED BY <1>1, <1>2, <2>1, <2>2, <2>3 DEF PlaceInv, EveryEventInOnePlace
<1>4. CASE Refuses(e)
  <2>1. dropped' = dropped \cup {e} /\ UNCHANGED <<Held, flushed, Lost>>
    BY <1>4 DEF Refuses, Lost
  <2> QED BY <1>1, <1>2, <2>1 DEF PlaceInv, EveryEventInOnePlace
<1> QED BY <1>3, <1>4

\* A batch that is settled moves to one counter.
LEMMA SettlesOnePlace ==
  ASSUME PlaceInv, Flushes \/ Drops
  PROVE  EveryEventInOnePlace'
<1>1. Held' = queue /\ UNCHANGED <<handlers, Lost>>
  BY DEF Flushes, Drops, Settles, Lost
<1>2. \/ flushed' = flushed \cup ToSet(batch) /\ UNCHANGED dropped
      \/ dropped' = dropped \cup ToSet(batch) /\ UNCHANGED flushed
  BY DEF Flushes, Drops
<1> QED BY <1>1, <1>2, HeldFacts DEF PlaceInv, EveryEventInOnePlace

\* A process that ends moves what it held to lost.
LEMMA ForgetsOnePlace ==
  ASSUME PlaceInv, NEW by \in {"crash", "exit"}, Forgets(by)
  PROVE  EveryEventInOnePlace'
<1>1. lost'["crash"] \cup lost'["exit"] = Lost \cup ToSet(Held)
  BY DEF Forgets, Lost, PlaceInv, TypeInv, TypeOK
<1>2. \A e \in Events : handlers'[e] = "published" <=> handlers[e] = "published"
  BY DEF Forgets
<1>3. ToSet(<<>>) = {} /\ IsInjective(<<>>)
  BY DEF ToSet, IsInjective
<1>4. Held' = <<>> /\ UNCHANGED <<flushed, dropped>>
  BY DEF Forgets
<1>5. Lost' = Lost \cup ToSet(Held)
  BY <1>1 DEF Lost
<1> QED BY <1>2, <1>3, <1>4, <1>5 DEF PlaceInv, EveryEventInOnePlace

\* Every step keeps every event in one place.
LEMMA NextPlaceInv ==
  ASSUME PlaceInv, [Next]_vars
  PROVE  PlaceInv'
<1>1. TypeInv' /\ Effect
  BY NextTypeInv, NextEffect DEF PlaceInv
<1>2. ASSUME UNCHANGED <<Held, flushed, dropped, lost>>,
             \A e \in Events : handlers'[e] = "published" <=> handlers[e] = "published"
      PROVE  EveryEventInOnePlace'
  <2>1. UNCHANGED Lost
    BY <1>2 DEF Lost
  <2> QED BY <1>2, <2>1 DEF PlaceInv, EveryEventInOnePlace
<1>3. ASSUME Quiet \/ Stores PROVE EveryEventInOnePlace'
  <2>1. UNCHANGED <<handlers, Held, flushed, dropped, lost>>
    BY <1>3 DEF Quiet, Stores, counters
  <2> QED BY <1>2, <2>1
<1>4. ASSUME NEW e \in Events, Begins(e) PROVE EveryEventInOnePlace'
  <2>1. \A d \in Events : handlers'[d] = IF d = e THEN "handling" ELSE handlers[d]
    BY <1>4 DEF Begins, PlaceInv, TypeInv, TypeOK
  <2> QED BY <1>2, <1>4, <2>1 DEF Begins, counters
<1>5. ASSUME NEW e \in Events, Accepts(e) \/ Refuses(e) PROVE EveryEventInOnePlace'
  BY <1>5, EntersOnePlace
<1>6. ASSUME Flushes \/ Drops PROVE EveryEventInOnePlace'
  BY <1>6, SettlesOnePlace
<1>7. ASSUME NEW by \in {"crash", "exit"}, Forgets(by) PROVE EveryEventInOnePlace'
  BY <1>7, ForgetsOnePlace
<1>8. EveryEventInOnePlace'
  BY <1>1, <1>3, <1>4, <1>5, <1>6, <1>7 DEF Effect
<1> QED BY <1>1, <1>8 DEF PlaceInv

\* No event has been published at the start.
LEMMA InitPlaceInv ==
  ASSUME Init
  PROVE  PlaceInv
<1>1. Held = <<>>
  BY DEF Init, Held
<1>2. ToSet(Held) = {} /\ IsInjective(Held)
  BY <1>1 DEF ToSet, IsInjective
<1>3. EveryEventInOnePlace
  BY <1>2 DEF Init, EveryEventInOnePlace, Lost
<1> QED BY <1>3, InitTypeInv DEF PlaceInv

\* A published event is waiting, flushed, dropped or lost with its process, and
\* never two of these: the counters of the sink count each event once.
THEOREM OnePlace == Spec => []EveryEventInOnePlace
<1>1. Init => PlaceInv
  BY InitPlaceInv
<1>2. PlaceInv /\ [Next]_vars => PlaceInv'
  BY NextPlaceInv
<1>3. PlaceInv => EveryEventInOnePlace
  BY DEF PlaceInv
<1> QED BY <1>1, <1>2, <1>3, PTL DEF Spec

-----------------------------------------------------------------------------
(* The bucket.  What follows needs SuccessorsComeLater: two processes of one *)
(* second on one host would give two batches one name.                     *)

BucketInv == /\ PlaceInv
             /\ StoredAtMostOnce /\ CountersTellTheBucket
             /\ KeysNotAhead /\ ObjectsAreBatches

\* The object of the upload under way, if a failed attempt left one, is the
\* batch; every other object is settled and shares nothing with what is held.
LEMMA Objects ==
  ASSUME BucketInv, NEW k \in DOMAIN objects
  PROVE  /\ InFlight /\ k = key => objects[k] = batch /\ ToSet(batch) \subseteq doubtful
         /\ ~(InFlight /\ k = key) =>
              /\ ToSet(objects[k]) \subseteq flushed \cup dropped \cup Lost
              /\ ToSet(objects[k]) \cap ToSet(Held) = {}
         /\ ToSet(objects[k]) \subseteq Stored
<1>1. ToSet(objects[k]) \subseteq Stored
  BY DEF Stored
<1>2. InFlight /\ k = key => objects[k] = batch /\ ToSet(batch) \subseteq doubtful
  BY DEF BucketInv, ObjectsAreBatches
<1>3. ~(InFlight /\ k = key) => ToSet(objects[k]) \subseteq flushed \cup dropped \cup Lost
  BY DEF BucketInv, ObjectsAreBatches
<1> QED BY <1>1, <1>2, <1>3 DEF BucketInv, PlaceInv, EveryEventInOnePlace

\* What is stored has been published, and is not still in the channel.
LEMMA StoredSeen ==
  ASSUME BucketInv
  PROVE  /\ Stored \subseteq ToSet(batch) \cup flushed \cup dropped \cup Lost
         /\ Stored \cap ToSet(batch) \subseteq doubtful
<1> SUFFICES ASSUME NEW k \in DOMAIN objects, NEW e \in ToSet(objects[k])
             PROVE  /\ e \in ToSet(batch) \cup flushed \cup dropped \cup Lost
                    /\ e \in ToSet(batch) => e \in doubtful
  BY DEF Stored
<1>1. CASE InFlight /\ k = key
  BY <1>1, Objects
<1>2. CASE ~(InFlight /\ k = key)
  <2>1. e \in flushed \cup dropped \cup Lost /\ e \notin ToSet(Held)
    BY <1>2, Objects
  <2> QED BY <2>1, HeldFacts DEF BucketInv
<1> QED BY <1>1, <1>2

\* A PUT adds the batch to what is stored and takes nothing away: a retry finds
\* its own batch under its key, and nobody else's.
LEMMA PutAddsBatch ==
  ASSUME BucketInv, InFlight, Put(key)
  PROVE  /\ DOMAIN objects' = DOMAIN objects \cup {key}
         /\ objects'[key] = batch
         /\ \A k \in DOMAIN objects : k # key => objects'[k] = objects[k]
         /\ Stored' = Stored \cup ToSet(batch)
<1>1. /\ DOMAIN objects' = DOMAIN objects \cup {key}
      /\ \A k \in DOMAIN objects' : objects'[k] = IF k = key THEN batch ELSE objects[k]
  BY PutTypes DEF BucketInv, PlaceInv, TypeInv
<1>2. key \in DOMAIN objects => objects[key] = batch
  BY Objects
<1>3. ASSUME NEW k \in DOMAIN objects' PROVE ToSet(objects'[k]) \subseteq Stored \cup ToSet(batch)
  BY <1>1 DEF Stored
<1>4. Stored' \subseteq Stored \cup ToSet(batch)
  BY <1>3 DEF Stored
<1>5. ASSUME NEW k \in DOMAIN objects PROVE ToSet(objects[k]) \subseteq Stored'
  BY <1>1, <1>2 DEF Stored
<1>6. Stored \subseteq Stored'
  BY <1>5 DEF Stored
<1>7. ToSet(batch) \subseteq Stored'
  BY <1>1 DEF Stored
<1> QED BY <1>1, <1>4, <1>6, <1>7

\* A PUT makes no second copy.
LEMMA PutKeepsOneCopy ==
  ASSUME BucketInv, InFlight, Put(key)
  PROVE  StoredAtMostOnce'
<1>1. IsInjective(batch) /\ ToSet(batch) \subseteq ToSet(Held)
  BY HeldFacts DEF BucketInv
<1>2. \A k \in DOMAIN objects : k # key => ToSet(objects[k]) \cap ToSet(batch) = {}
  BY <1>1, Objects
<1> QED BY <1>1, <1>2, PutAddsBatch DEF BucketInv, StoredAtMostOnce

\* The names used so far stay behind the clock and the counter of the process.
LEMMA NextKeysNotAhead ==
  ASSUME SuccessorsComeLater, BucketInv, [Next]_vars
  PROVE  KeysNotAhead'
<1>1. Effect /\ TypeOK
  BY NextEffect DEF BucketInv, PlaceInv, TypeInv
<1>2. second \in Nat /\ seq \in Nat /\ restarts \in Nat /\ DOMAIN objects \subseteq Keys
  BY <1>1, SinkAssumption DEF TypeOK
<1>3. CASE InFlight /\ Put(key) /\ UNCHANGED <<second, seq>>
  <2>1. key.second = second /\ key.seq = seq
    BY <1>3 DEF BucketInv, PlaceInv, TypeInv, UploadUnderWay
  <2> QED BY <1>2, <1>3, <2>1, PutAddsBatch DEF BucketInv, KeysNotAhead
<1>4. CASE UNCHANGED <<objects, second, seq>>
  BY <1>4 DEF BucketInv, KeysNotAhead
<1>5. CASE Starts /\ UNCHANGED objects
  BY <1>2, <1>5 DEF Starts, BucketInv, KeysNotAhead, Keys
<1>6. CASE Succeeds /\ UNCHANGED objects
  <2>1. MinDowntime > 0
    BY <1>2, <1>6, SinkAssumption DEF Succeeds, SuccessorsComeLater
  <2>2. second' > second
    BY <1>2, <1>6, <2>1, SinkAssumption DEF Succeeds
  <2> QED BY <1>2, <1>6, <2>2, SinkAssumption DEF Succeeds, BucketInv, KeysNotAhead, Keys
<1>7. CASE Quiet
  BY <1>4, <1>5, <1>6, <1>7 DEF Quiet, Steady, counters
<1>8. ASSUME NEW e \in Events, Begins(e) \/ Accepts(e) \/ Refuses(e) PROVE KeysNotAhead'
  BY <1>4, <1>8 DEF Begins, Accepts, Refuses, Leaves, Steady, counters
<1>9. CASE Stores \/ Flushes \/ Drops
  BY <1>3, <1>4, <1>9 DEF Stores, Flushes, Drops, Settles, StoresBatch, Steady, Over
<1>10. ASSUME NEW by \in {"crash", "exit"}, Forgets(by) PROVE KeysNotAhead'
  BY <1>4, <1>10 DEF Forgets, Over
<1> QED BY <1>1, <1>7, <1>8, <1>9, <1>10 DEF Effect

\* A step puts the batch of the upload under its key, or leaves the bucket alone;
\* what is counted or lost stays so.
LEMMA NextBucket ==
  ASSUME BucketInv, [Next]_vars
  PROVE  /\ (InFlight /\ Put(key)) \/ UNCHANGED objects
         /\ flushed \cup dropped \cup Lost \subseteq (flushed \cup dropped \cup Lost)'
         /\ doubtful \subseteq doubtful'
<1>1. Effect /\ TypeOK
  BY NextEffect DEF BucketInv, PlaceInv, TypeInv
<1>2. lost["crash"] \subseteq lost'["crash"] /\ lost["exit"] \subseteq lost'["exit"]
  <2>1. ASSUME NEW by \in {"crash", "exit"}, Forgets(by)
        PROVE  lost["crash"] \subseteq lost'["crash"] /\ lost["exit"] \subseteq lost'["exit"]
    BY <1>1, <2>1 DEF Forgets, TypeOK
  <2>2. CASE UNCHANGED lost
    BY <2>2
  <2> QED BY <1>1, <2>1, <2>2 DEF Effect, Quiet, Begins, Accepts, Refuses, Stores, Flushes,
             Drops, Settles, counters
<1>3. flushed \subseteq flushed' /\ dropped \subseteq dropped' /\ doubtful \subseteq doubtful'
  BY <1>1 DEF Effect, Quiet, Begins, Accepts, Refuses, Stores, StoresBatch, Flushes, Drops,
              Forgets, counters
<1>4. (InFlight /\ Put(key)) \/ UNCHANGED objects
  BY <1>1 DEF Effect, Quiet, Begins, Accepts, Refuses, Stores, StoresBatch, Flushes, Drops,
              Forgets, counters
<1> QED BY <1>2, <1>3, <1>4 DEF Lost

\* Every object stays settled, or the batch of the upload under way.
LEMMA NextObjectsAreBatches ==
  ASSUME BucketInv, [Next]_vars
  PROVE  ObjectsAreBatches'
<1> DEFINE Gone == flushed \cup dropped \cup Lost
<1>1. Effect /\ TypeOK
  BY NextEffect DEF BucketInv, PlaceInv, TypeInv
<1>2. Gone \subseteq Gone' /\ doubtful \subseteq doubtful'
  BY NextBucket
<1>3. \A k \in DOMAIN objects : ~(InFlight /\ k = key) => ToSet(objects[k]) \subseteq Gone
  BY Objects
<1> HIDE DEF Gone
<1>4. ObjectsAreBatches' <=>
        \A k \in DOMAIN objects' :
          IF InFlight' /\ k = key' THEN objects'[k] = batch' /\ ToSet(batch') \subseteq doubtful'
                                  ELSE ToSet(objects'[k]) \subseteq Gone'
  BY DEF ObjectsAreBatches, Gone
<1>5. ASSUME Steady, UNCHANGED objects PROVE ObjectsAreBatches'
  BY <1>2, <1>3, <1>4, <1>5, Objects DEF Steady
<1>6. ASSUME Starts, UNCHANGED objects PROVE ObjectsAreBatches'
  <2>1. \A k \in DOMAIN objects : k # key'
    BY <1>1, <1>6 DEF Starts, BucketInv, KeysNotAhead, TypeOK, Keys
  <2> QED BY <1>2, <1>3, <1>4, <1>6, <2>1 DEF Starts
<1>7. ASSUME Succeeds, UNCHANGED objects PROVE ObjectsAreBatches'
  BY <1>2, <1>3, <1>4, <1>7 DEF Succeeds
<1>8. ASSUME Stores PROVE ObjectsAreBatches'
  <2>1. InFlight /\ InFlight' /\ UNCHANGED <<batch, key>> /\ ToSet(batch) \subseteq doubtful'
    BY <1>8 DEF Stores, StoresBatch, Steady
  <2> QED BY <1>2, <1>3, <1>4, <1>8, <2>1, PutAddsBatch DEF Stores, StoresBatch
<1>9. ASSUME ~InFlight', ToSet(batch) \subseteq Gone' PROVE ObjectsAreBatches'
  <2>1. CASE UNCHANGED objects
    BY <1>2, <1>3, <1>4, <1>9, <2>1, Objects
  <2>2. CASE InFlight /\ Put(key)
    BY <1>2, <1>3, <1>4, <1>9, <2>2, PutAddsBatch
  <2> QED BY <2>1, <2>2, NextBucket
<1>10. ASSUME Flushes \/ Drops PROVE ObjectsAreBatches'
  BY <1>9, <1>10 DEF Flushes, Drops, Settles, Over, Gone
<1>11. ASSUME NEW by \in {"crash", "exit"}, Forgets(by) PROVE ObjectsAreBatches'
  <2>1. ToSet(Held) \subseteq Lost'
    BY <1>1, <1>11 DEF Forgets, Lost, TypeOK
  <2>2. ToSet(batch) \subseteq Gone'
    BY <2>1, HeldFacts DEF BucketInv, Gone
  <2> QED BY <1>9, <1>11, <2>2 DEF Forgets, Over
<1>12. ASSUME Quiet PROVE ObjectsAreBatches'
  BY <1>5, <1>6, <1>7, <1>12 DEF Quiet, counters
<1>13. ASSUME NEW e \in Events, Begins(e) \/ Accepts(e) \/ Refuses(e) PROVE ObjectsAreBatches'
  BY <1>5, <1>13 DEF Begins, Accepts, Refuses, Leaves, counters
<1> QED BY <1>1, <1>8, <1>10, <1>11, <1>12, <1>13 DEF Effect

\* The counters keep telling what is in the bucket.
LEMMA NextCountersTellTheBucket ==
  ASSUME BucketInv, [Next]_vars
  PROVE  CountersTellTheBucket'
<1>1. Effect
  BY NextEffect DEF BucketInv, PlaceInv
<1>2. flushed \subseteq Stored /\ dropped \cap Stored \subseteq doubtful
  BY DEF BucketInv, CountersTellTheBucket
<1>3. ToSet(batch) \cap (flushed \cup dropped \cup Lost) = {}
  BY HeldFacts DEF BucketInv, PlaceInv, EveryEventInOnePlace
<1>4. doubtful \subseteq doubtful'
  BY NextBucket
<1>5. ASSUME UNCHANGED <<objects, flushed, dropped>> PROVE CountersTellTheBucket'
  BY <1>2, <1>4, <1>5 DEF CountersTellTheBucket, Stored
<1>6. ASSUME NEW e \in Events, Refuses(e) PROVE CountersTellTheBucket'
  <2>1. e \notin Stored
    BY <1>6, NewEvent, StoredSeen, HeldFacts DEF BucketInv, Refuses, Leaves
  <2>2. UNCHANGED <<Stored, flushed>> /\ dropped' = dropped \cup {e}
    BY <1>6 DEF Refuses, Stored
  <2> QED BY <1>2, <1>4, <2>1, <2>2 DEF CountersTellTheBucket
<1>7. ASSUME Stores \/ Flushes PROVE CountersTellTheBucket'
  <2>1. Stored' = Stored \cup ToSet(batch)
    BY <1>7, PutAddsBatch DEF Stores, StoresBatch, Flushes
  <2>2. flushed' \subseteq flushed \cup ToSet(batch) /\ UNCHANGED dropped
    BY <1>7 DEF Stores, Flushes
  <2> QED BY <1>2, <1>3, <1>4, <2>1, <2>2 DEF CountersTellTheBucket
<1>8. ASSUME Drops PROVE CountersTellTheBucket'
  <2>1. dropped' = dropped \cup ToSet(batch) /\ UNCHANGED flushed
    BY <1>8 DEF Drops
  <2>2. CASE StoresBatch
    <3>1. Stored' = Stored \cup ToSet(batch) /\ ToSet(batch) \subseteq doubtful'
      BY <2>2, PutAddsBatch DEF StoresBatch
    <3> QED BY <1>2, <1>3, <1>4, <2>1, <3>1 DEF CountersTellTheBucket
  <2>3. CASE UNCHANGED <<objects, doubtful>>
    <3>1. UNCHANGED Stored
      BY <2>3 DEF Stored
    <3> QED BY <1>2, <1>4, <2>1, <3>1, StoredSeen DEF CountersTellTheBucket
  <2> QED BY <1>8, <2>2, <2>3 DEF Drops
<1>9. ASSUME Quiet PROVE CountersTellTheBucket'
  BY <1>5, <1>9 DEF Quiet, counters
<1>10. ASSUME NEW e \in Events, Begins(e) \/ Accepts(e) PROVE CountersTellTheBucket'
  BY <1>5, <1>10 DEF Begins, Accepts, counters
<1>11. ASSUME NEW by \in {"crash", "exit"}, Forgets(by) PROVE CountersTellTheBucket'
  BY <1>5, <1>11 DEF Forgets
<1> QED BY <1>1, <1>6, <1>7, <1>8, <1>9, <1>10, <1>11 DEF Effect

\* Every step keeps the bucket and the counters in agreement.
LEMMA NextBucketInv ==
  ASSUME SuccessorsComeLater, BucketInv, [Next]_vars
  PROVE  BucketInv'
<1>1. PlaceInv'
  BY NextPlaceInv DEF BucketInv
<1>2. StoredAtMostOnce'
  <2>1. CASE UNCHANGED objects
    BY <2>1 DEF BucketInv, StoredAtMostOnce
  <2> QED BY <2>1, PutKeepsOneCopy, NextBucket
<1>3. CountersTellTheBucket' /\ KeysNotAhead' /\ ObjectsAreBatches'
  BY NextCountersTellTheBucket, NextKeysNotAhead, NextObjectsAreBatches
<1> QED BY <1>1, <1>2, <1>3 DEF BucketInv

\* The first process finds an empty bucket.
LEMMA InitBucketInv ==
  ASSUME Init
  PROVE  BucketInv
<1>1. DOMAIN objects = {}
  BY DEF Init
<1>2. StoredAtMostOnce /\ KeysNotAhead /\ ObjectsAreBatches
  BY <1>1 DEF StoredAtMostOnce, KeysNotAhead, ObjectsAreBatches
<1>3. CountersTellTheBucket
  BY <1>1 DEF Init, CountersTellTheBucket, Stored
<1> QED BY <1>2, <1>3, InitPlaceInv DEF BucketInv

\* Invariance of BucketInv, whatever answers are lost and whoever restarts.
LEMMA BucketInvariant == SuccessorsComeLater => (Spec => []BucketInv)
<1> SUFFICES ASSUME SuccessorsComeLater PROVE Spec => []BucketInv
  OBVIOUS
<1>1. Init => BucketInv
  BY InitBucketInv
<1>2. BucketInv /\ [Next]_vars => BucketInv'
  BY NextBucketInv
<1> QED BY <1>1, <1>2, PTL DEF Spec

\* No event is in two objects or twice in one: a retry overwrites the object of
\* the attempt before it, and nothing else does.
THEOREM StoredOnce == SuccessorsComeLater => (Spec => []StoredAtMostOnce)
<1> SUFFICES ASSUME SuccessorsComeLater PROVE Spec => []StoredAtMostOnce
  OBVIOUS
<1>1. BucketInv => StoredAtMostOnce
  BY DEF BucketInv
<1> QED BY <1>1, BucketInvariant, PTL

\* What is counted as flushed is in the bucket; what is counted as dropped is not,
\* but for uploads whose answers were lost.
THEOREM CountersAreTrue == SuccessorsComeLater => (Spec => []SinkInv)
<1> SUFFICES ASSUME SuccessorsComeLater PROVE Spec => []SinkInv
  OBVIOUS
<1>1. BucketInv => SinkInv
  BY DEF BucketInv, PlaceInv, TypeInv, SinkInv
<1> QED BY <1>1, BucketInvariant, PTL

-----------------------------------------------------------------------------
(* Refinement: the sink implements the ledger.                             *)

\* What is oldest is the batch.
LEMMA OldestIsBatch ==
  ASSUME PlaceInv, batch # <<>>
  PROVE  /\ Len(batch) \in 1 .. Len(Held)
         /\ Ledger!Oldest(Len(batch)) = ToSet(batch)
         /\ SubSeq(Held, Len(batch) + 1, Len(Held)) = queue
<1>1. batch \in Seq(Events) /\ queue \in Seq(Events) /\ Held = batch \o queue
  BY DEF PlaceInv, TypeInv, TypeOK, Held
<1>2. Len(Held) = Len(batch) + Len(queue) /\ Len(batch) \in Nat \ {0} /\ Len(queue) \in Nat
  BY <1>1
<1>3. \A i \in 1 .. Len(batch) : Held[i] = batch[i]
  BY <1>1
<1>4. Ledger!Oldest(Len(batch)) = ToSet(batch)
  <2>1. DOMAIN batch = 1 .. Len(batch)
    BY <1>1
  <2> QED BY <1>3, <2>1 DEF Ledger!Oldest, ToSet
<1>5. SubSeq(Held, Len(batch) + 1, Len(Held)) = queue
  <2> DEFINE rest == SubSeq(Held, Len(batch) + 1, Len(Held))
  <2>1. rest \in Seq(Events) /\ Len(rest) = Len(queue)
    BY <1>1, <1>2
  <2>2. ASSUME NEW i \in 1 .. Len(queue) PROVE rest[i] = queue[i]
    <3>1. rest[i] = Held[Len(batch) + i]
      BY <1>1, <1>2
    <3>2. (batch \o queue)[Len(batch) + i] = queue[i]
      <4>1. Len(batch) + i \in 1 .. Len(batch) + Len(queue) /\ Len(batch) + i > Len(batch)
        BY <1>2
      <4>2. (Len(batch) + i) - Len(batch) = i
        BY <1>2
      <4> QED BY <1>1, <1>2, <4>1, <4>2
    <3> QED BY <1>1, <3>1, <3>2
  <2> HIDE DEF rest
  <2>3. rest \in [1 .. Len(queue) -> Events] /\ queue \in [1 .. Len(queue) -> Events]
    BY <1>1, <2>1
  <2>4. rest = queue
    BY <2>2, <2>3
  <2> QED BY <2>4 DEF rest
<1> QED BY <1>2, <1>4, <1>5

\* An event that leaves its handler has not been seen by the ledger.
LEMMA NotSeen ==
  ASSUME PlaceInv, NEW e \in Events, handlers[e] # "published"
  PROVE  e \notin Ledger!Seen
BY NewEvent DEF Ledger!Seen, Ledger!ToSet, ToSet

\* Every step of the sink is a step of the ledger or leaves it unchanged: an
\* accepted publish appends, a refused one drops, a PUT whose answer is lost stores
\* the oldest events, the end of an upload settles them, the end of a process
\* forgets the rest, and all else is bookkeeping.
LEMMA StepSimulation ==
  ASSUME BucketInv, [Next]_vars
  PROVE  [Ledger!Next]_(Ledger!ledger)
<1>1. Effect /\ TypeOK /\ PlaceInv
  BY NextEffect DEF BucketInv, PlaceInv, TypeInv
<1>2. ASSUME UNCHANGED <<Held, objects, flushed, dropped, lost>> PROVE UNCHANGED Ledger!ledger
  BY <1>2 DEF Ledger!ledger, Stored, Lost
<1>3. ASSUME Quiet PROVE UNCHANGED Ledger!ledger
  BY <1>2, <1>3 DEF Quiet, counters
<1>4. ASSUME NEW e \in Events, Begins(e) PROVE UNCHANGED Ledger!ledger
  BY <1>2, <1>4 DEF Begins, counters
<1>5. ASSUME NEW e \in Events, Accepts(e) PROVE Ledger!Accept(e)
  BY <1>1, <1>5, NotSeen DEF Accepts, Leaves, counters, Ledger!Accept, Stored, Lost
<1>6. ASSUME NEW e \in Events, Refuses(e) PROVE Ledger!Refuse(e)
  BY <1>1, <1>6, NotSeen DEF Refuses, Leaves, Ledger!Refuse, Stored, Lost
<1>7. ASSUME Stores PROVE \E n \in 1 .. Len(Held) : Ledger!Store(n)
  <2>1. batch # <<>> /\ Stored' = Stored \cup ToSet(batch)
    BY <1>1, <1>7, PutAddsBatch DEF Stores, StoresBatch, PlaceInv, TypeInv, UploadUnderWay
  <2>2. Ledger!Store(Len(batch))
    BY <1>1, <1>7, <2>1, OldestIsBatch DEF Stores, Ledger!Store, Lost
  <2> QED BY <1>1, <2>1, <2>2, OldestIsBatch
<1>8. ASSUME Flushes PROVE \E n \in 1 .. Len(Held) : Ledger!Flush(n)
  <2>1. batch # <<>> /\ Held' = queue /\ Stored' = Stored \cup ToSet(batch)
    BY <1>8, PutAddsBatch DEF Flushes, Settles
  <2>2. Ledger!Flush(Len(batch))
    BY <1>1, <1>8, <2>1, OldestIsBatch DEF Flushes, Settles, Ledger!Flush, Ledger!Rest, Lost
  <2> QED BY <1>1, <2>1, <2>2, OldestIsBatch
<1>9. ASSUME Drops PROVE \E n \in 1 .. Len(Held) : Ledger!GiveUp(n)
  <2>1. batch # <<>> /\ Held' = queue /\ dropped' = dropped \cup ToSet(batch)
        /\ UNCHANGED <<flushed, Lost>>
    BY <1>9 DEF Drops, Settles, Lost
  <2>2. Stored' \in {Stored, Stored \cup ToSet(batch)}
    <3>1. CASE StoresBatch
      BY <3>1, PutAddsBatch DEF StoresBatch
    <3>2. CASE UNCHANGED objects
      BY <3>2 DEF Stored
    <3> QED BY <1>9, <3>1, <3>2 DEF Drops
  <2>3. Ledger!GiveUp(Len(batch))
    BY <1>1, <2>1, <2>2, OldestIsBatch DEF Ledger!GiveUp, Ledger!Rest
  <2> QED BY <1>1, <2>1, <2>3, OldestIsBatch
<1>10. ASSUME NEW by \in {"crash", "exit"}, Forgets(by) PROVE Ledger!Forget
  <2>1. Lost' = Lost \cup ToSet(Held)
    BY <1>1, <1>10 DEF Forgets, Lost, TypeOK
  <2> QED BY <1>10, <2>1 DEF Forgets, Ledger!Forget, Ledger!ToSet, ToSet, Stored
<1> QED
  BY <1>1, <1>3, <1>4, <1>5, <1>6, <1>7, <1>8, <1>9, <1>10 DEF Effect, Ledger!Next

\* Batching, retries under one key, the timer, the drain and restarts are invisible
\* to whoever looks at the ledger: the sink implements it.
THEOREM Refinement == SuccessorsComeLater => (Spec => LedgerSpec)
<1> SUFFICES ASSUME SuccessorsComeLater PROVE Spec => LedgerSpec
  OBVIOUS
<1>1. Init => Ledger!Init
  BY DEF Init, Ledger!Init, Held, Stored, Lost
<1>2. BucketInv /\ [Next]_vars => [Ledger!Next]_(Ledger!ledger)
  BY StepSimulation
<1> QED BY <1>1, <1>2, BucketInvariant, PTL DEF Spec, LedgerSpec, Ledger!Spec

=============================================================================
