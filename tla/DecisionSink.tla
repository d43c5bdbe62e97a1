----------------------------- MODULE DecisionSink -----------------------------
(***************************************************************************)
(* The s3sink in the process that runs it: handlers publish events into a  *)
(* bounded channel, one goroutine gathers them into batches and uploads    *)
(* each batch with retries, SIGTERM cancels the context that the goroutine *)
(* and the HTTP server share, and the process exits, or crashes, and       *)
(* starts again with the bucket as the only thing kept.                    *)
(*                                                                         *)
(* An event is its decision_id.  flushed and dropped hold the events the   *)
(* counters counted; lost, those in memory when a process ended; doubtful is        *)
(* history: the events of a PUT that was stored and reported as failed.    *)
(***************************************************************************)
EXTENDS Integers, Sequences, FiniteSets, SequencesExt

CONSTANTS
  Events,
  Poisoned,       \* events json cannot encode (a factor that is NaN or Inf)
  Size,           \* estimateSize of each event
  QueueSize,      \* capacity of the channel
  BatchSize,      \* bytes that trigger an upload
  LostResponses,  \* a PUT may store the object and still fail
  MinDowntime,    \* whole seconds between a process and its successor
  MaxRestarts     \* bound on the successors

ASSUME SinkAssumption ==
  /\ Poisoned \subseteq Events
  /\ Size \in [Events -> Nat \ {0}]
  /\ QueueSize \in Nat \ {0} /\ BatchSize \in Nat \ {0}
  /\ LostResponses \in BOOLEAN
  /\ MinDowntime \in Nat /\ MaxRestarts \in Nat

VARIABLES
  handlers,   \* the /decide call that makes each event
  queue,      \* the channel
  batch, bytes,
  pc,         \* where the goroutine is
  attempt, key, seq,
  timer,      \* "armed", "fired" (a tick in its channel) or "stopped"
  fresh,      \* the upload runs under the shutdown context
  expired,    \* that context has timed out
  cancelled,  \* the process's context has been cancelled
  process, second, restarts,
  objects, flushed, dropped, lost, doubtful

loop     == <<pc, attempt, key, seq, timer, fresh, expired>>
host     == <<cancelled, process, second, restarts>>
counters == <<objects, flushed, dropped, lost, doubtful>>
vars     == <<handlers, queue, batch, bytes, loop, host, counters>>

-----------------------------------------------------------------------------
MaxAttempts == 3

Up == process # "exited"
UploadCtxDone == IF fresh THEN expired ELSE cancelled
Held == batch \o queue

Init ==
  /\ handlers = [e \in Events |-> "none"]
  /\ queue = <<>> /\ batch = <<>> /\ bytes = 0
  /\ pc = "select" /\ attempt = 0 /\ seq = 0 /\ key = [second |-> 0, seq |-> 0]
  /\ timer = "armed" /\ fresh = FALSE /\ expired = FALSE
  /\ cancelled = FALSE /\ process = "serving" /\ second = 0 /\ restarts = 0
  /\ objects = [k \in {} |-> <<>>]
  /\ flushed = {} /\ dropped = {} /\ doubtful = {}
  /\ lost = [by \in {"crash", "exit"} |-> {}]

-----------------------------------------------------------------------------
(* Handlers.  The access-log middleware publishes when a decision is made. *)

Handle(e) ==
  /\ process = "serving" /\ handlers[e] = "none"
  /\ handlers' = [handlers EXCEPT ![e] = "handling"]
  /\ UNCHANGED <<queue, batch, bytes, loop, host, counters>>

\* A full channel takes the default branch: the event is counted and gone.
Publish_Evicts(e) ==  \* faulty: the oldest event makes room, uncounted
  /\ Up /\ handlers[e] = "handling"
  /\ handlers' = [handlers EXCEPT ![e] = "published"]
  /\ queue' = Append(IF Len(queue) < QueueSize THEN queue ELSE Tail(queue), e)
  /\ UNCHANGED <<batch, bytes, loop, host, counters>>

Publish(e) ==
  /\ Up /\ handlers[e] = "handling"
  /\ handlers' = [handlers EXCEPT ![e] = "published"]
  /\ \/ /\ Len(queue) < QueueSize
        /\ queue' = Append(queue, e)
        /\ UNCHANGED dropped
     \/ /\ Len(queue) >= QueueSize
        /\ dropped' = dropped \cup {e}
        /\ UNCHANGED queue
  /\ UNCHANGED <<batch, bytes, loop, host, objects, flushed, lost, doubtful>>

-----------------------------------------------------------------------------
(* The goroutine's select.                                                 *)

Gather_Prepends ==  \* faulty: the newest event goes first
  /\ queue # <<>>
  /\ queue' = Tail(queue)
  /\ batch' = <<Head(queue)>> \o batch
  /\ bytes' = bytes + Size[Head(queue)]

Gather ==
  /\ queue # <<>>
  /\ queue' = Tail(queue)
  /\ batch' = Append(batch, Head(queue))
  /\ bytes' = bytes + Size[Head(queue)]

TakeDone ==
  /\ Up /\ pc = "select" /\ cancelled
  /\ pc' = "drain"
  /\ UNCHANGED <<handlers, queue, batch, bytes, attempt, key, seq, timer, fresh, expired,
                 host, counters>>

TakeEvent ==
  /\ Up /\ pc = "select"
  /\ Gather
  /\ pc' = IF bytes' >= BatchSize THEN "flush" ELSE "select"
  /\ UNCHANGED <<handlers, attempt, key, seq, timer, fresh, expired, host, counters>>

TakeTick ==
  /\ Up /\ pc = "select" /\ timer = "fired"
  /\ pc' = "flush"
  /\ timer' = "stopped"
  /\ UNCHANGED <<handlers, queue, batch, bytes, attempt, key, seq, fresh, expired,
                 host, counters>>

\* Shutdown: what is in the channel, then one upload under a fresh context.
Drain ==
  /\ Up /\ pc = "drain"
  /\ Gather
  /\ UNCHANGED <<handlers, loop, host, counters>>

Drained ==
  /\ Up /\ pc = "drain" /\ queue = <<>>
  /\ pc' = "flush"
  /\ fresh' = TRUE
  /\ UNCHANGED <<handlers, queue, batch, bytes, attempt, key, seq, timer, expired,
                 host, counters>>

-----------------------------------------------------------------------------
(* flush and upload.                                                       *)

Resume_NoReset ==  \* faulty: a timer that has fired is not reset
  /\ pc' = IF fresh THEN "done" ELSE "select"
  /\ UNCHANGED timer

\* flush returns: to the select with the timer reset, or out of run.
Resume ==
  /\ pc' = IF fresh THEN "done" ELSE "select"
  /\ timer' = IF fresh THEN timer ELSE "armed"

Settled ==
  /\ Resume
  /\ batch' = <<>> /\ bytes' = 0
  /\ UNCHANGED <<handlers, queue, attempt, key, seq, fresh, expired, host>>

DropBatch ==
  /\ Settled
  /\ dropped' = dropped \cup ToSet(batch)

FlushNothing ==
  /\ Up /\ pc = "flush" /\ batch = <<>>
  /\ Resume
  /\ UNCHANGED <<handlers, queue, batch, bytes, attempt, key, seq, fresh, expired,
                 host, counters>>

\* One event that does not encode takes the batch with it.
SerializeFails ==
  /\ Up /\ pc = "flush" /\ ToSet(batch) \cap Poisoned # {}
  /\ DropBatch
  /\ UNCHANGED <<objects, flushed, lost, doubtful>>

StartUpload ==
  /\ Up /\ pc = "flush" /\ batch # <<>> /\ ToSet(batch) \cap Poisoned = {}
  /\ pc' = "put" /\ attempt' = 1
  /\ seq' = seq + 1
  /\ key' = [second |-> second, seq |-> seq + 1]
  /\ UNCHANGED <<handlers, queue, batch, bytes, timer, fresh, expired, host, counters>>

Put(k) == objects' = [o \in DOMAIN objects \cup {k} |-> IF o = k THEN batch ELSE objects[o]]

PutOK ==
  /\ Up /\ pc = "put" /\ ~UploadCtxDone
  /\ Put(key)
  /\ Settled
  /\ flushed' = flushed \cup ToSet(batch)
  /\ UNCHANGED <<dropped, lost, doubtful>>

\* The attempt fails: the object was stored and the answer lost, or it was
\* not stored.
FailedPut ==
  /\ Up /\ pc = "put"
  /\ \/ /\ LostResponses /\ ~UploadCtxDone
        /\ Put(key)
        /\ doubtful' = doubtful \cup ToSet(batch)
     \/ UNCHANGED <<objects, doubtful>>

PutRetries ==
  /\ FailedPut /\ attempt < MaxAttempts
  /\ pc' = "backoff"
  /\ UNCHANGED <<handlers, queue, batch, bytes, attempt, key, seq, timer, fresh, expired,
                 host, flushed, dropped, lost>>

PutExhausted_Flushed ==  \* faulty: counted as flushed after the last attempt
  /\ FailedPut /\ attempt = MaxAttempts
  /\ Settled
  /\ flushed' = flushed \cup ToSet(batch)
  /\ UNCHANGED <<dropped, lost>>

PutExhausted ==
  /\ FailedPut /\ attempt = MaxAttempts
  /\ DropBatch
  /\ UNCHANGED <<flushed, lost>>

Wake_NewKey ==  \* faulty: each attempt makes its own key
  /\ Up /\ pc = "backoff"
  /\ pc' = "put" /\ attempt' = attempt + 1
  /\ seq' = seq + 1 /\ key' = [second |-> second, seq |-> seq + 1]
  /\ UNCHANGED <<handlers, queue, batch, bytes, timer, fresh, expired, host, counters>>

Wake ==
  /\ Up /\ pc = "backoff"
  /\ pc' = "put" /\ attempt' = attempt + 1
  /\ UNCHANGED <<handlers, queue, batch, bytes, key, seq, timer, fresh, expired,
                 host, counters>>

GiveUp ==
  /\ Up /\ pc = "backoff" /\ UploadCtxDone
  /\ DropBatch
  /\ UNCHANGED <<objects, flushed, lost, doubtful>>

-----------------------------------------------------------------------------
(* Clocks, signals and the process.                                        *)

TimerFires ==
  /\ Up /\ timer = "armed"
  /\ timer' = "fired"
  /\ UNCHANGED <<handlers, queue, batch, bytes, pc, attempt, key, seq, fresh, expired,
                 host, counters>>

Expire ==
  /\ Up /\ fresh /\ pc \in {"put", "backoff"} /\ ~expired
  /\ expired' = TRUE
  /\ UNCHANGED <<handlers, queue, batch, bytes, pc, attempt, key, seq, timer, fresh,
                 host, counters>>

Sigterm ==
  /\ Up /\ ~cancelled
  /\ cancelled' = TRUE
  /\ UNCHANGED <<handlers, queue, batch, bytes, loop, process, second, restarts, counters>>

\* srv.Shutdown closes the listener,
Shutdown ==
  /\ process = "serving" /\ cancelled
  /\ process' = "stopping"
  /\ UNCHANGED <<handlers, queue, batch, bytes, loop, cancelled, second, restarts, counters>>

\* A process that ends takes the channel, the batch and the handlers with it.
End(by) ==
  /\ process' = "exited"
  /\ lost' = [lost EXCEPT ![by] = @ \cup ToSet(Held)]
  /\ handlers' = [e \in Events |-> IF handlers[e] = "handling" THEN "died" ELSE handlers[e]]
  /\ queue' = <<>> /\ batch' = <<>> /\ bytes' = 0
  /\ UNCHANGED <<loop, cancelled, second, restarts, objects, flushed, dropped, doubtful>>

\* and run returns once the handlers are idle, or after five seconds; nothing
\* waits for the goroutine.
Exit == process = "stopping" /\ End("exit")

Crash == Up /\ End("crash")

\* A successor has a counter of its own and finds the bucket as it is.
Restart ==
  /\ ~Up /\ restarts < MaxRestarts
  /\ restarts' = restarts + 1
  /\ process' = "serving" /\ cancelled' = FALSE
  /\ second' = second + MinDowntime
  /\ pc' = "select" /\ attempt' = 0 /\ seq' = 0 /\ timer' = "armed"
  /\ fresh' = FALSE /\ expired' = FALSE
  /\ UNCHANGED <<handlers, queue, batch, bytes, key, counters>>

Uploading == FlushNothing \/ SerializeFails \/ StartUpload \/ PutOK \/ PutRetries
               \/ PutExhausted \/ Wake \/ GiveUp

Next ==
  \/ \E e \in Events : Handle(e) \/ Publish(e)
  \/ TakeDone \/ TakeEvent \/ TakeTick \/ Drain \/ Drained \/ Uploading
  \/ TimerFires \/ Expire
  \/ Sigterm \/ Shutdown \/ Exit \/ Crash \/ Restart

\* The goroutine and the timer run.  Go's select picks among its ready cases
\* at random, so a case that is ready again and again is taken.  Signals,
\* crashes and restarts need not happen.
Fairness ==
  /\ \A e \in Events : WF_vars(Publish(e))
  /\ SF_vars(TakeDone) /\ SF_vars(TakeEvent) /\ SF_vars(TakeTick)
  /\ WF_vars(Drain) /\ WF_vars(Drained) /\ WF_vars(Uploading) /\ WF_vars(TimerFires)
  /\ WF_vars(Shutdown) /\ WF_vars(Exit)

Spec == Init /\ [][Next]_vars
FairSpec == Spec /\ Fairness

-----------------------------------------------------------------------------
(* Properties.                                                             *)

Keys == [second: Nat, seq: Nat]
Stored == UNION {ToSet(objects[k]) : k \in DOMAIN objects}
Lost == lost["crash"] \cup lost["exit"]

TypeOK ==
  /\ handlers \in [Events -> {"none", "handling", "published", "died"}]
  /\ queue \in Seq(Events) /\ Len(queue) <= QueueSize
  /\ batch \in Seq(Events) /\ bytes \in Nat
  /\ pc \in {"select", "drain", "flush", "put", "backoff", "done"}
  /\ attempt \in 0 .. MaxAttempts /\ key \in Keys /\ seq \in Nat
  /\ timer \in {"armed", "fired", "stopped"}
  /\ fresh \in BOOLEAN /\ expired \in BOOLEAN /\ cancelled \in BOOLEAN
  /\ process \in {"serving", "stopping", "exited"}
  /\ second \in Nat /\ restarts \in 0 .. MaxRestarts
  /\ DOMAIN objects \subseteq Keys /\ \A k \in DOMAIN objects : objects[k] \in Seq(Events)
  /\ flushed \subseteq Events /\ dropped \subseteq Events /\ doubtful \subseteq Events
  /\ lost \in [{"crash", "exit"} -> SUBSET Events]

\* Every published event is in exactly one place: waiting in the process,
\* counted as flushed, counted as dropped, or gone with a process that ended.
EveryEventInOnePlace ==
  /\ IsInjective(Held)
  /\ ToSet(Held) \cap (flushed \cup dropped \cup Lost) = {}
  /\ flushed \cap (dropped \cup Lost) = {}
  /\ dropped \cap Lost = {}
  /\ \A e \in Events : handlers[e] = "published" <=>
                        e \in ToSet(Held) \cup flushed \cup dropped \cup Lost

\* A retry overwrites the object of the attempt before it: no event is in two
\* objects, or twice in one, whatever answers are lost and whoever restarts.
StoredAtMostOnce ==
  /\ \A k \in DOMAIN objects : IsInjective(objects[k])
  /\ \A k, l \in DOMAIN objects : k # l => ToSet(objects[k]) \cap ToSet(objects[l]) = {}

\* What the counters say of the bucket: an event counted as flushed is in it,
\* also after a successor's uploads, and one counted as dropped is not, unless
\* the answer to a PUT that stored it was lost.
CountersTellTheBucket ==
  /\ flushed \subseteq Stored
  /\ dropped \cap Stored \subseteq doubtful

\* The upload under way, what may be in the bucket under which key, and what
\* an object holds: what the properties above rest on.
InFlight == Up /\ pc \in {"put", "backoff"}

UploadUnderWay ==
  InFlight => /\ batch # <<>>
              /\ attempt \in 1 .. MaxAttempts /\ (pc = "backoff" => attempt < MaxAttempts)
              /\ key = [second |-> second, seq |-> seq]

KeysNotAhead ==
  \A k \in DOMAIN objects : k.second < second \/ (k.second = second /\ k.seq <= seq)

ObjectsAreBatches ==
  \A k \in DOMAIN objects :
    IF InFlight /\ k = key THEN objects[k] = batch /\ ToSet(batch) \subseteq doubtful
                           ELSE ToSet(objects[k]) \subseteq flushed \cup dropped \cup Lost

SinkInv == TypeOK /\ CountersTellTheBucket
             /\ UploadUnderWay /\ KeysNotAhead /\ ObjectsAreBatches

\* A successor's names are new: it starts in a later second than its
\* predecessor did.
SuccessorsComeLater == MinDowntime > 0 \/ MaxRestarts = 0

\* Every event that waits is settled, or the process ends: a batch too small
\* to reach BatchSize is picked up by the timer, which never stops for good.
HeldSettles == \A e \in Events : e \in ToSet(Held) ~> e \notin ToSet(Held)

\* The sink implements the ledger.
Ledger == INSTANCE EventLedger
            WITH held <- Held, stored <- Stored, lost <- Lost
LedgerSpec == Ledger!Spec

-----------------------------------------------------------------------------
(* What the repository says of itself and the code does not keep.          *)

\* s3sink.go:173: the drain and the fresh context are there "so SIGTERM at
\* deploy doesn't strand events".
SigtermStrandsNothing == lost["exit"] = {}

=============================================================================
