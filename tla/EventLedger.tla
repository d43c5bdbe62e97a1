----------------------------- MODULE EventLedger -----------------------------
(***************************************************************************)
(* What a decision sink promises of the events published to it, whatever   *)
(* batching, retries, timers and restarts it uses.  Accepted events wait   *)
(* in order; the oldest ones are stored and settled together; settling     *)
(* counts each of them as flushed, which only stored events can be, or as  *)
(* dropped.  What the process held when it died is forgotten.              *)
(***************************************************************************)
EXTENDS Integers, Sequences, SequencesExt

CONSTANT Events

VARIABLES
  held,     \* accepted and not settled, oldest first
  stored,   \* events in the bucket
  flushed,  \* events counted as flushed
  dropped,  \* events counted as dropped
  lost      \* events forgotten by a process that died
ledger == <<held, stored, flushed, dropped, lost>>

Init == /\ held = <<>>
        /\ stored = {} /\ flushed = {} /\ dropped = {} /\ lost = {}

Seen == ToSet(held) \cup flushed \cup dropped \cup lost

Accept(e) == /\ e \notin Seen
             /\ held' = Append(held, e)
             /\ UNCHANGED <<stored, flushed, dropped, lost>>

Refuse(e) == /\ e \notin Seen
             /\ dropped' = dropped \cup {e}
             /\ UNCHANGED <<held, stored, flushed, lost>>

Oldest(n) == {held[i] : i \in 1 .. n}

Store(n) == /\ stored' = stored \cup Oldest(n)
            /\ UNCHANGED <<held, flushed, dropped, lost>>

Rest(n) == held' = SubSeq(held, n + 1, Len(held))

Flush(n) == /\ Rest(n)
            /\ stored' = stored \cup Oldest(n)
            /\ flushed' = flushed \cup Oldest(n)
            /\ UNCHANGED <<dropped, lost>>

\* An upload whose answers are lost may have stored what is given up here.
GiveUp(n) == /\ Rest(n)
             /\ stored' \in {stored, stored \cup Oldest(n)}
             /\ dropped' = dropped \cup Oldest(n)
             /\ UNCHANGED <<flushed, lost>>

Forget == /\ held' = <<>>
          /\ lost' = lost \cup ToSet(held)
          /\ UNCHANGED <<stored, flushed, dropped>>

Next == \/ \E e \in Events : Accept(e) \/ Refuse(e)
        \/ \E n \in 1 .. Len(held) : Store(n) \/ Flush(n) \/ GiveUp(n)
        \/ Forget

Spec == Init /\ [][Next]_ledger

=============================================================================
