------------------------------- MODULE Holder -------------------------------
(***************************************************************************)
(* The holders at the level of their sync.RWMutex.  What is held is wider  *)
(* than a machine word (an interface is two, a slice header three), so a   *)
(* read that overlapped a write could mix two values; the lock is what     *)
(* makes a copy and an assignment single steps for module Serving.         *)
(*                                                                         *)
(* The mutex is Go's: writers queue for it, a writer that has it keeps new *)
(* readers out and waits for those inside, and lets the waiting readers in *)
(* when it unlocks, ahead of the next writer.                              *)
(*                                                                         *)
(* ServingProof extends this module next to Serving: the names that both   *)
(* would have carry a prefix here.                                         *)
(***************************************************************************)
CONSTANTS Readers, Writers, Values, Words

ASSUME WordsAssumption == Words # {}

VARIABLES
  word,     \* the value held, word by word
  rpc,      \* where each reader (Decide, Snapshot, Get) is
  copy,     \* the words it has copied
  wpc,      \* where each writer (Swap, Replace, Load, Clear) is
  next,     \* the value it installs
  written   \* the words it has assigned
readerVars == <<rpc, copy>>
writerVars == <<wpc, next, written>>
holderVars == <<word, readerVars, writerVars>>

Nothing == [k \in {} |-> {}]

HolderInit ==
  /\ \E v \in Values : word = [k \in Words |-> v]
  /\ rpc = [r \in Readers |-> "idle"]
  /\ copy = [r \in Readers |-> Nothing]
  /\ wpc = [w \in Writers |-> "idle"]
  /\ next \in [Writers -> Values]
  /\ written = [w \in Writers |-> {}]

-----------------------------------------------------------------------------
WriterInside == \E w \in Writers : wpc[w] \in {"announced", "writing"}
\* Faulty: the read lock is held until the call returns, as by a defer.
ReaderInside_Deferred == \E r \in Readers : rpc[r] \in {"reading", "running"}
ReaderInside == \E r \in Readers : rpc[r] = "reading"

RLock_NoLock(r) ==  \* faulty: the value is read without the lock
  /\ rpc[r] = "idle"
  /\ rpc' = [rpc EXCEPT ![r] = "reading"]
  /\ UNCHANGED <<word, copy, writerVars>>

RLock(r) ==
  /\ rpc[r] = "idle"
  /\ rpc' = [rpc EXCEPT ![r] = IF WriterInside THEN "waiting" ELSE "reading"]
  /\ UNCHANGED <<word, copy, writerVars>>

CopyWord(r) ==
  /\ rpc[r] = "reading"
  /\ \E k \in Words \ DOMAIN copy[r] :
       copy' = [copy EXCEPT ![r] = [j \in DOMAIN @ \cup {k} |-> IF j = k THEN word[k] ELSE @[j]]]
  /\ UNCHANGED <<word, rpc, writerVars>>

RUnlock(r) ==
  /\ rpc[r] = "reading" /\ DOMAIN copy[r] = Words
  /\ rpc' = [rpc EXCEPT ![r] = "running"]
  /\ UNCHANGED <<word, copy, writerVars>>

\* The engine answers, or the copy is handed to the caller.
Return(r) ==
  /\ rpc[r] = "running"
  /\ rpc' = [rpc EXCEPT ![r] = "idle"]
  /\ copy' = [copy EXCEPT ![r] = Nothing]
  /\ UNCHANGED <<word, writerVars>>

-----------------------------------------------------------------------------
Call(w, v) ==
  /\ wpc[w] = "idle"
  /\ wpc' = [wpc EXCEPT ![w] = "wanting"]
  /\ next' = [next EXCEPT ![w] = v]
  /\ UNCHANGED <<word, readerVars, written>>

Announce(w) ==
  /\ wpc[w] = "wanting" /\ ~WriterInside
  /\ wpc' = [wpc EXCEPT ![w] = "announced"]
  /\ UNCHANGED <<word, readerVars, next, written>>

Lock_Shared(w) ==  \* faulty: the writer takes the read lock
  /\ wpc[w] = "announced"
  /\ wpc' = [wpc EXCEPT ![w] = "writing"]
  /\ UNCHANGED <<word, readerVars, next, written>>

Lock(w) ==
  /\ wpc[w] = "announced" /\ ~ReaderInside
  /\ wpc' = [wpc EXCEPT ![w] = "writing"]
  /\ UNCHANGED <<word, readerVars, next, written>>

AssignWord(w) ==
  /\ wpc[w] = "writing"
  /\ \E k \in Words \ written[w] :
       /\ word' = [word EXCEPT ![k] = next[w]]
       /\ written' = [written EXCEPT ![w] = @ \cup {k}]
  /\ UNCHANGED <<readerVars, wpc, next>>

Unlock_Early(w) ==  \* faulty: the lock is released amid the assignment
  /\ wpc[w] = "writing" /\ written[w] # {}
  /\ wpc' = [wpc EXCEPT ![w] = "idle"]
  /\ written' = [written EXCEPT ![w] = {}]
  /\ rpc' = [r \in Readers |-> IF rpc[r] = "waiting" THEN "reading" ELSE rpc[r]]
  /\ UNCHANGED <<word, copy, next>>

Unlock(w) ==
  /\ wpc[w] = "writing" /\ written[w] = Words
  /\ wpc' = [wpc EXCEPT ![w] = "idle"]
  /\ written' = [written EXCEPT ![w] = {}]
  /\ rpc' = [r \in Readers |-> IF rpc[r] = "waiting" THEN "reading" ELSE rpc[r]]
  /\ UNCHANGED <<word, copy, next>>

-----------------------------------------------------------------------------
Read(r)  == CopyWord(r) \/ RUnlock(r)
Write(w) == Lock(w) \/ AssignWord(w) \/ Unlock(w)

HolderNext ==
  \/ \E r \in Readers : RLock(r) \/ Read(r) \/ Return(r)
  \/ \E w \in Writers : Announce(w) \/ Write(w) \/ \E v \in Values : Call(w, v)

\* Goroutines between lock and unlock keep running, and sync.Mutex starves no
\* writer.  Calls need not come and an engine need not answer.
Fairness == /\ \A r \in Readers : WF_holderVars(Read(r))
            /\ \A w \in Writers : SF_holderVars(Announce(w)) /\ WF_holderVars(Write(w))

HolderSpec == HolderInit /\ [][HolderNext]_holderVars
FairHolderSpec == HolderSpec /\ Fairness

-----------------------------------------------------------------------------
(* Properties.                                                             *)

\* A value copied in part: some of its words.
Partial == UNION {[known -> Values] : known \in SUBSET Words}
Copied(r) == {copy[r][k] : k \in DOMAIN copy[r]}

HolderTypeOK ==
  /\ word \in [Words -> Values]
  /\ rpc \in [Readers -> {"idle", "waiting", "reading", "running"}]
  /\ copy \in [Readers -> Partial]
  /\ wpc \in [Writers -> {"idle", "wanting", "announced", "writing"}]
  /\ next \in [Writers -> Values]
  /\ written \in [Writers -> SUBSET Words]

\* A reader never holds words of two values (an interface whose type is of one
\* decider and whose data is of another).
NoTornCopy == \A r \in Readers : \A u, v \in Copied(r) : u = v

\* The lock makes each read and each write a single instant.
InForce == LET overwriting == {w \in Writers : written[w] # {}}
           IN IF overwriting # {} THEN next[CHOOSE w \in overwriting : TRUE]
                                  ELSE word[CHOOSE k \in Words : TRUE]

Atomic == INSTANCE AtomicHolder
            WITH current   <- InForce,
                 asked     <- {r \in Readers : rpc[r] # "idle"},
                 got       <- [r \in Readers |-> Copied(r)],
                 put       <- [w \in Writers |-> IF wpc[w] = "idle" THEN {} ELSE {next[w]}],
                 installed <- {w \in Writers : written[w] # {}}
AtomicSpec == Atomic!Spec

\* swap.go: "a concurrent Swap never waits for engine work to complete": a
\* writer returns although no engine ever does.
SwapReturns == \A w \in Writers : wpc[w] # "idle" ~> wpc[w] = "idle"

-----------------------------------------------------------------------------
(* The inductive invariant behind NoTornCopy and AtomicSpec.               *)

\* One writer at a time, and no reader beside one that writes.
Exclusion ==
  /\ \A w, x \in Writers : /\ wpc[w] \in {"announced", "writing"}
                          /\ wpc[x] \in {"announced", "writing"}
                          => w = x
  /\ \A w \in Writers : wpc[w] = "writing" => ~ReaderInside

\* Between writes the words agree; during one, those written do.
WholeValue ==
  /\ (\A w \in Writers : written[w] = {}) => \A j, k \in Words : word[j] = word[k]
  /\ \A w \in Writers : /\ written[w] # {} => wpc[w] = "writing"
                       /\ \A k \in written[w] : word[k] = next[w]

\* What a reader inside has copied is what is there.
FaithfulCopy ==
  \A r \in Readers :
    /\ rpc[r] \in {"idle", "waiting"} => DOMAIN copy[r] = {}
    /\ rpc[r] = "reading" => \A k \in DOMAIN copy[r] : copy[r][k] = word[k]
    /\ rpc[r] = "running" => DOMAIN copy[r] = Words

HolderInv == HolderTypeOK /\ Exclusion /\ WholeValue /\ FaithfulCopy /\ NoTornCopy

=============================================================================
