----------------------------- MODULE ShadowProof -----------------------------
(***************************************************************************)
(* Proofs about Shadow, for any calls, admin requests and rules, any       *)
(* sample rate and any configuration of the guardrails.  ShadowInv is the  *)
(* inductive invariant: what each handler and each comparison has copied   *)
(* so far, in terms of the histories of the two holders.                   *)
(***************************************************************************)
EXTENDS Shadow, RuleSetsProof, FiniteSetTheorems, TLAPS

-----------------------------------------------------------------------------
(* Types of the records.                                                   *)

CallPcs == {"idle", "entered", "captured", "decided", "sampled", "replying", "done"}

\* A record stays one when a field of it is given a value of the field's type.
LEMMA CallFields ==
  ASSUME NEW me \in CallRecord
  PROVE  /\ \A v \in CallPcs : [me EXCEPT !.pc = v] \in CallRecord
         /\ \A v \in Nat : [me EXCEPT !.since = v] \in CallRecord
         /\ \A v \in Nat : [me EXCEPT !.champion = v] \in CallRecord
         /\ \A v \in {"none"} \cup DOMAIN StatusOf : [me EXCEPT !.result = v] \in CallRecord
         /\ \A v \in Nat : [me EXCEPT !.got = v] \in CallRecord
         /\ \A v \in CallStatus : [me EXCEPT !.status = v] \in CallRecord
  BY DEF CallRecord, CallPcs

LEMMA EvalFields ==
  ASSUME NEW me \in EvalRecord
  PROVE  /\ \A v \in {"running", "returned", "done"} : [me EXCEPT !.pc = v] \in EvalRecord
         /\ \A v \in BOOLEAN : [me EXCEPT !.late = v] \in EvalRecord
         /\ \A v \in BOOLEAN : [me EXCEPT !.onTime = v] \in EvalRecord
         /\ \A v \in {"none", "error", "deadline", "fired", "no_match"} :
              [me EXCEPT !.result = v] \in EvalRecord
         /\ \A v \in Outcomes : [me EXCEPT !.outcome = v] \in EvalRecord
  BY DEF EvalRecord

\* A step of a handler sets its pc and one more field.
LEMMA CallMoves ==
  ASSUME NEW me \in CallRecord, NEW pc \in CallPcs
  PROVE  /\ [me EXCEPT !.pc = pc] \in CallRecord
         /\ \A v \in Nat : [me EXCEPT !.pc = pc, !.since = v] \in CallRecord
         /\ \A v \in Nat : [me EXCEPT !.pc = pc, !.champion = v] \in CallRecord
         /\ \A v \in DOMAIN StatusOf : [me EXCEPT !.pc = pc, !.result = v] \in CallRecord
         /\ \A v \in Nat : [me EXCEPT !.pc = pc, !.got = v] \in CallRecord
         /\ \A v \in CallStatus : [me EXCEPT !.pc = pc, !.status = v] \in CallRecord
<1> DEFINE me1 == [me EXCEPT !.pc = pc]
<1>1. me1 \in CallRecord
  BY CallFields
<1> HIDE DEF me1
<1>2. ASSUME NEW v \in Nat PROVE [me EXCEPT !.pc = pc, !.since = v] \in CallRecord
  <2>1. [me1 EXCEPT !.since = v] \in CallRecord
    BY <1>1, CallFields
  <2> QED BY <2>1 DEF me1
<1>3. ASSUME NEW v \in Nat PROVE [me EXCEPT !.pc = pc, !.champion = v] \in CallRecord
  <2>1. [me1 EXCEPT !.champion = v] \in CallRecord
    BY <1>1, CallFields
  <2> QED BY <2>1 DEF me1
<1>4. ASSUME NEW v \in DOMAIN StatusOf PROVE [me EXCEPT !.pc = pc, !.result = v] \in CallRecord
  <2>1. v \in {"none"} \cup DOMAIN StatusOf
    OBVIOUS
  <2>2. [me1 EXCEPT !.result = v] \in CallRecord
    BY <1>1, <2>1, CallFields
  <2> QED BY <2>2 DEF me1
<1>5. ASSUME NEW v \in Nat PROVE [me EXCEPT !.pc = pc, !.got = v] \in CallRecord
  <2>1. [me1 EXCEPT !.got = v] \in CallRecord
    BY <1>1, CallFields
  <2> QED BY <2>1 DEF me1
<1>6. ASSUME NEW v \in CallStatus PROVE [me EXCEPT !.pc = pc, !.status = v] \in CallRecord
  <2>1. [me1 EXCEPT !.status = v] \in CallRecord
    BY <1>1, CallFields
  <2> QED BY <2>1 DEF me1
<1>7. [me EXCEPT !.pc = pc] \in CallRecord
  BY <1>1 DEF me1
<1> QED BY <1>2, <1>3, <1>4, <1>5, <1>6, <1>7

LEMMA EvalMoves ==
  ASSUME NEW me \in EvalRecord
  PROVE  /\ [me EXCEPT !.pc = "running"] \in EvalRecord
         /\ [me EXCEPT !.late = TRUE] \in EvalRecord
         /\ \A v \in {"none", "error", "deadline", "fired", "no_match"}, b \in BOOLEAN :
              [me EXCEPT !.pc = "returned", !.result = v, !.onTime = b] \in EvalRecord
         /\ \A v \in Outcomes : [me EXCEPT !.pc = "done", !.outcome = v] \in EvalRecord
<1>1. ASSUME NEW v \in {"none", "error", "deadline", "fired", "no_match"}, NEW b \in BOOLEAN
      PROVE  [me EXCEPT !.pc = "returned", !.result = v, !.onTime = b] \in EvalRecord
  <2> DEFINE me1 == [me EXCEPT !.pc = "returned"]
             me2 == [me1 EXCEPT !.result = v]
  <2>1. me1 \in EvalRecord
    BY EvalFields
  <2> HIDE DEF me1
  <2>2. me2 \in EvalRecord
    BY <2>1, EvalFields
  <2> HIDE DEF me2
  <2>3. [me2 EXCEPT !.onTime = b] \in EvalRecord
    BY <2>2, EvalFields
  <2> QED BY <2>3 DEF me1, me2
<1>2. ASSUME NEW v \in Outcomes
      PROVE  [me EXCEPT !.pc = "done", !.outcome = v] \in EvalRecord
  <2> DEFINE me1 == [me EXCEPT !.pc = "done"]
  <2>1. me1 \in EvalRecord
    BY EvalFields
  <2> HIDE DEF me1
  <2>2. [me1 EXCEPT !.outcome = v] \in EvalRecord
    BY <2>1, EvalFields
  <2> QED BY <2>2 DEF me1
<1> QED BY <1>1, <1>2, EvalFields

-----------------------------------------------------------------------------
(* The steps, by what they change.                                         *)

\* What every step of a handler leaves alone.
LEMMA HandlerFrame ==
  ASSUME NEW c \in Calls, Handler(c)
  PROVE  UNCHANGED <<champions, challengers, loads, pending>>
  BY DEF Handler, Arrive, CaptureChampion, Decides, NoComparison, NotSampled, Sampled, Spawn,
         Reply, Goes

EvalStep(c) == DeadlinePasses(c) \/ ChallengerReturns(c) \/ Judge(c)
LoadStep(l) == RefuseLoad(l) \/ LoadFails(l) \/ LoadSucceeds(l)

LEMMA StepKinds ==
  ASSUME [Next]_vars
  PROVE  \/ \E c \in Calls : Handler(c) \/ EvalStep(c)
         \/ \E l \in Loads : LoadStep(l)
         \/ \E k \in Clears : ClearChallenger(k)
         \/ \E s \in Swaps : SwapChampion(s)
         \/ UNCHANGED vars
  BY DEF Next, EvalStep, LoadStep

\* A handler sets its pc and, in most steps, one more field.
Becomes(c, record) ==
  /\ calls' = [calls EXCEPT ![c] = record]
  /\ UNCHANGED <<champions, challengers, loads, pending>>

LEMMA BecomesSets ==
  ASSUME TypeOK, NEW c \in Calls, NEW record \in CallRecord, Becomes(c, record)
  PROVE  /\ calls' \in [Calls -> CallRecord]
         /\ calls'[c] = record /\ \A d \in Calls : d # c => calls'[d] = calls[d]
  BY DEF TypeOK, Becomes

\* The champion a handler has copied, and the verdict on it.
LEMMA ChampionOK ==
  ASSUME ShadowInv, NEW c \in Calls, calls[c].pc \notin {"idle", "entered"}
  PROVE  /\ calls[c].champion \in 1 .. Len(champions)
         /\ Champion(c) \in Deciders
         /\ champions[calls[c].champion].at \in 1 .. Len(challengers)
<1>1. /\ calls[c].champion \in 1 .. Len(champions) /\ champions \in Seq(ChampionEntry)
      /\ \A i \in DOMAIN champions : champions[i].at \in 1 .. Len(challengers)
  BY DEF ShadowInv, CallStage, TypeOK
<1>2. champions[calls[c].champion] \in ChampionEntry /\ calls[c].champion \in DOMAIN champions
  BY <1>1
<1> QED BY <1>1, <1>2 DEF Champion, ChampionEntry

\* The challenger a handler has copied.
LEMMA ChallengerOK ==
  ASSUME ShadowInv, NEW c \in Calls, calls[c].got # 0
  PROVE  /\ calls[c].got \in 1 .. Len(challengers)
         /\ Challenger(c) \in challengers[calls[c].got] /\ Challenger(c) \in Deciders
         /\ calls[c].pc \in {"sampled", "replying", "done"}
<1>1. /\ calls[c] \in CallRecord /\ calls[c].since \in Nat /\ Len(challengers) \in Nat
      /\ challengers \in Seq(SUBSET Deciders)
  BY DEF ShadowInv, TypeOK, CallRecord
<1>2. /\ calls[c].got \in calls[c].since .. Len(challengers) /\ challengers[calls[c].got] # {}
      /\ calls[c].pc \in {"sampled", "replying", "done"}
  BY <1>1 DEF ShadowInv, CallStage, CallRecord
<1>3. calls[c].got \in 1 .. Len(challengers)
  BY <1>1, <1>2
<1>4. challengers[calls[c].got] \subseteq Deciders
  BY <1>1, <1>3
<1>5. Challenger(c) \in challengers[calls[c].got]
  BY <1>2 DEF Challenger
<1> QED BY <1>2, <1>3, <1>4, <1>5

\* The steps of a handler, field by field.
Arrives(c) ==
  /\ calls[c].pc = "idle" /\ calls'[c].pc = "entered" /\ calls'[c].since = Len(challengers)
  /\ calls'[c].champion = calls[c].champion /\ calls'[c].result = calls[c].result
  /\ calls'[c].got = calls[c].got /\ calls'[c].status = calls[c].status
  /\ UNCHANGED <<evals, counters>>
Captures(c) ==
  /\ calls[c].pc = "entered" /\ calls'[c].pc = "captured"
  /\ calls'[c].champion = Len(champions) /\ calls'[c].since = calls[c].since
  /\ calls'[c].result = calls[c].result
  /\ calls'[c].got = calls[c].got /\ calls'[c].status = calls[c].status
  /\ UNCHANGED <<evals, counters>>
Concludes(c) ==
  /\ calls[c].pc = "captured" /\ calls'[c].pc = "decided"
  /\ calls'[c].result \in {"failed", Verdict(Champion(c), calls[c].req)}
  /\ calls'[c].since = calls[c].since /\ calls'[c].champion = calls[c].champion
  /\ calls'[c].got = calls[c].got /\ calls'[c].status = calls[c].status
  /\ UNCHANGED <<evals, counters>>
Skips(c) ==
  /\ calls[c].pc = "decided" /\ calls'[c].pc = "replying"
  /\ calls'[c].since = calls[c].since /\ calls'[c].champion = calls[c].champion
  /\ calls'[c].result = calls[c].result
  /\ calls'[c].got = calls[c].got /\ calls'[c].status = calls[c].status
  /\ UNCHANGED evals /\ (Count("skipped") \/ UNCHANGED counters)
Samples(c) ==
  /\ calls[c].pc = "decided" /\ calls'[c].pc = "sampled" /\ Comparable(c)
  /\ calls'[c].got = Len(challengers)
  /\ calls'[c].since = calls[c].since /\ calls'[c].champion = calls[c].champion
  /\ calls'[c].result = calls[c].result /\ calls'[c].status = calls[c].status
  /\ UNCHANGED evals /\ Count("sampled")
Spawns(c) ==
  /\ calls[c].pc = "sampled" /\ calls'[c].pc = "replying"
  /\ calls'[c].since = calls[c].since /\ calls'[c].champion = calls[c].champion
  /\ calls'[c].result = calls[c].result
  /\ calls'[c].got = calls[c].got /\ calls'[c].status = calls[c].status
  /\ evals' = [evals EXCEPT ![c].pc = "running"] /\ UNCHANGED counters
Replies(c) ==
  /\ calls[c].pc = "replying" /\ calls'[c].pc = "done"
  /\ calls'[c].status = StatusOf[calls[c].result]
  /\ calls'[c].since = calls[c].since /\ calls'[c].champion = calls[c].champion
  /\ calls'[c].result = calls[c].result /\ calls'[c].got = calls[c].got
  /\ UNCHANGED <<evals, counters>>

\* The status of a result is one a call may have.
LEMMA StatusOfOK ==
  /\ \A result \in DOMAIN StatusOf : StatusOf[result] \in CallStatus
  /\ DOMAIN StatusOf = {"ok", "no_match", "failed"}
  /\ StatusOf["failed"] = 500 /\ StatusOf["ok"] = 200 /\ StatusOf["no_match"] = 404
  BY DEF StatusOf, CallStatus

LEMMA VerdictOK ==
  ASSUME NEW decider, NEW req
  PROVE  /\ Verdict(decider, req) \in DOMAIN StatusOf
         /\ Verdict(decider, req) = "no_match" <=> ~Matched(decider, req)
<1>1. CASE Matched(decider, req)
  BY <1>1 DEF Verdict, StatusOf
<1>2. CASE ~Matched(decider, req)
  BY <1>2 DEF Verdict, StatusOf
<1> QED BY <1>1, <1>2

LEMMA HandlerSets ==
  ASSUME ShadowInv, NEW c \in Calls, Handler(c)
  PROVE  /\ calls' \in [Calls -> CallRecord]
         /\ \A d \in Calls : d # c => calls'[d] = calls[d]
         /\ calls'[c].req = calls[c].req
         /\ \/ Arrives(c) \/ Captures(c) \/ Concludes(c) \/ Skips(c) \/ Samples(c)
            \/ Spawns(c) \/ Replies(c)
<1>0. /\ TypeOK /\ calls[c] \in CallRecord
      /\ Len(challengers) \in Nat /\ Len(champions) \in Nat
  BY DEF ShadowInv, TypeOK
<1>1. CASE Arrive(c)
  <2> DEFINE n == [calls[c] EXCEPT !.pc = "entered", !.since = Len(challengers)]
  <2>1. n \in CallRecord
    BY <1>0, CallMoves DEF CallPcs
  <2>2. Becomes(c, n) /\ calls[c].pc = "idle" /\ UNCHANGED <<evals, counters>>
    BY <1>1 DEF Arrive, Goes, Becomes
  <2>3. /\ n.pc = "entered" /\ n.since = Len(challengers) /\ n.champion = calls[c].champion
        /\ n.result = calls[c].result /\ n.got = calls[c].got /\ n.status = calls[c].status
        /\ n.req = calls[c].req
    BY <1>0 DEF CallRecord
  <2> HIDE DEF n
  <2> QED BY <1>0, <2>1, <2>2, <2>3, BecomesSets DEF Arrives
<1>2. CASE CaptureChampion(c)
  <2> DEFINE n == [calls[c] EXCEPT !.pc = "captured", !.champion = Len(champions)]
  <2>1. n \in CallRecord
    BY <1>0, CallMoves DEF CallPcs
  <2>2. Becomes(c, n) /\ calls[c].pc = "entered" /\ UNCHANGED <<evals, counters>>
    BY <1>2 DEF CaptureChampion, Goes, Becomes
  <2>3. /\ n.pc = "captured" /\ n.champion = Len(champions) /\ n.since = calls[c].since
        /\ n.result = calls[c].result /\ n.got = calls[c].got /\ n.status = calls[c].status
        /\ n.req = calls[c].req
    BY <1>0 DEF CallRecord
  <2> HIDE DEF n
  <2> QED BY <1>0, <2>1, <2>2, <2>3, BecomesSets DEF Captures
<1>3. CASE Decides(c)
  <2>1. PICK result \in {"failed", Verdict(Champion(c), calls[c].req)} :
          Becomes(c, [calls[c] EXCEPT !.pc = "decided", !.result = result])
    BY <1>3 DEF Decides, Goes, Becomes
  <2>2. result \in DOMAIN StatusOf
    BY VerdictOK, StatusOfOK
  <2> DEFINE n == [calls[c] EXCEPT !.pc = "decided", !.result = result]
  <2>3. n \in CallRecord
    BY <1>0, <2>2, CallMoves DEF CallPcs
  <2>4. Becomes(c, n) /\ calls[c].pc = "captured" /\ UNCHANGED <<evals, counters>>
    BY <1>3, <2>1 DEF Decides
  <2>5. /\ n.pc = "decided" /\ n.result = result /\ n.since = calls[c].since
        /\ n.champion = calls[c].champion /\ n.got = calls[c].got
        /\ n.status = calls[c].status /\ n.req = calls[c].req
    BY <1>0 DEF CallRecord
  <2> HIDE DEF n
  <2> QED BY <1>0, <2>1, <2>3, <2>4, <2>5, BecomesSets DEF Concludes
<1>4. CASE NoComparison(c) \/ NotSampled(c) \/ Spawn(c)
  <2> DEFINE n == [calls[c] EXCEPT !.pc = "replying"]
  <2>1. n \in CallRecord
    BY <1>0, CallMoves DEF CallPcs
  <2>2. Becomes(c, n)
    BY <1>4 DEF NoComparison, NotSampled, Spawn, Goes, Becomes
  <2>3. /\ n.pc = "replying" /\ n.since = calls[c].since
        /\ n.champion = calls[c].champion /\ n.got = calls[c].got /\ n.result = calls[c].result
        /\ n.status = calls[c].status /\ n.req = calls[c].req
    BY <1>0 DEF CallRecord
  <2>4. \/ calls[c].pc = "decided" /\ UNCHANGED evals /\ (Count("skipped") \/ UNCHANGED counters)
        \/ /\ calls[c].pc = "sampled"
           /\ evals' = [evals EXCEPT ![c].pc = "running"] /\ UNCHANGED counters
    BY <1>4 DEF NoComparison, NotSampled, Comparable, Spawn
  <2> HIDE DEF n
  <2> QED BY <1>0, <2>1, <2>2, <2>3, <2>4, BecomesSets DEF Skips, Spawns
<1>5. CASE Sampled(c)
  <2> DEFINE n == [calls[c] EXCEPT !.pc = "sampled", !.got = Len(challengers)]
  <2>1. n \in CallRecord
    BY <1>0, CallMoves DEF CallPcs
  <2>2. /\ Becomes(c, n) /\ Comparable(c) /\ calls[c].pc = "decided"
        /\ UNCHANGED evals /\ Count("sampled")
    BY <1>5 DEF Sampled, Comparable, Goes, Becomes
  <2>3. /\ n.pc = "sampled" /\ n.got = Len(challengers) /\ n.since = calls[c].since
        /\ n.champion = calls[c].champion /\ n.result = calls[c].result
        /\ n.status = calls[c].status /\ n.req = calls[c].req
    BY <1>0 DEF CallRecord
  <2> HIDE DEF n
  <2> QED BY <1>0, <2>1, <2>2, <2>3, BecomesSets DEF Samples
<1>6. CASE Reply(c)
  <2>1. calls[c].result \in DOMAIN StatusOf
    <3>1. calls[c].pc = "replying"
      BY <1>6 DEF Reply
    <3>2. calls[c].result \in {"failed", Verdict(Champion(c), calls[c].req)}
      BY <3>1 DEF ShadowInv, CallStage
    <3> QED BY <3>2, VerdictOK, StatusOfOK
  <2> DEFINE n == [calls[c] EXCEPT !.pc = "done", !.status = StatusOf[calls[c].result]]
  <2>2. n \in CallRecord
    <3>1. PICK status \in CallStatus : status = StatusOf[calls[c].result]
      BY <2>1, StatusOfOK
    <3>2. [calls[c] EXCEPT !.pc = "done", !.status = status] \in CallRecord
      BY <1>0, CallMoves DEF CallPcs
    <3> QED BY <3>1, <3>2
  <2>3. Becomes(c, n) /\ calls[c].pc = "replying" /\ UNCHANGED <<evals, counters>>
    BY <1>6 DEF Reply, Goes, Becomes
  <2>4. /\ n.pc = "done" /\ n.status = StatusOf[calls[c].result] /\ n.since = calls[c].since
        /\ n.champion = calls[c].champion /\ n.result = calls[c].result
        /\ n.got = calls[c].got /\ n.req = calls[c].req
    BY <1>0 DEF CallRecord
  <2> HIDE DEF n
  <2> QED BY <1>0, <2>2, <2>3, <2>4, BecomesSets DEF Replies
<1> QED BY <1>1, <1>2, <1>3, <1>4, <1>5, <1>6 DEF Handler

\* The steps of a comparison, field by field.
Lates(c) ==
  /\ evals[c].pc \in {"running", "returned"} /\ evals'[c].pc = evals[c].pc /\ evals'[c].late
  /\ evals'[c].onTime = evals[c].onTime /\ evals'[c].result = evals[c].result
  /\ evals'[c].outcome = evals[c].outcome /\ UNCHANGED counters
Answers(c) ==
  /\ evals[c].pc = "running" /\ evals'[c].pc = "returned" /\ evals'[c].result \in Returns(c)
  /\ evals'[c].late = evals[c].late /\ evals'[c].onTime = ~evals[c].late
  /\ evals'[c].outcome = evals[c].outcome /\ Count("durations")
Judges(c) ==
  /\ evals[c].pc = "returned" /\ evals'[c].pc = "done" /\ evals'[c].outcome = Outcome(c)
  /\ evals'[c].late = evals[c].late /\ evals'[c].onTime = evals[c].onTime
  /\ evals'[c].result = evals[c].result /\ Count(Outcome(c))

\* A comparison ends in one of the series.
LEMMA OutcomeOK ==
  ASSUME NEW c, evals[c].late \in BOOLEAN
  PROVE  /\ Outcome(c) \in Outcomes
         /\ Outcome(c) = "timeout" <=> evals[c].late \/ evals[c].result = "deadline"
<1>1. Compare(c) \in {"champion_only", "challenger_only", "agree", "disagree"}
  BY DEF Compare
<1> HIDE DEF Compare
<1>2. CASE evals[c].late \/ evals[c].result = "deadline"
  BY <1>2 DEF Outcome, Outcomes
<1>3. CASE ~evals[c].late /\ evals[c].result = "error"
  BY <1>3 DEF Outcome, Outcomes
<1>4. CASE ~evals[c].late /\ evals[c].result \notin {"error", "deadline"}
  BY <1>1, <1>4 DEF Outcome, Outcomes
<1> QED BY <1>2, <1>3, <1>4

LEMMA EvalSets ==
  ASSUME ShadowInv, NEW c \in Calls, EvalStep(c)
  PROVE  /\ evals' \in [Calls -> EvalRecord]
         /\ \A d \in Calls : d # c => evals'[d] = evals[d]
         /\ UNCHANGED <<champions, challengers, calls, loads, pending>>
         /\ Lates(c) \/ Answers(c) \/ Judges(c)
<1>0. evals \in [Calls -> EvalRecord] /\ evals[c] \in EvalRecord /\ evals[c].late \in BOOLEAN
  BY DEF ShadowInv, TypeOK, EvalRecord
<1>1. CASE DeadlinePasses(c)
  <2> DEFINE n == [evals[c] EXCEPT !.late = TRUE]
  <2>1. n \in EvalRecord
    BY <1>0, EvalMoves
  <2>2. /\ evals' = [evals EXCEPT ![c] = n] /\ evals[c].pc \in {"running", "returned"}
        /\ UNCHANGED <<champions, challengers, calls, loads, pending, counters>>
    BY <1>1 DEF DeadlinePasses, Evaluation
  <2>3. /\ n.pc = evals[c].pc /\ n.late /\ n.onTime = evals[c].onTime
        /\ n.result = evals[c].result /\ n.outcome = evals[c].outcome
    BY <1>0 DEF EvalRecord
  <2> HIDE DEF n
  <2> QED BY <1>0, <2>1, <2>2, <2>3 DEF Lates
<1>2. CASE ChallengerReturns(c)
  <2>1. PICK result \in Returns(c) :
          Evaluation(c, [evals[c] EXCEPT !.pc = "returned", !.result = result,
                                         !.onTime = ~evals[c].late])
    BY <1>2 DEF ChallengerReturns
  <2>2. result \in {"none", "error", "deadline", "fired", "no_match"} /\ (~evals[c].late) \in BOOLEAN
    BY <1>0 DEF Returns
  <2> DEFINE n == [evals[c] EXCEPT !.pc = "returned", !.result = result, !.onTime = ~evals[c].late]
  <2>3. n \in EvalRecord
    BY <1>0, <2>2, EvalMoves
  <2>4. /\ evals' = [evals EXCEPT ![c] = n] /\ evals[c].pc = "running" /\ Count("durations")
        /\ UNCHANGED <<champions, challengers, calls, loads, pending>>
    BY <1>2, <2>1 DEF ChallengerReturns, Evaluation
  <2>5. /\ n.pc = "returned" /\ n.late = evals[c].late /\ n.onTime = ~evals[c].late
        /\ n.result = result /\ n.outcome = evals[c].outcome
    BY <1>0 DEF EvalRecord
  <2> HIDE DEF n
  <2> QED BY <1>0, <2>3, <2>4, <2>5 DEF Answers
<1>3. CASE Judge(c)
  <2> DEFINE n == [evals[c] EXCEPT !.pc = "done", !.outcome = Outcome(c)]
  <2>1. Outcome(c) \in Outcomes
    BY <1>0, OutcomeOK
  <2>2. n \in EvalRecord
    BY <1>0, <2>1, EvalMoves
  <2>3. /\ evals' = [evals EXCEPT ![c] = n] /\ evals[c].pc = "returned" /\ Count(Outcome(c))
        /\ UNCHANGED <<champions, challengers, calls, loads, pending>>
    BY <1>3 DEF Judge, Evaluation
  <2>4. /\ n.pc = "done" /\ n.late = evals[c].late /\ n.onTime = evals[c].onTime
        /\ n.result = evals[c].result /\ n.outcome = Outcome(c)
    BY <1>0 DEF EvalRecord
  <2> HIDE DEF n
  <2> QED BY <1>0, <2>2, <2>3, <2>4 DEF Judges
<1> QED BY <1>1, <1>2, <1>3 DEF EvalStep

\* A body that loads gives a decider; one of CSV rules is healthy besides.
LEMMA LoaderOfOK ==
  ASSUME TypeOK, NEW l \in Loads, HasRules(l), LoaderOf(loads[l].body).err = "none"
  PROVE  /\ LoaderOf(loads[l].body).decider \in Deciders
         /\ loads[l].body.media = "csv" => IsHealthy(loads[l].body.content.rules)
<1> DEFINE body == loads[l].body
<1>1. body \in LoadBody /\ body.media \in {"csv", "json"}
  BY ShadowAssumption DEF TypeOK, LoadRecord, HasRules
<1>2. Adapter \in Adapters /\ Model \in Models
  BY ShadowAssumption
<1>3. CASE body.media = "csv"
  <2>1. body.content \in Csv
    BY <1>1, <1>3 DEF LoadBody
  <2>2. CsvBody(body.content, Adapter, Model).err = "none"
        /\ LoaderOf(body) = CsvBody(body.content, Adapter, Model)
    BY <1>3 DEF LoaderOf
  <2>3. /\ LoaderOf(body).decider
             = [adapter |-> Adapter, rules |-> body.content.rules, model |-> Model]
        /\ IsHealthy(body.content.rules)
    BY <1>2, <2>1, <2>2, CsvBodyOK
  <2>4. body.content.rules \in Seq(Rule)
    BY <2>1 DEF Csv
  <2> QED BY <1>2, <2>3, <2>4 DEF Deciders
<1>4. CASE body.media = "json"
  <2>1. body.content \in Snapshot
    BY <1>1, <1>4 DEF LoadBody
  <2>2. LoaderOf(body) = JsonBody(body.content)
    BY <1>4 DEF LoaderOf
  <2>3. LoaderOf(body) = LoadIntoIndexedDecider(body.content)
    BY <2>2 DEF JsonBody, Failed
  <2> QED BY <1>4, <2>1, <2>3, SnapshotDeciderType
<1> QED BY <1>1, <1>3, <1>4

LoadStatuses == {0, 200, 400, 413, 415, 500}

\* A load answers its request; only one that is answered 200 installs.
LEMMA LoadSets ==
  ASSUME TypeOK, NEW l \in Loads, LoadStep(l)
  PROVE  /\ UNCHANGED <<champions, calls, evals, pending, counters>>
         /\ loads' \in [Loads -> LoadRecord]
         /\ \A m \in Loads : loads'[m].body = loads[m].body
         /\ \A m \in Loads : m # l => loads'[m].status = loads[m].status
         /\ \/ challengers' = challengers /\ loads'[l].status # 200
            \/ /\ challengers' = Append(challengers, {LoaderOf(loads[l].body).decider})
               /\ LoaderOf(loads[l].body).decider \in Deciders
               /\ loads[l].body.media = "csv" => IsHealthy(loads[l].body.content.rules)
<1>0. loads \in [Loads -> LoadRecord] /\ loads[l] \in LoadRecord
  BY DEF TypeOK
<1>1. ASSUME NEW status \in LoadStatuses, AnswerLoad(l, status)
      PROVE  /\ UNCHANGED <<champions, calls, evals, pending, counters>>
             /\ loads' \in [Loads -> LoadRecord]
             /\ \A m \in Loads : loads'[m].body = loads[m].body
             /\ \A m \in Loads : m # l => loads'[m].status = loads[m].status
             /\ loads'[l].status = status
  <2> DEFINE n == [loads[l] EXCEPT !.status = status]
  <2>1. n \in LoadRecord /\ n.body = loads[l].body /\ n.status = status
    BY <1>0 DEF LoadRecord, LoadStatuses
  <2>2. loads' = [loads EXCEPT ![l] = n]
    BY <1>1 DEF AnswerLoad
  <2>3. UNCHANGED <<champions, calls, evals, pending, counters>>
    BY <1>1 DEF AnswerLoad
  <2> HIDE DEF n
  <2> QED BY <1>0, <2>1, <2>2, <2>3
<1>2. CASE RefuseLoad(l)
  <2>1. LoadStatus[loads[l].body.media] \in LoadStatuses \ {200}
    BY <1>2 DEF RefuseLoad, LoadStatus, LoadStatuses
  <2>2. AnswerLoad(l, LoadStatus[loads[l].body.media]) /\ challengers' = challengers
    BY <1>2 DEF RefuseLoad
  <2> QED BY <1>1, <2>1, <2>2
<1>3. CASE LoadFails(l)
  <2>1. PICK status \in {500, 400} : AnswerLoad(l, status)
    BY <1>3 DEF LoadFails
  <2>2. status \in LoadStatuses /\ status # 200
    BY DEF LoadStatuses
  <2>3. challengers' = challengers
    BY <1>3 DEF LoadFails
  <2> QED BY <1>1, <2>1, <2>2, <2>3
<1>4. CASE LoadSucceeds(l)
  <2>1. /\ HasRules(l) /\ LoaderOf(loads[l].body).err = "none" /\ AnswerLoad(l, 200)
        /\ challengers' = Append(challengers, {LoaderOf(loads[l].body).decider})
    BY <1>4 DEF LoadSucceeds
  <2>2. 200 \in LoadStatuses
    BY DEF LoadStatuses
  <2> QED BY <1>1, <2>1, <2>2, LoaderOfOK
<1> QED BY <1>2, <1>3, <1>4 DEF LoadStep

-----------------------------------------------------------------------------
(* Type correctness, and histories that only grow.                         *)

HistoriesGrow == Prefix(champions, champions') /\ Prefix(challengers, challengers')

\* One more content of the challenger's holder: a decider or none.
LEMMA ChallengersAppend ==
  ASSUME TypeOK, NEW d \in SUBSET Deciders, Cardinality(d) <= 1,
         challengers' = Append(challengers, d)
  PROVE  /\ challengers' \in Seq(SUBSET Deciders) /\ challengers' # <<>>
         /\ \A i \in DOMAIN challengers' : Cardinality(challengers'[i]) <= 1
         /\ Prefix(challengers, challengers')
         /\ Len(challengers') = Len(challengers) + 1
         /\ challengers'[Len(challengers) + 1] = d
<1>1. challengers \in Seq(SUBSET Deciders) /\ \A i \in DOMAIN challengers : Cardinality(challengers[i]) <= 1
  BY DEF TypeOK
<1>2. /\ Append(challengers, d) \in Seq(SUBSET Deciders)
      /\ Len(Append(challengers, d)) = Len(challengers) + 1
      /\ Append(challengers, d)[Len(challengers) + 1] = d
      /\ Prefix(challengers, Append(challengers, d))
  BY <1>1, AppendGrows
<1>3. Len(challengers) \in Nat
  BY <1>1
<1>4. \A i \in DOMAIN challengers' : i \in 1 .. Len(challengers) \/ i = Len(challengers) + 1
  BY <1>2, <1>3
<1>5. \A i \in 1 .. Len(challengers) : challengers'[i] = challengers[i] /\ i \in DOMAIN challengers
  BY <1>1, <1>2 DEF Prefix
<1>6. \A i \in DOMAIN challengers' : Cardinality(challengers'[i]) <= 1
  BY <1>1, <1>2, <1>4, <1>5
<1>7. challengers' # <<>>
  BY <1>2, <1>3
<1> QED BY <1>2, <1>6, <1>7

LEMMA CountOK ==
  ASSUME TypeOK, NEW k \in Counters, Count(k)
  PROVE  /\ counters' \in [Counters -> Nat] /\ counters'[k] = counters[k] + 1
         /\ \A j \in Counters : j # k => counters'[j] = counters[j]
  BY DEF TypeOK, Count

\* Every step keeps every variable in its type, and takes nothing out of the
\* histories of the holders.
LEMMA TypeStep ==
  ASSUME ShadowInv, [Next]_vars
  PROVE  TypeOK' /\ HistoriesGrow
<1>0. /\ TypeOK
      /\ champions \in Seq(ChampionEntry) /\ champions # <<>>
      /\ challengers \in Seq(SUBSET Deciders) /\ challengers # <<>>
      /\ \A i \in DOMAIN challengers : Cardinality(challengers[i]) <= 1
      /\ calls \in [Calls -> CallRecord] /\ evals \in [Calls -> EvalRecord]
      /\ loads \in [Loads -> LoadRecord] /\ pending \subseteq Swaps \cup Clears
      /\ counters \in [Counters -> Nat]
  BY DEF ShadowInv, TypeOK
<1>1. Prefix(champions, champions) /\ Prefix(challengers, challengers)
  BY <1>0, PrefixSelf
<1>2. ASSUME NEW c \in Calls, Handler(c) PROVE TypeOK' /\ HistoriesGrow
  <2>1. UNCHANGED <<champions, challengers, loads, pending>>
    BY <1>2, HandlerFrame
  <2>2. /\ calls' \in [Calls -> CallRecord]
        /\ \/ Arrives(c) \/ Captures(c) \/ Concludes(c) \/ Skips(c) \/ Samples(c)
           \/ Spawns(c) \/ Replies(c)
    BY <1>2, HandlerSets
  <2>3. evals' \in [Calls -> EvalRecord]
    <3>1. CASE UNCHANGED evals
      BY <1>0, <3>1
    <3>2. CASE Spawns(c)
      <4>1. [evals[c] EXCEPT !.pc = "running"] \in EvalRecord
        BY <1>0, EvalMoves
      <4>2. evals' = [evals EXCEPT ![c] = [evals[c] EXCEPT !.pc = "running"]]
        BY <3>2 DEF Spawns
      <4> QED BY <1>0, <4>1, <4>2
    <3> QED BY <2>2, <3>1, <3>2 DEF Arrives, Captures, Concludes, Skips, Samples, Replies
  <2>4. counters' \in [Counters -> Nat]
    <3>1. UNCHANGED counters \/ Count("skipped") \/ Count("sampled")
      BY <2>2 DEF Arrives, Captures, Concludes, Skips, Samples, Spawns, Replies
    <3>2. "skipped" \in Counters /\ "sampled" \in Counters
      BY DEF Counters
    <3> QED BY <1>0, <3>1, <3>2, CountOK
  <2> QED BY <1>0, <1>1, <2>1, <2>2, <2>3, <2>4 DEF TypeOK, HistoriesGrow
<1>3. ASSUME NEW c \in Calls, EvalStep(c) PROVE TypeOK' /\ HistoriesGrow
  <2>1. /\ evals' \in [Calls -> EvalRecord]
        /\ UNCHANGED <<champions, challengers, calls, loads, pending>>
        /\ Lates(c) \/ Answers(c) \/ Judges(c)
    BY <1>3, EvalSets
  <2>2. counters' \in [Counters -> Nat]
    <3>1. UNCHANGED counters \/ Count("durations") \/ Count(Outcome(c))
      BY <2>1 DEF Lates, Answers, Judges
    <3>2. "durations" \in Counters /\ Outcome(c) \in Counters
      <4>1. evals[c].late \in BOOLEAN
        BY <1>0 DEF EvalRecord
      <4> QED BY <4>1, OutcomeOK DEF Counters
    <3> QED BY <1>0, <3>1, <3>2, CountOK
  <2> QED BY <1>0, <1>1, <2>1, <2>2 DEF TypeOK, HistoriesGrow
<1>4. ASSUME NEW l \in Loads, LoadStep(l) PROVE TypeOK' /\ HistoriesGrow
  <2>1. /\ UNCHANGED <<champions, calls, evals, pending, counters>>
        /\ loads' \in [Loads -> LoadRecord]
    BY <1>0, <1>4, LoadSets
  <2>2. CASE challengers' = challengers
    BY <1>0, <1>1, <2>1, <2>2 DEF TypeOK, HistoriesGrow
  <2>3. ASSUME NEW d \in Deciders, challengers' = Append(challengers, {d})
        PROVE  TypeOK' /\ HistoriesGrow
    <3>1. {d} \in SUBSET Deciders /\ Cardinality({d}) <= 1
      BY FS_Singleton
    <3>2. /\ challengers' \in Seq(SUBSET Deciders) /\ challengers' # <<>>
          /\ \A i \in DOMAIN challengers' : Cardinality(challengers'[i]) <= 1
          /\ Prefix(challengers, challengers')
      BY <1>0, <2>3, <3>1, ChallengersAppend
    <3> QED BY <1>0, <1>1, <2>1, <3>2 DEF TypeOK, HistoriesGrow
  <2> QED BY <1>0, <1>4, <2>2, <2>3, LoadSets
<1>5. ASSUME NEW k \in Clears, ClearChallenger(k) PROVE TypeOK' /\ HistoriesGrow
  <2>1. /\ pending' \subseteq Swaps \cup Clears /\ challengers' = Append(challengers, {})
        /\ UNCHANGED <<champions, calls, evals, loads, counters>>
    BY <1>0, <1>5 DEF ClearChallenger
  <2>2. {} \in SUBSET Deciders /\ Cardinality({}) <= 1
    BY FS_EmptySet
  <2>3. /\ challengers' \in Seq(SUBSET Deciders) /\ challengers' # <<>>
        /\ \A i \in DOMAIN challengers' : Cardinality(challengers'[i]) <= 1
        /\ Prefix(challengers, challengers')
    BY <1>0, <2>1, <2>2, ChallengersAppend
  <2> QED BY <1>0, <1>1, <2>1, <2>3 DEF TypeOK, HistoriesGrow
<1>6. ASSUME NEW s \in Swaps, SwapChampion(s) PROVE TypeOK' /\ HistoriesGrow
  <2>1. PICK d \in Champions : champions' = Append(champions, [decider |-> d, at |-> Len(challengers)])
    BY <1>6 DEF SwapChampion
  <2>2. [decider |-> d, at |-> Len(challengers)] \in ChampionEntry
    BY <1>0, ShadowAssumption DEF ChampionEntry
  <2>3. /\ champions' \in Seq(ChampionEntry) /\ champions' # <<>> /\ Prefix(champions, champions')
    <3>1. /\ champions' \in Seq(ChampionEntry) /\ Prefix(champions, champions')
          /\ Len(champions') = Len(champions) + 1 /\ Len(champions) \in Nat
      BY <1>0, <2>1, <2>2, AppendGrows
    <3> QED BY <3>1
  <2>4. /\ pending' \subseteq Swaps \cup Clears
        /\ UNCHANGED <<challengers, calls, evals, loads, counters>>
    BY <1>0, <1>6 DEF SwapChampion
  <2> QED BY <1>0, <1>1, <2>3, <2>4 DEF TypeOK, HistoriesGrow
<1>7. CASE UNCHANGED vars
  BY <1>0, <1>1, <1>7 DEF TypeOK, HistoriesGrow, vars
<1> QED BY <1>2, <1>3, <1>4, <1>5, <1>6, <1>7, StepKinds

-----------------------------------------------------------------------------
(* Each part of the invariant is kept by every step.                       *)

\* While the histories grow, what a call has copied stays in them.
LEMMA EntriesStay ==
  ASSUME TypeOK, TypeOK', HistoriesGrow
  PROVE  /\ Len(champions) \in Nat /\ Len(champions') \in Nat
         /\ Len(champions) >= 1 /\ Len(champions) <= Len(champions')
         /\ \A i \in 1 .. Len(champions) : champions'[i] = champions[i]
         /\ Len(challengers) \in Nat /\ Len(challengers') \in Nat
         /\ Len(challengers) >= 1 /\ Len(challengers) <= Len(challengers')
         /\ \A i \in 1 .. Len(challengers) : challengers'[i] = challengers[i]
         /\ DOMAIN champions = 1 .. Len(champions) /\ DOMAIN champions' = 1 .. Len(champions')
         /\ DOMAIN challengers = 1 .. Len(challengers)
         /\ DOMAIN challengers' = 1 .. Len(challengers')
<1>1. /\ champions \in Seq(ChampionEntry) /\ champions # <<>>
      /\ challengers \in Seq(SUBSET Deciders) /\ challengers # <<>>
      /\ champions' \in Seq(ChampionEntry) /\ challengers' \in Seq(SUBSET Deciders)
  BY DEF TypeOK
<1> QED BY <1>1 DEF HistoriesGrow, Prefix

LEMMA CopiesStay ==
  ASSUME ShadowInv, TypeOK', HistoriesGrow, NEW c \in Calls
  PROVE  /\ calls[c].pc \notin {"idle", "entered"} /\ calls'[c].champion = calls[c].champion
              => /\ Champion(c)' = Champion(c)
                 /\ champions'[calls[c].champion] = champions[calls[c].champion]
         /\ calls[c].got # 0 /\ calls'[c].got = calls[c].got
              => /\ Challenger(c)' = Challenger(c)
                 /\ challengers'[calls[c].got] = challengers[calls[c].got]
<1>0. TypeOK
  BY DEF ShadowInv
<1>1. ASSUME calls[c].pc \notin {"idle", "entered"}, calls'[c].champion = calls[c].champion
      PROVE  /\ Champion(c)' = Champion(c)
             /\ champions'[calls[c].champion] = champions[calls[c].champion]
  BY <1>0, <1>1, ChampionOK, EntriesStay DEF Champion
<1>2. ASSUME calls[c].got # 0, calls'[c].got = calls[c].got
      PROVE  /\ Challenger(c)' = Challenger(c)
             /\ challengers'[calls[c].got] = challengers[calls[c].got]
  <2>1. challengers'[calls[c].got] = challengers[calls[c].got]
    BY <1>0, <1>2, ChallengerOK, EntriesStay
  <2> QED BY <1>2, <2>1 DEF Challenger
<1> QED BY <1>1, <1>2

\* The record of a call changes only by a step of its handler, that of its
\* comparison only by the handler's Spawn or a step of the comparison.
LEMMA StepMoves ==
  ASSUME ShadowInv, [Next]_vars, NEW c \in Calls
  PROVE  \/ calls'[c] = calls[c] /\ evals'[c] = evals[c]
         \/ Handler(c)
         \/ EvalStep(c) /\ calls'[c] = calls[c]
<1>0. TypeOK /\ evals \in [Calls -> EvalRecord]
  BY DEF ShadowInv, TypeOK
<1>1. ASSUME NEW d \in Calls, d # c, Handler(d)
      PROVE  calls'[c] = calls[c] /\ evals'[c] = evals[c]
  <2>1. /\ calls'[c] = calls[c]
        /\ \/ Arrives(d) \/ Captures(d) \/ Concludes(d) \/ Skips(d) \/ Samples(d)
           \/ Spawns(d) \/ Replies(d)
    BY <1>1, HandlerSets
  <2>2. evals' = evals \/ evals' = [evals EXCEPT ![d].pc = "running"]
    BY <2>1 DEF Arrives, Captures, Concludes, Skips, Samples, Spawns, Replies
  <2> QED BY <1>0, <1>1, <2>1, <2>2
<1>2. ASSUME NEW d \in Calls, d # c, EvalStep(d)
      PROVE  calls'[c] = calls[c] /\ evals'[c] = evals[c]
  BY <1>2, EvalSets
<1>3. ASSUME EvalStep(c) PROVE calls'[c] = calls[c]
  BY <1>3, EvalSets
<1>4. ASSUME NEW l \in Loads, LoadStep(l) PROVE UNCHANGED <<calls, evals>>
  BY <1>0, <1>4, LoadSets
<1>5. ASSUME NEW k \in Clears, ClearChallenger(k) PROVE UNCHANGED <<calls, evals>>
  BY <1>5 DEF ClearChallenger
<1>6. ASSUME NEW s \in Swaps, SwapChampion(s) PROVE UNCHANGED <<calls, evals>>
  BY <1>6 DEF SwapChampion
<1> QED BY <1>1, <1>2, <1>3, <1>4, <1>5, <1>6, StepKinds DEF vars

\* A champion remembers how many challengers there had been when it came.
LEMMA ChampionsStep ==
  ASSUME ShadowInv, [Next]_vars, TypeOK', HistoriesGrow
  PROVE  (\A i \in DOMAIN champions : champions[i].at \in 1 .. Len(challengers))'
<1>0. TypeOK /\ \A i \in DOMAIN champions : champions[i].at \in 1 .. Len(challengers)
  BY DEF ShadowInv
<1>1. ASSUME NEW i \in 1 .. Len(champions)
      PROVE  champions'[i].at \in 1 .. Len(challengers')
  <2>1. champions'[i] = champions[i] /\ champions[i].at \in 1 .. Len(challengers)
    BY <1>0, EntriesStay
  <2> QED BY <1>0, <2>1, EntriesStay
<1>2. CASE champions' = champions
  BY <1>0, <1>1, <1>2, EntriesStay
<1>3. ASSUME NEW s \in Swaps, SwapChampion(s)
      PROVE  \A i \in DOMAIN champions' : champions'[i].at \in 1 .. Len(challengers')
  <2>1. PICK d \in Champions : champions' = Append(champions, [decider |-> d, at |-> Len(challengers)])
    BY <1>3 DEF SwapChampion
  <2> DEFINE h == [decider |-> d, at |-> Len(challengers)]
  <2>2. h \in ChampionEntry /\ h.at = Len(challengers)
    BY <1>0, EntriesStay, ShadowAssumption DEF ChampionEntry
  <2> HIDE DEF h
  <2>3. champions \in Seq(ChampionEntry) /\ champions' = Append(champions, h)
    BY <1>0, <2>1 DEF TypeOK, h
  <2>4. Len(champions') = Len(champions) + 1 /\ champions'[Len(champions) + 1] = h
    BY <2>2, <2>3, AppendGrows
  <2>5. champions'[Len(champions) + 1].at \in 1 .. Len(challengers')
    BY <1>0, <2>2, <2>4, EntriesStay
  <2>6. \A i \in DOMAIN champions' : i \in 1 .. Len(champions) \/ i = Len(champions) + 1
    BY <1>0, <2>4, EntriesStay
  <2> QED BY <1>1, <2>5, <2>6
<1>4. ASSUME NEW c \in Calls, Handler(c) PROVE champions' = champions
  BY <1>4, HandlerFrame
<1>5. ASSUME NEW c \in Calls, EvalStep(c) PROVE champions' = champions
  BY <1>5, EvalSets
<1>6. ASSUME NEW l \in Loads, LoadStep(l) PROVE champions' = champions
  BY <1>0, <1>6, LoadSets
<1>7. ASSUME NEW k \in Clears, ClearChallenger(k) PROVE champions' = champions
  BY <1>7 DEF ClearChallenger
<1> QED BY <1>2, <1>3, <1>4, <1>5, <1>6, <1>7, StepKinds DEF vars

\* What a handler has copied so far.
LEMMA CallStageStep ==
  ASSUME ShadowInv, [Next]_vars, TypeOK', HistoriesGrow, NEW c \in Calls
  PROVE  CallStage(c)'
<1>0. TypeOK /\ CallStage(c) /\ calls[c] \in CallRecord
  BY DEF ShadowInv, TypeOK
<1>1. /\ calls[c].since \in Nat /\ calls[c].champion \in Nat /\ calls[c].got \in Nat
      /\ calls[c].pc \in CallPcs
  BY <1>0 DEF CallRecord, CallPcs
<1>2. /\ calls[c].since <= Len(challengers')
      /\ calls[c].pc \notin {"idle", "entered"} => calls[c].champion \in 1 .. Len(champions')
      /\ calls[c].got # 0 => calls[c].got \in calls[c].since .. Len(challengers')
  BY <1>0, <1>1, EntriesStay DEF CallStage
<1>3. CASE calls'[c] = calls[c]
  <2>1. /\ calls[c].pc \notin {"idle", "entered"} =>
             /\ Champion(c)' = Champion(c)
             /\ champions'[calls[c].champion] = champions[calls[c].champion]
        /\ calls[c].got # 0 => challengers'[calls[c].got] = challengers[calls[c].got]
    BY <1>3, CopiesStay
  <2>2. calls[c].got # 0 => calls[c].pc \notin {"idle", "entered"}
    BY <1>0 DEF CallStage
  <2>3. calls[c].pc \notin {"idle", "entered", "captured"} =>
          calls[c].result \in {"failed", Verdict(Champion(c)', calls[c].req)}
    BY <1>0, <2>1 DEF CallStage
  <2> QED BY <1>0, <1>2, <1>3, <2>1, <2>2, <2>3 DEF CallStage
<1>4. CASE Handler(c)
  <2>1. champions' = champions /\ challengers' = challengers /\ calls'[c].req = calls[c].req
    BY <1>4, HandlerFrame, HandlerSets
  <2>2. CASE Arrives(c)
    BY <1>0, <1>1, <2>1, <2>2, EntriesStay DEF CallStage, Arrives
  <2>3. CASE Captures(c)
    BY <1>0, <1>1, <2>1, <2>3, EntriesStay DEF CallStage, Captures
  <2>4. CASE Concludes(c)
    <3>1. Champion(c)' = Champion(c)
      BY <2>1, <2>4 DEF Champion, Concludes
    <3>2. calls'[c].result \in {"failed", Verdict(Champion(c)', calls'[c].req)}
      BY <2>1, <2>4, <3>1 DEF Concludes
    <3> QED BY <1>0, <1>1, <2>1, <2>4, <3>2 DEF CallStage, Concludes
  <2>5. ASSUME calls'[c].champion = calls[c].champion, calls'[c].result = calls[c].result,
               calls[c].pc \notin {"idle", "entered", "captured"}
        PROVE  /\ champions'[calls'[c].champion] = champions[calls[c].champion]
               /\ calls'[c].champion \in 1 .. Len(champions')
               /\ calls'[c].result \in {"failed", Verdict(Champion(c)', calls'[c].req)}
    <3>1. Champion(c)' = Champion(c)
      BY <2>1, <2>5 DEF Champion
    <3>2. calls[c].result \in {"failed", Verdict(Champion(c), calls[c].req)}
      BY <1>0, <2>5 DEF CallStage
    <3> QED BY <1>2, <2>1, <2>5, <3>1, <3>2
  <2>6. CASE Skips(c)
    BY <1>0, <1>1, <2>1, <2>5, <2>6 DEF CallStage, Skips
  <2>7. CASE Samples(c)
    <3>1. /\ champions[calls[c].champion].at <= Len(challengers)
          /\ Len(challengers) \in Nat /\ Len(challengers) >= 1
      <4>1. champions[calls[c].champion].at \in 1 .. Len(challengers) /\ Len(challengers) \in Nat
        BY <1>0, <2>7, ChampionOK, EntriesStay DEF Samples
      <4> QED BY <4>1
    <3>2. calls[c].result # "failed" /\ challengers[Len(challengers)] # {}
      BY <2>7 DEF Samples, Comparable, Current
    <3>3. calls'[c].got \in calls'[c].since .. Len(challengers')
      BY <1>0, <1>1, <2>1, <2>7, <3>1 DEF CallStage, Samples
    <3> QED BY <1>0, <1>1, <2>1, <2>5, <2>7, <3>1, <3>2, <3>3 DEF CallStage, Samples
  <2>8. CASE Spawns(c)
    BY <1>0, <1>1, <2>1, <2>5, <2>8 DEF CallStage, Spawns
  <2>9. CASE Replies(c)
    BY <1>0, <1>1, <2>1, <2>5, <2>9 DEF CallStage, Replies
  <2> QED BY <1>4, <2>2, <2>3, <2>4, <2>6, <2>7, <2>8, <2>9, HandlerSets
<1> QED BY <1>3, <1>4, StepMoves

\* What a comparison concludes depends on what its call has copied, which
\* the call keeps.
LEMMA OutcomeStays ==
  ASSUME ShadowInv, TypeOK', HistoriesGrow, NEW c \in Calls, calls[c].got # 0,
         calls'[c].got = calls[c].got, calls'[c].champion = calls[c].champion,
         calls'[c].result = calls[c].result, calls'[c].req = calls[c].req
  PROVE  /\ evals'[c].late = evals[c].late /\ evals'[c].result = evals[c].result
              => Outcome(c)' = Outcome(c)
         /\ evals'[c].late = evals[c].late \/ evals'[c].late => Returns(c) \subseteq Returns(c)'
<1>1. calls[c].pc \notin {"idle", "entered"}
  BY ChallengerOK
<1>2. Champion(c)' = Champion(c) /\ Challenger(c)' = Challenger(c)
  BY <1>1, CopiesStay
<1>3. SameFactor(c)' = SameFactor(c)
  BY <1>2 DEF SameFactor
<1>4. ASSUME evals'[c].late = evals[c].late, evals'[c].result = evals[c].result
      PROVE  Outcome(c)' = Outcome(c)
  <2>1. Compare(c)' = Compare(c)
    BY <1>3, <1>4 DEF Compare
  <2> QED BY <1>4, <2>1 DEF Outcome
<1>5. ASSUME evals'[c].late = evals[c].late \/ evals'[c].late PROVE Returns(c) \subseteq Returns(c)'
  BY <1>2, <1>5 DEF Returns
<1> QED BY <1>4, <1>5

\* What a comparison has concluded so far.
LEMMA EvalStageStep ==
  ASSUME ShadowInv, [Next]_vars, TypeOK', HistoriesGrow, NEW c \in Calls
  PROVE  EvalStage(c)'
<1>0. /\ TypeOK /\ CallStage(c) /\ EvalStage(c) /\ calls[c] \in CallRecord
      /\ evals[c] \in EvalRecord /\ evals \in [Calls -> EvalRecord]
  BY DEF ShadowInv, TypeOK
<1>1. /\ evals[c].pc \in {"none", "running", "returned", "done"}
      /\ evals[c].late \in BOOLEAN /\ evals[c].onTime \in BOOLEAN
  BY <1>0 DEF EvalRecord
<1>2. ASSUME evals'[c] = evals[c], calls'[c].got = calls[c].got,
             calls'[c].champion = calls[c].champion, calls'[c].result = calls[c].result,
             calls'[c].req = calls[c].req,
             calls[c].pc \in {"replying", "done"} => calls'[c].pc \in {"replying", "done"}
      PROVE  EvalStage(c)'
  <2>1. CASE evals[c].pc = "none"
    BY <1>2, <2>1 DEF EvalStage
  <2>2. CASE evals[c].pc # "none"
    <3>1. calls[c].got # 0
      BY <1>0, <2>2 DEF EvalStage
    <3>2. Outcome(c)' = Outcome(c) /\ Returns(c) \subseteq Returns(c)'
      BY <1>2, <3>1, OutcomeStays
    <3> QED BY <1>0, <1>2, <3>2 DEF EvalStage
  <2> QED BY <2>1, <2>2
<1>3. CASE calls'[c] = calls[c] /\ evals'[c] = evals[c]
  BY <1>2, <1>3
<1>4. CASE Handler(c)
  <2>1. calls'[c].req = calls[c].req
    BY <1>4, HandlerSets
  <2>2. CASE Replies(c)
    BY <1>2, <2>1, <2>2 DEF Replies
  <2>3. CASE Spawns(c)
    <3>1. evals'[c].pc = "running"
      BY <1>0, <2>3 DEF Spawns, EvalRecord
    <3>2. calls'[c].got # 0 /\ calls'[c].pc = "replying"
      BY <1>0, <2>3 DEF Spawns, CallStage
    <3> QED BY <3>1, <3>2 DEF EvalStage
  <2>4. CASE Arrives(c) \/ Captures(c) \/ Concludes(c) \/ Skips(c) \/ Samples(c)
    <3>1. calls[c].pc \notin {"replying", "done"} /\ evals' = evals
      BY <2>4 DEF Arrives, Captures, Concludes, Skips, Samples
    <3>2. evals'[c].pc = "none"
      BY <1>0, <3>1 DEF EvalStage
    <3> QED BY <3>2 DEF EvalStage
  <2> QED BY <1>4, <2>2, <2>3, <2>4, HandlerSets
<1>5. CASE EvalStep(c) /\ calls'[c] = calls[c]
  <2>1. Lates(c) \/ Answers(c) \/ Judges(c)
    BY <1>5, EvalSets
  <2>2. evals[c].pc \in {"running", "returned"}
    BY <2>1 DEF Lates, Answers, Judges
  <2>3. calls[c].got # 0 /\ calls[c].pc \in {"replying", "done"}
    BY <1>0, <2>2 DEF EvalStage
  <2>4. CASE Lates(c)
    <3>1. Returns(c) \subseteq Returns(c)'
      BY <1>5, <2>3, <2>4, OutcomeStays DEF Lates
    <3> QED BY <1>0, <1>5, <2>3, <2>4, <3>1 DEF EvalStage, Lates
  <2>5. CASE Answers(c)
    <3>1. Returns(c) \subseteq Returns(c)'
      BY <1>5, <2>3, <2>5, OutcomeStays DEF Answers
    <3> QED BY <1>0, <1>1, <1>5, <2>3, <2>5, <3>1 DEF EvalStage, Answers
  <2>6. CASE Judges(c)
    <3>1. Returns(c) \subseteq Returns(c)' /\ Outcome(c)' = Outcome(c)
      BY <1>5, <2>3, <2>6, OutcomeStays DEF Judges
    <3> QED BY <1>0, <1>5, <2>3, <2>6, <3>1 DEF EvalStage, Judges
  <2> QED BY <2>1, <2>4, <2>5, <2>6
<1> QED BY <1>3, <1>4, <1>5, StepMoves

\* A load that was answered 200 installed a healthy challenger, and holders
\* forget nothing.
LEMMA HealthyStep ==
  ASSUME ShadowInv, [Next]_vars, TypeOK', HistoriesGrow
  PROVE  ChallengerIsHealthy'
<1>0. TypeOK /\ ChallengerIsHealthy /\ loads \in [Loads -> LoadRecord]
  BY DEF ShadowInv, TypeOK
<1>1. ASSUME NEW l \in Loads, loads'[l].body = loads[l].body, loads'[l].status = loads[l].status,
             loads'[l].body.media = "csv", loads'[l].status = 200
      PROVE  /\ IsHealthy(loads'[l].body.content.rules)
             /\ \E i \in DOMAIN challengers' : challengers'[i] = {LoaderOf(loads'[l].body).decider}
  <2>1. loads[l].body.media = "csv" /\ loads[l].status = 200
    BY <1>1
  <2>2. IsHealthy(loads[l].body.content.rules)
    BY <1>0, <2>1 DEF ChallengerIsHealthy
  <2>3. PICK i \in DOMAIN challengers : challengers[i] = {LoaderOf(loads[l].body).decider}
    BY <1>0, <2>1 DEF ChallengerIsHealthy
  <2>4. i \in DOMAIN challengers' /\ challengers'[i] = challengers[i]
    BY <1>0, <2>3, EntriesStay
  <2>5. LoaderOf(loads'[l].body) = LoaderOf(loads[l].body)
    BY <1>1
  <2> QED BY <1>1, <2>2, <2>3, <2>4, <2>5
<1>2. CASE loads' = loads
  BY <1>1, <1>2 DEF ChallengerIsHealthy
<1>3. ASSUME NEW l \in Loads, LoadStep(l) PROVE ChallengerIsHealthy'
  <2>1. /\ \A m \in Loads : loads'[m].body = loads[m].body
        /\ \A m \in Loads : m # l => loads'[m].status = loads[m].status
    BY <1>0, <1>3, LoadSets
  <2>2. CASE loads'[l].status # 200
    BY <1>1, <2>1, <2>2 DEF ChallengerIsHealthy
  <2>3. ASSUME challengers' = Append(challengers, {LoaderOf(loads[l].body).decider}),
               LoaderOf(loads[l].body).decider \in Deciders,
               loads[l].body.media = "csv" => IsHealthy(loads[l].body.content.rules)
        PROVE  ChallengerIsHealthy'
    <3>1. PICK e \in Deciders : e = LoaderOf(loads[l].body).decider
      BY <2>3
    <3>2. {e} \in SUBSET Deciders /\ Cardinality({e}) <= 1
      BY FS_Singleton
    <3>3. challengers'[Len(challengers) + 1] = {e} /\ Len(challengers') = Len(challengers) + 1
      BY <1>0, <2>3, <3>1, <3>2, ChallengersAppend
    <3>4. Len(challengers) + 1 \in DOMAIN challengers'
      BY <1>0, <3>3, EntriesStay
    <3>5. /\ loads'[l].body.media = "csv" => IsHealthy(loads'[l].body.content.rules)
          /\ \E i \in DOMAIN challengers' : challengers'[i] = {LoaderOf(loads'[l].body).decider}
      BY <2>1, <2>3, <3>1, <3>3, <3>4
    <3> QED BY <1>1, <2>1, <3>5 DEF ChallengerIsHealthy
  <2> QED BY <1>0, <1>3, <2>2, <2>3, LoadSets
<1>4. ASSUME NEW c \in Calls, Handler(c) PROVE loads' = loads
  BY <1>4, HandlerFrame
<1>5. ASSUME NEW c \in Calls, EvalStep(c) PROVE loads' = loads
  BY <1>5, EvalSets
<1>6. ASSUME NEW k \in Clears, ClearChallenger(k) PROVE loads' = loads
  BY <1>6 DEF ClearChallenger
<1>7. ASSUME NEW s \in Swaps, SwapChampion(s) PROVE loads' = loads
  BY <1>7 DEF SwapChampion
<1> QED BY <1>2, <1>3, <1>4, <1>5, <1>6, <1>7, StepKinds DEF vars

\* Only decisions are compared: a result that is none is no verdict.
LEMMA OnlyAnswers == (\A c \in Calls : CallStage(c)) => ComparedIsAnswered
<1> SUFFICES ASSUME \A c \in Calls : CallStage(c) PROVE ComparedIsAnswered
  OBVIOUS
<1>1. ASSUME NEW c \in Calls, calls[c].got # 0
      PROVE  calls[c].status \in {0, 200, 404} /\ calls[c].result # "failed"
  <2>1. /\ calls[c].result # "failed"
        /\ calls[c].status = IF calls[c].pc = "done" THEN StatusOf[calls[c].result] ELSE 0
        /\ calls[c].pc \notin {"idle", "entered", "captured"} =>
             calls[c].result = Verdict(Champion(c), calls[c].req)
        /\ calls[c].pc = "done" => calls[c].pc \notin {"idle", "entered", "captured"}
    BY <1>1 DEF CallStage
  <2>2. CASE calls[c].pc # "done"
    BY <2>1, <2>2
  <2>3. CASE calls[c].pc = "done"
    <3>1. calls[c].result \in {"ok", "no_match"}
      BY <2>1, <2>3, VerdictOK, StatusOfOK
    <3> QED BY <2>1, <2>3, <3>1, StatusOfOK
  <2> QED BY <2>2, <2>3
<1> QED BY <1>1 DEF ComparedIsAnswered

-----------------------------------------------------------------------------
(* The invariant.                                                          *)

\* The process starts with its boot champion, no challenger and no call.
LEMMA InitShadowInv == Init => ShadowInv
<1> SUFFICES ASSUME Init PROVE ShadowInv
  OBVIOUS
<1>1. /\ champions \in Seq(ChampionEntry) /\ champions # <<>>
      /\ \A i \in DOMAIN champions : champions[i].at \in 1 .. Len(challengers)
  <2> DEFINE h == [decider |-> BootChampion, at |-> 1]
  <2>1. h \in ChampionEntry /\ h.at = 1
    BY ShadowAssumption DEF ChampionEntry
  <2>2. champions = <<h>> /\ challengers = <<{}>>
    BY DEF Init
  <2> HIDE DEF h
  <2> QED BY <2>1, <2>2
<1>2. /\ challengers \in Seq(SUBSET Deciders) /\ challengers # <<>>
      /\ \A i \in DOMAIN challengers : Cardinality(challengers[i]) <= 1
  <2>1. challengers = <<{}>> /\ {} \in SUBSET Deciders
    BY DEF Init
  <2>2. DOMAIN challengers = {1} /\ challengers[1] = {} /\ challengers \in Seq(SUBSET Deciders)
    BY <2>1
  <2> QED BY <2>1, <2>2, FS_EmptySet
<1>3. ASSUME NEW c \in Calls
      PROVE  /\ calls[c] \in CallRecord /\ calls[c].pc = "idle" /\ calls[c].since = 0
             /\ calls[c].got = 0 /\ calls[c].status = 0
  <2>1. PICK q \in Requests :
          calls[c] = [pc |-> "idle", req |-> q, since |-> 0, champion |-> 0,
                      result |-> "none", got |-> 0, status |-> 0]
    BY DEF Init
  <2>2. 0 \in CallStatus
    BY DEF CallStatus
  <2> QED BY <2>1, <2>2 DEF CallRecord
<1>4. calls \in [Calls -> CallRecord]
  BY <1>3 DEF Init
<1>5. \A c \in Calls : evals[c] \in EvalRecord /\ evals[c].pc = "none"
  BY DEF Init, EvalRecord
<1>6. evals \in [Calls -> EvalRecord]
  BY <1>5 DEF Init
<1>7. \A l \in Loads : loads[l] \in LoadRecord /\ loads[l].status = 0
  <2> TAKE l \in Loads
  <2>1. PICK b \in Bodies : loads[l] = [body |-> b, status |-> 0]
    BY DEF Init
  <2> QED BY <2>1 DEF LoadRecord
<1>8. loads \in [Loads -> LoadRecord]
  BY <1>7 DEF Init
<1>9. pending \subseteq Swaps \cup Clears /\ counters \in [Counters -> Nat]
  BY DEF Init
<1>10. TypeOK
  BY <1>1, <1>2, <1>4, <1>6, <1>8, <1>9 DEF TypeOK
<1>11. \A c \in Calls : CallStage(c) /\ EvalStage(c)
  <2> TAKE c \in Calls
  <2>1. Len(challengers) = 1
    BY DEF Init
  <2> QED BY <1>3, <1>5, <2>1 DEF CallStage, EvalStage
<1>12. ChallengerIsHealthy
  BY <1>7 DEF ChallengerIsHealthy
<1> QED BY <1>1, <1>10, <1>11, <1>12, OnlyAnswers DEF ShadowInv

\* Every step keeps every part of the invariant.
LEMMA StepShadowInv == ShadowInv /\ [Next]_vars => ShadowInv'
<1> SUFFICES ASSUME ShadowInv, [Next]_vars PROVE ShadowInv'
  OBVIOUS
<1>1. TypeOK' /\ HistoriesGrow
  BY TypeStep
<1>2. (\A c \in Calls : CallStage(c) /\ EvalStage(c))'
  BY <1>1, CallStageStep, EvalStageStep
<1>3. (\A c \in Calls : CallStage(c))'
  BY <1>2
<1>4. ComparedIsAnswered'
  BY <1>3, OnlyAnswers, PTL
<1> QED BY <1>1, <1>2, <1>4, ChampionsStep, HealthyStep DEF ShadowInv

\* In every reachable state: each handler and each comparison holds deciders
\* that the holders did hold; only what the caller is answered, never a call
\* that ends in a 500, is compared; a CSV challenger in service is healthy
\* (dispatchShadow, evaluateChallenger, challenger.go).
THEOREM ComparesWhatItAnswers == Spec => []ShadowInv
<1> QED BY InitShadowInv, StepShadowInv, PTL DEF Spec

\* A comparison pairs a champion with a challenger that was in force when the
\* champion went in or later, and since the call came in (dispatchShadow reads
\* the holder after the champion has decided).
THEOREM PairsAreFresh == Spec => []PairNeverStale
<1>1. ASSUME ShadowInv PROVE PairNeverStale
  <2>1. ASSUME NEW c \in Calls, calls[c].got # 0
        PROVE  /\ calls[c].got >= calls[c].since
               /\ calls[c].got >= champions[calls[c].champion].at
               /\ challengers[calls[c].got] # {}
    <3>1. /\ calls[c].since \in Nat /\ calls[c].got \in Nat
          /\ Len(challengers) \in Nat
      BY <1>1 DEF ShadowInv, TypeOK, CallRecord
    <3>2. /\ calls[c].got \in calls[c].since .. Len(challengers)
          /\ champions[calls[c].champion].at <= calls[c].got
          /\ challengers[calls[c].got] # {}
      BY <1>1, <2>1 DEF ShadowInv, CallStage
    <3>3. champions[calls[c].champion].at \in Nat
      <4>1. calls[c].pc \notin {"idle", "entered"}
        BY <1>1, <2>1, ChallengerOK
      <4> QED BY <1>1, <3>1, <4>1, ChampionOK
    <3> QED BY <3>1, <3>2, <3>3
  <2> QED BY <2>1 DEF PairNeverStale
<1> QED BY <1>1, ComparesWhatItAnswers, PTL

\* A challenger that missed the deadline is counted a timeout whatever it
\* returned, and one that met it is so only if the deadline passed before the
\* comparison was judged (evaluateChallenger).
THEOREM TimeoutsAreLate == Spec => []LateIsTimeout
<1>1. ASSUME ShadowInv PROVE LateIsTimeout
  <2>1. ASSUME NEW c \in Calls, evals[c].pc = "done"
        PROVE  /\ ~evals[c].onTime => evals[c].outcome = "timeout"
               /\ evals[c].outcome = "timeout" => evals[c].late
    <3>1. evals[c].late \in BOOLEAN /\ evals[c].result \in Returns(c)
      BY <1>1, <2>1 DEF ShadowInv, TypeOK, EvalRecord, EvalStage
    <3>2. evals[c].outcome = Outcome(c) /\ (evals[c].onTime \/ evals[c].late)
      BY <1>1, <2>1 DEF ShadowInv, EvalStage
    <3>3. evals[c].result = "deadline" => evals[c].late
      BY <3>1 DEF Returns
    <3> QED BY <3>1, <3>2, <3>3, OutcomeOK
  <2> QED BY <2>1 DEF LateIsTimeout
<1> QED BY <1>1, ComparesWhatItAnswers, PTL

\* A challenger that is the champion's twin is never counted against it,
\* unless the factor is NaN or infinite: the two meet the same request with the
\* same rules, and the distance of a finite factor to itself is zero
\* (evaluateChallenger, the 1e-9 comparison).
THEOREM TwinsAgree == Spec => []SelfComparisonAgrees
<1>1. ASSUME ShadowInv PROVE SelfComparisonAgrees
  <2>1. ASSUME NEW c \in Calls, evals[c].pc = "done", Challenger(c) = Champion(c),
               Matched(Champion(c), calls[c].req)
                 => FactorOf(Champion(c), calls[c].req) \in Int,
               evals[c].outcome \notin {"timeout", "error"}
        PROVE  evals[c].outcome = "agree"
    <3>1. /\ evals[c].late \in BOOLEAN /\ evals[c].result \in Returns(c)
          /\ evals[c].outcome = Outcome(c)
          /\ calls[c].got # 0 /\ calls[c].pc \in {"replying", "done"}
      BY <1>1, <2>1 DEF ShadowInv, TypeOK, EvalRecord, EvalStage
    <3>2. evals[c].outcome = Compare(c) /\ evals[c].result \notin {"error", "deadline"}
      BY <2>1, <3>1 DEF Outcome
    <3>3. evals[c].result = IF Matched(Champion(c), calls[c].req) THEN "fired" ELSE "no_match"
      BY <2>1, <3>1, <3>2 DEF Returns
    <3>4. calls[c].result = Verdict(Champion(c), calls[c].req) /\ calls[c].result # "failed"
      BY <1>1, <3>1 DEF ShadowInv, CallStage
    <3>5. Champion(c) \in Deciders
      BY <1>1, <3>1, ChampionOK
    <3>6. CASE ~Matched(Champion(c), calls[c].req)
      <4>1. calls[c].result = "no_match" /\ evals[c].result = "no_match"
        BY <3>3, <3>4, <3>6, VerdictOK
      <4> QED BY <3>2, <4>1 DEF Compare
    <3>7. CASE Matched(Champion(c), calls[c].req)
      <4>1. calls[c].result = "ok" /\ evals[c].result = "fired"
        BY <3>3, <3>4, <3>7, VerdictOK, StatusOfOK
      <4>2. FactorOf(Champion(c), calls[c].req) \in Int
        BY <2>1, <3>7
      <4>3. SameFactor(c)
        BY <2>1, <4>2 DEF SameFactor
      <4> QED BY <3>2, <4>1, <4>3 DEF Compare
    <3> QED BY <3>6, <3>7
  <2> QED BY <2>1 DEF SelfComparisonAgrees
<1> QED BY <1>1, ComparesWhatItAnswers, PTL

-----------------------------------------------------------------------------
(* The counters.  Calls may be any set: that finitely many have come in is  *)
(* part of the invariant, and what makes them countable.                    *)

Started    == {c \in Calls : calls[c].pc # "idle"}
Spawning   == {c \in Calls : calls[c].pc = "sampled"}
Evaluating == {c \in Calls : evals[c].pc \in {"running", "returned"}}
Returned   == {c \in Calls : evals[c].pc \in {"returned"}}
Total == counters["timeout"] + counters["error"] + counters["champion_only"]
           + counters["challenger_only"] + counters["agree"] + counters["disagree"]

CountInv ==
  /\ ShadowInv
  /\ IsFiniteSet(Started)
  /\ counters["sampled"] = Total + Cardinality(Evaluating) + Cardinality(Spawning)
  /\ counters["durations"] = Total + Cardinality(Returned)

\* What is compared, or about to be, has come in: it can be counted.
LEMMA CountedIsFinite ==
  ASSUME ShadowInv, IsFiniteSet(Started)
  PROVE  /\ IsFiniteSet(Spawning) /\ Cardinality(Spawning) \in Nat
         /\ IsFiniteSet(Evaluating) /\ Cardinality(Evaluating) \in Nat
         /\ IsFiniteSet(Returned) /\ Cardinality(Returned) \in Nat
<1>1. Spawning \in SUBSET Started
  BY DEF Spawning, Started
<1>2. Evaluating \in SUBSET Started /\ Returned \in SUBSET Started
  <2>1. \A c \in Calls : evals[c].pc # "none" => calls[c].pc # "idle"
    BY DEF ShadowInv, EvalStage
  <2> QED BY <2>1 DEF Evaluating, Returned, Started
<1> QED BY <1>1, <1>2, FS_Subset, FS_CardinalityType

\* Counting an outcome moves the total, counting anything else does not.
LEMMA TotalMoves ==
  ASSUME TypeOK
  PROVE  /\ Total \in Nat
         /\ \A k \in Outcomes : Count(k) => /\ Total' = Total + 1
                                            /\ counters'["sampled"] = counters["sampled"]
                                            /\ counters'["durations"] = counters["durations"]
         /\ \A k \in {"sampled", "skipped", "durations"} :
              Count(k) => /\ Total' = Total /\ counters'[k] = counters[k] + 1
                          /\ \A j \in Counters : j # k => counters'[j] = counters[j]
<1>1. /\ counters["timeout"] \in Nat /\ counters["error"] \in Nat
      /\ counters["champion_only"] \in Nat /\ counters["challenger_only"] \in Nat
      /\ counters["agree"] \in Nat /\ counters["disagree"] \in Nat
      /\ DOMAIN counters = Counters
  BY DEF TypeOK, Counters, Outcomes
<1>2. ASSUME NEW k \in Outcomes, Count(k)
      PROVE  /\ Total' = Total + 1 /\ counters'["sampled"] = counters["sampled"]
             /\ counters'["durations"] = counters["durations"]
  <2>1. k \in Counters /\ k # "sampled" /\ k # "durations"
    BY DEF Counters, Outcomes
  <2>2. counters'[k] = counters[k] + 1 /\ \A j \in Counters : j # k => counters'[j] = counters[j]
    BY <1>2, <2>1, CountOK
  <2>3. /\ "timeout" \in Counters /\ "error" \in Counters /\ "champion_only" \in Counters
        /\ "challenger_only" \in Counters /\ "agree" \in Counters /\ "disagree" \in Counters
        /\ "sampled" \in Counters /\ "durations" \in Counters
    BY DEF Counters, Outcomes
  <2>4. CASE k = "timeout"
    BY <1>1, <2>2, <2>3, <2>4 DEF Total
  <2>5. CASE k = "error"
    BY <1>1, <2>2, <2>3, <2>5 DEF Total
  <2>6. CASE k = "champion_only"
    BY <1>1, <2>2, <2>3, <2>6 DEF Total
  <2>7. CASE k = "challenger_only"
    BY <1>1, <2>2, <2>3, <2>7 DEF Total
  <2>8. CASE k = "agree"
    BY <1>1, <2>2, <2>3, <2>8 DEF Total
  <2>9. CASE k = "disagree"
    BY <1>1, <2>2, <2>3, <2>9 DEF Total
  <2> QED BY <2>4, <2>5, <2>6, <2>7, <2>8, <2>9 DEF Outcomes
<1>3. ASSUME NEW k \in {"sampled", "skipped", "durations"}, Count(k)
      PROVE  /\ Total' = Total /\ counters'[k] = counters[k] + 1
             /\ \A j \in Counters : j # k => counters'[j] = counters[j]
  <2>1. k \in Counters /\ \A j \in Outcomes : j # k /\ j \in Counters
    BY DEF Counters, Outcomes
  <2>2. counters'[k] = counters[k] + 1 /\ \A j \in Counters : j # k => counters'[j] = counters[j]
    BY <1>3, <2>1, CountOK
  <2>3. \A j \in Outcomes : counters'[j] = counters[j]
    BY <2>1, <2>2
  <2>4. Total' = Total
    BY <2>3 DEF Total, Outcomes
  <2> QED BY <2>2, <2>4
<1>4. Total \in Nat
  BY <1>1 DEF Total
<1> QED BY <1>2, <1>3, <1>4

\* Every step keeps the books.
LEMMA StepCountInv == CountInv /\ [Next]_vars => CountInv'
<1> SUFFICES ASSUME CountInv, [Next]_vars PROVE CountInv'
  OBVIOUS
<1>0. /\ ShadowInv /\ TypeOK /\ IsFiniteSet(Started)
      /\ counters["sampled"] = Total + Cardinality(Evaluating) + Cardinality(Spawning)
      /\ counters["durations"] = Total + Cardinality(Returned)
  BY DEF CountInv, ShadowInv
<1>1. /\ IsFiniteSet(Spawning) /\ Cardinality(Spawning) \in Nat
      /\ IsFiniteSet(Evaluating) /\ Cardinality(Evaluating) \in Nat
      /\ IsFiniteSet(Returned) /\ Cardinality(Returned) \in Nat
      /\ Total \in Nat /\ counters["sampled"] \in Nat /\ counters["durations"] \in Nat
  <2>1. counters["sampled"] \in Nat /\ counters["durations"] \in Nat
    BY <1>0 DEF TypeOK, Counters
  <2> QED BY <1>0, <2>1, CountedIsFinite, TotalMoves
<1>2. ShadowInv'
  BY <1>0, StepShadowInv
<1>3. CASE UNCHANGED <<calls, evals, counters>>
  <2>1. Started' = Started /\ Spawning' = Spawning
    BY <1>3 DEF Started, Spawning
  <2>2. Evaluating' = Evaluating /\ Returned' = Returned /\ Total' = Total
    BY <1>3 DEF Evaluating, Returned, Total
  <2> QED BY <1>0, <1>2, <1>3, <2>1, <2>2 DEF CountInv
<1>4. ASSUME NEW c \in Calls, Handler(c) PROVE CountInv'
  <2>0. evals \in [Calls -> EvalRecord] /\ EvalStage(c) /\ CallStage(c)
    BY <1>0 DEF ShadowInv, TypeOK
  <2>1. /\ \A d \in Calls : d # c => calls'[d] = calls[d]
        /\ \/ Arrives(c) \/ Captures(c) \/ Concludes(c) \/ Skips(c) \/ Samples(c)
           \/ Spawns(c) \/ Replies(c)
    BY <1>0, <1>4, HandlerSets
  <2>2. calls'[c].pc # "idle"
    BY <2>1 DEF Arrives, Captures, Concludes, Skips, Samples, Spawns, Replies
  <2>3. Started' = Started \cup {c}
    BY <2>1, <2>2 DEF Started
  <2>4. IsFiniteSet(Started')
    BY <1>0, <2>3, FS_AddElement
  <2>5. CASE Arrives(c) \/ Captures(c) \/ Concludes(c) \/ Skips(c) \/ Replies(c)
    <3>1. calls[c].pc # "sampled" /\ calls'[c].pc # "sampled" /\ evals' = evals
      BY <2>5 DEF Arrives, Captures, Concludes, Skips, Replies
    <3>2. Spawning' = Spawning /\ Evaluating' = Evaluating /\ Returned' = Returned
      BY <2>1, <3>1 DEF Spawning, Evaluating, Returned
    <3>3. UNCHANGED counters \/ Count("skipped")
      BY <2>5 DEF Arrives, Captures, Concludes, Skips, Replies
    <3>4. /\ Total' = Total /\ counters'["sampled"] = counters["sampled"]
          /\ counters'["durations"] = counters["durations"]
      <4>1. CASE UNCHANGED counters
        BY <4>1 DEF Total
      <4>2. CASE Count("skipped")
        BY <1>0, <4>2, TotalMoves DEF Counters
      <4> QED BY <3>3, <4>1, <4>2
    <3> QED BY <1>0, <1>2, <2>4, <3>2, <3>4 DEF CountInv
  <2>6. CASE Samples(c)
    <3>1. calls[c].pc # "sampled" /\ calls'[c].pc = "sampled" /\ evals' = evals /\ Count("sampled")
      BY <2>6 DEF Samples
    <3>2. /\ Spawning' = Spawning \cup {c} /\ c \notin Spawning
          /\ Evaluating' = Evaluating /\ Returned' = Returned
      BY <2>1, <3>1 DEF Spawning, Evaluating, Returned
    <3>3. Cardinality(Spawning') = Cardinality(Spawning) + 1
      BY <1>1, <3>2, FS_AddElement
    <3>4. /\ Total' = Total /\ counters'["sampled"] = counters["sampled"] + 1
          /\ counters'["durations"] = counters["durations"]
      BY <1>0, <3>1, TotalMoves DEF Counters
    <3>5. counters'["sampled"] = Total' + Cardinality(Evaluating') + Cardinality(Spawning')
      BY <1>0, <1>1, <3>2, <3>3, <3>4
    <3> QED BY <1>0, <1>2, <2>4, <3>2, <3>4, <3>5 DEF CountInv
  <2>7. CASE Spawns(c)
    <3>1. /\ calls[c].pc = "sampled" /\ calls'[c].pc # "sampled" /\ counters' = counters
          /\ evals' = [evals EXCEPT ![c].pc = "running"]
      BY <2>7 DEF Spawns
    <3>2. evals[c].pc = "none" /\ evals'[c].pc = "running"
          /\ \A d \in Calls : d # c => evals'[d] = evals[d]
      BY <2>0, <3>1 DEF EvalStage, EvalRecord
    <3>3. /\ Spawning' = Spawning \ {c} /\ c \in Spawning
          /\ Evaluating' = Evaluating \cup {c} /\ c \notin Evaluating
          /\ Returned' = Returned
      BY <2>1, <3>1, <3>2 DEF Spawning, Evaluating, Returned
    <3>4. Cardinality(Spawning') = Cardinality(Spawning) - 1
      BY <1>1, <3>3, FS_RemoveElement
    <3>5. Cardinality(Evaluating') = Cardinality(Evaluating) + 1
      BY <1>1, <3>3, FS_AddElement
    <3>6. Total' = Total
      BY <3>1 DEF Total
    <3>7. counters'["sampled"] = Total' + Cardinality(Evaluating') + Cardinality(Spawning')
      BY <1>0, <1>1, <3>1, <3>4, <3>5, <3>6
    <3> QED BY <1>0, <1>2, <2>4, <3>1, <3>3, <3>6, <3>7 DEF CountInv
  <2> QED BY <2>1, <2>5, <2>6, <2>7
<1>5. ASSUME NEW c \in Calls, EvalStep(c) PROVE CountInv'
  <2>1. /\ calls' = calls /\ \A d \in Calls : d # c => evals'[d] = evals[d]
        /\ Lates(c) \/ Answers(c) \/ Judges(c)
    BY <1>0, <1>5, EvalSets
  <2>2. Started' = Started /\ Spawning' = Spawning
    BY <2>1 DEF Started, Spawning
  <2>3. CASE Lates(c)
    <3>1. evals'[c].pc = evals[c].pc /\ counters' = counters
      BY <2>3 DEF Lates
    <3>2. Evaluating' = Evaluating /\ Returned' = Returned /\ Total' = Total
      BY <2>1, <3>1 DEF Evaluating, Returned, Total
    <3> QED BY <1>0, <1>2, <2>2, <3>1, <3>2 DEF CountInv
  <2>4. CASE Answers(c)
    <3>1. evals[c].pc = "running" /\ evals'[c].pc = "returned" /\ Count("durations")
      BY <2>4 DEF Answers
    <3>2. Evaluating' = Evaluating /\ Returned' = Returned \cup {c} /\ c \notin Returned
      BY <2>1, <3>1 DEF Evaluating, Returned
    <3>3. Cardinality(Returned') = Cardinality(Returned) + 1
      BY <1>1, <3>2, FS_AddElement
    <3>4. /\ Total' = Total /\ counters'["sampled"] = counters["sampled"]
          /\ counters'["durations"] = counters["durations"] + 1
      BY <1>0, <3>1, TotalMoves DEF Counters
    <3>5. counters'["durations"] = Total' + Cardinality(Returned')
      BY <1>0, <1>1, <3>3, <3>4
    <3> QED BY <1>0, <1>2, <2>2, <3>2, <3>4, <3>5 DEF CountInv
  <2>5. CASE Judges(c)
    <3>1. evals[c].pc = "returned" /\ evals'[c].pc = "done" /\ Count(Outcome(c))
      BY <2>5 DEF Judges
    <3>2. /\ Evaluating' = Evaluating \ {c} /\ c \in Evaluating
          /\ Returned' = Returned \ {c} /\ c \in Returned
      BY <2>1, <3>1 DEF Evaluating, Returned
    <3>3. /\ Cardinality(Evaluating') = Cardinality(Evaluating) - 1
          /\ Cardinality(Returned') = Cardinality(Returned) - 1
      BY <1>1, <3>2, FS_RemoveElement
    <3>4. Outcome(c) \in Outcomes
      <4>1. evals[c].late \in BOOLEAN
        BY <1>0 DEF TypeOK, EvalRecord
      <4> QED BY <4>1, OutcomeOK
    <3>5. /\ Total' = Total + 1 /\ counters'["sampled"] = counters["sampled"]
          /\ counters'["durations"] = counters["durations"]
      BY <1>0, <3>1, <3>4, TotalMoves
    <3>6. /\ counters'["sampled"] = Total' + Cardinality(Evaluating') + Cardinality(Spawning')
          /\ counters'["durations"] = Total' + Cardinality(Returned')
      BY <1>0, <1>1, <2>2, <3>3, <3>5
    <3> QED BY <1>0, <1>2, <2>2, <3>6 DEF CountInv
  <2> QED BY <2>1, <2>3, <2>4, <2>5
<1>6. ASSUME NEW l \in Loads, LoadStep(l) PROVE UNCHANGED <<calls, evals, counters>>
  BY <1>0, <1>6, LoadSets
<1>7. ASSUME NEW k \in Clears, ClearChallenger(k) PROVE UNCHANGED <<calls, evals, counters>>
  BY <1>7 DEF ClearChallenger
<1>8. ASSUME NEW s \in Swaps, SwapChampion(s) PROVE UNCHANGED <<calls, evals, counters>>
  BY <1>8 DEF SwapChampion
<1> QED BY <1>3, <1>4, <1>5, <1>6, <1>7, <1>8, StepKinds DEF vars

\* At every instant the counters add up: a sampled call is in one outcome
\* series once its comparison was judged, in none before, and the durations
\* count the challengers that returned (ShadowMetrics, evaluateChallenger).
THEOREM CountersAreTrue == Spec => []CountersAddUp
<1>1. Init => CountInv
  <2> SUFFICES ASSUME Init PROVE CountInv
    OBVIOUS
  <2>1. ShadowInv
    BY InitShadowInv
  <2>2. /\ \A c \in Calls : calls[c].pc = "idle" /\ evals[c].pc = "none"
        /\ counters = [k \in Counters |-> 0]
    BY DEF Init
  <2>3. Started = {} /\ Spawning = {} /\ Evaluating = {} /\ Returned = {}
    BY <2>2 DEF Started, Spawning, Evaluating, Returned
  <2>4. counters["sampled"] = 0 /\ counters["durations"] = 0 /\ Total = 0
    BY <2>2 DEF Counters, Outcomes, Total
  <2> QED BY <2>1, <2>3, <2>4, FS_EmptySet DEF CountInv
<1>2. CountInv => CountersAddUp
  BY DEF CountInv, CountersAddUp, Total, Evaluating, Returned, Spawning
<1> QED BY <1>1, <1>2, StepCountInv, PTL DEF Spec

=============================================================================
