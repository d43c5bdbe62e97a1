-------------------------------- MODULE Shadow --------------------------------
(***************************************************************************)
(* The shadow challenger of --shadow-admin: POST /decide answers with the  *)
(* champion's decision and, for a sample of the calls, starts a goroutine  *)
(* that asks the challenger the same question and counts how the two       *)
(* compare.  POST /admin/load-challenger and DELETE /admin/challenger      *)
(* replace the challenger meanwhile, and reloads replace the champion.     *)
(*                                                                         *)
(* champions is the history of the swap holder (module Serving), of which  *)
(* only the swap is kept here; challengers is that of shadow.Holder, {}    *)
(* where it holds nil.  The champion's side of a call is the copy of the   *)
(* decider and the decision; the guardrails stand as one configuration.    *)
(***************************************************************************)
EXTENDS Guardrails, FiniteSets

CONSTANTS
  Calls, Loads, Clears,  \* POST /decide, the two admin requests: one-shot
  Swaps,                 \* reloads of the champion
  Champions,             \* the deciders those reloads install
  BootChampion,          \* and the one the process starts with
  Bodies,                \* bodies of load-challenger, see LoadBody
  Adapter, Model,        \* --adapter, --model
  Envelope,              \* the guardrails configuration in force
  SampleRate             \* --shadow-sample-rate: "zero", "part" or "one"

LoadBody == [media: {"unsupported", "oversize", "broken", "empty"}]
              \cup [media: {"csv"}, content: Csv] \cup [media: {"json"}, content: Snapshot]

ASSUME ShadowAssumption ==
  /\ Champions \cup {BootChampion} \subseteq Deciders
  /\ Bodies \subseteq LoadBody
  /\ Adapter \in Adapters /\ Model \in Models
  /\ Buildable(Envelope)
  /\ SampleRate \in {"zero", "part", "one"}

VARIABLES champions, challengers, calls, evals, loads, pending, counters
vars == <<champions, challengers, calls, evals, loads, pending, counters>>

\* The series of ShadowMetrics.
Outcomes == {"timeout", "error", "champion_only", "challenger_only", "agree", "disagree"}
Counters == {"sampled", "skipped", "durations"} \cup Outcomes

Init ==
  /\ champions = <<[decider |-> BootChampion, at |-> 1]>>
  /\ challengers = <<{}>>
  /\ calls \in [Calls -> {[pc |-> "idle", req |-> q, since |-> 0, champion |-> 0,
                           result |-> "none", got |-> 0, status |-> 0] : q \in Requests}]
  /\ evals = [c \in Calls |-> [pc |-> "none", late |-> FALSE, onTime |-> FALSE,
                               result |-> "none", outcome |-> "none"]]
  /\ loads \in [Loads -> {[body |-> b, status |-> 0] : b \in Bodies}]
  /\ pending = Swaps \cup Clears
  /\ counters = [k \in Counters |-> 0]

-----------------------------------------------------------------------------
(* POST /decide: the champion's part.                                      *)

Champion(c)   == champions[calls[c].champion].decider
Challenger(c) == CHOOSE d \in challengers[calls[c].got] : TRUE

Goes(c, record) ==
  /\ calls' = [calls EXCEPT ![c] = record]
  /\ UNCHANGED <<champions, challengers, loads, pending>>

Arrive(c) ==
  /\ calls[c].pc = "idle"
  /\ Goes(c, [calls[c] EXCEPT !.pc = "entered", !.since = Len(challengers)])
  /\ UNCHANGED <<evals, counters>>

CaptureChampion(c) ==
  /\ calls[c].pc = "entered"
  /\ Goes(c, [calls[c] EXCEPT !.pc = "captured", !.champion = Len(champions)])
  /\ UNCHANGED <<evals, counters>>

Verdict(decider, req) ==
  CASE ~Matched(decider, req) -> "no_match"
    [] Matched(decider, req)  ->
         IF Allows(BuildRules(Envelope), FactorOf(decider, req), req) THEN "ok" ELSE "failed"

\* The champion decides, its engine fails, or a rule vetoes.
Decides(c) ==
  /\ calls[c].pc = "captured"
  /\ \E result \in {"failed", Verdict(Champion(c), calls[c].req)} :
       Goes(c, [calls[c] EXCEPT !.pc = "decided", !.result = result])
  /\ UNCHANGED <<evals, counters>>

-----------------------------------------------------------------------------
(* dispatchShadow.  Get, the draw and RecordSampled are one step: the      *)
(* draw is local and the counter moves whatever other calls count.         *)

Current == challengers[Len(challengers)]
Count(k) == counters' = [counters EXCEPT ![k] = @ + 1]

\* Nothing to compare with or to compare: straight to the answer.
NoComparison(c) ==
  /\ calls[c].pc = "decided"
  /\ calls[c].result = "failed" \/ Current = {}
  /\ Goes(c, [calls[c] EXCEPT !.pc = "replying"])
  /\ UNCHANGED <<evals, counters>>

\* Faulty: a vetoed call is compared like one without a match.
Comparable_Vetoed(c) == calls[c].pc = "decided" /\ Current # {}

Comparable(c) == calls[c].pc = "decided" /\ calls[c].result # "failed" /\ Current # {}

NotSampled(c) ==
  /\ Comparable(c)
  /\ SampleRate # "one"
  /\ Goes(c, [calls[c] EXCEPT !.pc = "replying"])
  /\ Count("skipped")
  /\ UNCHANGED evals

\* Faulty: the holder is read when the call comes in, ahead of the champion.
Sampled_AtArrival(c) ==
  /\ calls[c].pc = "decided" /\ calls[c].result # "failed"
  /\ SampleRate # "zero"
  /\ challengers[calls[c].since] # {}
  /\ Goes(c, [calls[c] EXCEPT !.pc = "sampled", !.got = calls[c].since])
  /\ Count("sampled")
  /\ UNCHANGED evals

Sampled(c) ==
  /\ Comparable(c)
  /\ SampleRate # "zero"
  /\ Goes(c, [calls[c] EXCEPT !.pc = "sampled", !.got = Len(challengers)])
  /\ Count("sampled")
  /\ UNCHANGED evals

\* go evaluateChallenger(...): the challenger is handed over, not the holder.
Spawn(c) ==
  /\ calls[c].pc = "sampled"
  /\ Goes(c, [calls[c] EXCEPT !.pc = "replying"])
  /\ evals' = [evals EXCEPT ![c].pc = "running"]
  /\ UNCHANGED counters

StatusOf == [ok |-> 200, no_match |-> 404, failed |-> 500]

\* Faulty: the answer waits for the comparison.
Reply_Joins(c) ==
  /\ calls[c].pc = "replying"
  /\ evals[c].pc \in {"none", "done"}
  /\ Goes(c, [calls[c] EXCEPT !.pc = "done", !.status = StatusOf[calls[c].result]])
  /\ UNCHANGED <<evals, counters>>

Reply(c) ==
  /\ calls[c].pc = "replying"
  /\ Goes(c, [calls[c] EXCEPT !.pc = "done", !.status = StatusOf[calls[c].result]])
  /\ UNCHANGED <<evals, counters>>

Handler(c) == \/ Arrive(c) \/ CaptureChampion(c) \/ Decides(c) \/ NoComparison(c)
              \/ NotSampled(c) \/ Sampled(c) \/ Spawn(c) \/ Reply(c)

-----------------------------------------------------------------------------
(* evaluateChallenger.  The engine may ignore the deadline and answer late. *)

Evaluation(c, record) ==
  /\ evals' = [evals EXCEPT ![c] = record]
  /\ UNCHANGED <<champions, challengers, calls, loads, pending>>

DeadlinePasses(c) ==
  /\ evals[c].pc \in {"running", "returned"} /\ ~evals[c].late
  /\ Evaluation(c, [evals[c] EXCEPT !.late = TRUE])
  /\ UNCHANGED counters

\* What challenger.Decide may return: the verdict of its rules (no guardrails
\* here), an error of the engine, and that of the context once it is late.
Returns(c) ==
  {"error", IF Matched(Challenger(c), calls[c].req) THEN "fired" ELSE "no_match"}
    \cup (IF evals[c].late THEN {"deadline"} ELSE {})

ChallengerReturns(c) ==
  /\ evals[c].pc = "running"
  /\ \E result \in Returns(c) :
       Evaluation(c, [evals[c] EXCEPT !.pc = "returned", !.result = result,
                                      !.onTime = ~evals[c].late])
  /\ Count("durations")

\* The distance of the two is a number, and no larger than factorEpsilon: that of
\* an infinity to itself is NaN.
SameFactor(c) ==
  LET x == FactorOf(Champion(c), calls[c].req)
      y == FactorOf(Challenger(c), calls[c].req)
  IN x \in Int /\ y \in Int /\ x = y

\* Faulty: two sides that decline are taken for a disagreement.
Compare_Declined(c) ==
  LET champion == calls[c].result = "ok"  challenger == evals[c].result = "fired"
  IN CASE champion /\ ~challenger  -> "champion_only"
       [] ~champion /\ challenger  -> "challenger_only"
       [] ~champion /\ ~challenger -> "disagree"
       [] champion /\ challenger   -> IF SameFactor(c) THEN "agree" ELSE "disagree"

Compare(c) ==
  LET champion == calls[c].result = "ok"  challenger == evals[c].result = "fired"
  IN CASE champion /\ ~challenger  -> "champion_only"
       [] ~champion /\ challenger  -> "challenger_only"
       [] ~champion /\ ~challenger -> "agree"
       [] champion /\ challenger   -> IF SameFactor(c) THEN "agree" ELSE "disagree"

\* Faulty: only the challenger's own error is asked for the deadline.
Outcome_ErrorOnly(c) ==
  CASE evals[c].result = "deadline" -> "timeout"
    [] evals[c].result = "error"    -> "error"
    [] OTHER                        -> Compare(c)

Outcome(c) ==
  CASE evals[c].late \/ evals[c].result = "deadline"  -> "timeout"
    [] ~evals[c].late /\ evals[c].result = "error"    -> "error"
    [] OTHER                                          -> Compare(c)

\* Faulty: no return after a timeout or an error was counted.
Judge_GoesOn(c) ==
  /\ evals[c].pc = "returned"
  /\ Evaluation(c, [evals[c] EXCEPT !.pc = "done", !.outcome = Outcome(c)])
  /\ counters' = [k \in Counters |->
                    counters[k] + (IF k \in {Outcome(c), Compare(c)} THEN 1 ELSE 0)]

Judge(c) ==
  /\ evals[c].pc = "returned"
  /\ Evaluation(c, [evals[c] EXCEPT !.pc = "done", !.outcome = Outcome(c)])
  /\ Count(Outcome(c))

-----------------------------------------------------------------------------
(* The admin requests.  A body is read and loaded before the holder is     *)
(* touched, so that a request is one step.                                 *)

LoaderOf(body) == IF body.media = "csv" THEN CsvBody(body.content, Adapter, Model)
                                        ELSE JsonBody(body.content)

LoadStatus == [unsupported |-> 415, oversize |-> 413, broken |-> 500, empty |-> 400]

AnswerLoad(l, status) ==
  /\ loads[l].status = 0
  /\ loads' = [loads EXCEPT ![l].status = status]
  /\ UNCHANGED <<champions, calls, evals, pending, counters>>

RefuseLoad(l) ==
  /\ loads[l].body.media \in DOMAIN LoadStatus
  /\ AnswerLoad(l, LoadStatus[loads[l].body.media])
  /\ UNCHANGED challengers

HasRules(l) == loads[l].body.media \in {"csv", "json"}

\* writeDiagnoseRejection and statusForLoadErr.
LoadFails(l) ==
  /\ HasRules(l)
  /\ LoaderOf(loads[l].body).err # "none"
  /\ AnswerLoad(l, IF LoaderOf(loads[l].body).err = "internal" THEN 500 ELSE 400)
  /\ UNCHANGED challengers

LoadSucceeds(l) ==
  /\ HasRules(l)
  /\ LoaderOf(loads[l].body).err = "none"
  /\ AnswerLoad(l, 200)
  /\ challengers' = Append(challengers, {LoaderOf(loads[l].body).decider})

ClearChallenger(k) ==
  /\ k \in pending
  /\ pending' = pending \ {k}
  /\ challengers' = Append(challengers, {})
  /\ UNCHANGED <<champions, calls, evals, loads, counters>>

SwapChampion(s) ==
  /\ s \in pending
  /\ pending' = pending \ {s}
  /\ \E d \in Champions :
       champions' = Append(champions, [decider |-> d, at |-> Len(challengers)])
  /\ UNCHANGED <<challengers, calls, evals, loads, counters>>

Next ==
  \/ \E c \in Calls : Handler(c) \/ DeadlinePasses(c) \/ ChallengerReturns(c) \/ Judge(c)
  \/ \E l \in Loads : RefuseLoad(l) \/ LoadFails(l) \/ LoadSucceeds(l)
  \/ \E k \in Clears : ClearChallenger(k)
  \/ \E s \in Swaps : SwapChampion(s)

\* The goroutine of a handler keeps running (net/http, and an engine that
\* returns for the champion); nothing is assumed of the challenger's.
Fairness == \A c \in Calls : WF_vars(Handler(c))

Spec == Init /\ [][Next]_vars /\ Fairness

-----------------------------------------------------------------------------
(* Properties.                                                             *)

ChampionEntry == [decider: Deciders, at: Nat]
CallStatus == {0, 200, 404, 500}
CallRecord ==
  [pc: {"idle", "entered", "captured", "decided", "sampled", "replying", "done"},
   req: Requests, since: Nat, champion: Nat, result: {"none"} \cup DOMAIN StatusOf,
   got: Nat, status: CallStatus]
EvalRecord ==
  [pc: {"none", "running", "returned", "done"}, late: BOOLEAN, onTime: BOOLEAN,
   result: {"none", "error", "deadline", "fired", "no_match"},
   outcome: {"none"} \cup Outcomes]
LoadRecord == [body: Bodies, status: {0, 200, 400, 413, 415, 500}]

TypeOK ==
  /\ champions \in Seq(ChampionEntry) /\ champions # <<>>
  /\ challengers \in Seq(SUBSET Deciders) /\ challengers # <<>>
  /\ \A i \in DOMAIN challengers : Cardinality(challengers[i]) <= 1
  /\ calls \in [Calls -> CallRecord]
  /\ evals \in [Calls -> EvalRecord]
  /\ loads \in [Loads -> LoadRecord]
  /\ pending \subseteq Swaps \cup Clears
  /\ counters \in [Counters -> Nat]

\* A scrape of the counters always adds up: a sampled call is counted in one
\* outcome series once its comparison ended, in none before, and the rates
\* operators read over the samples have the right denominator.
CountersAddUp ==
  LET total == counters["timeout"] + counters["error"] + counters["champion_only"]
                 + counters["challenger_only"] + counters["agree"] + counters["disagree"]
      at(pcs) == Cardinality({c \in Calls : evals[c].pc \in pcs})
      spawning == Cardinality({c \in Calls : calls[c].pc = "sampled"})
  IN /\ counters["sampled"] = total + at({"running", "returned"}) + spawning
     /\ counters["durations"] = total + at({"returned"})

\* The challenger of a comparison was in force after the call came in, and
\* after its champion went in: who loads a challenger and then reloads the
\* champion never sees the new champion compared with the old challenger, and
\* a challenger that was cleared is compared in no later call.
PairNeverStale ==
  \A c \in Calls : calls[c].got # 0 =>
    /\ calls[c].got >= calls[c].since
    /\ calls[c].got >= champions[calls[c].champion].at
    /\ challengers[calls[c].got] # {}

\* Only what the caller was, or will be, answered is compared: a decision, or
\* that there is none; never a call that ends in a 500.
ComparedIsAnswered ==
  \A c \in Calls : calls[c].got # 0 => calls[c].status \in {0, 200, 404}
                                       /\ calls[c].result # "failed"

\* A challenger that missed the deadline is a timeout, whatever it answered
\* in the end, and only such a challenger is.
LateIsTimeout ==
  \A c \in Calls : evals[c].pc = "done" =>
    /\ ~evals[c].onTime => evals[c].outcome = "timeout"
    /\ evals[c].outcome = "timeout" => evals[c].late

\* A challenger with the champion's own rules is never counted against it,
\* unless the factor they decide on is no finite number: NaN is at no distance
\* of anything, nor is an infinity of itself.
SelfComparisonAgrees ==
  \A c \in Calls :
    /\ evals[c].pc = "done"
    /\ Challenger(c) = Champion(c)
    /\ Matched(Champion(c), calls[c].req) => FactorOf(Champion(c), calls[c].req) \in Int
    => evals[c].outcome \in {"agree", "timeout", "error"}

\* A CSV challenger passed Diagnose, as ADR-0031 has it, with no file between
\* the diagnosis and the rules: what a reload from a file cannot say.
ChallengerIsHealthy ==
  \A l \in Loads : loads[l].body.media = "csv" /\ loads[l].status = 200 =>
    /\ IsHealthy(loads[l].body.content.rules)
    /\ \E i \in DOMAIN challengers : challengers[i] = {LoaderOf(loads[l].body).decider}

\* How far the handler of a call is, and what it has copied so far.
CallStage(c) ==
  LET me == calls[c]
  IN /\ me.since <= Len(challengers)
     /\ me.pc \notin {"idle", "entered"} => me.champion \in 1 .. Len(champions)
     /\ me.pc \in {"idle", "entered", "captured", "decided"} => me.got = 0
     /\ me.pc \notin {"idle", "entered", "captured"} =>
          me.result \in {"failed", Verdict(Champion(c), me.req)}
     /\ me.pc = "sampled" => me.got # 0
     /\ me.got # 0 => /\ me.result # "failed" /\ me.got \in me.since .. Len(challengers)
                      /\ champions[me.champion].at <= me.got /\ challengers[me.got] # {}
     /\ me.status = IF me.pc = "done" THEN StatusOf[me.result] ELSE 0

\* How far the comparison of a call is, and what it has concluded.
EvalStage(c) ==
  LET me == evals[c]
  IN /\ me.pc # "none" => calls[c].got # 0 /\ calls[c].pc \in {"replying", "done"}
     /\ me.pc \in {"returned", "done"} => me.result \in Returns(c) /\ (me.onTime \/ me.late)
     /\ me.pc = "done" => me.outcome = Outcome(c)

ShadowInv ==
  /\ TypeOK
  /\ \A i \in DOMAIN champions : champions[i].at \in 1 .. Len(challengers)
  /\ \A c \in Calls : CallStage(c) /\ EvalStage(c)
  /\ ComparedIsAnswered
  /\ ChallengerIsHealthy

\* A call is answered although its challenger never returns.
ResponseDoesNotWait == \A c \in Calls : []<>(calls[c].pc \in {"idle", "done"})

=============================================================================
