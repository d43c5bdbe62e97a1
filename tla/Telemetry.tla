------------------------------ MODULE Telemetry ------------------------------
(***************************************************************************)
(* What one POST /decide leaves behind: the answer, the three spans of     *)
(* --otel-enabled, the Prometheus series of --metrics-enabled, the access  *)
(* and the decision line of the JSON log, and the event handed to the      *)
(* decision sink.  Five pieces of code translate the one error of the      *)
(* Decider chain, each on its own; this module asks whether they tell the  *)
(* same story of a call, and whether the books balance between them.       *)
(*                                                                         *)
(* Every layer is wired; a layer left out is the identity.  Which rule     *)
(* fires and which guardrail vetoes is module Serving's subject and free   *)
(* here; the shadow comparison is module Shadow's.  A decision is its      *)
(* factor.  A call is one-shot and its name is also its correlation ID,    *)
(* its trace and, when one could be minted, its decision ID.               *)
(***************************************************************************)
EXTENDS Integers, Sequences, FiniteSets

CONSTANTS
  Calls,    \* the requests
  Factors,  \* the factors the rule set in force may answer with
  NaN,      \* the factor JSON cannot encode (any NaN or infinity)
  Spans,    \* the spans of the upstream caller
  NoSpan    \* no traceparent header: the context carries no span

ASSUME TelemetryAssumption ==
  /\ Factors \subseteq Int \cup {NaN} /\ 0 \notin Factors /\ NaN \notin Int
  /\ NoSpan \notin Spans

VARIABLES calls, count, dur, log, published
vars == <<calls, count, dur, log, published>>

\* What the error of a Decider is, as errors.Is tells.
Errors == {"none", "no_match", "canceled", "deadline", "failed"}
Layers == {"engine", "guardrails", "decide"}

\* markup.Decision{}: the factor of a Decision nobody filled in.
Zero == 0

-----------------------------------------------------------------------------
(* The five translations.                                                  *)

\* otel tracedDecider.Decide: what a span is ended with.  tag is the
\* cancellation or no-match attribute ("plain": none), failed the status Error.
NoEnd == [tag |-> "open", failed |-> FALSE, factor |-> Zero]

\* Faulty: a cancellation falls through to the server errors.
SpanEnd_Canceled(err, factor) ==
  CASE err = "no_match" -> [tag |-> "no_match", failed |-> FALSE, factor |-> Zero]
    [] err \in {"canceled", "deadline", "failed"} ->
         [tag |-> "plain", failed |-> TRUE, factor |-> Zero]
    [] err = "none"     -> [tag |-> "plain", failed |-> FALSE, factor |-> factor]

SpanEnd(err, factor) ==
  CASE err = "no_match" -> [tag |-> "no_match", failed |-> FALSE, factor |-> Zero]
    [] err = "canceled" -> [tag |-> "canceled", failed |-> FALSE, factor |-> Zero]
    [] err = "deadline" -> [tag |-> "deadline_exceeded", failed |-> FALSE, factor |-> Zero]
    [] err = "failed"   -> [tag |-> "plain", failed |-> TRUE, factor |-> Zero]
    [] err = "none"     -> [tag |-> "plain", failed |-> FALSE, factor |-> factor]

\* meteredDecider.Decide, and the label prom.outcomeFor makes of its metric.
Metric(err) ==
  [noMatch  |-> err = "no_match",
   canceled |-> err \in {"canceled", "deadline"},
   reason   |-> CASE err = "canceled" -> "canceled"
                  [] err = "deadline" -> "deadline_exceeded"
                  [] OTHER            -> "none",
   err      |-> err = "failed"]

Label(m) ==
  CASE m.noMatch -> "no_match"
    [] ~m.noMatch /\ m.canceled ->
         IF m.reason = "deadline_exceeded" THEN "deadline" ELSE "canceled"
    [] ~m.noMatch /\ ~m.canceled -> IF m.err THEN "error" ELSE "ok"

Labels == {"ok", "no_match", "canceled", "deadline", "error"}

\* httpapi.outcomeFor: decide_outcome and whether errorMsg is set.
Outcome(err) ==
  CASE err = "none"     -> "ok"
    [] err = "no_match" -> "no_match"
    [] err = "canceled" -> "canceled"
    [] err = "deadline" -> "deadline_exceeded"
    [] err = "failed"   -> "error"
HasErrorMsg(err) == err \notin {"none", "no_match"}

\* The status switch of the Decide handler: a client that went away gets no
\* status of its own.
Status(outcome) == CASE outcome = "ok"       -> 200
                     [] outcome = "no_match" -> 404
                     [] OTHER                -> 500

-----------------------------------------------------------------------------
Fresh == [pc |-> "idle", parent |-> NoSpan, gone |-> FALSE, err |-> "none",
          factor |-> Zero, hasId |-> FALSE, entry |-> FALSE, status |-> 0,
          body |-> "unwritten", spans |-> [l \in Layers |-> NoEnd]]

Init ==
  /\ calls = [c \in Calls |-> Fresh]
  /\ count = [l \in Labels |-> 0]
  /\ dur = [l \in Labels |-> 0]
  /\ log = <<>>
  /\ published = <<>>

\* A step of the handler of c that touches none of the shared state.
Goes(c, call) ==
  /\ calls' = [calls EXCEPT ![c] = call]
  /\ UNCHANGED <<count, dur, log, published>>

Moves(c, from, to) == calls[c].pc = from /\ calls' = [calls EXCEPT ![c].pc = to]

-----------------------------------------------------------------------------
(* WithCorrelationID, outside of the access log, and WithTraceContext.     *)

NoCorrelationID(c) ==
  /\ calls[c].pc = "idle"
  /\ Goes(c, [calls[c] EXCEPT !.pc = "done", !.status = 500, !.body = "error"])

Arrive(c) ==
  /\ calls[c].pc = "idle"
  /\ \E parent \in Spans \cup {NoSpan} :
       Goes(c, [calls[c] EXCEPT !.pc = "received", !.parent = parent])

\* The client hangs up, which cancels the context of its request.
HangUp(c) ==
  /\ calls[c].pc \in {"received", "deciding"} /\ ~calls[c].gone
  /\ Goes(c, [calls[c] EXCEPT !.gone = TRUE])

\* A wrong method or a malformed body: answered, without a decision.
RefuseRequest(c) ==
  /\ calls[c].pc = "received"
  /\ \E status \in {400, 405} :
       Goes(c, [calls[c] EXCEPT !.pc = "answered", !.status = status, !.body = "error"])

\* newDecisionID: "" when the random source fails.
MintDecisionID(c) ==
  /\ calls[c].pc = "received"
  /\ \E minted \in BOOLEAN :
       Goes(c, [calls[c] EXCEPT !.pc = "deciding", !.hasId = minted])

-----------------------------------------------------------------------------
(* The Decider chain, inside out.                                          *)

\* A rule fires, none does, or the engine fails; it may notice that the
\* context is canceled.  Nothing gives that context a deadline.
EngineReturns(c) ==
  /\ calls[c].pc = "deciding"
  /\ \E err \in Errors \ {"deadline"}, factor \in Factors \cup {Zero} :
       /\ err = "none" <=> factor # Zero
       /\ err = "canceled" => calls[c].gone
       /\ Goes(c, [calls[c] EXCEPT !.pc = "evaluated", !.err = err, !.factor = factor,
                                   !.spans["engine"] = SpanEnd(err, factor)])

\* The spans of the guardrails and of the whole chain end.
Outer(call, err, factor) ==
  [call EXCEPT !.pc = "decided", !.err = err, !.factor = factor,
               !.spans["guardrails"] = SpanEnd(err, factor),
               !.spans["decide"] = SpanEnd(err, factor)]

PassGuardrails(c) ==
  /\ calls[c].pc = "evaluated"
  /\ Goes(c, Outer(calls[c], calls[c].err, calls[c].factor))

\* Faulty: a violation is reported, and the decision let out nevertheless.
Veto_Monitor(c) ==
  /\ calls[c].pc = "evaluated" /\ calls[c].err = "none"
  /\ Goes(c, [Outer(calls[c], "none", calls[c].factor)
                EXCEPT !.spans["guardrails"] = SpanEnd("failed", Zero)])

Veto(c) ==
  /\ calls[c].pc = "evaluated" /\ calls[c].err = "none"
  /\ Goes(c, Outer(calls[c], "failed", Zero))

\* prom.Sink.RecordDecision: a scrape may fall between the two.
LabelOf(c) == Label(Metric(calls[c].err))

\* Faulty: only decisions are counted.
CountDecision_Ok(c) ==
  /\ Moves(c, "decided", "counted")
  /\ count' = [count EXCEPT ![LabelOf(c)] = @ + (IF calls[c].err = "none" THEN 1 ELSE 0)]
  /\ UNCHANGED <<dur, log, published>>

CountDecision(c) ==
  /\ Moves(c, "decided", "counted")
  /\ count' = [count EXCEPT ![LabelOf(c)] = @ + 1]
  /\ UNCHANGED <<dur, log, published>>

ObserveDuration(c) ==
  /\ Moves(c, "counted", "observed")
  /\ dur' = [dur EXCEPT ![LabelOf(c)] = @ + 1]
  /\ UNCHANGED <<count, log, published>>

-----------------------------------------------------------------------------
(* The answer and, behind it, the access log.                              *)

OutcomeOf(c) == Outcome(calls[c].err)

\* A JSON encoder given a value it cannot encode writes nothing, and neither
\* the handler nor the log writer looks at its error.
Encodable(factor) == factor # NaN

Body(outcome, factor) ==
  CASE outcome # "ok" -> "error"
    [] outcome = "ok" -> IF Encodable(factor) THEN "decision" ELSE "empty"

\* The log entry is put on the request, then the answer is written.
Answer(c) ==
  /\ calls[c].pc = "observed"
  /\ Goes(c, [calls[c] EXCEPT
       !.pc = "answered", !.entry = TRUE, !.status = Status(OutcomeOf(c)),
       !.body = Body(OutcomeOf(c), calls[c].factor)])

\* decisionLogEntry.decision: filled in for the outcome ok only.
EntryFactor(c) == IF OutcomeOf(c) = "ok" THEN calls[c].factor ELSE Zero

Write(line) == log' = IF Encodable(line.factor) THEN Append(log, line) ELSE log

AccessLine(c) == [msg |-> "access", call |-> c, status |-> calls[c].status,
                  factor |-> EntryFactor(c), span |-> calls[c].parent]

\* Whether a decision line and an event follow.
HasEvent(c) == calls[c].entry /\ calls[c].hasId

LogAccess(c) ==
  /\ Moves(c, "answered", IF HasEvent(c) THEN "accessed" ELSE "done")
  /\ Write(AccessLine(c))
  /\ UNCHANGED <<count, dur, published>>

\* decisionEventAttrs; span_id is read from the context of the request, which
\* the spans of the Decider chain never reach.
DecisionLine(c) ==
  [msg |-> "decision", call |-> c, outcome |-> OutcomeOf(c),
   error |-> HasErrorMsg(calls[c].err), factor |-> EntryFactor(c),
   span |-> calls[c].parent]

\* Faulty: the line is written on either side of the window in which ADR-0035
\* moves the fields from the access line.
LogDecision_Twice(c) ==
  /\ Moves(c, "accessed", "logged")
  /\ log' = log \o <<DecisionLine(c), DecisionLine(c)>>
  /\ UNCHANGED <<count, dur, published>>

LogDecision(c) ==
  /\ Moves(c, "accessed", "logged")
  /\ Write(DecisionLine(c))
  /\ UNCHANGED <<count, dur, published>>

\* buildSinkEvent, filled in separately from the attributes of the line.
SinkEvent(c) ==
  [call |-> c, outcome |-> OutcomeOf(c), error |-> HasErrorMsg(calls[c].err),
   factor |-> EntryFactor(c), span |-> calls[c].parent]

\* Faulty: what the log could not take is kept from the sink as well.
Publish_Logged(c) ==
  /\ Moves(c, "logged", "done")
  /\ published' = IF Encodable(EntryFactor(c)) THEN Append(published, SinkEvent(c))
                                              ELSE published
  /\ UNCHANGED <<count, dur, log>>

Publish(c) ==
  /\ Moves(c, "logged", "done")
  /\ published' = Append(published, SinkEvent(c))
  /\ UNCHANGED <<count, dur, log>>

-----------------------------------------------------------------------------
Handler(c) ==
  \/ Arrive(c) \/ NoCorrelationID(c) \/ RefuseRequest(c) \/ MintDecisionID(c)
  \/ EngineReturns(c) \/ PassGuardrails(c) \/ Veto(c)
  \/ CountDecision(c) \/ ObserveDuration(c)
  \/ Answer(c) \/ LogAccess(c) \/ LogDecision(c) \/ Publish(c)

Next == \E c \in Calls : Handler(c) \/ HangUp(c)

\* The runtime schedules a handler that has begun (and so its engine, which
\* computes in memory, returns); requests need not come.
Fairness == \A c \in Calls : WF_vars(calls[c].pc # "idle" /\ Handler(c))

Spec == Init /\ [][Next]_vars /\ Fairness

-----------------------------------------------------------------------------
(* Properties.                                                             *)

Stages == {"idle", "received", "deciding", "evaluated", "decided", "counted",
           "observed", "answered", "accessed", "logged", "done"}
SpanEnds == [tag: {"open", "plain", "no_match", "canceled", "deadline_exceeded"},
             failed: BOOLEAN, factor: Factors \cup {Zero}]
Call == [pc: Stages, parent: Spans \cup {NoSpan}, gone: BOOLEAN, err: Errors,
         factor: Factors \cup {Zero}, hasId: BOOLEAN, entry: BOOLEAN,
         status: {0, 200, 400, 404, 405, 500}, body: {"unwritten", "error", "empty", "decision"},
         spans: [Layers -> SpanEnds]]
Event == [call: Calls, outcome: {Outcome(err) : err \in Errors}, error: BOOLEAN,
          factor: Factors \cup {Zero}, span: Spans \cup {NoSpan}]
Access == [msg: {"access"}, call: Calls, status: {200, 400, 404, 405, 500},
           factor: Factors \cup {Zero}, span: Spans \cup {NoSpan}]
\* The line a sink's event should have in the log.
AsLine(e) == [msg |-> "decision", call |-> e.call, outcome |-> e.outcome,
              error |-> e.error, factor |-> e.factor, span |-> e.span]
Line == {line \in Access \cup {AsLine(e) : e \in Event} : Encodable(line.factor)}

TypeOK ==
  /\ calls \in [Calls -> Call]
  /\ count \in [Labels -> Nat] /\ dur \in [Labels -> Nat]
  /\ log \in Seq(Line) /\ published \in Seq(Event)

Counted(c) == \/ calls[c].entry
              \/ calls[c].pc \in {"counted", "observed"}
Reported(c) == calls[c].hasId /\ calls[c].pc = "done"

\* The books balance at every instant: a series of markup_decide_total is the
\* number of events of its outcome, plus the calls counted that are still on
\* their way to the sink or have no decision ID to go there under; and the
\* histogram lacks only the calls between the two updates.  ADR-0035:
\* decide_outcome "matches the metric label set".
BooksBalance ==
  \A err \in Errors :
    LET l    == Label(Metric(err))
        mine == {c \in Calls : Counted(c) /\ calls[c].err = err}
    IN /\ count[l] = Cardinality({i \in DOMAIN published : published[i].outcome = Outcome(err)})
                       + Cardinality({c \in mine : ~Reported(c)})
       /\ dur[l] = count[l] - Cardinality({c \in mine : calls[c].pc = "counted"})

\* The event, the span of the call and the answer tell one story, although
\* each translates the error on its own: ADR-0010's outcome table.
SignalsAgree ==
  \A i \in DOMAIN published :
    LET e    == published[i]
        call == calls[e.call]
        span == call.spans["decide"]
    IN /\ span.tag = IF e.outcome \in {"ok", "error"} THEN "plain" ELSE e.outcome
       /\ span.failed <=> e.outcome = "error"
       /\ span.factor = e.factor
       /\ call.status = 200 <=> e.outcome = "ok"
       /\ call.status = 404 <=> e.outcome = "no_match"

Lines(c, msg) == {i \in DOMAIN log : log[i].call = c /\ log[i].msg = msg}

\* The two lines of a call: the access line alone, or both and in this order.
OnlyAccess(c) == Lines(c, "decision") = {} /\ \E i \in DOMAIN log : Lines(c, "access") = {i}
BothLines(c, line) ==
  \E i, j \in DOMAIN log :
    /\ Lines(c, "access") = {i} /\ Lines(c, "decision") = {j} /\ i < j
    /\ log[j] = line
NoLines(c) == Lines(c, "access") = {} /\ Lines(c, "decision") = {}

\* What the handler of c has fixed when it stands where it does: nothing before
\* the engine returned, or when the request was refused; then the error and the
\* factor that its spans, its answer, its lines and its event are made of.
Decided(c) == calls[c].entry \/ calls[c].pc \in {"decided", "counted", "observed"}
CallStage(c) ==
  LET end     == SpanEnd(calls[c].err, calls[c].factor)
      ends(l) == calls[c].spans[l]
  IN /\ calls[c].pc # "evaluated" /\ ~Decided(c) =>
          /\ calls[c].err = "none" /\ calls[c].factor = Zero
          /\ \A l \in Layers : ends(l) = NoEnd
     /\ calls[c].pc = "evaluated" \/ Decided(c) =>
          calls[c].err = "none" <=> calls[c].factor # Zero
     /\ calls[c].pc = "evaluated" =>
          ends("engine") = end /\ ends("guardrails") = NoEnd /\ ends("decide") = NoEnd
     /\ Decided(c) => ends("guardrails") = end /\ ends("decide") = end
     /\ calls[c].entry =>
          /\ calls[c].pc \in {"answered", "accessed", "logged", "done"}
          /\ calls[c].status = Status(OutcomeOf(c))
          /\ calls[c].body = Body(OutcomeOf(c), calls[c].factor)
     /\ ~calls[c].entry /\ calls[c].pc \in {"answered", "done"} =>
          calls[c].status \in {400, 405, 500} /\ calls[c].body = "error"
     /\ calls[c].pc \notin {"answered", "accessed", "logged", "done"} =>
          calls[c].status = 0 /\ calls[c].body = "unwritten"
     /\ calls[c].pc \in {"accessed", "logged"} => HasEvent(c)

LogStage(c) ==
  /\ calls[c].pc \notin {"accessed", "logged", "done"} => NoLines(c)
  /\ calls[c].pc = "accessed" =>
       IF Encodable(EntryFactor(c)) THEN OnlyAccess(c) ELSE NoLines(c)
  /\ calls[c].pc = "logged" \/ (calls[c].pc = "done" /\ HasEvent(c)) =>
       IF Encodable(EntryFactor(c)) THEN BothLines(c, DecisionLine(c)) ELSE NoLines(c)
  /\ \A i \in DOMAIN log : log[i].call = c => log[i].factor = EntryFactor(c)

EventStage ==
  \A i \in DOMAIN published :
    LET c == published[i].call
    IN calls[c].pc = "done" /\ HasEvent(c) /\ published[i] = SinkEvent(c)

TelemetryInv ==
  TypeOK /\ (\A c \in Calls : CallStage(c) /\ LogStage(c)) /\ EventStage /\ SignalsAgree

Vetoed(c) == calls[c].spans["engine"].factor # Zero /\ calls[c].spans["guardrails"].failed

\* What a guardrail vetoed is seen in the engine's span and nowhere else: no
\* line, event, outer span or answer carries the factor (ADR-0014: "a veto is
\* an error", accesslog.go: no "stale values onto the sink").
VetoStaysInside ==
  \A c \in Calls : Vetoed(c) =>
    /\ calls[c].body # "decision" /\ calls[c].status \in {0, 500}
    /\ calls[c].spans["decide"].factor = Zero
    /\ \A i \in DOMAIN log : log[i].call = c => log[i].factor = Zero
    /\ \A i \in DOMAIN published : published[i].call = c => published[i].factor = Zero

\* The log is a faithful copy of what the sink was handed (ADR-0036: the same
\* markup.decision.v1 event): one line, equal in every field and behind the
\* call's one access line, unless the factor is one JSON cannot encode.
LogMatchesSink ==
  \A n \in DOMAIN published :
    LET e == published[n]
    IN IF Encodable(e.factor)
       THEN BothLines(e.call, AsLine(e))
       ELSE NoLines(e.call)

\* A call answered 200 under a decision ID reaches the sink, also when neither
\* the answer nor the log could carry its factor.
AnswerIsReported ==
  \A c \in Calls :
    (calls[c].status = 200 /\ calls[c].hasId)
      ~> (\E i \in DOMAIN published :
            published[i].call = c /\ published[i].factor = calls[c].factor)

=============================================================================
