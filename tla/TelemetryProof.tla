--------------------------- MODULE TelemetryProof ---------------------------
(***************************************************************************)
(* Proofs about Telemetry, for any calls, factors and upstream spans.      *)
(* TelemetryInv is the inductive invariant: what the handler of a call has *)
(* fixed at each of its stages, and what it has left in the log and the    *)
(* sink.  That finitely many calls have come in, which the balance of the  *)
(* books needs, is part of an invariant of its own.                        *)
(***************************************************************************)
EXTENDS Telemetry, FiniteSetTheorems, TLAPS

-----------------------------------------------------------------------------
(* The translations.                                                       *)

\* The span that an error ends, and what can be read off it.
LEMMA SpanEndOK ==
  ASSUME NEW err \in Errors, NEW factor \in Factors \cup {Zero}
  PROVE  /\ SpanEnd(err, factor) \in SpanEnds
         /\ SpanEnd(err, factor).tag = IF Outcome(err) \in {"ok", "error"} THEN "plain" ELSE Outcome(err)
         /\ SpanEnd(err, factor).failed <=> err = "failed"
         /\ SpanEnd(err, factor).factor = IF err = "none" THEN factor ELSE Zero
<1>1. CASE err = "none"
  BY <1>1 DEF SpanEnd, SpanEnds, Outcome
<1>2. CASE err = "no_match"
  BY <1>2 DEF SpanEnd, SpanEnds, Outcome
<1>3. CASE err = "canceled"
  BY <1>3 DEF SpanEnd, SpanEnds, Outcome
<1>4. CASE err = "deadline"
  BY <1>4 DEF SpanEnd, SpanEnds, Outcome
<1>5. CASE err = "failed"
  BY <1>5 DEF SpanEnd, SpanEnds, Outcome
<1> QED BY <1>1, <1>2, <1>3, <1>4, <1>5 DEF Errors

LEMMA NoEndOK == NoEnd \in SpanEnds /\ NoEnd.factor = Zero /\ ~NoEnd.failed
BY DEF NoEnd, SpanEnds

\* Of an outcome the error can be read back, and the status that answers it.
LEMMA OutcomeOK ==
  ASSUME NEW err \in Errors
  PROVE  /\ Outcome(err) = "ok" <=> err = "none"
         /\ Outcome(err) = "no_match" <=> err = "no_match"
         /\ Outcome(err) = "error" <=> err = "failed"
         /\ Status(Outcome(err)) = IF err = "none" THEN 200
                                   ELSE IF err = "no_match" THEN 404 ELSE 500
         /\ \A e \in Errors : Outcome(e) = Outcome(err) => e = err
<1>1. CASE err = "none"
  BY <1>1 DEF Outcome, Status, Errors
<1>2. CASE err = "no_match"
  BY <1>2 DEF Outcome, Status, Errors
<1>3. CASE err = "canceled"
  BY <1>3 DEF Outcome, Status, Errors
<1>4. CASE err = "deadline"
  BY <1>4 DEF Outcome, Status, Errors
<1>5. CASE err = "failed"
  BY <1>5 DEF Outcome, Status, Errors
<1> QED BY <1>1, <1>2, <1>3, <1>4, <1>5 DEF Errors

LEMMA BodyOK ==
  ASSUME NEW outcome, NEW factor
  PROVE  /\ Body(outcome, factor) \in {"unwritten", "error", "empty", "decision"}
         /\ Body(outcome, factor) = "decision" => outcome = "ok"
BY DEF Body

\* Every error has a series of its own.
LEMMA LabelOK ==
  ASSUME NEW err \in Errors
  PROVE  /\ Label(Metric(err)) \in Labels
         /\ \A e \in Errors : Label(Metric(e)) = Label(Metric(err)) => e = err
<1>1. Label(Metric("none")) = "ok"
  BY DEF Label, Metric
<1>2. Label(Metric("no_match")) = "no_match"
  BY DEF Label, Metric
<1>3. Label(Metric("canceled")) = "canceled"
  BY DEF Label, Metric
<1>4. Label(Metric("deadline")) = "deadline"
  BY DEF Label, Metric
<1>5. Label(Metric("failed")) = "error"
  BY DEF Label, Metric
<1> QED BY <1>1, <1>2, <1>3, <1>4, <1>5 DEF Errors, Labels

-----------------------------------------------------------------------------
(* Types of the records.                                                   *)

Statuses == {0, 200, 400, 404, 405, 500}
Bodies == {"unwritten", "error", "empty", "decision"}

\* A record stays a Call when a field of it is given a value of the field's
\* type.
LEMMA CallFields ==
  ASSUME NEW me \in Call
  PROVE  /\ \A v \in Stages : [me EXCEPT !.pc = v] \in Call
         /\ \A v \in Spans \cup {NoSpan} : [me EXCEPT !.parent = v] \in Call
         /\ \A v \in BOOLEAN : [me EXCEPT !.gone = v] \in Call
         /\ \A v \in Errors : [me EXCEPT !.err = v] \in Call
         /\ \A v \in Factors \cup {Zero} : [me EXCEPT !.factor = v] \in Call
         /\ \A v \in BOOLEAN : [me EXCEPT !.hasId = v] \in Call
         /\ \A v \in BOOLEAN : [me EXCEPT !.entry = v] \in Call
         /\ \A v \in Statuses : [me EXCEPT !.status = v] \in Call
         /\ \A v \in Bodies : [me EXCEPT !.body = v] \in Call
         /\ \A l \in Layers, v \in SpanEnds : [me EXCEPT !.spans[l] = v] \in Call
BY DEF Call, Statuses, Bodies

-----------------------------------------------------------------------------
(* What the steps of a handler do to its record, field by field.           *)

KeepsSpans(c) == calls'[c].spans = calls[c].spans
KeepsResult(c) == calls'[c].err = calls[c].err /\ calls'[c].factor = calls[c].factor
KeepsAnswer(c) == /\ calls'[c].entry = calls[c].entry /\ calls'[c].status = calls[c].status
                  /\ calls'[c].body = calls[c].body
KeepsNames(c) == calls'[c].hasId = calls[c].hasId /\ calls'[c].parent = calls[c].parent

\* Everything before the engine returns: arrival, hang-up, decision ID.
Waits(c) ==
  /\ calls[c].pc \in {"idle", "received", "deciding"}
  /\ calls'[c].pc \in {"received", "deciding"}
  /\ KeepsSpans(c) /\ KeepsResult(c) /\ KeepsAnswer(c)

Refuses(c) ==
  /\ calls[c].pc \in {"idle", "received"} /\ calls'[c].pc \in {"answered", "done"}
  /\ calls'[c].status \in {400, 405, 500} /\ calls'[c].body = "error"
  /\ calls'[c].entry = calls[c].entry
  /\ KeepsSpans(c) /\ KeepsResult(c) /\ KeepsNames(c)

Evaluates(c) ==
  /\ calls[c].pc = "deciding" /\ calls'[c].pc = "evaluated"
  /\ calls'[c].err = "none" <=> calls'[c].factor # Zero
  /\ calls'[c].spans["engine"] = SpanEnd(calls'[c].err, calls'[c].factor)
  /\ calls'[c].spans["guardrails"] = calls[c].spans["guardrails"]
  /\ calls'[c].spans["decide"] = calls[c].spans["decide"]
  /\ KeepsAnswer(c) /\ KeepsNames(c)

Leaves(c) ==
  /\ calls[c].pc = "evaluated" /\ calls'[c].pc = "decided"
  /\ KeepsResult(c) \/ (calls'[c].err = "failed" /\ calls'[c].factor = Zero)
  /\ calls'[c].spans["engine"] = calls[c].spans["engine"]
  /\ calls'[c].spans["guardrails"] = SpanEnd(calls'[c].err, calls'[c].factor)
  /\ calls'[c].spans["decide"] = SpanEnd(calls'[c].err, calls'[c].factor)
  /\ KeepsAnswer(c) /\ KeepsNames(c)

\* Only the place changes.
Advances(c) == KeepsSpans(c) /\ KeepsResult(c) /\ KeepsAnswer(c) /\ KeepsNames(c)

Answers(c) ==
  /\ calls[c].pc = "observed" /\ calls'[c].pc = "answered" /\ calls'[c].entry = TRUE
  /\ calls'[c].status = Status(OutcomeOf(c))
  /\ calls'[c].body = Body(OutcomeOf(c), calls[c].factor)
  /\ KeepsSpans(c) /\ KeepsResult(c) /\ KeepsNames(c)

\* A step in front of the answer: of the record alone.
Decides(c) ==
  /\ Waits(c) \/ Refuses(c) \/ Evaluates(c) \/ Leaves(c) \/ Answers(c)
  /\ UNCHANGED <<count, dur, log, published>>
\* A step that writes a series, a line or an event.
Reports(c) ==
  /\ Advances(c)
  /\ \/ /\ calls[c].pc = "decided" /\ calls'[c].pc = "counted"
        /\ CountDecision(c)
     \/ /\ calls[c].pc = "counted" /\ calls'[c].pc = "observed"
        /\ ObserveDuration(c)
     \/ /\ calls[c].pc = "answered" /\ calls'[c].pc = (IF HasEvent(c) THEN "accessed" ELSE "done")
        /\ LogAccess(c)
     \/ /\ calls[c].pc = "accessed" /\ calls'[c].pc = "logged"
        /\ LogDecision(c)
     \/ /\ calls[c].pc = "logged" /\ calls'[c].pc = "done"
        /\ Publish(c)

LEMMA ReplacesCall ==
  ASSUME TypeOK, NEW c \in Calls, NEW call \in Call, calls' = [calls EXCEPT ![c] = call]
  PROVE  /\ calls' \in [Calls -> Call] /\ calls'[c] = call
         /\ \A d \in Calls : d # c => calls'[d] = calls[d]
BY DEF TypeOK

LEMMA OuterOK ==
  ASSUME NEW me \in Call, NEW err \in Errors, NEW factor \in Factors \cup {Zero}
  PROVE  /\ Outer(me, err, factor) \in Call
         /\ Outer(me, err, factor).pc = "decided"
         /\ Outer(me, err, factor).err = err /\ Outer(me, err, factor).factor = factor
         /\ Outer(me, err, factor).spans["engine"] = me.spans["engine"]
         /\ Outer(me, err, factor).spans["guardrails"] = SpanEnd(err, factor)
         /\ Outer(me, err, factor).spans["decide"] = SpanEnd(err, factor)
         /\ Outer(me, err, factor).entry = me.entry /\ Outer(me, err, factor).status = me.status
         /\ Outer(me, err, factor).body = me.body /\ Outer(me, err, factor).hasId = me.hasId
         /\ Outer(me, err, factor).parent = me.parent
<1> DEFINE end == SpanEnd(err, factor)
           me1 == [me EXCEPT !.pc = "decided"]
           me2 == [me1 EXCEPT !.err = err]
           me3 == [me2 EXCEPT !.factor = factor]
           me4 == [me3 EXCEPT !.spans["guardrails"] = end]
           me5 == [me4 EXCEPT !.spans["decide"] = end]
<1>1. end \in SpanEnds
  BY SpanEndOK
<1> HIDE DEF end
<1>2. me1 \in Call
  BY CallFields DEF Stages
<1>3. me2 \in Call
  <2> HIDE DEF me1
  <2> QED BY <1>2, CallFields
<1>4. me3 \in Call
  <2> HIDE DEF me2
  <2> QED BY <1>3, CallFields
<1>5. me4 \in Call
  <2> HIDE DEF me3
  <2> QED BY <1>1, <1>4, CallFields DEF Layers
<1>6. me5 \in Call
  <2> HIDE DEF me4
  <2> QED BY <1>1, <1>5, CallFields DEF Layers
<1>7. Outer(me, err, factor) = me5
  BY DEF Outer, end
<1>8. /\ me5.pc = "decided" /\ me5.err = err /\ me5.factor = factor
      /\ me5.spans["engine"] = me.spans["engine"]
      /\ me5.spans["guardrails"] = end /\ me5.spans["decide"] = end
      /\ me5.entry = me.entry /\ me5.status = me.status
      /\ me5.body = me.body /\ me5.hasId = me.hasId /\ me5.parent = me.parent
  BY DEF Call, Layers
<1> QED BY <1>6, <1>7, <1>8 DEF end

-----------------------------------------------------------------------------
(* Each action has one of these effects.                                   *)

LEMMA ReceiveSets ==
  ASSUME TypeOK, NEW c \in Calls, Arrive(c) \/ HangUp(c) \/ MintDecisionID(c)
  PROVE  /\ calls' \in [Calls -> Call] /\ Decides(c)
         /\ \A d \in Calls : d # c => calls'[d] = calls[d]
<1>1. calls[c] \in Call
  BY DEF TypeOK
<1>2. CASE Arrive(c)
  <2>1. PICK parent \in Spans \cup {NoSpan} :
          Goes(c, [calls[c] EXCEPT !.pc = "received", !.parent = parent])
    BY <1>2 DEF Arrive
  <2> DEFINE me1 == [calls[c] EXCEPT !.pc = "received"]
             me2 == [me1 EXCEPT !.parent = parent]
  <2>2. me1 \in Call
    BY <1>1, CallFields DEF Stages
  <2>3. me2 \in Call
    <3> HIDE DEF me1
    <3> QED BY <2>2, CallFields
  <2>4. calls' = [calls EXCEPT ![c] = me2] /\ UNCHANGED <<count, dur, log, published>>
    BY <2>1 DEF Goes
  <2>5. /\ me2.pc = "received" /\ me2.spans = calls[c].spans /\ me2.err = calls[c].err
        /\ me2.factor = calls[c].factor /\ me2.entry = calls[c].entry
        /\ me2.status = calls[c].status /\ me2.body = calls[c].body
    BY <1>1 DEF Call
  <2> HIDE DEF me1, me2
  <2>6. /\ calls' \in [Calls -> Call] /\ calls'[c] = me2
        /\ \A d \in Calls : d # c => calls'[d] = calls[d]
    BY <2>3, <2>4, ReplacesCall
  <2> QED BY <1>2, <2>4, <2>5, <2>6
          DEF Arrive, Decides, Waits, KeepsSpans, KeepsResult, KeepsAnswer
<1>3. CASE HangUp(c)
  <2> DEFINE me1 == [calls[c] EXCEPT !.gone = TRUE]
  <2>1. me1 \in Call
    BY <1>1, CallFields
  <2>2. calls' = [calls EXCEPT ![c] = me1] /\ UNCHANGED <<count, dur, log, published>>
    BY <1>3 DEF HangUp, Goes
  <2>3. /\ me1.pc = calls[c].pc /\ me1.spans = calls[c].spans /\ me1.err = calls[c].err
        /\ me1.factor = calls[c].factor /\ me1.entry = calls[c].entry
        /\ me1.status = calls[c].status /\ me1.body = calls[c].body
    BY <1>1 DEF Call
  <2> HIDE DEF me1
  <2>4. /\ calls' \in [Calls -> Call] /\ calls'[c] = me1
        /\ \A d \in Calls : d # c => calls'[d] = calls[d]
    BY <2>1, <2>2, ReplacesCall
  <2> QED BY <1>3, <2>2, <2>3, <2>4
          DEF HangUp, Decides, Waits, KeepsSpans, KeepsResult, KeepsAnswer
<1>4. CASE MintDecisionID(c)
  <2>1. PICK minted \in BOOLEAN :
          Goes(c, [calls[c] EXCEPT !.pc = "deciding", !.hasId = minted])
    BY <1>4 DEF MintDecisionID
  <2> DEFINE me1 == [calls[c] EXCEPT !.pc = "deciding"]
             me2 == [me1 EXCEPT !.hasId = minted]
  <2>2. me1 \in Call
    BY <1>1, CallFields DEF Stages
  <2>3. me2 \in Call
    <3> HIDE DEF me1
    <3>1. CASE minted = TRUE
      BY <2>2, <3>1, CallFields
    <3>2. CASE minted = FALSE
      BY <2>2, <3>2, CallFields
    <3> QED BY <3>1, <3>2
  <2>4. calls' = [calls EXCEPT ![c] = me2] /\ UNCHANGED <<count, dur, log, published>>
    BY <2>1 DEF Goes
  <2>5. /\ me2.pc = "deciding" /\ me2.spans = calls[c].spans /\ me2.err = calls[c].err
        /\ me2.factor = calls[c].factor /\ me2.entry = calls[c].entry
        /\ me2.status = calls[c].status /\ me2.body = calls[c].body
    BY <1>1 DEF Call
  <2> HIDE DEF me1, me2
  <2>6. /\ calls' \in [Calls -> Call] /\ calls'[c] = me2
        /\ \A d \in Calls : d # c => calls'[d] = calls[d]
    BY <2>3, <2>4, ReplacesCall
  <2> QED BY <1>4, <2>4, <2>5, <2>6
          DEF MintDecisionID, Decides, Waits, KeepsSpans, KeepsResult, KeepsAnswer
<1> QED BY <1>2, <1>3, <1>4

LEMMA RefuseSets ==
  ASSUME TypeOK, NEW c \in Calls, NoCorrelationID(c) \/ RefuseRequest(c)
  PROVE  /\ calls' \in [Calls -> Call] /\ Decides(c)
         /\ \A d \in Calls : d # c => calls'[d] = calls[d]
<1>1. calls[c] \in Call
  BY DEF TypeOK
<1>2. PICK pc \in Stages, status \in Statuses :
        /\ calls[c].pc \in {"idle", "received"}
        /\ pc \in {"answered", "done"} /\ status \in {400, 405, 500}
        /\ Goes(c, [calls[c] EXCEPT !.pc = pc, !.status = status, !.body = "error"])
  BY DEF NoCorrelationID, RefuseRequest, Stages, Statuses
<1> DEFINE me1 == [calls[c] EXCEPT !.pc = pc]
           me2 == [me1 EXCEPT !.status = status]
           me3 == [me2 EXCEPT !.body = "error"]
<1>3. me1 \in Call
  BY <1>1, CallFields
<1>4. me2 \in Call
  <2> HIDE DEF me1
  <2> QED BY <1>3, CallFields
<1>5. me3 \in Call
  <2> HIDE DEF me2
  <2> QED BY <1>4, CallFields DEF Bodies
<1>6. calls' = [calls EXCEPT ![c] = me3] /\ UNCHANGED <<count, dur, log, published>>
  BY <1>2 DEF Goes
<1>7. /\ me3.pc = pc /\ me3.status = status /\ me3.body = "error"
      /\ me3.spans = calls[c].spans /\ me3.err = calls[c].err
      /\ me3.factor = calls[c].factor /\ me3.entry = calls[c].entry
      /\ me3.hasId = calls[c].hasId /\ me3.parent = calls[c].parent
  BY <1>1 DEF Call
<1> HIDE DEF me1, me2, me3
<1>8. /\ calls' \in [Calls -> Call] /\ calls'[c] = me3
      /\ \A d \in Calls : d # c => calls'[d] = calls[d]
  BY <1>5, <1>6, ReplacesCall
<1>9. Refuses(c)
  BY <1>2, <1>7, <1>8 DEF Refuses, KeepsSpans, KeepsResult, KeepsNames
<1> QED BY <1>6, <1>8, <1>9 DEF Decides

LEMMA EngineSets ==
  ASSUME TypeOK, NEW c \in Calls, EngineReturns(c)
  PROVE  /\ calls' \in [Calls -> Call] /\ Decides(c)
         /\ \A d \in Calls : d # c => calls'[d] = calls[d]
<1>1. calls[c] \in Call /\ calls[c].pc = "deciding"
  BY DEF TypeOK, EngineReturns
<1>2. PICK err \in Errors \ {"deadline"}, factor \in Factors \cup {Zero} :
        /\ err = "none" <=> factor # Zero
        /\ Goes(c, [calls[c] EXCEPT !.pc = "evaluated", !.err = err, !.factor = factor,
                                    !.spans["engine"] = SpanEnd(err, factor)])
  BY DEF EngineReturns
<1> DEFINE end == SpanEnd(err, factor)
           me1 == [calls[c] EXCEPT !.pc = "evaluated"]
           me2 == [me1 EXCEPT !.err = err]
           me3 == [me2 EXCEPT !.factor = factor]
           me4 == [me3 EXCEPT !.spans["engine"] = end]
<1>3. end \in SpanEnds
  BY SpanEndOK
<1> HIDE DEF end
<1>4. me1 \in Call
  BY <1>1, CallFields DEF Stages
<1>5. me2 \in Call
  <2> HIDE DEF me1
  <2> QED BY <1>4, CallFields
<1>6. me3 \in Call
  <2> HIDE DEF me2
  <2> QED BY <1>5, CallFields
<1>7. me4 \in Call
  <2> HIDE DEF me3
  <2> QED BY <1>3, <1>6, CallFields DEF Layers
<1>8. calls' = [calls EXCEPT ![c] = me4] /\ UNCHANGED <<count, dur, log, published>>
  BY <1>2 DEF Goes, end
<1>9. /\ me4.pc = "evaluated" /\ me4.err = err /\ me4.factor = factor
      /\ me4.spans["engine"] = end
      /\ me4.spans["guardrails"] = calls[c].spans["guardrails"]
      /\ me4.spans["decide"] = calls[c].spans["decide"]
      /\ me4.entry = calls[c].entry /\ me4.status = calls[c].status
      /\ me4.body = calls[c].body /\ me4.hasId = calls[c].hasId
      /\ me4.parent = calls[c].parent
  BY <1>1 DEF Call, Layers
<1> HIDE DEF me1, me2, me3, me4
<1>10. /\ calls' \in [Calls -> Call] /\ calls'[c] = me4
       /\ \A d \in Calls : d # c => calls'[d] = calls[d]
  BY <1>7, <1>8, ReplacesCall
<1>11. Evaluates(c)
  BY <1>1, <1>2, <1>9, <1>10 DEF Evaluates, KeepsAnswer, KeepsNames, end
<1> QED BY <1>8, <1>10, <1>11 DEF Decides

LEMMA OuterSets ==
  ASSUME TypeOK, NEW c \in Calls, PassGuardrails(c) \/ Veto(c)
  PROVE  /\ calls' \in [Calls -> Call] /\ Decides(c)
         /\ \A d \in Calls : d # c => calls'[d] = calls[d]
<1>1. calls[c] \in Call /\ calls[c].err \in Errors /\ calls[c].factor \in Factors \cup {Zero}
  BY DEF TypeOK, Call
<1>2. PICK err \in Errors, factor \in Factors \cup {Zero} :
        /\ calls[c].pc = "evaluated"
        /\ \/ err = calls[c].err /\ factor = calls[c].factor
           \/ err = "failed" /\ factor = Zero
        /\ Goes(c, Outer(calls[c], err, factor))
  <2>1. "failed" \in Errors /\ Zero \in Factors \cup {Zero}
    BY DEF Errors
  <2>2. CASE PassGuardrails(c)
    BY <1>1, <2>2 DEF PassGuardrails
  <2>3. CASE Veto(c)
    BY <2>1, <2>3 DEF Veto
  <2> QED BY <2>2, <2>3
<1> DEFINE me == Outer(calls[c], err, factor)
<1>3. /\ me \in Call /\ me.pc = "decided" /\ me.err = err /\ me.factor = factor
      /\ me.spans["engine"] = calls[c].spans["engine"]
      /\ me.spans["guardrails"] = SpanEnd(err, factor)
      /\ me.spans["decide"] = SpanEnd(err, factor)
      /\ me.entry = calls[c].entry /\ me.status = calls[c].status
      /\ me.body = calls[c].body /\ me.hasId = calls[c].hasId
      /\ me.parent = calls[c].parent
  BY <1>1, OuterOK
<1>4. calls' = [calls EXCEPT ![c] = me] /\ UNCHANGED <<count, dur, log, published>>
  BY <1>2 DEF Goes
<1> HIDE DEF me
<1>5. /\ calls' \in [Calls -> Call] /\ calls'[c] = me
      /\ \A d \in Calls : d # c => calls'[d] = calls[d]
  BY <1>3, <1>4, ReplacesCall
<1>6. Leaves(c)
  BY <1>2, <1>3, <1>5 DEF Leaves, KeepsResult, KeepsAnswer, KeepsNames
<1> QED BY <1>4, <1>5, <1>6 DEF Decides

LEMMA AnswerSets ==
  ASSUME TypeOK, NEW c \in Calls, Answer(c)
  PROVE  /\ calls' \in [Calls -> Call] /\ Decides(c)
         /\ \A d \in Calls : d # c => calls'[d] = calls[d]
<1>1. calls[c] \in Call /\ calls[c].pc = "observed" /\ calls[c].err \in Errors
  BY DEF TypeOK, Answer, Call
<1> DEFINE status == Status(OutcomeOf(c))
           body == Body(OutcomeOf(c), calls[c].factor)
           me1 == [calls[c] EXCEPT !.pc = "answered"]
           me2 == [me1 EXCEPT !.entry = TRUE]
           me3 == [me2 EXCEPT !.status = status]
           me4 == [me3 EXCEPT !.body = body]
<1>2. status \in Statuses
  BY <1>1, OutcomeOK DEF OutcomeOf, Statuses
<1>3. body \in Bodies
  BY BodyOK DEF Bodies
<1> HIDE DEF status, body
<1>4. me1 \in Call
  BY <1>1, CallFields DEF Stages
<1>5. me2 \in Call
  <2> HIDE DEF me1
  <2> QED BY <1>4, CallFields
<1>6. me3 \in Call
  <2> HIDE DEF me2
  <2> QED BY <1>2, <1>5, CallFields
<1>7. me4 \in Call
  <2> HIDE DEF me3
  <2> QED BY <1>3, <1>6, CallFields
<1>8. calls' = [calls EXCEPT ![c] = me4] /\ UNCHANGED <<count, dur, log, published>>
  BY DEF Answer, Goes, status, body
<1>9. /\ me4.pc = "answered" /\ me4.entry = TRUE /\ me4.status = status /\ me4.body = body
      /\ me4.err = calls[c].err /\ me4.factor = calls[c].factor
      /\ me4.spans = calls[c].spans /\ me4.hasId = calls[c].hasId
      /\ me4.parent = calls[c].parent
  BY <1>1 DEF Call
<1> HIDE DEF me1, me2, me3, me4
<1>10. /\ calls' \in [Calls -> Call] /\ calls'[c] = me4
       /\ \A d \in Calls : d # c => calls'[d] = calls[d]
  BY <1>7, <1>8, ReplacesCall
<1>11. Answers(c)
  BY <1>1, <1>9, <1>10 DEF Answers, KeepsSpans, KeepsResult, KeepsNames, status, body
<1> QED BY <1>8, <1>10, <1>11 DEF Decides

\* The steps that write something move the handler on and leave its record.
LEMMA MoveSets ==
  ASSUME TypeOK, NEW c \in Calls,
         CountDecision(c) \/ ObserveDuration(c) \/ LogAccess(c) \/ LogDecision(c) \/ Publish(c)
  PROVE  /\ calls' \in [Calls -> Call] /\ Reports(c)
         /\ \A d \in Calls : d # c => calls'[d] = calls[d]
<1>1. calls[c] \in Call
  BY DEF TypeOK
<1>2. ASSUME NEW from, NEW to \in Stages, Moves(c, from, to)
      PROVE  /\ calls' \in [Calls -> Call] /\ Advances(c)
             /\ calls[c].pc = from /\ calls'[c].pc = to
             /\ \A d \in Calls : d # c => calls'[d] = calls[d]
  <2> DEFINE me == [calls[c] EXCEPT !.pc = to]
  <2>1. me \in Call
    BY <1>1, CallFields
  <2>2. calls' = [calls EXCEPT ![c] = me] /\ calls[c].pc = from
    BY <1>2 DEF Moves
  <2>3. /\ me.pc = to /\ me.spans = calls[c].spans /\ me.err = calls[c].err
        /\ me.factor = calls[c].factor /\ me.entry = calls[c].entry
        /\ me.status = calls[c].status /\ me.body = calls[c].body
        /\ me.hasId = calls[c].hasId /\ me.parent = calls[c].parent
    BY <1>1 DEF Call
  <2> HIDE DEF me
  <2>4. /\ calls' \in [Calls -> Call] /\ calls'[c] = me
        /\ \A d \in Calls : d # c => calls'[d] = calls[d]
    BY <2>1, <2>2, ReplacesCall
  <2> QED BY <2>2, <2>3, <2>4
          DEF Advances, KeepsSpans, KeepsResult, KeepsAnswer, KeepsNames
<1>3. CASE CountDecision(c)
  <2>1. Moves(c, "decided", "counted")
    BY <1>3 DEF CountDecision
  <2> QED BY <1>2, <1>3, <2>1 DEF Reports, Stages
<1>4. CASE ObserveDuration(c)
  <2>1. Moves(c, "counted", "observed")
    BY <1>4 DEF ObserveDuration
  <2> QED BY <1>2, <1>4, <2>1 DEF Reports, Stages
<1>5. CASE LogAccess(c)
  <2> DEFINE to == IF HasEvent(c) THEN "accessed" ELSE "done"
  <2>1. Moves(c, "answered", to) /\ to \in Stages
    BY <1>5 DEF LogAccess, Stages
  <2>2. /\ calls' \in [Calls -> Call] /\ Advances(c)
        /\ calls[c].pc = "answered" /\ calls'[c].pc = to
        /\ \A d \in Calls : d # c => calls'[d] = calls[d]
    <3> HIDE DEF to
    <3> QED BY <1>2, <2>1
  <2> QED BY <1>5, <2>2 DEF Reports
<1>6. CASE LogDecision(c)
  <2>1. Moves(c, "accessed", "logged")
    BY <1>6 DEF LogDecision
  <2> QED BY <1>2, <1>6, <2>1 DEF Reports, Stages
<1>7. CASE Publish(c)
  <2>1. Moves(c, "logged", "done")
    BY <1>7 DEF Publish
  <2> QED BY <1>2, <1>7, <2>1 DEF Reports, Stages
<1> QED BY <1>3, <1>4, <1>5, <1>6, <1>7

\* So every step is one of some call.
LEMMA StepSets ==
  ASSUME TypeOK, Next
  PROVE  \E c \in Calls : /\ calls' \in [Calls -> Call]
                          /\ \A d \in Calls : d # c => calls'[d] = calls[d]
                          /\ Decides(c) \/ Reports(c)
<1>1. PICK c \in Calls : Handler(c) \/ HangUp(c)
  BY DEF Next
<1> QED BY <1>1, ReceiveSets, RefuseSets, EngineSets, OuterSets, AnswerSets, MoveSets DEF Handler

-----------------------------------------------------------------------------
(* The stages of a call.                                                   *)

\* What the reports of a call are made of.
LEMMA ReportsStay ==
  ASSUME NEW c \in Calls, KeepsResult(c)
  PROVE  /\ OutcomeOf(c)' = OutcomeOf(c) /\ EntryFactor(c)' = EntryFactor(c)
         /\ KeepsNames(c) => DecisionLine(c)' = DecisionLine(c) /\ SinkEvent(c)' = SinkEvent(c)
         /\ KeepsNames(c) /\ KeepsAnswer(c) => HasEvent(c)' = HasEvent(c)
BY DEF KeepsResult, KeepsNames, KeepsAnswer, OutcomeOf, EntryFactor, DecisionLine, SinkEvent,
       HasEvent

LEMMA OthersKeep ==
  ASSUME NEW d \in Calls, calls'[d] = calls[d]
  PROVE  KeepsResult(d) /\ KeepsNames(d) /\ KeepsAnswer(d) /\ KeepsSpans(d)
BY DEF KeepsResult, KeepsNames, KeepsAnswer, KeepsSpans

LEMMA CallStageStep ==
  ASSUME TypeOK, NEW c \in Calls, CallStage(c), Decides(c) \/ Reports(c)
  PROVE  CallStage(c)'
<1> USE DEF CallStage, Decided, KeepsSpans, KeepsResult, KeepsAnswer, KeepsNames
<1>1. CASE Waits(c)
  BY <1>1 DEF Waits, Layers, HasEvent
<1>2. CASE Refuses(c)
  BY <1>2 DEF Refuses, Layers
<1>3. CASE Evaluates(c)
  BY <1>3 DEF Evaluates, Layers
<1>4. CASE Leaves(c)
  BY <1>4 DEF Leaves
<1>5. CASE Answers(c)
  <2>1. OutcomeOf(c)' = OutcomeOf(c)
    BY <1>5, ReportsStay DEF Answers
  <2> QED BY <1>5, <2>1 DEF Answers
<1>6. CASE Reports(c)
  <2>1. Advances(c) /\ OutcomeOf(c)' = OutcomeOf(c) /\ HasEvent(c)' = HasEvent(c)
    BY <1>6, ReportsStay DEF Reports, Advances
  <2>2. \/ /\ calls[c].pc \in {"decided", "counted"}
           /\ calls'[c].pc \in {"counted", "observed"}
        \/ /\ calls[c].pc \in {"answered", "accessed", "logged"}
           /\ calls'[c].pc \in {"accessed", "logged", "done"}
           /\ calls'[c].pc # "done" => HasEvent(c)
    BY <1>6 DEF Reports
  <2>3. CASE /\ calls[c].pc \in {"decided", "counted"}
             /\ calls'[c].pc \in {"counted", "observed"}
    BY <2>1, <2>3 DEF Advances
  <2>4. CASE /\ calls[c].pc \in {"answered", "accessed", "logged"}
             /\ calls'[c].pc \in {"accessed", "logged", "done"}
             /\ calls'[c].pc # "done" => HasEvent(c)
    <3>1. HasEvent(c) => calls[c].entry
      BY DEF HasEvent
    <3> QED BY <2>1, <2>4, <3>1 DEF Advances
  <2> QED BY <2>2, <2>3, <2>4
<1> QED BY <1>1, <1>2, <1>3, <1>4, <1>5, <1>6 DEF Decides

LEMMA CallStageStays ==
  ASSUME NEW d \in Calls, CallStage(d), calls'[d] = calls[d]
  PROVE  CallStage(d)'
BY DEF CallStage, Decided, OutcomeOf, HasEvent

-----------------------------------------------------------------------------
(* The log.                                                                *)

LEMMA EventOK ==
  ASSUME TypeOK, NEW c \in Calls
  PROVE  /\ EntryFactor(c) \in Factors \cup {Zero} /\ SinkEvent(c) \in Event
         /\ SinkEvent(c).call = c /\ SinkEvent(c).factor = EntryFactor(c)
         /\ SinkEvent(c).outcome = OutcomeOf(c)
<1>1. /\ calls[c].err \in Errors /\ calls[c].factor \in Factors \cup {Zero}
      /\ calls[c].parent \in Spans \cup {NoSpan}
  BY DEF TypeOK, Call
<1>2. EntryFactor(c) \in Factors \cup {Zero}
  BY <1>1 DEF EntryFactor
<1>3. OutcomeOf(c) \in {Outcome(err) : err \in Errors} /\ HasErrorMsg(calls[c].err) \in BOOLEAN
  BY <1>1 DEF OutcomeOf, HasErrorMsg
<1> QED BY <1>1, <1>2, <1>3 DEF SinkEvent, Event

LEMMA LineOK ==
  ASSUME TypeOK, NEW c \in Calls
  PROVE  /\ DecisionLine(c) \in {AsLine(e) : e \in Event}
         /\ DecisionLine(c) = AsLine(SinkEvent(c))
         /\ DecisionLine(c).call = c /\ DecisionLine(c).msg = "decision"
         /\ DecisionLine(c).factor = EntryFactor(c)
         /\ AccessLine(c).call = c /\ AccessLine(c).msg = "access"
         /\ AccessLine(c).factor = EntryFactor(c)
         /\ calls[c].status # 0 => AccessLine(c) \in Access
<1>1. DecisionLine(c) = AsLine(SinkEvent(c))
  BY DEF DecisionLine, AsLine, SinkEvent
<1>2. SinkEvent(c) \in Event
  BY EventOK
<1>3. ASSUME calls[c].status # 0 PROVE AccessLine(c) \in Access
  <2>1. /\ calls[c].status \in {200, 400, 404, 405, 500}
        /\ calls[c].parent \in Spans \cup {NoSpan} /\ EntryFactor(c) \in Factors \cup {Zero}
    BY <1>3, EventOK DEF TypeOK, Call
  <2> QED BY <2>1 DEF AccessLine, Access
<1> QED BY <1>1, <1>2, <1>3 DEF DecisionLine, AccessLine

LEMMA LineMsg ==
  ASSUME NEW line \in Line
  PROVE  line.msg \in {"access", "decision"} /\ line.call \in Calls
<1>1. CASE line \in Access
  BY <1>1 DEF Access
<1>2. ASSUME NEW e \in Event, line = AsLine(e)
      PROVE  line.msg \in {"access", "decision"} /\ line.call \in Calls
  BY <1>2 DEF AsLine, Event
<1> QED BY <1>1, <1>2 DEF Line

\* A line that json can encode is put at the end, another one nowhere.
LEMMA WriteOK ==
  ASSUME TypeOK, NEW line \in Access \cup {AsLine(e) : e \in Event}, Write(line)
  PROVE  /\ log' \in Seq(Line)
         /\ ~Encodable(line.factor) => log' = log
         /\ Encodable(line.factor) => /\ DOMAIN log' = DOMAIN log \cup {Len(log) + 1}
                                      /\ log'[Len(log) + 1] = line
         /\ \A i \in DOMAIN log : log'[i] = log[i] /\ i \in DOMAIN log' /\ i < Len(log) + 1
         /\ Len(log) + 1 \notin DOMAIN log
<1>1. log \in Seq(Line) /\ Len(log) \in Nat /\ DOMAIN log = 1 .. Len(log)
  BY DEF TypeOK
<1>2. CASE ~Encodable(line.factor)
  BY <1>1, <1>2 DEF Write
<1>3. CASE Encodable(line.factor)
  <2>1. line \in Line /\ log' = Append(log, line)
    BY <1>3 DEF Line, Write
  <2>2. Len(log') = Len(log) + 1 /\ log' \in Seq(Line)
    BY <1>1, <2>1
  <2>3. DOMAIN log' = 1 .. (Len(log) + 1) /\ log'[Len(log) + 1] = line
        /\ \A i \in 1 .. Len(log) : log'[i] = log[i]
    BY <1>1, <2>1, <2>2
  <2> QED BY <1>1, <1>3, <2>2, <2>3
<1> QED BY <1>2, <1>3

\* Only the call that writes sees its lines grow, by the one it wrote.
LEMMA LinesGrow ==
  ASSUME TypeOK, NEW line \in Access \cup {AsLine(e) : e \in Event}, Write(line),
         NEW d \in Calls, NEW msg \in {"access", "decision"}
  PROVE  Lines(d, msg)' = IF Encodable(line.factor) /\ line.call = d /\ line.msg = msg
                          THEN Lines(d, msg) \cup {Len(log) + 1} ELSE Lines(d, msg)
<1>1. \A i \in DOMAIN log : log'[i] = log[i] /\ i \in DOMAIN log'
  BY WriteOK
<1>2. CASE ~Encodable(line.factor)
  BY <1>2, WriteOK DEF Lines
<1>3. CASE Encodable(line.factor)
  <2>1. DOMAIN log' = DOMAIN log \cup {Len(log) + 1} /\ log'[Len(log) + 1] = line
    BY <1>3, WriteOK
  <2> QED BY <1>1, <1>3, <2>1 DEF Lines
<1> QED BY <1>2, <1>3

-----------------------------------------------------------------------------
(* The steps of the invariant.                                             *)

LEMMA TypeStep ==
  ASSUME TypeOK, NEW c \in Calls, calls' \in [Calls -> Call], CallStage(c),
         Decides(c) \/ Reports(c)
  PROVE  TypeOK'
<1>1. LabelOf(c) \in Labels
  BY LabelOK DEF TypeOK, Call, LabelOf
<1>2. CASE UNCHANGED <<count, dur, log, published>>
  BY <1>2 DEF TypeOK
<1>3. CASE CountDecision(c)
  BY <1>1, <1>3 DEF CountDecision, TypeOK
<1>4. CASE ObserveDuration(c)
  BY <1>1, <1>4 DEF ObserveDuration, TypeOK
<1>5. CASE calls[c].pc = "answered" /\ LogAccess(c)
  <2>1. calls[c].status # 0
    <3>1. CASE calls[c].entry
      <4>1. calls[c].err \in Errors /\ calls[c].status = Status(OutcomeOf(c))
        BY <3>1 DEF CallStage, TypeOK, Call
      <4> QED BY <4>1, OutcomeOK DEF OutcomeOf
    <3>2. CASE ~calls[c].entry
      BY <1>5, <3>2 DEF CallStage
    <3> QED BY <3>1, <3>2
  <2>2. log' \in Seq(Line) /\ UNCHANGED <<count, dur, published>>
    BY <1>5, <2>1, LineOK, WriteOK DEF LogAccess
  <2> QED BY <2>2 DEF TypeOK
<1>6. CASE LogDecision(c)
  <2>1. log' \in Seq(Line) /\ UNCHANGED <<count, dur, published>>
    BY <1>6, LineOK, WriteOK DEF LogDecision
  <2> QED BY <2>1 DEF TypeOK
<1>7. CASE Publish(c)
  <2>1. SinkEvent(c) \in Event
    BY EventOK
  <2>2. published' \in Seq(Event) /\ UNCHANGED <<count, dur, log>>
    BY <1>7, <2>1 DEF Publish, TypeOK
  <2> QED BY <2>2 DEF TypeOK
<1> QED BY <1>2, <1>3, <1>4, <1>5, <1>6, <1>7 DEF Decides, Reports

\* Nothing in the log is of a call without lines.
LEMMA NoLinesMeansNone ==
  ASSUME TypeOK, NEW c \in Calls, NoLines(c), NEW i \in DOMAIN log
  PROVE  log[i].call # c
<1>1. log[i].msg \in {"access", "decision"}
  BY LineMsg DEF TypeOK
<1> QED BY <1>1 DEF NoLines, Lines

\* A step that writes no line of d changes nothing of what d has in the log.
LEMMA LogStageStays ==
  ASSUME TypeOK, NEW d \in Calls, LogStage(d), calls'[d] = calls[d],
         \A i \in DOMAIN log : log'[i] = log[i] /\ i \in DOMAIN log',
         \A i \in DOMAIN log' \ DOMAIN log : log'[i].call # d
  PROVE  LogStage(d)'
<1>1. /\ EntryFactor(d)' = EntryFactor(d) /\ DecisionLine(d)' = DecisionLine(d)
      /\ HasEvent(d)' = HasEvent(d)
  BY ReportsStay, OthersKeep
<1>2. \A msg \in {"access", "decision"} : Lines(d, msg)' = Lines(d, msg)
  BY DEF Lines
<1>3. Lines(d, "access")' = Lines(d, "access") /\ Lines(d, "decision")' = Lines(d, "decision")
  BY <1>2
<1>4. /\ NoLines(d) => NoLines(d)'
      /\ OnlyAccess(d) => OnlyAccess(d)'
      /\ BothLines(d, DecisionLine(d)) => BothLines(d, DecisionLine(d))'
  BY <1>1, <1>3 DEF NoLines, OnlyAccess, BothLines
<1>5. \A i \in DOMAIN log' : log'[i].call = d => log'[i].factor = EntryFactor(d)'
  <2> SUFFICES ASSUME NEW i \in DOMAIN log', log'[i].call = d
               PROVE  log'[i].factor = EntryFactor(d)'
    OBVIOUS
  <2> QED BY <1>1 DEF LogStage
<1> QED BY <1>1, <1>4, <1>5 DEF LogStage

LEMMA LogStageStep ==
  ASSUME TypeOK, NEW c \in Calls, CallStage(c), LogStage(c), Decides(c) \/ Reports(c)
  PROVE  LogStage(c)'
<1>1. CASE Waits(c) \/ Refuses(c) \/ Evaluates(c) \/ Leaves(c) \/ Answers(c)
  <2>1. log' = log /\ calls[c].pc \notin {"accessed", "logged", "done"}
    BY <1>1 DEF Decides, Reports, Waits, Refuses, Evaluates, Leaves, Answers,
                CountDecision, ObserveDuration, LogAccess, LogDecision, Publish
  <2>2. NoLines(c)
    BY <2>1 DEF LogStage
  <2>3. NoLines(c)' /\ \A i \in DOMAIN log' : log'[i].call # c
    BY <2>1, <2>2, NoLinesMeansNone DEF NoLines, Lines
  <2>4. calls'[c].pc \notin {"accessed", "logged"}
    BY <1>1 DEF Waits, Refuses, Evaluates, Leaves, Answers
  <2>5. calls'[c].pc = "done" => ~HasEvent(c)'
    <3> SUFFICES ASSUME calls'[c].pc = "done" PROVE ~HasEvent(c)'
      OBVIOUS
    <3>1. Refuses(c)
      BY <1>1 DEF Waits, Refuses, Evaluates, Leaves, Answers
    <3>2. ~calls[c].entry
      <4>1. calls[c].entry \in BOOLEAN
        BY DEF TypeOK, Call
      <4> QED BY <3>1, <4>1 DEF Refuses, CallStage
    <3> QED BY <3>1, <3>2 DEF Refuses, HasEvent
  <2> QED BY <2>3, <2>4, <2>5 DEF LogStage
<1>2. CASE Reports(c)
  <2>1. /\ EntryFactor(c)' = EntryFactor(c) /\ DecisionLine(c)' = DecisionLine(c)
        /\ HasEvent(c)' = HasEvent(c)
    BY <1>2, ReportsStay DEF Reports, Advances
  <2>2. CASE log' = log /\ (calls[c].pc = "logged" \/ calls'[c].pc \in {"counted", "observed"})
    <3>1. Lines(c, "access")' = Lines(c, "access") /\ Lines(c, "decision")' = Lines(c, "decision")
      BY <2>2 DEF Lines
    <3>2. /\ NoLines(c) => NoLines(c)'
          /\ BothLines(c, DecisionLine(c)) => BothLines(c, DecisionLine(c))'
      BY <2>1, <2>2, <3>1 DEF NoLines, BothLines
    <3>3. \/ /\ calls[c].pc = "logged" /\ calls'[c].pc = "done"
          \/ /\ calls[c].pc \in {"decided", "counted"} /\ calls'[c].pc \in {"counted", "observed"}
      BY <1>2, <2>2 DEF Reports
    <3> QED BY <2>1, <2>2, <3>2, <3>3 DEF LogStage
  <2>3. CASE /\ calls[c].pc = "answered" /\ Write(AccessLine(c)) /\ calls[c].status # 0
             /\ calls'[c].pc = IF HasEvent(c) THEN "accessed" ELSE "done"
    <3>1. NoLines(c)
      BY <2>3 DEF LogStage
    <3> DEFINE line == AccessLine(c)
    <3>2. /\ line \in Access \cup {AsLine(e) : e \in Event} /\ line.call = c
          /\ line.msg = "access" /\ line.factor = EntryFactor(c) /\ Write(line)
      BY <2>3, LineOK
    <3> HIDE DEF line
    <3>3. /\ Lines(c, "access")' = IF Encodable(EntryFactor(c)) THEN {Len(log) + 1} ELSE {}
          /\ Lines(c, "decision")' = {}
      BY <3>1, <3>2, LinesGrow DEF NoLines
    <3>4. /\ Encodable(EntryFactor(c)) => DOMAIN log' = DOMAIN log \cup {Len(log) + 1}
                                          /\ log'[Len(log) + 1] = line
          /\ ~Encodable(EntryFactor(c)) => log' = log
          /\ \A i \in DOMAIN log : log'[i] = log[i]
      BY <3>2, WriteOK
    <3>5. IF Encodable(EntryFactor(c)) THEN OnlyAccess(c)' ELSE NoLines(c)'
      BY <3>3, <3>4 DEF OnlyAccess, NoLines
    <3>6. \A i \in DOMAIN log' : log'[i].call = c => log'[i].factor = EntryFactor(c)
      BY <3>1, <3>2, <3>4, NoLinesMeansNone
    <3>7. (calls'[c].pc = "accessed" /\ HasEvent(c)) \/ (calls'[c].pc = "done" /\ ~HasEvent(c))
      BY <2>3
    <3> QED BY <2>1, <3>5, <3>6, <3>7 DEF LogStage, Encodable
  <2>4. CASE calls[c].pc = "accessed" /\ calls'[c].pc = "logged" /\ Write(DecisionLine(c))
    <3> DEFINE line == DecisionLine(c)
    <3>1. /\ line \in Access \cup {AsLine(e) : e \in Event} /\ line.call = c
          /\ line.msg = "decision" /\ line.factor = EntryFactor(c) /\ Write(line)
          /\ line' = line
      BY <2>1, <2>4, LineOK
    <3>2. /\ IF Encodable(EntryFactor(c)) THEN OnlyAccess(c) ELSE NoLines(c)
          /\ \A i \in DOMAIN log : log[i].call = c => log[i].factor = EntryFactor(c)
      BY <2>4 DEF LogStage
    <3> HIDE DEF line
    <3>3. /\ Lines(c, "access")' = Lines(c, "access")
          /\ Lines(c, "decision")' = IF Encodable(EntryFactor(c))
                                     THEN Lines(c, "decision") \cup {Len(log) + 1}
                                     ELSE Lines(c, "decision")
      BY <3>1, LinesGrow
    <3>4. /\ Encodable(EntryFactor(c)) => DOMAIN log' = DOMAIN log \cup {Len(log) + 1}
                                          /\ log'[Len(log) + 1] = line
          /\ ~Encodable(EntryFactor(c)) => log' = log
          /\ \A i \in DOMAIN log : log'[i] = log[i] /\ i < Len(log) + 1
      BY <3>1, WriteOK
    <3>5. CASE Encodable(EntryFactor(c))
      <4>1. Lines(c, "decision")' = {Len(log) + 1}
        BY <3>2, <3>3, <3>5 DEF OnlyAccess
      <4>2. PICK i \in DOMAIN log : Lines(c, "access") = {i}
        BY <3>2, <3>5 DEF OnlyAccess
      <4>3. /\ i \in DOMAIN log' /\ Len(log) + 1 \in DOMAIN log' /\ i < Len(log) + 1
            /\ Lines(c, "access")' = {i} /\ log'[Len(log) + 1] = line
        BY <3>3, <3>4, <3>5, <4>2
      <4>4. BothLines(c, DecisionLine(c))'
        BY <2>1, <4>1, <4>3 DEF BothLines, line
      <4>5. \A k \in DOMAIN log' : log'[k].call = c => log'[k].factor = EntryFactor(c)
        BY <3>1, <3>2, <3>4, <3>5
      <4> QED BY <2>1, <2>4, <3>5, <4>4, <4>5 DEF LogStage, Encodable
    <3>6. CASE ~Encodable(EntryFactor(c))
      <4>1. NoLines(c)'
        BY <3>2, <3>3, <3>6 DEF NoLines
      <4> QED BY <2>1, <2>4, <3>2, <3>4, <3>6, <4>1 DEF LogStage, Encodable
    <3> QED BY <3>5, <3>6
  <2>5. calls[c].pc = "answered" => calls[c].status # 0
    <3>1. CASE calls[c].entry
      <4>1. calls[c].err \in Errors /\ calls[c].status = Status(OutcomeOf(c))
        BY <3>1 DEF CallStage, TypeOK, Call
      <4> QED BY <4>1, OutcomeOK DEF OutcomeOf
    <3>2. CASE ~calls[c].entry
      BY <3>2 DEF CallStage
    <3> QED BY <3>1, <3>2
  <2> QED BY <1>2, <2>2, <2>3, <2>4, <2>5
          DEF Reports, CountDecision, ObserveDuration, LogAccess, LogDecision, Publish
<1> QED BY <1>1, <1>2 DEF Decides

\* What another call appends is not of d.
LEMMA OthersLines ==
  ASSUME TypeOK, NEW c \in Calls, NEW d \in Calls, d # c, CallStage(c),
         Decides(c) \/ Reports(c)
  PROVE  /\ \A i \in DOMAIN log : log'[i] = log[i] /\ i \in DOMAIN log'
         /\ \A i \in DOMAIN log' \ DOMAIN log : log'[i].call # d
<1>1. CASE log' = log
  BY <1>1
<1>2. ASSUME NEW line \in Access \cup {AsLine(e) : e \in Event}, line.call = c, Write(line)
      PROVE  /\ \A i \in DOMAIN log : log'[i] = log[i] /\ i \in DOMAIN log'
             /\ \A i \in DOMAIN log' \ DOMAIN log : log'[i].call # d
  BY <1>2, WriteOK
<1>3. CASE calls[c].pc = "answered" /\ LogAccess(c)
  <2>1. calls[c].status # 0
    <3>1. CASE calls[c].entry
      <4>1. calls[c].err \in Errors /\ calls[c].status = Status(OutcomeOf(c))
        BY <3>1 DEF CallStage, TypeOK, Call
      <4> QED BY <4>1, OutcomeOK DEF OutcomeOf
    <3>2. CASE ~calls[c].entry
      BY <1>3, <3>2 DEF CallStage
    <3> QED BY <3>1, <3>2
  <2> QED BY <1>2, <1>3, <2>1, LineOK DEF LogAccess
<1>4. CASE LogDecision(c)
  BY <1>2, <1>4, LineOK DEF LogDecision
<1> QED BY <1>1, <1>3, <1>4
        DEF Decides, Reports, CountDecision, ObserveDuration, Publish

LEMMA PublishedOK ==
  ASSUME TypeOK, NEW i \in DOMAIN published
  PROVE  published[i] \in Event /\ published[i].call \in Calls
<1>1. published[i] \in Event
  BY DEF TypeOK
<1> QED BY <1>1 DEF Event

LEMMA EventStageStep ==
  ASSUME TypeOK, EventStage, NEW c \in Calls, CallStage(c), Decides(c) \/ Reports(c),
         \A d \in Calls : d # c => calls'[d] = calls[d]
  PROVE  EventStage'
<1>1. calls[c].pc # "done"
  BY DEF Decides, Reports, Waits, Refuses, Evaluates, Leaves, Answers
<1>2. published \in Seq(Event) /\ \A i \in DOMAIN published : published[i].call \in Calls
  BY PublishedOK DEF TypeOK
<1>3. ASSUME NEW i \in DOMAIN published, NEW d, d = published[i].call
      PROVE  calls'[d].pc = "done" /\ HasEvent(d)' /\ published[i] = SinkEvent(d)'
  <2>1. d \in Calls /\ d # c /\ calls[d].pc = "done" /\ HasEvent(d) /\ published[i] = SinkEvent(d)
    BY <1>1, <1>2, <1>3 DEF EventStage
  <2>2. calls'[d] = calls[d]
    BY <2>1
  <2> QED BY <2>1, <2>2 DEF HasEvent, SinkEvent, OutcomeOf, EntryFactor
<1>4. CASE published' = published
  BY <1>3, <1>4 DEF EventStage
<1>5. CASE Reports(c) /\ Publish(c)
  <2>1. calls[c].pc = "logged" /\ published' = Append(published, SinkEvent(c))
    BY <1>5 DEF Publish, Moves
  <2>2. calls'[c].pc = "done" /\ Advances(c)
    BY <1>5, <2>1 DEF Reports
  <2>3. HasEvent(c)' /\ SinkEvent(c)' = SinkEvent(c)
    <3>1. HasEvent(c)
      BY <2>1 DEF CallStage
    <3> QED BY <2>2, <3>1, ReportsStay DEF Advances
  <2>4. SinkEvent(c).call = c
    BY EventOK
  <2>5. ASSUME NEW i \in DOMAIN published', NEW d, d = published'[i].call
        PROVE  calls'[d].pc = "done" /\ HasEvent(d)' /\ published'[i] = SinkEvent(d)'
    <3>1. CASE i \in DOMAIN published
      <4>1. published'[i] = published[i]
        BY <1>2, <2>1, <3>1
      <4> QED BY <1>3, <2>5, <3>1, <4>1
    <3>2. CASE i \notin DOMAIN published
      <4>1. published'[i] = SinkEvent(c)
        BY <1>2, <2>1, <2>5, <3>2
      <4>2. d = c
        BY <2>4, <2>5, <4>1
      <4> QED BY <2>2, <2>3, <4>1, <4>2
    <3> QED BY <3>1, <3>2
  <2> QED BY <2>5 DEF EventStage
<1> QED BY <1>4, <1>5
        DEF Decides, Reports, CountDecision, ObserveDuration, LogAccess, LogDecision

CallStages == \A c \in Calls : CallStage(c)

\* Span, answer and event agree because each is made from the one error that
\* the stages of the call have fixed.
LEMMA StagesAgree == TypeOK /\ CallStages /\ EventStage => SignalsAgree
<1> SUFFICES ASSUME TypeOK, \A c \in Calls : CallStage(c), EventStage PROVE SignalsAgree
  BY DEF CallStages
<1>1. ASSUME NEW i \in DOMAIN published, NEW c, c = published[i].call
      PROVE  /\ calls[c].spans["decide"].tag =
                  IF published[i].outcome \in {"ok", "error"} THEN "plain" ELSE published[i].outcome
             /\ calls[c].spans["decide"].failed <=> published[i].outcome = "error"
             /\ calls[c].spans["decide"].factor = published[i].factor
             /\ calls[c].status = 200 <=> published[i].outcome = "ok"
             /\ calls[c].status = 404 <=> published[i].outcome = "no_match"
  <2>1. c \in Calls /\ HasEvent(c) /\ published[i] = SinkEvent(c)
    BY <1>1, PublishedOK DEF EventStage
  <2>2. calls[c].err \in Errors /\ calls[c].factor \in Factors \cup {Zero}
    BY <2>1 DEF TypeOK, Call
  <2>3. /\ calls[c].spans["decide"] = SpanEnd(calls[c].err, calls[c].factor)
        /\ calls[c].status = Status(OutcomeOf(c))
    BY <2>1 DEF CallStage, Decided, HasEvent
  <2>4. /\ published[i].outcome = Outcome(calls[c].err)
        /\ published[i].factor = IF calls[c].err = "none" THEN calls[c].factor ELSE Zero
    BY <2>1, <2>2, EventOK, OutcomeOK DEF EntryFactor, OutcomeOf
  <2> QED BY <2>2, <2>3, <2>4, SpanEndOK, OutcomeOK DEF OutcomeOf
<1> QED BY <1>1 DEF SignalsAgree

LEMMA InitTelemetryInv == Init => TelemetryInv
<1> SUFFICES ASSUME Init PROVE TelemetryInv
  OBVIOUS
<1>1. Fresh \in Call
  <2>1. [l \in Layers |-> NoEnd] \in [Layers -> SpanEnds]
    BY NoEndOK
  <2> QED BY <2>1 DEF Fresh, Call, Stages, Errors
<1>2. TypeOK
  BY <1>1 DEF Init, TypeOK
<1>3. ASSUME NEW c \in Calls PROVE CallStage(c) /\ LogStage(c)
  <2>1. calls[c] = Fresh /\ log = <<>>
    BY DEF Init
  <2>2. CallStage(c)
    BY <2>1 DEF CallStage, Decided, Fresh
  <2>3. LogStage(c)
    BY <2>1 DEF LogStage, NoLines, Lines, Fresh
  <2> QED BY <2>2, <2>3
<1>4. EventStage
  BY DEF Init, EventStage
<1> QED BY <1>2, <1>3, <1>4, StagesAgree DEF TelemetryInv, CallStages

LEMMA StepTelemetryInv == TelemetryInv /\ [Next]_vars => TelemetryInv'
<1> SUFFICES ASSUME TelemetryInv, [Next]_vars PROVE TelemetryInv'
  OBVIOUS
<1>0. TypeOK /\ (\A c \in Calls : CallStage(c) /\ LogStage(c)) /\ EventStage
  BY DEF TelemetryInv
<1>1. CASE UNCHANGED vars
  <2>1. calls' = calls /\ log' = log /\ published' = published /\ TypeOK'
    BY <1>0, <1>1 DEF vars, TypeOK
  <2>2. ASSUME NEW d \in Calls PROVE CallStage(d)' /\ LogStage(d)'
    BY <1>0, <2>1, CallStageStays, LogStageStays
  <2>3. EventStage'
    BY <1>0, <2>1 DEF EventStage, HasEvent, SinkEvent, OutcomeOf, EntryFactor
  <2>4. SignalsAgree'
    BY <2>1 DEF TelemetryInv, SignalsAgree
  <2> QED BY <2>1, <2>2, <2>3, <2>4 DEF TelemetryInv
<1>2. CASE Next
  <2>1. PICK c \in Calls : /\ calls' \in [Calls -> Call]
                           /\ \A d \in Calls : d # c => calls'[d] = calls[d]
                           /\ Decides(c) \/ Reports(c)
    BY <1>0, <1>2, StepSets
  <2>2. TypeOK'
    BY <1>0, <2>1, TypeStep
  <2>3. ASSUME NEW d \in Calls PROVE CallStage(d)' /\ LogStage(d)'
    <3>1. CASE d = c
      BY <1>0, <2>1, <3>1, CallStageStep, LogStageStep
    <3>2. CASE d # c
      <4>1. /\ \A i \in DOMAIN log : log'[i] = log[i] /\ i \in DOMAIN log'
            /\ \A i \in DOMAIN log' \ DOMAIN log : log'[i].call # d
        BY <1>0, <2>1, <3>2, OthersLines
      <4> QED BY <1>0, <2>1, <3>2, <4>1, CallStageStays, LogStageStays
    <3> QED BY <3>1, <3>2
  <2>4. EventStage'
    BY <1>0, <2>1, EventStageStep
  <2>5. CallStages'
    BY <2>3 DEF CallStages
  <2>6. SignalsAgree'
    BY <2>2, <2>4, <2>5, StagesAgree, PTL
  <2> QED BY <2>2, <2>3, <2>4, <2>6 DEF TelemetryInv
<1> QED BY <1>1, <1>2

\* The stages of a call and of what it leaves behind, and with them that its
\* span, its event and its status tell one story (ADR-0010): Decide,
\* WithAccessLog, tracedDecider, for any calls and factors.
THEOREM OneStory == Spec => []TelemetryInv
BY InitTelemetryInv, StepTelemetryInv, PTL DEF Spec

\* A vetoed factor is in the engine's span alone: in no line, event, outer span
\* or answer (holderDecider.Decide and everything above it).
THEOREM VetoesStayInside == Spec => []VetoStaysInside
<1>1. ASSUME TelemetryInv PROVE VetoStaysInside
  <2>1. ASSUME NEW c \in Calls, Vetoed(c)
        PROVE  /\ calls[c].body # "decision" /\ calls[c].status \in {0, 500}
               /\ calls[c].spans["decide"].factor = Zero
               /\ \A i \in DOMAIN log : log[i].call = c => log[i].factor = Zero
               /\ \A i \in DOMAIN published : published[i].call = c => published[i].factor = Zero
    <3>0. /\ TypeOK /\ CallStage(c) /\ LogStage(c) /\ EventStage
          /\ calls[c].err \in Errors /\ calls[c].factor \in Factors \cup {Zero}
      BY <1>1 DEF TelemetryInv, TypeOK, Call
    <3>1. Decided(c) /\ calls[c].err = "failed"
      <4>1. calls[c].spans["guardrails"].failed
        BY <2>1 DEF Vetoed
      <4>2. Decided(c)
        <5>1. calls[c].spans["guardrails"] # NoEnd
          BY <4>1, NoEndOK
        <5> QED BY <3>0, <5>1 DEF CallStage, Layers
      <4>3. calls[c].spans["guardrails"] = SpanEnd(calls[c].err, calls[c].factor)
        BY <3>0, <4>2 DEF CallStage
      <4> QED BY <3>0, <4>1, <4>2, <4>3, SpanEndOK
    <3>2. calls[c].spans["decide"].factor = Zero
      BY <3>0, <3>1, SpanEndOK DEF CallStage
    <3>3. OutcomeOf(c) = "error" /\ Status(OutcomeOf(c)) = 500 /\ EntryFactor(c) = Zero
      BY <3>0, <3>1, OutcomeOK DEF OutcomeOf, EntryFactor
    <3>4. calls[c].body # "decision" /\ calls[c].status \in {0, 500}
      <4>1. CASE calls[c].entry
        BY <3>0, <3>3, <4>1, BodyOK DEF CallStage
      <4>2. CASE ~calls[c].entry
        <5>1. calls[c].pc \in {"decided", "counted", "observed"}
          BY <3>1, <4>2 DEF Decided
        <5> QED BY <3>0, <5>1 DEF CallStage
      <4> QED BY <4>1, <4>2
    <3>5. \A i \in DOMAIN log : log[i].call = c => log[i].factor = Zero
      BY <3>0, <3>3 DEF LogStage
    <3>6. \A i \in DOMAIN published : published[i].call = c => published[i].factor = Zero
      BY <3>0, <3>3, EventOK DEF EventStage
    <3> QED BY <3>2, <3>4, <3>5, <3>6
  <2> QED BY <2>1 DEF VetoStaysInside
<1> QED BY <1>1, OneStory, PTL

\* The log holds for every event the one line it should, behind the access line
\* of its call, or no line of the call at all (buildSinkEvent and
\* decisionEventAttrs are filled in separately; Logger.write drops what json
\* cannot encode).
THEOREM LogAndSinkAgree == Spec => []LogMatchesSink
<1>1. ASSUME TelemetryInv PROVE LogMatchesSink
  <2>1. ASSUME NEW n \in DOMAIN published
        PROVE  IF Encodable(published[n].factor)
               THEN BothLines(published[n].call, AsLine(published[n]))
               ELSE NoLines(published[n].call)
    <3> DEFINE c == published[n].call
    <3>1. /\ TypeOK /\ c \in Calls /\ calls[c].pc = "done" /\ HasEvent(c)
          /\ published[n] = SinkEvent(c)
      BY <1>1, <2>1, PublishedOK DEF TelemetryInv, EventStage
    <3> HIDE DEF c
    <3>2. LogStage(c)
      BY <1>1, <3>1 DEF TelemetryInv
    <3>3. published[n].factor = EntryFactor(c) /\ DecisionLine(c) = AsLine(published[n])
      BY <3>1, EventOK, LineOK
    <3>4. IF Encodable(EntryFactor(c)) THEN BothLines(c, DecisionLine(c)) ELSE NoLines(c)
      BY <3>1, <3>2 DEF LogStage
    <3>5. IF Encodable(published[n].factor)
          THEN BothLines(c, AsLine(published[n])) ELSE NoLines(c)
      BY <3>3, <3>4
    <3> QED BY <3>5 DEF c
  <2> QED BY <2>1 DEF LogMatchesSink
<1> QED BY <1>1, OneStory, PTL

-----------------------------------------------------------------------------
(* The books.  Calls may be any set: that finitely many have come in is     *)
(* part of the invariant, and what makes them countable.                    *)

Started == {c \in Calls : calls[c].pc # "idle"}
InFlight(err) == {c \in Calls : Counted(c) /\ calls[c].err = err /\ ~Reported(c)}
Timing(err) == {c \in Calls : Counted(c) /\ calls[c].err = err /\ calls[c].pc = "counted"}
EventsOf(err) == {i \in DOMAIN published : published[i].outcome = Outcome(err)}
Series(err) == Label(Metric(err))

Balanced(err) ==
  /\ count[Series(err)] = Cardinality(EventsOf(err)) + Cardinality(InFlight(err))
  /\ dur[Series(err)] = count[Series(err)] - Cardinality(Timing(err))

BooksInv == TelemetryInv /\ IsFiniteSet(Started) /\ \A err \in Errors : Balanced(err)

\* Who is counted has come in, and an event has a place in the sink.
LEMMA BooksAreFinite ==
  ASSUME TelemetryInv, IsFiniteSet(Started), NEW err \in Errors
  PROVE  /\ IsFiniteSet(InFlight(err)) /\ Cardinality(InFlight(err)) \in Nat
         /\ IsFiniteSet(Timing(err)) /\ Cardinality(Timing(err)) \in Nat
         /\ IsFiniteSet(EventsOf(err)) /\ Cardinality(EventsOf(err)) \in Nat
         /\ count[Series(err)] \in Nat /\ dur[Series(err)] \in Nat
<1>1. \A c \in Calls : Counted(c) => c \in Started
  BY DEF TelemetryInv, CallStage, Counted, Started
<1>2. InFlight(err) \in SUBSET Started /\ Timing(err) \in SUBSET Started
  BY <1>1 DEF InFlight, Timing
<1>3. Len(published) \in Nat /\ DOMAIN published = 1 .. Len(published)
  BY DEF TelemetryInv, TypeOK
<1>4. EventsOf(err) \in SUBSET (1 .. Len(published)) /\ IsFiniteSet(1 .. Len(published))
  BY <1>3, FS_Interval DEF EventsOf
<1>5. count[Series(err)] \in Nat /\ dur[Series(err)] \in Nat
  BY LabelOK DEF TelemetryInv, TypeOK, Series
<1> QED BY <1>2, <1>4, <1>5, FS_Subset, FS_CardinalityType

\* What a step of c does to the sets that are counted: to one of them, what it
\* does to c.
StaysFor(c) ==
  /\ Counted(c)' <=> Counted(c)
  /\ Counted(c) => /\ calls'[c].err = calls[c].err
                   /\ Reported(c)' <=> Reported(c)
                   /\ calls'[c].pc = "counted" <=> calls[c].pc = "counted"

LEMMA UncountedStays ==
  ASSUME NEW c \in Calls, \A d \in Calls : d # c => calls'[d] = calls[d], StaysFor(c),
         NEW err \in Errors
  PROVE  InFlight(err)' = InFlight(err) /\ Timing(err)' = Timing(err)
<1>1. \A d \in Calls : StaysFor(d)
  BY DEF StaysFor, Counted, Reported
<1>2. \A d \in Calls : d \in InFlight(err)' <=> d \in InFlight(err)
  BY <1>1 DEF StaysFor, InFlight
<1>3. \A d \in Calls : d \in Timing(err)' <=> d \in Timing(err)
  BY <1>1 DEF StaysFor, Timing
<1> QED BY <1>2, <1>3 DEF InFlight, Timing

LEMMA BalanceStays ==
  ASSUME TelemetryInv, NEW c \in Calls, \A d \in Calls : d # c => calls'[d] = calls[d],
         StaysFor(c), UNCHANGED <<count, dur, published>>, NEW err \in Errors, Balanced(err)
  PROVE  Balanced(err)'
<1>1. InFlight(err)' = InFlight(err) /\ Timing(err)' = Timing(err)
  BY UncountedStays
<1>2. EventsOf(err)' = EventsOf(err)
  BY DEF EventsOf
<1>3. count'[Series(err)] = count[Series(err)] /\ dur'[Series(err)] = dur[Series(err)]
  OBVIOUS
<1> QED BY <1>1, <1>2, <1>3 DEF Balanced

LEMMA DecidesStays ==
  ASSUME TypeOK, NEW c \in Calls, CallStage(c), Decides(c)
  PROVE  StaysFor(c)
<1>1. calls[c].entry \in BOOLEAN
  BY DEF TypeOK, Call
<1>2. CASE Waits(c) \/ Refuses(c) \/ Evaluates(c) \/ Leaves(c)
  <2>1. calls[c].pc \in {"idle", "received", "deciding", "evaluated"} /\ ~calls[c].entry
    BY <1>1, <1>2 DEF Waits, Refuses, Evaluates, Leaves, CallStage
  <2>2. calls'[c].pc \notin {"counted", "observed"} /\ calls'[c].entry = calls[c].entry
    BY <1>2 DEF Waits, Refuses, Evaluates, Leaves, KeepsAnswer
  <2> QED BY <2>1, <2>2 DEF StaysFor, Counted
<1>3. CASE Answers(c)
  BY <1>3 DEF Answers, StaysFor, Counted, Reported, KeepsResult
<1> QED BY <1>2, <1>3 DEF Decides

LEMMA StepBooksInv == BooksInv /\ [Next]_vars => BooksInv'
<1> SUFFICES ASSUME BooksInv, [Next]_vars PROVE BooksInv'
  OBVIOUS
<1>0. /\ TelemetryInv /\ TypeOK /\ IsFiniteSet(Started)
      /\ \A err \in Errors : Balanced(err)
      /\ \A c \in Calls : CallStage(c)
  BY DEF BooksInv, TelemetryInv
<1>1. TelemetryInv'
  BY <1>0, StepTelemetryInv
<1>2. CASE UNCHANGED vars
  BY <1>0, <1>1, <1>2
     DEF BooksInv, Balanced, vars, Started, InFlight, Timing, EventsOf, Counted, Reported
<1>3. CASE Next
  <2>1. PICK c \in Calls : /\ calls' \in [Calls -> Call]
                           /\ \A d \in Calls : d # c => calls'[d] = calls[d]
                           /\ Decides(c) \/ Reports(c)
    BY <1>0, <1>3, StepSets
  <2>2. IsFiniteSet(Started')
    <3>1. calls'[c].pc # "idle"
      BY <2>1 DEF Decides, Reports, Waits, Refuses, Evaluates, Leaves, Answers
    <3>2. Started' = Started \cup {c}
      BY <2>1, <3>1 DEF Started
    <3> QED BY <1>0, <3>2, FS_AddElement
  <2> SUFFICES ASSUME NEW err \in Errors PROVE Balanced(err)'
    BY <1>1, <2>2 DEF BooksInv
  <2>3. /\ IsFiniteSet(InFlight(err)) /\ Cardinality(InFlight(err)) \in Nat
        /\ IsFiniteSet(Timing(err)) /\ Cardinality(Timing(err)) \in Nat
        /\ IsFiniteSet(EventsOf(err)) /\ Cardinality(EventsOf(err)) \in Nat
        /\ count[Series(err)] \in Nat /\ dur[Series(err)] \in Nat
    BY <1>0, BooksAreFinite
  <2>4. Balanced(err) /\ CallStage(c) /\ calls[c].err \in Errors
    BY <1>0 DEF TypeOK, Call
  <2>5. LabelOf(c) = Series(calls[c].err) /\ LabelOf(c) \in Labels /\ Series(err) \in Labels
        /\ (LabelOf(c) = Series(err) <=> calls[c].err = err)
    BY <2>4, LabelOK DEF LabelOf, Series
  <2>6. CASE Decides(c)
    <3>1. UNCHANGED <<count, dur, published>>
      BY <2>6 DEF Decides
    <3> QED BY <1>0, <2>1, <2>4, <2>6, <3>1, DecidesStays, BalanceStays
  <2>7. CASE Reports(c) /\ calls[c].pc = "decided"
    <3>1. /\ calls'[c].pc = "counted" /\ Advances(c)
          /\ count' = [count EXCEPT ![LabelOf(c)] = @ + 1] /\ UNCHANGED <<dur, published>>
      BY <2>7 DEF Reports, CountDecision
    <3>2. ~Counted(c) /\ Counted(c)' /\ ~Reported(c)'
      <4>1. calls[c].entry \in BOOLEAN
        BY <1>0 DEF TypeOK, Call
      <4> QED BY <2>4, <2>7, <3>1, <4>1 DEF CallStage, Counted, Reported
    <3>3. EventsOf(err)' = EventsOf(err)
      BY <3>1 DEF EventsOf
    <3>4. CASE calls[c].err = err
      <4>1. InFlight(err)' = InFlight(err) \cup {c} /\ c \notin InFlight(err)
        BY <2>1, <3>1, <3>2, <3>4 DEF InFlight, Advances, KeepsResult, Counted, Reported
      <4>2. Timing(err)' = Timing(err) \cup {c} /\ c \notin Timing(err)
        BY <2>1, <3>1, <3>2, <3>4 DEF Timing, Advances, KeepsResult, Counted
      <4>3. /\ Cardinality(InFlight(err)') = Cardinality(InFlight(err)) + 1
            /\ Cardinality(Timing(err)') = Cardinality(Timing(err)) + 1
        BY <2>3, <4>1, <4>2, FS_AddElement
      <4>4. count'[Series(err)] = count[Series(err)] + 1 /\ dur'[Series(err)] = dur[Series(err)]
        BY <1>0, <2>5, <3>1, <3>4 DEF TypeOK
      <4> QED BY <2>3, <2>4, <3>3, <4>3, <4>4 DEF Balanced
    <3>5. CASE calls[c].err # err
      <4>1. InFlight(err)' = InFlight(err) /\ Timing(err)' = Timing(err)
        BY <2>1, <3>1, <3>5
           DEF InFlight, Timing, Advances, KeepsResult, Counted, Reported
      <4>2. count'[Series(err)] = count[Series(err)] /\ dur'[Series(err)] = dur[Series(err)]
        BY <1>0, <2>5, <3>1, <3>5 DEF TypeOK
      <4> QED BY <2>4, <3>3, <4>1, <4>2 DEF Balanced
    <3> QED BY <3>4, <3>5
  <2>8. CASE Reports(c) /\ calls[c].pc = "counted"
    <3>1. /\ calls'[c].pc = "observed" /\ Advances(c)
          /\ dur' = [dur EXCEPT ![LabelOf(c)] = @ + 1] /\ UNCHANGED <<count, published>>
      BY <2>8 DEF Reports, ObserveDuration
    <3>2. Counted(c) /\ Counted(c)' /\ ~Reported(c) /\ ~Reported(c)'
      BY <2>8, <3>1 DEF Counted, Reported
    <3>3. EventsOf(err)' = EventsOf(err)
      BY <3>1 DEF EventsOf
    <3>4. InFlight(err)' = InFlight(err)
      BY <2>1, <3>1, <3>2 DEF InFlight, Advances, KeepsResult, Counted, Reported
    <3>5. CASE calls[c].err = err
      <4>1. Timing(err)' = Timing(err) \ {c} /\ c \in Timing(err)
        BY <2>1, <2>8, <3>1, <3>2, <3>5 DEF Timing, Advances, KeepsResult, Counted
      <4>2. Cardinality(Timing(err)') = Cardinality(Timing(err)) - 1
        BY <2>3, <4>1, FS_RemoveElement
      <4>3. dur'[Series(err)] = dur[Series(err)] + 1 /\ count'[Series(err)] = count[Series(err)]
        BY <1>0, <2>5, <3>1, <3>5 DEF TypeOK
      <4> QED BY <2>3, <2>4, <3>3, <3>4, <4>2, <4>3 DEF Balanced
    <3>6. CASE calls[c].err # err
      <4>1. Timing(err)' = Timing(err)
        BY <2>1, <3>1, <3>6 DEF Timing, Advances, KeepsResult, Counted
      <4>2. dur'[Series(err)] = dur[Series(err)] /\ count'[Series(err)] = count[Series(err)]
        BY <1>0, <2>5, <3>1, <3>6 DEF TypeOK
      <4> QED BY <2>4, <3>3, <3>4, <4>1, <4>2 DEF Balanced
    <3> QED BY <3>5, <3>6
  <2>9. CASE Reports(c) /\ calls[c].pc \in {"answered", "accessed"}
    <3>1. /\ UNCHANGED <<count, dur, published>> /\ Advances(c)
          /\ calls'[c].pc \in {"accessed", "logged", "done"}
          /\ calls'[c].pc = "done" => ~HasEvent(c)
      BY <2>9 DEF Reports, LogAccess, LogDecision
    <3>2. StaysFor(c)
      BY <2>9, <3>1 DEF StaysFor, Counted, Reported, HasEvent, Advances, KeepsResult,
                        KeepsAnswer, KeepsNames
    <3> QED BY <1>0, <2>1, <2>4, <3>1, <3>2, BalanceStays
  <2>10. CASE Reports(c) /\ calls[c].pc = "logged"
    <3>1. /\ calls'[c].pc = "done" /\ Advances(c)
          /\ published' = Append(published, SinkEvent(c)) /\ UNCHANGED <<count, dur>>
      BY <2>10 DEF Reports, Publish
    <3>2. Counted(c) /\ ~Reported(c) /\ Reported(c)'
      BY <2>4, <2>10, <3>1 DEF CallStage, HasEvent, Counted, Reported, Advances, KeepsNames
    <3>3. Timing(err)' = Timing(err)
      BY <2>1, <2>10, <3>1 DEF Timing, Advances, KeepsResult, Counted
    <3>4. published \in Seq(Event) /\ SinkEvent(c).outcome = Outcome(calls[c].err)
      BY <1>0, EventOK DEF TypeOK, OutcomeOf
    <3>5. /\ DOMAIN published' = DOMAIN published \cup {Len(published) + 1}
          /\ Len(published) + 1 \notin DOMAIN published
          /\ published'[Len(published) + 1] = SinkEvent(c)
          /\ \A i \in DOMAIN published : published'[i] = published[i]
      BY <3>1, <3>4
    <3>6. CASE calls[c].err = err
      <4>1. InFlight(err)' = InFlight(err) \ {c} /\ c \in InFlight(err)
        BY <2>1, <3>1, <3>2, <3>6 DEF InFlight, Advances, KeepsResult, Counted, Reported
      <4>2. EventsOf(err)' = EventsOf(err) \cup {Len(published) + 1}
            /\ Len(published) + 1 \notin EventsOf(err)
        BY <3>4, <3>5, <3>6 DEF EventsOf
      <4>3. /\ Cardinality(InFlight(err)') = Cardinality(InFlight(err)) - 1
            /\ Cardinality(EventsOf(err)') = Cardinality(EventsOf(err)) + 1
        <5>1. Cardinality(InFlight(err)') = Cardinality(InFlight(err)) - 1
          BY <2>3, <4>1, FS_RemoveElement
        <5>2. Cardinality(EventsOf(err)') = Cardinality(EventsOf(err)) + 1
          BY <2>3, <4>2, FS_AddElement
        <5> QED BY <5>1, <5>2
      <4> QED BY <2>3, <2>4, <3>1, <3>3, <4>3 DEF Balanced
    <3>7. CASE calls[c].err # err
      <4>1. InFlight(err)' = InFlight(err)
        BY <2>1, <3>1, <3>7 DEF InFlight, Advances, KeepsResult, Counted, Reported
      <4>2. Outcome(calls[c].err) # Outcome(err)
        BY <2>4, <3>7, OutcomeOK
      <4>3. EventsOf(err)' = EventsOf(err)
        BY <3>4, <3>5, <4>2 DEF EventsOf
      <4> QED BY <2>4, <3>1, <3>3, <4>1, <4>3 DEF Balanced
    <3> QED BY <3>6, <3>7
  <2>11. Reports(c) => calls[c].pc \in {"decided", "counted", "answered", "accessed", "logged"}
    BY DEF Reports
  <2> QED BY <2>1, <2>6, <2>7, <2>8, <2>9, <2>10, <2>11
<1> QED BY <1>2, <1>3

\* The books balance at every instant: a series of markup_decide_total is the
\* events of its outcome and the calls on their way there or without an ID to
\* go under; the histogram lacks the calls between the two updates
\* (Sink.RecordDecision, WithAccessLog).
THEOREM BooksAreTrue == Spec => []BooksBalance
<1>1. Init => BooksInv
  <2> SUFFICES ASSUME Init PROVE BooksInv
    OBVIOUS
  <2>1. TelemetryInv
    BY InitTelemetryInv
  <2>2. \A c \in Calls : calls[c].pc = "idle" /\ ~calls[c].entry
    BY DEF Init, Fresh
  <2>3. Started = {}
    BY <2>2 DEF Started
  <2>4. ASSUME NEW err \in Errors PROVE Balanced(err)
    <3>1. InFlight(err) = {} /\ Timing(err) = {} /\ EventsOf(err) = {}
      BY <2>2 DEF Init, InFlight, Timing, EventsOf, Counted
    <3>2. count[Series(err)] = 0 /\ dur[Series(err)] = 0
      BY LabelOK DEF Init, Series
    <3> QED BY <3>1, <3>2, FS_EmptySet DEF Balanced
  <2> QED BY <2>1, <2>3, <2>4, FS_EmptySet DEF BooksInv
<1>2. ASSUME BooksInv PROVE BooksBalance
  <2>1. ASSUME NEW err \in Errors, NEW mine, mine = {c \in Calls : Counted(c) /\ calls[c].err = err}
        PROVE  /\ count[Label(Metric(err))] =
                    Cardinality({i \in DOMAIN published : published[i].outcome = Outcome(err)})
                      + Cardinality({c \in mine : ~Reported(c)})
               /\ dur[Label(Metric(err))] =
                    count[Label(Metric(err))] - Cardinality({c \in mine : calls[c].pc = "counted"})
    <3>1. Balanced(err)
      BY <1>2 DEF BooksInv
    <3>2. {c \in mine : ~Reported(c)} = InFlight(err)
          /\ {c \in mine : calls[c].pc = "counted"} = Timing(err)
      BY <2>1 DEF InFlight, Timing
    <3> QED BY <3>1, <3>2 DEF Balanced, Series, EventsOf
  <2> QED BY <2>1 DEF BooksBalance
<1> QED BY <1>1, <1>2, StepBooksInv, PTL DEF Spec

=============================================================================
