---------------------------- MODULE ServingProof ----------------------------
(***************************************************************************)
(* Proofs about Serving, for every set of calls, reloads and posts, every  *)
(* file history and every configuration.  IInv is the inductive invariant: *)
(* it says what each handler has captured so far, in terms of the          *)
(* histories, and where each installed decider came from.  From it, both   *)
(* holders of Serving are AtomicHolders.  The last part is about Holder,   *)
(* word by word, which justifies the single steps of Serving.              *)
(***************************************************************************)
EXTENDS Serving, Holder, RuleSetsProof, TLAPS

-----------------------------------------------------------------------------
(* What the wired loaders return.                                          *)

\* A file that loads yields a decider the holder can take; in rules mode it is
\* the parsed rule list under the wired adapter and model.
LEMMA FileLoaderOK ==
  ASSUME NEW content \in Files, FileLoader(content).err = "none"
  PROVE  /\ FileLoader(content).decider \in Deciders
         /\ GateWired => /\ FileLoader(content).decider.rules = content.rules
                         /\ content.opens /\ content.parses
<1>1. CASE GateWired
  <2>1. content \in Csv /\ Adapter \in Adapters /\ Model \in Models
    BY <1>1, ServingAssumption DEF GateWired
  <2>2. FileLoader(content) = RulesLoader(content, Adapter, Model)
    BY <1>1 DEF FileLoader
  <2>3. /\ FileLoader(content).decider
              = [adapter |-> Adapter, rules |-> content.rules, model |-> Model]
        /\ content.opens /\ content.parses
    BY <2>1, <2>2, RulesLoaderOK
  <2>4. content.rules \in Seq(Rule)
    BY <2>1 DEF Csv
  <2> QED BY <2>1, <2>3, <2>4 DEF Deciders
<1>2. CASE ~GateWired
  <2>1. content \in Snapshot
    BY <1>2, ServingAssumption DEF GateWired
  <2>2. FileLoader(content) = SnapshotLoader(content)
    BY <1>2 DEF FileLoader
  <2>3. SnapshotLoader(content) = LoadIntoIndexedDecider(content)
    BY <2>2 DEF SnapshotLoader, Failed
  <2> QED BY <1>2, <2>1, <2>2, <2>3, SnapshotDeciderType
<1> QED BY <1>1, <1>2

\* A body that loads yields a decider too, and a CSV body that loads is healthy.
LEMMA BodyLoaderOK ==
  ASSUME NEW body \in Bodies, body.media \in {"csv", "json"},
         BodyLoader(body).err = "none"
  PROVE  /\ BodyLoader(body).decider \in Deciders
         /\ body.media = "csv" => IsHealthy(BodyLoader(body).decider.rules)
<1>1. CASE body.media = "csv"
  <2>1. body.content \in Csv /\ Adapter \in Adapters /\ Model \in Models
    BY <1>1, ServingAssumption DEF Body
  <2>2. BodyLoader(body) = CsvBody(body.content, Adapter, Model)
    BY <1>1 DEF BodyLoader
  <2>3. /\ BodyLoader(body).decider
              = [adapter |-> Adapter, rules |-> body.content.rules, model |-> Model]
        /\ IsHealthy(body.content.rules)
    BY <2>1, <2>2, CsvBodyOK
  <2>4. body.content.rules \in Seq(Rule)
    BY <2>1 DEF Csv
  <2>5. BodyLoader(body).decider.rules = body.content.rules
    BY <2>3
  <2> QED BY <2>1, <2>3, <2>4, <2>5 DEF Deciders
<1>2. CASE body.media = "json"
  <2>1. body.content \in Snapshot
    BY <1>2, ServingAssumption DEF Body
  <2>2. BodyLoader(body) = LoadIntoIndexedDecider(body.content)
    BY <1>2 DEF BodyLoader, JsonBody, Failed
  <2> QED BY <1>2, <2>1, <2>2, SnapshotDeciderType
<1> QED BY <1>1, <1>2

\* BuildRules yields guardrail rules, whatever the configuration.
LEMMA BuildRulesType ==
  ASSUME NEW cfg \in Config
  PROVE  BuildRules(cfg) \in Seq(GuardrailRule)
<1>1. /\ cfg.factorRange \in SUBSET [min: Factor, max: Factor]
      /\ cfg.countries \in SUBSET SUBSET Countries
      /\ cfg.fields \in SUBSET SUBSET STRING
  BY DEF Config
<1> DEFINE first  == IF cfg.factorRange = {} THEN <<>>
                     ELSE <<FactorRange((CHOOSE v \in cfg.factorRange : TRUE).min,
                                        (CHOOSE v \in cfg.factorRange : TRUE).max)>>
           second == IF cfg.countries = {} THEN <<>>
                     ELSE <<AllowedCountries(CHOOSE v \in cfg.countries : TRUE)>>
           third  == IF cfg.fields = {} THEN <<>>
                     ELSE <<RequiredFields(CHOOSE v \in cfg.fields : TRUE)>>
<1>2. BuildRules(cfg) = first \o second \o third
  BY DEF BuildRules
<1>3. ASSUME NEW rule \in GuardrailRule PROVE <<rule>> \in Seq(GuardrailRule)
  OBVIOUS
<1>4. <<>> \in Seq(GuardrailRule)
  OBVIOUS
<1>5. first \in Seq(GuardrailRule)
  <2>1. CASE cfg.factorRange # {}
    <3>1. PICK v \in [min: Factor, max: Factor] : v = (CHOOSE w \in cfg.factorRange : TRUE)
      BY <1>1, <2>1
    <3>2. FactorRange(v.min, v.max) \in GuardrailRule
      BY DEF FactorRange, GuardrailRule
    <3> QED BY <1>3, <2>1, <3>1, <3>2
  <2> QED BY <1>4, <2>1
<1>6. second \in Seq(GuardrailRule)
  <2>1. CASE cfg.countries # {}
    <3>1. (CHOOSE v \in cfg.countries : TRUE) \in SUBSET Countries
      BY <1>1, <2>1
    <3>2. AllowedCountries(CHOOSE v \in cfg.countries : TRUE) \in GuardrailRule
      BY <3>1 DEF AllowedCountries, GuardrailRule
    <3> QED BY <1>3, <2>1, <3>2
  <2> QED BY <1>4, <2>1
<1>7. third \in Seq(GuardrailRule)
  <2>1. CASE cfg.fields # {}
    <3>1. (CHOOSE v \in cfg.fields : TRUE) \in SUBSET STRING
      BY <1>1, <2>1
    <3>2. RequiredFields(CHOOSE v \in cfg.fields : TRUE) \in GuardrailRule
      BY <3>1 DEF RequiredFields, GuardrailRule
    <3> QED BY <1>3, <2>1, <3>2
  <2> QED BY <1>4, <2>1
<1> HIDE DEF first, second, third
<1> QED BY <1>2, <1>5, <1>6, <1>7

-----------------------------------------------------------------------------
(* The histories only grow.                                                *)

HistoriesGrow ==
  /\ Prefix(files, files')
  /\ Prefix(deciders, deciders')
  /\ Prefix(envelopes, envelopes')

\* The decider a reload is about to install is one, whichever path it took.
LEMMA SwapType ==
  ASSUME IInv, NEW r \in Reloads, BodySwap(r) \/ FileSwap(r)
  PROVE  \E decider \in Deciders, file \in Nat : Acknowledge(r, decider, file)
<1>1. CASE BodySwap(r)
  <2>1. reloads[r].body \in Bodies
    BY DEF IInv, TypeOK, ReloadRecord
  <2>2. BodyLoader(reloads[r].body).decider \in Deciders
    BY <1>1, <2>1, BodyLoaderOK DEF BodySwap, HasBody
  <2> QED BY <1>1, <2>2 DEF BodySwap
<1>2. CASE FileSwap(r)
  <2>1. reloads[r].load \in 1 .. Len(files) /\ FileLoader(files[reloads[r].load]).err = "none"
    BY <1>2 DEF FileSwap, IInv, TypeOK, ReloadInv, ReloadRecord
  <2>2. files[reloads[r].load] \in Files
    BY <2>1 DEF IInv, TypeOK
  <2>3. FileLoader(files[reloads[r].load]).decider \in Deciders
    BY <2>1, <2>2, FileLoaderOK
  <2>4. reloads[r].load \in Nat
    BY DEF IInv, TypeOK, ReloadRecord
  <2> QED BY <1>2, <2>3, <2>4 DEF FileSwap
<1> QED BY <1>1, <1>2

-----------------------------------------------------------------------------
(* Type correctness.                                                       *)

\* Every step keeps every variable in its type.
LEMMA TypeStep ==
  ASSUME IInv, [Next]_vars
  PROVE  TypeOK'
<1>0. TypeOK
  BY DEF IInv
<1>a. /\ Len(files) \in Nat /\ Len(deciders) \in Nat
      /\ Len(envelopes) \in Nat /\ Len(envelopes) + 1 \in Nat
      /\ 200 \in ReloadStatus /\ 200 \in PostStatus /\ 400 \in PostStatus
  BY <1>0 DEF TypeOK, ReloadStatus, PostStatus
<1>1. CASE EditFile
  BY <1>0, <1>1 DEF TypeOK, EditFile
<1>2. ASSUME NEW c \in Calls, Arrive(c) PROVE TypeOK'
  <2>1. calls[c] \in CallRecord
    BY <1>0 DEF TypeOK
  <2>2. [calls[c] EXCEPT !.pc = "entered", !.sinceD = Len(deciders),
                            !.sinceE = Len(envelopes)] \in CallRecord
    BY <1>a, <2>1 DEF CallRecord
  <2>3. calls' = [calls EXCEPT ![c] = [calls[c] EXCEPT !.pc = "entered", !.sinceD = Len(deciders),
                            !.sinceE = Len(envelopes)]]
    BY <1>2 DEF Arrive
  <2> QED BY <1>0, <1>2, <2>2, <2>3 DEF TypeOK, Arrive
<1>3. ASSUME NEW c \in Calls, CaptureRules(c) PROVE TypeOK'
  <2>1. calls[c] \in CallRecord
    BY <1>0 DEF TypeOK
  <2>2. [calls[c] EXCEPT !.pc = "guarded", !.rules = Len(envelopes)] \in CallRecord
    BY <1>a, <2>1 DEF CallRecord
  <2>3. calls' = [calls EXCEPT ![c] = [calls[c] EXCEPT !.pc = "guarded", !.rules = Len(envelopes)]]
    BY <1>3 DEF CaptureRules
  <2> QED BY <1>0, <1>3, <2>2, <2>3 DEF TypeOK, CaptureRules
<1>4. ASSUME NEW c \in Calls, CaptureInner(c) PROVE TypeOK'
  <2>1. calls[c] \in CallRecord
    BY <1>0 DEF TypeOK
  <2>2. [calls[c] EXCEPT !.pc = "captured", !.inner = Len(deciders)] \in CallRecord
    BY <1>a, <2>1 DEF CallRecord
  <2>3. calls' = [calls EXCEPT ![c] = [calls[c] EXCEPT !.pc = "captured", !.inner = Len(deciders)]]
    BY <1>4 DEF CaptureInner
  <2> QED BY <1>0, <1>4, <2>2, <2>3 DEF TypeOK, CaptureInner
<1>5. ASSUME NEW c \in Calls, EngineFails(c) \/ Evaluate(c) PROVE TypeOK'
  <2>0. PICK status \in CallStatus : Finish(c, status)
    BY <1>5 DEF EngineFails, Evaluate, NoMatch, Veto, Release, CallStatus
  <2>1. calls[c] \in CallRecord
    BY <1>0 DEF TypeOK
  <2>2. [calls[c] EXCEPT !.pc = "done", !.status = status] \in CallRecord
    BY <1>a, <2>0, <2>1 DEF CallRecord
  <2>3. calls' = [calls EXCEPT ![c] = [calls[c] EXCEPT !.pc = "done", !.status = status]]
    BY <2>0 DEF Finish
  <2> QED BY <1>0, <2>0, <2>2, <2>3 DEF TypeOK, Finish
<1>6. ASSUME NEW r \in Reloads, StartReload(r) PROVE TypeOK'
  <2>1. reloads[r] \in ReloadRecord
    BY <1>0 DEF TypeOK
  <2>2. [reloads[r] EXCEPT !.pc = "started", !.sinceF = Len(files),
                              !.sinceD = Len(deciders)] \in ReloadRecord
    BY <1>a, <2>1 DEF ReloadRecord
  <2>3. reloads' = [reloads EXCEPT ![r] = [reloads[r] EXCEPT !.pc = "started", !.sinceF = Len(files),
                              !.sinceD = Len(deciders)]]
    BY <1>6 DEF StartReload
  <2> QED BY <1>0, <1>6, <2>2, <2>3 DEF TypeOK, StartReload
<1>7. ASSUME NEW r \in Reloads, RefuseBody(r) \/ BodyFails(r) \/ GateFails(r) \/ LoadFails(r)
      PROVE  TypeOK'
  <2>0. PICK status \in ReloadStatus : Refuse(r, status)
    BY <1>7 DEF RefuseBody, BodyFails, GateFails, LoadFails, StatusFor, ReloadStatus
  <2>1. reloads[r] \in ReloadRecord
    BY <1>0 DEF TypeOK
  <2>2. [reloads[r] EXCEPT !.pc = "done", !.status = status] \in ReloadRecord
    BY <1>a, <2>0, <2>1 DEF ReloadRecord
  <2>3. reloads' = [reloads EXCEPT ![r] = [reloads[r] EXCEPT !.pc = "done", !.status = status]]
    BY <2>0 DEF Refuse
  <2> QED BY <1>0, <2>0, <2>2, <2>3 DEF TypeOK, Refuse
<1>8. ASSUME NEW r \in Reloads, GatePasses(r) PROVE TypeOK'
  <2>1. reloads[r] \in ReloadRecord
    BY <1>0 DEF TypeOK
  <2>2. [reloads[r] EXCEPT !.pc = "gated", !.gate = Len(files)] \in ReloadRecord
    BY <1>a, <2>1 DEF ReloadRecord
  <2>3. reloads' = [reloads EXCEPT ![r] = [reloads[r] EXCEPT !.pc = "gated", !.gate = Len(files)]]
    BY <1>8 DEF GatePasses
  <2> QED BY <1>0, <1>8, <2>2, <2>3 DEF TypeOK, GatePasses
<1>9. ASSUME NEW r \in Reloads, Load(r) PROVE TypeOK'
  <2>1. reloads[r] \in ReloadRecord
    BY <1>0 DEF TypeOK
  <2>2. [reloads[r] EXCEPT !.pc = "loaded", !.load = Len(files)] \in ReloadRecord
    BY <1>a, <2>1 DEF ReloadRecord
  <2>3. reloads' = [reloads EXCEPT ![r] = [reloads[r] EXCEPT !.pc = "loaded", !.load = Len(files)]]
    BY <1>9 DEF Load
  <2> QED BY <1>0, <1>9, <2>2, <2>3 DEF TypeOK, Load
<1>10. ASSUME NEW r \in Reloads, BodySwap(r) \/ FileSwap(r) PROVE TypeOK'
  <2>1. PICK decider \in Deciders, file \in Nat : Acknowledge(r, decider, file)
    BY <1>10, SwapType
  <2>2. [decider |-> decider, by |-> r, file |-> file]
          \in [decider: Deciders, by: Reloads \cup {Boot}, file: Nat]
    OBVIOUS
  <2>3. deciders' \in Seq([decider: Deciders, by: Reloads \cup {Boot}, file: Nat])
    BY <1>0, <2>1, <2>2, AppendGrows DEF TypeOK, Acknowledge, Swap
  <2>4. reloads[r] \in ReloadRecord
    BY <1>0 DEF TypeOK
  <2>5. [reloads[r] EXCEPT !.pc = "done", !.status = 200] \in ReloadRecord
    BY <1>a, <2>4 DEF ReloadRecord
  <2>6. reloads' = [reloads EXCEPT ![r] = [reloads[r] EXCEPT !.pc = "done", !.status = 200]]
    BY <2>1 DEF Acknowledge
  <2> QED BY <1>0, <2>1, <2>3, <2>5, <2>6 DEF TypeOK, Acknowledge
<1>11. ASSUME NEW p \in Posts, PostRefused(p) PROVE TypeOK'
  <2>1. posts[p] \in PostRecord
    BY <1>0 DEF TypeOK
  <2>2. ASSUME NEW status \in PostStatus
        PROVE  [posts[p] EXCEPT !.pc = "done", !.status = status] \in PostRecord
    BY <2>1 DEF PostRecord
  <2>3. posts' = [posts EXCEPT ![p] = [posts[p] EXCEPT !.pc = "done", !.status = 400]]
    BY <1>11 DEF PostRefused
  <2>4. [posts[p] EXCEPT !.pc = "done", !.status = 400] \in PostRecord
    BY <1>a, <2>2
  <2> QED BY <1>0, <1>11, <2>3, <2>4 DEF TypeOK, PostRefused
<1>12. ASSUME NEW p \in Posts, PostReplace(p) PROVE TypeOK'
  <2>1. posts[p] \in PostRecord
    BY <1>0 DEF TypeOK
  <2>2. posts[p].cfg \in Config
    BY <2>1, ServingAssumption DEF PostRecord
  <2>3. BuildRules(posts[p].cfg) \in Seq(GuardrailRule)
    BY <2>2, BuildRulesType
  <2>4. [rules |-> BuildRules(posts[p].cfg), by |-> p, at |-> Len(deciders)]
          \in [rules: Seq(GuardrailRule), by: Posts \cup {Boot}, at: Nat]
    BY <1>a, <2>3
  <2>5. envelopes' \in Seq([rules: Seq(GuardrailRule), by: Posts \cup {Boot}, at: Nat])
    BY <1>0, <1>12, <2>4, AppendGrows DEF TypeOK, PostReplace, Replace
  <2>6. [posts[p] EXCEPT !.pc = "replaced", !.mine = Len(envelopes) + 1] \in PostRecord
    BY <1>a, <2>1 DEF PostRecord
  <2>7. posts' = [posts EXCEPT ![p] = [posts[p] EXCEPT !.pc = "replaced",
                                                       !.mine = Len(envelopes) + 1]]
    BY <1>12 DEF PostReplace
  <2> QED BY <1>0, <1>12, <2>5, <2>6, <2>7 DEF TypeOK, PostReplace
<1>13. ASSUME NEW p \in Posts, PostEcho(p) PROVE TypeOK'
  <2>1. posts[p] \in PostRecord
    BY <1>0 DEF TypeOK
  <2>2. [posts[p] EXCEPT !.pc = "done", !.echo = Len(envelopes), !.status = 200] \in PostRecord
    BY <1>a, <2>1 DEF PostRecord
  <2>3. posts' = [posts EXCEPT ![p] = [posts[p] EXCEPT !.pc = "done", !.echo = Len(envelopes), !.status = 200]]
    BY <1>13 DEF PostEcho
  <2> QED BY <1>0, <1>13, <2>2, <2>3 DEF TypeOK, PostEcho
<1>14. CASE UNCHANGED vars
  BY <1>0, <1>14 DEF TypeOK, vars
<1> QED
  BY <1>1, <1>2, <1>3, <1>4, <1>5, <1>6, <1>7, <1>8, <1>9, <1>10, <1>11, <1>12, <1>13, <1>14
     DEF Next, ReloadStep

-----------------------------------------------------------------------------
(* Every step extends the histories, and moves at most one handler.        *)

\* Nothing is ever taken out of a history or written over in it.
LEMMA StepsExtend ==
  ASSUME IInv, [Next]_vars
  PROVE  HistoriesGrow
<1>0. TypeOK
  BY DEF IInv
<1>1. /\ Prefix(files, files) /\ Prefix(deciders, deciders)
      /\ Prefix(envelopes, envelopes)
  BY <1>0, PrefixSelf DEF TypeOK
<1>2. CASE EditFile
  <2>1. PICK content \in Files : files' = Append(files, content)
    BY <1>2 DEF EditFile
  <2>2. Prefix(files, files')
    BY <1>0, <2>1, AppendGrows DEF TypeOK
  <2> QED BY <1>1, <1>2, <2>2 DEF HistoriesGrow, EditFile
<1>3. ASSUME NEW r \in Reloads, BodySwap(r) \/ FileSwap(r) PROVE HistoriesGrow
  <2>1. PICK decider \in Deciders, file \in Nat : Acknowledge(r, decider, file)
    BY <1>3, SwapType
  <2>2. [decider |-> decider, by |-> r, file |-> file]
          \in [decider: Deciders, by: Reloads \cup {Boot}, file: Nat]
    OBVIOUS
  <2>3. Prefix(deciders, deciders')
    BY <1>0, <2>1, <2>2, AppendGrows DEF TypeOK, Acknowledge, Swap
  <2> QED BY <1>1, <2>1, <2>3 DEF HistoriesGrow, Acknowledge
<1>4. ASSUME NEW p \in Posts, PostReplace(p) PROVE HistoriesGrow
  <2>1. posts[p].cfg \in Config
    BY <1>0, ServingAssumption DEF TypeOK, PostRecord
  <2>2. [rules |-> BuildRules(posts[p].cfg), by |-> p, at |-> Len(deciders)]
          \in [rules: Seq(GuardrailRule), by: Posts \cup {Boot}, at: Nat]
    BY <1>0, <2>1, BuildRulesType DEF TypeOK
  <2>3. Prefix(envelopes, envelopes')
    BY <1>0, <1>4, <2>2, AppendGrows DEF TypeOK, PostReplace, Replace
  <2> QED BY <1>1, <1>4, <2>3 DEF HistoriesGrow, PostReplace
<1>5. ASSUME UNCHANGED <<files, deciders, envelopes>> PROVE HistoriesGrow
  BY <1>1, <1>5 DEF HistoriesGrow
<1> QED
  BY <1>2, <1>3, <1>4, <1>5
     DEF Next, vars, Arrive, CaptureRules, CaptureInner, EngineFails, Evaluate, NoMatch, Veto,
         Release, Finish, StartReload, ReloadStep, RefuseBody, BodyFails, GateFails,
         GatePasses, LoadFails, Load, Refuse, PostRefused, PostEcho

\* The record of a call changes only by a step of that call.
LEMMA CallMoves ==
  ASSUME IInv, [Next]_vars, NEW c \in Calls
  PROVE  \/ calls'[c] = calls[c]
         \/ Arrive(c) \/ CaptureRules(c) \/ CaptureInner(c)
         \/ \E status \in CallStatus : Evaluating(c) /\ Finish(c, status)
<1>0. calls \in [Calls -> CallRecord]
  BY DEF IInv, TypeOK
<1>1. ASSUME NEW d \in Calls, d # c,
             Arrive(d) \/ CaptureRules(d) \/ CaptureInner(d)
               \/ (\E status \in CallStatus : Finish(d, status))
      PROVE  calls'[c] = calls[c]
  BY <1>0, <1>1 DEF Arrive, CaptureRules, CaptureInner, Finish
<1>2. ASSUME NEW d \in Calls, EngineFails(d) \/ Evaluate(d)
      PROVE  \E status \in CallStatus : Evaluating(d) /\ Finish(d, status)
  BY <1>2 DEF EngineFails, Evaluate, NoMatch, Veto, Release, CallStatus
<1>3. CASE UNCHANGED calls
  BY <1>3
<1> QED
  BY <1>1, <1>2, <1>3
     DEF Next, vars, EditFile, StartReload, ReloadStep, RefuseBody, BodyFails, BodySwap,
         FileSwap, GateFails, GatePasses, LoadFails, Load, Refuse, Acknowledge,
         PostRefused, PostReplace, PostEcho

\* The record of a reload changes only by a step of that reload.
LEMMA ReloadMoves ==
  ASSUME IInv, [Next]_vars, NEW r \in Reloads
  PROVE  \/ reloads'[r] = reloads[r]
         \/ StartReload(r) \/ ReloadStep(r)
<1>0. reloads \in [Reloads -> ReloadRecord]
  BY DEF IInv, TypeOK
<1>1. ASSUME NEW q \in Reloads, q # r, StartReload(q) \/ ReloadStep(q)
      PROVE  reloads'[r] = reloads[r]
  BY <1>0, <1>1
     DEF StartReload, ReloadStep, RefuseBody, BodyFails, BodySwap, FileSwap, GateFails,
         GatePasses, LoadFails, Load, Refuse, Acknowledge
<1>2. CASE UNCHANGED reloads
  BY <1>2
<1> QED
  BY <1>1, <1>2
     DEF Next, vars, EditFile, Arrive, CaptureRules, CaptureInner, EngineFails, Evaluate,
         NoMatch, Veto, Release, Finish, PostRefused, PostReplace, PostEcho

-----------------------------------------------------------------------------
(* Each part of the invariant is kept by every step.                       *)

\* Every entry of the history of deciders has the fields of one.
LEMMA EntryType ==
  ASSUME TypeOK, NEW i \in DOMAIN deciders
  PROVE  /\ i \in 1 .. Len(deciders) /\ deciders[i].file \in Nat
         /\ deciders[i].by \in Reloads \cup {Boot}
         /\ deciders[i].decider \in Deciders
<1> DEFINE Entry == [decider: Deciders, by: Reloads \cup {Boot}, file: Nat]
<1>1. deciders \in Seq(Entry)
  BY DEF TypeOK
<1>2. \A d \in Entry : d.file \in Nat /\ d.by \in Reloads \cup {Boot} /\ d.decider \in Deciders
  OBVIOUS
<1> HIDE DEF Entry
<1>3. i \in 1 .. Len(deciders) /\ deciders[i] \in Entry
  BY <1>1
<1> QED BY <1>2, <1>3

\* What is true of the lengths and of the stamps on the envelopes stays true.
LEMMA HistoryStep ==
  ASSUME IInv, [Next]_vars, TypeOK', HistoriesGrow
  PROVE  /\ Len(files') >= 1 /\ Len(deciders') >= 1 /\ Len(envelopes') >= 1
         /\ \A i \in DOMAIN envelopes' : envelopes'[i].at \in 1 .. Len(deciders')
<1>0. TypeOK /\ Len(files) >= 1 /\ Len(deciders) >= 1 /\ Len(envelopes) >= 1
      /\ \A i \in DOMAIN envelopes : envelopes[i].at \in 1 .. Len(deciders)
  BY DEF IInv
<1>1. /\ Len(files) \in Nat /\ Len(deciders) \in Nat /\ Len(envelopes) \in Nat
      /\ Len(files') \in Nat /\ Len(deciders') \in Nat /\ Len(envelopes') \in Nat
      /\ DOMAIN envelopes = 1 .. Len(envelopes) /\ DOMAIN envelopes' = 1 .. Len(envelopes')
  BY <1>0 DEF TypeOK
<1>2. /\ Len(files) <= Len(files') /\ Len(deciders) <= Len(deciders')
      /\ Len(envelopes) <= Len(envelopes')
      /\ \A i \in 1 .. Len(envelopes) : envelopes'[i] = envelopes[i]
  BY DEF HistoriesGrow, Prefix
<1>3. ASSUME NEW i \in DOMAIN envelopes', i \notin DOMAIN envelopes
      PROVE  envelopes'[i].at = Len(deciders)
  <2>1. PICK p \in Posts : PostReplace(p)
    BY <1>1, <1>2, <1>3
       DEF Next, vars, EditFile, Arrive, CaptureRules, CaptureInner, EngineFails, Evaluate,
           NoMatch, Veto, Release, Finish, StartReload, ReloadStep, RefuseBody, BodyFails,
           BodySwap, FileSwap, GateFails, GatePasses, LoadFails, Load, Refuse, Acknowledge,
           PostRefused, PostEcho
  <2>2. envelopes' = Append(envelopes, [rules |-> BuildRules(posts[p].cfg), by |-> p,
                                        at |-> Len(deciders)])
    BY <2>1 DEF PostReplace, Replace
  <2>3. i = Len(envelopes) + 1
    BY <1>0, <1>1, <1>3, <2>2 DEF TypeOK
  <2> QED BY <1>0, <2>2, <2>3 DEF TypeOK
<1>4. ASSUME NEW i \in DOMAIN envelopes' PROVE envelopes'[i].at \in 1 .. Len(deciders')
  <2>1. CASE i \in DOMAIN envelopes
    BY <1>0, <1>1, <1>2, <2>1
  <2>2. CASE i \notin DOMAIN envelopes
    BY <1>0, <1>1, <1>2, <1>3, <2>2
  <2> QED BY <2>1, <2>2
<1> QED BY <1>0, <1>1, <1>2, <1>4

\* What a call has captured stays within its bounds while the histories grow.
LEMMA CallStep ==
  ASSUME IInv, [Next]_vars, TypeOK', HistoriesGrow, NEW c \in Calls
  PROVE  CallInv(c)'
<1>0. /\ TypeOK /\ CallInv(c) /\ Len(deciders) >= 1 /\ Len(envelopes) >= 1
      /\ \A i \in DOMAIN envelopes : envelopes[i].at \in 1 .. Len(deciders)
  BY DEF IInv
<1>1. /\ Len(deciders) \in Nat /\ Len(envelopes) \in Nat
      /\ Len(deciders') \in Nat /\ Len(envelopes') \in Nat
      /\ DOMAIN envelopes = 1 .. Len(envelopes)
  BY <1>0 DEF TypeOK
<1>2. /\ Len(deciders) <= Len(deciders') /\ Len(envelopes) <= Len(envelopes')
      /\ \A i \in 1 .. Len(envelopes) : envelopes'[i] = envelopes[i]
  BY DEF HistoriesGrow, Prefix
<1>3. calls \in [Calls -> CallRecord] /\ calls[c] \in CallRecord
  BY <1>0 DEF TypeOK
<1>4. /\ calls[c].sinceD \in Nat /\ calls[c].sinceE \in Nat
      /\ calls[c].rules \in Nat /\ calls[c].inner \in Nat
  BY <1>3 DEF CallRecord
<1>5. CASE calls'[c] = calls[c]
  BY <1>0, <1>1, <1>2, <1>4, <1>5 DEF CallInv
<1>6. CASE Arrive(c)
  BY <1>0, <1>1, <1>2, <1>3, <1>4, <1>6 DEF CallInv, Arrive
<1>7. CASE CaptureRules(c)
  BY <1>0, <1>1, <1>2, <1>3, <1>4, <1>7 DEF CallInv, CaptureRules
<1>8. CASE CaptureInner(c)
  BY <1>0, <1>1, <1>2, <1>3, <1>4, <1>8 DEF CallInv, CaptureInner
<1>9. ASSUME NEW status \in CallStatus, Evaluating(c), Finish(c, status) PROVE CallInv(c)'
  BY <1>0, <1>1, <1>2, <1>3, <1>4, <1>9 DEF CallInv, Evaluating, Finish
<1> QED BY <1>5, <1>6, <1>7, <1>8, <1>9, CallMoves

\* What a reload has read so far stays true of the files it read.
LEMMA ReloadStepInv ==
  ASSUME IInv, [Next]_vars, TypeOK', HistoriesGrow, NEW r \in Reloads
  PROVE  ReloadInv(r)'
<1>0. /\ TypeOK /\ ReloadInv(r) /\ Len(files) >= 1 /\ Len(deciders) >= 1
      /\ \A i \in DOMAIN deciders : DeciderInv(i)
  BY DEF IInv
<1>1. /\ Len(files) \in Nat /\ Len(deciders) \in Nat
      /\ Len(files') \in Nat /\ Len(deciders') \in Nat
      /\ DOMAIN deciders = 1 .. Len(deciders)
      /\ \A i \in DOMAIN deciders : deciders[i].file \in Nat /\ deciders[i].file <= Len(files)
  BY <1>0, EntryType DEF TypeOK, DeciderInv
<1>2. /\ Len(files) <= Len(files') /\ Len(deciders) <= Len(deciders')
      /\ \A i \in 1 .. Len(files) : files'[i] = files[i]
      /\ \A i \in 1 .. Len(deciders) : deciders'[i] = deciders[i]
  BY DEF HistoriesGrow, Prefix
<1>3. reloads \in [Reloads -> ReloadRecord] /\ reloads[r] \in ReloadRecord
  BY <1>0 DEF TypeOK
<1>4. /\ reloads[r].sinceF \in Nat /\ reloads[r].sinceD \in Nat
      /\ reloads[r].gate \in Nat /\ reloads[r].load \in Nat
  BY <1>3 DEF ReloadRecord
<1>5. CASE reloads'[r] = reloads[r]
  <2>1. reloads[r].pc # "idle" =>
          /\ reloads[r].sinceF \in 1 .. Len(files')
          /\ reloads[r].sinceD \in 1 .. Len(deciders')
          /\ \A i \in 1 .. reloads[r].sinceD : deciders'[i].file <= reloads[r].sinceF
    BY <1>0, <1>1, <1>2, <1>4 DEF ReloadInv
  <2>2. reloads[r].pc \in {"gated", "loaded"} =>
          /\ reloads[r].body.media = "none"
          /\ GateWired => /\ reloads[r].gate \in reloads[r].sinceF .. Len(files')
                          /\ DiagnoseFile(files'[reloads[r].gate]) = "none"
    BY <1>0, <1>1, <1>2, <1>4 DEF ReloadInv
  <2>3. reloads[r].pc = "loaded" =>
          /\ reloads[r].load \in reloads[r].sinceF .. Len(files')
          /\ GateWired => reloads[r].gate <= reloads[r].load
          /\ FileLoader(files'[reloads[r].load]).err = "none"
    BY <1>0, <1>1, <1>2, <1>4 DEF ReloadInv
  <2> QED BY <1>0, <1>5, <2>1, <2>2, <2>3 DEF ReloadInv
<1>6. CASE StartReload(r)
  BY <1>0, <1>1, <1>2, <1>3, <1>4, <1>6 DEF ReloadInv, StartReload
<1>7. ASSUME reloads[r].pc # "idle", NEW status,
             reloads' = [reloads EXCEPT ![r].pc = "done", ![r].status = status]
      PROVE  ReloadInv(r)'
  BY <1>0, <1>1, <1>2, <1>3, <1>4, <1>7 DEF ReloadInv
<1>8. CASE GatePasses(r)
  BY <1>0, <1>1, <1>2, <1>3, <1>4, <1>8 DEF ReloadInv, GatePasses, AtGate, File
<1>9. CASE Load(r)
  BY <1>0, <1>1, <1>2, <1>3, <1>4, <1>9 DEF ReloadInv, Load, AtLoader, File
<1>10. CASE \/ RefuseBody(r) \/ BodyFails(r) \/ BodySwap(r) \/ GateFails(r) \/ LoadFails(r)
            \/ FileSwap(r)
  BY <1>7, <1>10
     DEF RefuseBody, BodyFails, BodySwap, HasBody, GateFails, AtGate, LoadFails, AtLoader,
         FileSwap, Refuse, Acknowledge
<1> QED BY <1>5, <1>6, <1>8, <1>9, <1>10, ReloadMoves DEF ReloadStep

\* A step that changes the history of deciders appends the one a reload loaded.
LEMMA NewDecider ==
  ASSUME IInv, [Next]_vars, deciders' # deciders
  PROVE  \E r \in Reloads, decider \in Deciders, file \in Nat :
           /\ BodySwap(r) \/ FileSwap(r)
           /\ Acknowledge(r, decider, file)
<1>1. PICK r \in Reloads : BodySwap(r) \/ FileSwap(r)
  BY DEF Next, vars, EditFile, Arrive, CaptureRules, CaptureInner, EngineFails, Evaluate,
         NoMatch, Veto, Release, Finish, StartReload, ReloadStep, RefuseBody, BodyFails,
         GateFails, GatePasses, LoadFails, Load, Refuse, PostRefused, PostReplace, PostEcho
<1> QED BY <1>1, SwapType

\* Where a decider came from stays true once it is installed: the reload that
\* installed it is done, and takes no further step.
LEMMA OldDeciderStep ==
  ASSUME IInv, [Next]_vars, TypeOK', HistoriesGrow, NEW i \in DOMAIN deciders
  PROVE  DeciderInv(i)'
<1>0. TypeOK /\ DeciderInv(i)
  BY DEF IInv
<1>1. /\ Len(files) \in Nat /\ Len(files') \in Nat
      /\ Len(deciders) \in Nat /\ Len(deciders') \in Nat
      /\ i \in 1 .. Len(deciders) /\ deciders[i].file \in Nat
      /\ deciders[i].by \in Reloads \cup {Boot}
  BY <1>0, EntryType DEF TypeOK
<1>2. /\ Len(files) <= Len(files') /\ Len(deciders) <= Len(deciders')
      /\ \A j \in 1 .. Len(files) : files'[j] = files[j]
      /\ \A j \in 1 .. Len(deciders) : deciders'[j] = deciders[j]
  BY DEF HistoriesGrow, Prefix
<1>3. deciders'[i] = deciders[i]
  BY <1>1, <1>2
<1>4. CASE deciders[i].by = Boot
  BY <1>0, <1>1, <1>2, <1>3, <1>4 DEF DeciderInv
<1>5. CASE deciders[i].by # Boot
  <2> DEFINE r == deciders[i].by
  <2>1. r \in Reloads /\ reloads[r].pc = "done"
    BY <1>0, <1>1, <1>5 DEF DeciderInv
  <2>2. reloads'[r] = reloads[r]
    BY <2>1, ReloadMoves
       DEF StartReload, ReloadStep, RefuseBody, BodyFails, BodySwap, HasBody, GateFails,
           GatePasses, AtGate, LoadFails, Load, AtLoader, FileSwap
  <2>3. /\ reloads[r].load \in Nat /\ reloads[r].gate \in Nat
        /\ reloads[r].sinceD \in Nat /\ reloads[r].sinceF \in Nat
    BY <1>0, <2>1 DEF TypeOK, ReloadRecord
  <2>4. /\ reloads[r].sinceD < i
        /\ i # 1
        /\ deciders[i].file # 0 => reloads[r].load \in 1 .. Len(files)
        /\ deciders[i].file # 0 /\ GateWired => reloads[r].gate \in 1 .. Len(files)
    BY <1>0, <1>1, <1>5, <2>3 DEF DeciderInv
  <2> HIDE DEF r
  <2>5. /\ deciders'[i].file <= Len(files')
        /\ deciders'[i].by = Boot <=> i = 1
        /\ reloads'[r].pc = "done" /\ reloads'[r].status = 200 /\ reloads'[r].sinceD < i
    BY <1>0, <1>1, <1>2, <1>3, <1>5, <2>2 DEF DeciderInv, r
  <2>6. ASSUME deciders[i].file = 0
        PROVE  /\ reloads'[r].body.media \in {"csv", "json"}
               /\ BodyLoader(reloads'[r].body).err = "none"
               /\ deciders'[i].decider = BodyLoader(reloads'[r].body).decider
    BY <1>0, <1>3, <1>5, <2>2, <2>6 DEF DeciderInv, r
  <2>7. ASSUME deciders[i].file # 0
        PROVE  /\ reloads'[r].body.media = "none"
               /\ deciders'[i].file = reloads'[r].load
               /\ reloads'[r].sinceF <= reloads'[r].load
               /\ FileLoader(files'[reloads'[r].load]).err = "none"
               /\ deciders'[i].decider = FileLoader(files'[reloads'[r].load]).decider
               /\ GateWired => /\ reloads'[r].gate \in 1 .. reloads'[r].load
                               /\ DiagnoseFile(files'[reloads'[r].gate]) = "none"
    BY <1>0, <1>2, <1>3, <1>5, <2>2, <2>4, <2>7 DEF DeciderInv, r
  <2>8. ASSUME deciders[i].file # 0, NEW j \in 1 .. reloads'[r].sinceD
        PROVE  deciders'[j].file <= deciders'[i].file
    <3>1. j \in 1 .. Len(deciders) /\ deciders'[j] = deciders[j]
      BY <1>1, <1>2, <2>2, <2>3, <2>4
    <3> QED BY <1>0, <1>3, <1>5, <2>2, <2>8, <3>1 DEF DeciderInv, r
  <2> QED BY <1>3, <1>5, <2>5, <2>6, <2>7, <2>8 DEF DeciderInv, r
<1> QED BY <1>4, <1>5

\* A decider being installed comes from what its reload read.
LEMMA NewDeciderStep ==
  ASSUME IInv, [Next]_vars, TypeOK', HistoriesGrow,
         NEW i \in DOMAIN deciders', i \notin DOMAIN deciders
  PROVE  DeciderInv(i)'
<1>0. /\ TypeOK /\ Len(files) >= 1 /\ Len(deciders) >= 1
      /\ \A r \in Reloads : ReloadInv(r)
  BY DEF IInv
<1>1. /\ Len(files) \in Nat /\ Len(deciders) \in Nat /\ DOMAIN deciders = 1 .. Len(deciders)
      /\ Boot \notin Reloads
  BY <1>0, ServingAssumption DEF TypeOK
<1>2. PICK r \in Reloads : BodySwap(r) \/ FileSwap(r)
  <2>1. deciders' # deciders
    OBVIOUS
  <2> QED BY <2>1, NewDecider
<1>3. reloads[r] \in ReloadRecord /\ reloads \in [Reloads -> ReloadRecord]
  BY <1>0 DEF TypeOK
<1>4. /\ reloads[r].sinceF \in Nat /\ reloads[r].sinceD \in Nat
      /\ reloads[r].gate \in Nat /\ reloads[r].load \in Nat
  BY <1>3 DEF ReloadRecord
<1>5. CASE BodySwap(r)
  <2>1. /\ reloads[r].pc = "started" /\ reloads[r].body.media \in {"csv", "json"}
        /\ BodyLoader(reloads[r].body).err = "none"
        /\ deciders' = Append(deciders, [decider |-> BodyLoader(reloads[r].body).decider,
                                         by |-> r, file |-> 0])
        /\ reloads' = [reloads EXCEPT ![r].pc = "done", ![r].status = 200]
        /\ files' = files
    BY <1>5 DEF BodySwap, HasBody, Acknowledge, Swap
  <2>2. /\ i = Len(deciders) + 1
        /\ deciders'[i] = [decider |-> BodyLoader(reloads[r].body).decider,
                           by |-> r, file |-> 0]
    BY <1>0, <1>1, <2>1 DEF TypeOK
  <2>3. reloads[r].sinceD \in 1 .. Len(deciders)
    BY <1>0, <2>1 DEF ReloadInv
  <2>4. /\ reloads'[r].pc = "done" /\ reloads'[r].status = 200
        /\ reloads'[r].body = reloads[r].body /\ reloads'[r].sinceD = reloads[r].sinceD
    BY <1>3, <2>1
  <2>5. /\ deciders'[i].by = r /\ deciders'[i].file = 0 /\ r # Boot /\ i # 1
        /\ deciders'[i].decider = BodyLoader(reloads[r].body).decider
        /\ reloads[r].sinceD < i
    BY <1>0, <1>1, <1>4, <2>2, <2>3
  <2>6. /\ deciders'[i].file <= Len(files')
        /\ deciders'[i].by = Boot <=> i = 1
        /\ reloads'[r].pc = "done" /\ reloads'[r].status = 200 /\ reloads'[r].sinceD < i
        /\ reloads'[r].body.media \in {"csv", "json"}
        /\ BodyLoader(reloads'[r].body).err = "none"
        /\ deciders'[i].decider = BodyLoader(reloads'[r].body).decider
    BY <1>1, <2>1, <2>4, <2>5
  <2> QED BY <2>5, <2>6 DEF DeciderInv
<1>6. CASE FileSwap(r)
  <2> DEFINE f == reloads[r].load
  <2>1. /\ reloads[r].pc = "loaded"
        /\ deciders' = Append(deciders, [decider |-> FileLoader(files[f]).decider,
                                         by |-> r, file |-> f])
        /\ reloads' = [reloads EXCEPT ![r].pc = "done", ![r].status = 200]
        /\ files' = files
    BY <1>6 DEF FileSwap, Acknowledge, Swap
  <2>2. /\ i = Len(deciders) + 1
        /\ deciders'[i] = [decider |-> FileLoader(files[f]).decider, by |-> r, file |-> f]
    BY <1>0, <1>1, <2>1 DEF TypeOK
  <2>3. /\ reloads[r].sinceD \in 1 .. Len(deciders)
        /\ reloads[r].sinceF \in 1 .. Len(files)
        /\ \A j \in 1 .. reloads[r].sinceD : deciders[j].file <= reloads[r].sinceF
        /\ reloads[r].body.media = "none"
        /\ f \in reloads[r].sinceF .. Len(files)
        /\ FileLoader(files[f]).err = "none"
        /\ GateWired => /\ reloads[r].gate \in reloads[r].sinceF .. f
                        /\ DiagnoseFile(files[reloads[r].gate]) = "none"
    BY <1>0, <1>1, <1>4, <2>1 DEF ReloadInv
  <2>4. /\ reloads'[r].pc = "done" /\ reloads'[r].status = 200
        /\ reloads'[r].body = reloads[r].body /\ reloads'[r].sinceD = reloads[r].sinceD
        /\ reloads'[r].sinceF = reloads[r].sinceF /\ reloads'[r].gate = reloads[r].gate
        /\ reloads'[r].load = f
    BY <1>3, <2>1
  <2>5. \A j \in 1 .. reloads[r].sinceD : deciders'[j].file <= f
    <3> TAKE j \in 1 .. reloads[r].sinceD
    <3>1. j \in 1 .. Len(deciders) /\ deciders'[j] = deciders[j]
      BY <1>1, <2>3 DEF HistoriesGrow, Prefix
    <3>2. deciders[j].file \in Nat
      BY <1>0, <1>1, <3>1, EntryType
    <3> QED BY <1>1, <1>4, <2>3, <3>1, <3>2
  <2> HIDE DEF f
  <2>6. /\ deciders'[i].by = r /\ deciders'[i].file = f /\ r # Boot /\ i # 1
        /\ deciders'[i].decider = FileLoader(files[f]).decider
        /\ reloads[r].sinceD < i
        /\ f \in 1 .. Len(files) /\ f # 0 /\ reloads[r].sinceF <= f
        /\ GateWired => reloads[r].gate \in 1 .. f
    BY <1>0, <1>1, <1>4, <2>2, <2>3 DEF f
  <2>7. /\ deciders'[i].file <= Len(files')
        /\ deciders'[i].by = Boot <=> i = 1
        /\ reloads'[r].pc = "done" /\ reloads'[r].status = 200 /\ reloads'[r].sinceD < i
        /\ reloads'[r].body.media = "none"
        /\ deciders'[i].file = reloads'[r].load /\ reloads'[r].sinceF <= reloads'[r].load
        /\ FileLoader(files'[reloads'[r].load]).err = "none"
        /\ deciders'[i].decider = FileLoader(files'[reloads'[r].load]).decider
    BY <1>1, <2>1, <2>3, <2>4, <2>6
  <2>8. GateWired => /\ reloads'[r].gate \in 1 .. reloads'[r].load
                     /\ DiagnoseFile(files'[reloads'[r].gate]) = "none"
    BY <2>1, <2>3, <2>4, <2>6
  <2>9. \A j \in 1 .. reloads'[r].sinceD : deciders'[j].file <= deciders'[i].file
    BY <2>4, <2>5, <2>6
  <2> QED BY <2>6, <2>7, <2>8, <2>9 DEF DeciderInv
<1> QED BY <1>2, <1>5, <1>6

\* A reload is answered 200 in the step that installs its one decider.
LEMMA AckStep ==
  ASSUME IInv, [Next]_vars, TypeOK', HistoriesGrow
  PROVE  AckedMeansInstalledOnce'
<1>0. TypeOK /\ AckedMeansInstalledOnce
  BY DEF IInv
<1>1. /\ Len(deciders) \in Nat /\ DOMAIN deciders = 1 .. Len(deciders)
      /\ reloads \in [Reloads -> ReloadRecord]
  BY <1>0 DEF TypeOK
<1>2. ASSUME NEW i \in DOMAIN deciders, NEW r \in Reloads, deciders[i].by = r
      PROVE  reloads[r].pc = "done"
  BY <1>2, ServingAssumption DEF IInv, DeciderInv
<1>3. CASE deciders' = deciders
  <2>1. ASSUME NEW r \in Reloads
        PROVE  reloads'[r].status = 200 <=> \E i \in DOMAIN deciders : deciders[i].by = r
    <3>1. CASE reloads'[r].status = reloads[r].status
      BY <1>0, <3>1 DEF AckedMeansInstalledOnce
    <3>2. CASE RefuseBody(r) \/ BodyFails(r) \/ GateFails(r) \/ LoadFails(r)
      <4>1. reloads[r].pc # "done"
        BY <3>2 DEF RefuseBody, BodyFails, HasBody, GateFails, AtGate, LoadFails, AtLoader
      <4>2. PICK status \in {400, 413, 500} : Refuse(r, status)
        BY <3>2 DEF RefuseBody, BodyFails, GateFails, LoadFails, StatusFor
      <4>3. reloads'[r].status # 200
        BY <1>1, <4>2 DEF Refuse
      <4> QED BY <1>2, <4>1, <4>3
    <3>3. CASE StartReload(r) \/ GatePasses(r) \/ Load(r)
      <4>1. StartReload(r) => reloads'[r].status = reloads[r].status
        BY <1>1 DEF StartReload
      <4>2. GatePasses(r) => reloads'[r].status = reloads[r].status
        BY <1>1 DEF GatePasses
      <4>3. Load(r) => reloads'[r].status = reloads[r].status
        BY <1>1 DEF Load
      <4> QED BY <3>1, <3>3, <4>1, <4>2, <4>3
    <3>4. ~BodySwap(r) /\ ~FileSwap(r)
      <4>1. ASSUME NEW decider \in Deciders, NEW file \in Nat, Acknowledge(r, decider, file)
            PROVE  FALSE
        <5>1. Len(deciders') = Len(deciders) + 1
          BY <1>0, <4>1, AppendGrows DEF TypeOK, Acknowledge, Swap
        <5> QED BY <1>1, <1>3, <5>1
      <4> QED BY <4>1, SwapType
    <3> QED BY <3>1, <3>2, <3>3, <3>4, ReloadMoves DEF ReloadStep
  <2> QED BY <1>0, <1>3, <2>1 DEF AckedMeansInstalledOnce
<1>4. CASE deciders' # deciders
  <2>1. PICK q \in Reloads, decider \in Deciders, file \in Nat :
          /\ BodySwap(q) \/ FileSwap(q)
          /\ Acknowledge(q, decider, file)
    BY <1>4, NewDecider
  <2>2. /\ reloads[q].pc # "done"
        /\ deciders' = Append(deciders, [decider |-> decider, by |-> q, file |-> file])
        /\ reloads' = [reloads EXCEPT ![q].pc = "done", ![q].status = 200]
    BY <2>1 DEF BodySwap, HasBody, FileSwap, Acknowledge, Swap
  <2>3. /\ DOMAIN deciders' = 1 .. Len(deciders) + 1
        /\ deciders'[Len(deciders) + 1].by = q
        /\ \A i \in 1 .. Len(deciders) : deciders'[i] = deciders[i]
    BY <1>0, <1>1, <2>2 DEF TypeOK
  <2>4. \A i \in 1 .. Len(deciders) : deciders[i].by # q
    BY <1>1, <1>2, <2>2
  <2>5. reloads'[q].status = 200 /\ \A r \in Reloads : r # q => reloads'[r] = reloads[r]
    BY <1>1, <2>2
  <2>6. \A r \in Reloads : reloads'[r].status = 200 <=> \E i \in DOMAIN deciders' : deciders'[i].by = r
    BY <1>0, <1>1, <2>3, <2>4, <2>5 DEF AckedMeansInstalledOnce
  <2>7. \A i, j \in DOMAIN deciders' : deciders'[i].by = deciders'[j].by => i = j
    BY <1>0, <1>1, <2>3, <2>4 DEF AckedMeansInstalledOnce
  <2> QED BY <2>6, <2>7 DEF AckedMeansInstalledOnce
<1> QED BY <1>3, <1>4

-----------------------------------------------------------------------------
(* The invariant, and what follows from it.                                *)

\* A boot that succeeds establishes the invariant.
LEMMA InitIInv ==
  ASSUME Init
  PROVE  IInv
<1>1. PICK content \in Files :
        /\ FileLoader(content).err = "none"
        /\ files = <<content>>
        /\ deciders = <<[decider |-> FileLoader(content).decider, by |-> Boot, file |-> 1]>>
  BY DEF Init
<1>2. /\ envelopes = <<[rules |-> BuildRules(BootConfig), by |-> Boot, at |-> 1]>>
      /\ calls \in [Calls -> {[pc |-> "idle", req |-> q, sinceD |-> 0, sinceE |-> 0,
                               rules |-> 0, inner |-> 0, status |-> 0] : q \in Requests}]
      /\ reloads \in [Reloads -> {[pc |-> "idle", body |-> b, sinceF |-> 0, sinceD |-> 0,
                                   gate |-> 0, load |-> 0, status |-> 0] : b \in Bodies}]
      /\ posts \in [Posts -> {[pc |-> "idle", cfg |-> c, mine |-> 0, echo |-> 0,
                               status |-> 0] : c \in Configs}]
  BY DEF Init
<1>3. FileLoader(content).decider \in Deciders
  BY <1>1, FileLoaderOK
<1>4. BuildRules(BootConfig) \in Seq(GuardrailRule)
  BY BuildRulesType, ServingAssumption
<1>5. files \in Seq(Files) /\ Len(files) = 1
  BY <1>1
<1>6. /\ deciders \in Seq([decider: Deciders, by: Reloads \cup {Boot}, file: Nat])
      /\ DOMAIN deciders = {1} /\ Len(deciders) = 1
      /\ deciders[1].by = Boot /\ deciders[1].file = 1
  BY <1>1, <1>3
<1>7. /\ envelopes \in Seq([rules: Seq(GuardrailRule), by: Posts \cup {Boot}, at: Nat])
      /\ DOMAIN envelopes = {1} /\ Len(envelopes) = 1 /\ envelopes[1].at = 1
  BY <1>2, <1>4
<1>8. ASSUME NEW c \in Calls PROVE calls[c] \in CallRecord /\ CallInv(c)
  <2>1. PICK q \in Requests : calls[c] = [pc |-> "idle", req |-> q, sinceD |-> 0, sinceE |-> 0,
                                          rules |-> 0, inner |-> 0, status |-> 0]
    BY <1>2
  <2> QED BY <2>1 DEF CallRecord, CallStatus, CallInv
<1>9. ASSUME NEW r \in Reloads
      PROVE  /\ reloads[r] \in ReloadRecord /\ ReloadInv(r)
             /\ reloads[r].status = 0
  <2>1. PICK b \in Bodies : reloads[r] = [pc |-> "idle", body |-> b, sinceF |-> 0, sinceD |-> 0,
                                          gate |-> 0, load |-> 0, status |-> 0]
    BY <1>2
  <2> QED BY <2>1 DEF ReloadRecord, ReloadStatus, ReloadInv
<1>10. ASSUME NEW p \in Posts PROVE posts[p] \in PostRecord
  <2>1. PICK c \in Configs : posts[p] = [pc |-> "idle", cfg |-> c, mine |-> 0, echo |-> 0,
                                         status |-> 0]
    BY <1>2
  <2> QED BY <2>1 DEF PostRecord, PostStatus
<1>11. TypeOK
  BY <1>2, <1>5, <1>6, <1>7, <1>8, <1>9, <1>10 DEF TypeOK
<1>12. DeciderInv(1)
  BY <1>5, <1>6 DEF DeciderInv
<1>13. AckedMeansInstalledOnce
  BY <1>6, <1>9, ServingAssumption DEF AckedMeansInstalledOnce
<1> QED
  BY <1>5, <1>6, <1>7, <1>8, <1>9, <1>11, <1>12, <1>13 DEF IInv

\* Every step keeps the invariant.
LEMMA StepIInv ==
  ASSUME IInv, [Next]_vars
  PROVE  IInv'
<1>1. TypeOK' /\ HistoriesGrow
  BY TypeStep, StepsExtend
<1>2. \A i \in DOMAIN deciders' : DeciderInv(i)'
  BY <1>1, OldDeciderStep, NewDeciderStep
<1>3. \A c \in Calls : CallInv(c)'
  BY <1>1, CallStep
<1>4. \A r \in Reloads : ReloadInv(r)'
  BY <1>1, ReloadStepInv
<1> QED
  BY <1>1, <1>2, <1>3, <1>4, HistoryStep, AckStep DEF IInv

\* Serving always satisfies the invariant: what each handler has captured lies
\* between the histories' lengths when its request came in and now, and every
\* decider but the first was installed by one reload that was answered 200.
THEOREM Invariance == Spec => []IInv
<1>1. Init => IInv
  BY InitIInv
<1>2. IInv /\ [Next]_vars => IInv'
  BY StepIInv
<1> QED BY <1>1, <1>2, PTL DEF Spec

\* The records, histories and statuses keep their types: no handler answers
\* with a status it does not document.
THEOREM TypeCorrect == Spec => []TypeOK
<1>1. IInv => TypeOK
  BY DEF IInv
<1> QED BY <1>1, Invariance, PTL

\* The pointers a POST /decide captures were in force after it came in
\* (swap.Decider.Decide, guardrails.Holder.Decide).
THEOREM CapturesAreInForce == Spec => []CapturesInForce
<1>1. IInv => CapturesInForce
  BY DEF IInv, CallInv, CapturesInForce
<1> QED BY <1>1, Invariance, PTL

\* Relaxing the guardrails after a reload never lets the replaced decider out
\* under the relaxed rules (buildRoutes puts the guardrails above the swap).
THEOREM EnvelopeOrder == Spec => []EnvelopeNeverMeetsOlderDecider
<1>1. IInv => EnvelopeNeverMeetsOlderDecider
  BY DEF IInv, CallInv, EnvelopeNeverMeetsOlderDecider
<1> QED BY <1>1, Invariance, PTL

\* POST /admin/reload answers 200 if and only if it swapped, and swaps once.
THEOREM AckedInstalls == Spec => []AckedMeansInstalledOnce
<1>1. IInv => AckedMeansInstalledOnce
  BY DEF IInv
<1> QED BY <1>1, Invariance, PTL

\* A file reload serves what the file held while the reload ran.
THEOREM ReloadsReadCurrentFile == Spec => []ReloadReadsCurrentFile
<1>1. ASSUME IInv, NEW i \in DOMAIN deciders, deciders[i].by # Boot, deciders[i].file # 0
      PROVE  deciders[i].file \in reloads[deciders[i].by].sinceF .. Len(files)
  <2>1. TypeOK /\ DeciderInv(i)
    BY <1>1 DEF IInv
  <2>2. /\ deciders[i].by \in Reloads /\ deciders[i].file \in Nat /\ Len(files) \in Nat
    BY <1>1, <2>1, EntryType DEF TypeOK
  <2>3. reloads[deciders[i].by].sinceF \in Nat
    BY <2>1, <2>2 DEF TypeOK, ReloadRecord
  <2> QED BY <1>1, <2>1, <2>2, <2>3 DEF DeciderInv
<1>2. IInv => ReloadReadsCurrentFile
  BY <1>1 DEF ReloadReadsCurrentFile
<1> QED BY <1>2, Invariance, PTL

\* A reload that starts after another has swapped never goes back in the file.
THEOREM ReloadsGoForward == Spec => []LaterReloadNotOlder
<1>1. ASSUME IInv, NEW i \in DOMAIN deciders, NEW j \in DOMAIN deciders,
             deciders[j].by # Boot, deciders[j].file # 0,
             i <= reloads[deciders[j].by].sinceD
      PROVE  deciders[i].file <= deciders[j].file
  <2>1. TypeOK /\ DeciderInv(j)
    BY <1>1 DEF IInv
  <2>2. deciders[j].by \in Reloads /\ i \in 1 .. Len(deciders)
    BY <1>1, <2>1, EntryType
  <2>3. reloads[deciders[j].by].sinceD \in Nat
    BY <2>1, <2>2 DEF TypeOK, ReloadRecord
  <2>4. i \in 1 .. reloads[deciders[j].by].sinceD
    BY <1>1, <2>2, <2>3
  <2> QED BY <1>1, <2>1, <2>4 DEF DeciderInv
<1>2. IInv => LaterReloadNotOlder
  BY <1>1 DEF LaterReloadNotOlder
<1> QED BY <1>2, Invariance, PTL

\* An unhealthy rule set goes live through POST /admin/reload only if the file
\* was edited between the gate's read and the loader's (reload.go: diagnoseFn,
\* then loadFn; main.go: bodyLoader diagnoses what it parsed).
THEOREM UnhealthyNeedsEdit == Spec => []UnhealthyOnlyIfEdited
<1>1. ASSUME IInv, NEW i \in DOMAIN deciders, GateWired, deciders[i].by # Boot,
             deciders[i].file # 0 \/ reloads[deciders[i].by].body.media = "csv",
             ~IsHealthy(deciders[i].decider.rules)
      PROVE  reloads[deciders[i].by].gate < reloads[deciders[i].by].load
  <2> DEFINE r == deciders[i].by
  <2>1. TypeOK /\ DeciderInv(i)
    BY <1>1 DEF IInv
  <2>2. r \in Reloads /\ deciders[i].file \in Nat /\ deciders[i].file <= Len(files)
    BY <1>1, <2>1, EntryType DEF DeciderInv
  <2>3. reloads[r].body \in Bodies /\ reloads[r].load \in Nat /\ reloads[r].gate \in Nat
    BY <2>1, <2>2 DEF TypeOK, ReloadRecord
  <2>4. CASE deciders[i].file = 0
    <3>1. /\ reloads[r].body.media = "csv" /\ BodyLoader(reloads[r].body).err = "none"
          /\ deciders[i].decider = BodyLoader(reloads[r].body).decider
      BY <1>1, <2>1, <2>4 DEF DeciderInv
    <3>2. IsHealthy(deciders[i].decider.rules)
      BY <2>3, <3>1, BodyLoaderOK
    <3> QED BY <1>1, <3>2
  <2>5. CASE deciders[i].file # 0
    <3>1. /\ deciders[i].file = reloads[r].load
          /\ FileLoader(files[reloads[r].load]).err = "none"
          /\ deciders[i].decider = FileLoader(files[reloads[r].load]).decider
          /\ reloads[r].gate \in 1 .. reloads[r].load
          /\ DiagnoseFile(files[reloads[r].gate]) = "none"
      BY <1>1, <2>1, <2>5 DEF DeciderInv
    <3>2. files[reloads[r].load] \in Files
      BY <2>1, <2>2, <2>5, <3>1 DEF TypeOK
    <3>3. /\ deciders[i].decider.rules = files[reloads[r].load].rules
          /\ files[reloads[r].load].opens /\ files[reloads[r].load].parses
      BY <1>1, <3>1, <3>2, FileLoaderOK
    <3>4. DiagnoseFile(files[reloads[r].load]) # "none"
      BY <1>1, <3>3 DEF DiagnoseFile
    <3>5. reloads[r].gate # reloads[r].load
      BY <3>1, <3>4
    <3> QED BY <2>3, <3>1, <3>5
  <2> QED BY <2>4, <2>5
<1>2. IInv => UnhealthyOnlyIfEdited
  BY <1>1 DEF UnhealthyOnlyIfEdited
<1> QED BY <1>2, Invariance, PTL

-----------------------------------------------------------------------------
(* Guardrails: what goes out, and what a POST is told.                     *)

\* The elements of a sequence.
Elements(s) == {s[i] : i \in DOMAIN s}

\* The configuration of a rule list depends on which rules are in it only.
LEMMA SnapshotOfElements ==
  ASSUME NEW rules
  PROVE  LET of(type) == {rule \in Elements(rules) : rule.type = type}
         IN SnapshotToConfig(rules)
              = [factorRange |-> {[min |-> r.min, max |-> r.max] : r \in of("FactorRange")},
                 countries   |-> {r.countries : r \in of("AllowedCountries")},
                 fields      |-> {r.fields : r \in of("RequiredFields")}]
<1> DEFINE of(type) == {rule \in Elements(rules) : rule.type = type}
           at(type) == {i \in DOMAIN rules : rules[i].type = type}
<1>1. {[min |-> rules[i].min, max |-> rules[i].max] : i \in at("FactorRange")}
        = {[min |-> r.min, max |-> r.max] : r \in of("FactorRange")}
  BY DEF Elements
<1>2. {rules[i].countries : i \in at("AllowedCountries")}
        = {r.countries : r \in of("AllowedCountries")}
  BY DEF Elements
<1>3. {rules[i].fields : i \in at("RequiredFields")} = {r.fields : r \in of("RequiredFields")}
  BY DEF Elements
<1> QED BY <1>1, <1>2, <1>3 DEF SnapshotToConfig

\* A sequence of one has that one element.
LEMMA ElementsOfOne ==
  ASSUME NEW S, NEW x \in S
  PROVE  <<x>> \in Seq(S) /\ Elements(<<x>>) = {x}
<1>1. <<x>> \in Seq(S) /\ DOMAIN <<x>> = {1} /\ <<x>>[1] = x
  OBVIOUS
<1> QED BY <1>1 DEF Elements

\* Concatenation joins the elements.
LEMMA ElementsOfConcat ==
  ASSUME NEW S, NEW s \in Seq(S), NEW t \in Seq(S)
  PROVE  s \o t \in Seq(S) /\ Elements(s \o t) = Elements(s) \cup Elements(t)
<1>1. /\ s \o t \in Seq(S) /\ DOMAIN (s \o t) = 1 .. (Len(s) + Len(t))
      /\ DOMAIN s = 1 .. Len(s) /\ DOMAIN t = 1 .. Len(t)
      /\ Len(s) \in Nat /\ Len(t) \in Nat
      /\ \A i \in 1 .. Len(s) : (s \o t)[i] = s[i]
      /\ \A i \in 1 .. Len(t) : (s \o t)[Len(s) + i] = t[i]
  OBVIOUS
<1>2. ASSUME NEW i \in DOMAIN (s \o t) PROVE (s \o t)[i] \in Elements(s) \cup Elements(t)
  <2>1. CASE i \in 1 .. Len(s)
    BY <1>1, <2>1 DEF Elements
  <2>2. CASE i \notin 1 .. Len(s)
    <3>1. i - Len(s) \in 1 .. Len(t) /\ Len(s) + (i - Len(s)) = i
      BY <1>1, <2>2
    <3>2. (s \o t)[i] = t[i - Len(s)]
      BY <1>1, <3>1
    <3> QED BY <1>1, <3>1, <3>2 DEF Elements
  <2> QED BY <2>1, <2>2
<1>3. ASSUME NEW i \in DOMAIN s PROVE s[i] \in Elements(s \o t)
  <2>1. i \in DOMAIN (s \o t) /\ (s \o t)[i] = s[i]
    BY <1>1
  <2> QED BY <2>1 DEF Elements
<1>4. ASSUME NEW i \in DOMAIN t PROVE t[i] \in Elements(s \o t)
  <2>1. Len(s) + i \in DOMAIN (s \o t) /\ (s \o t)[Len(s) + i] = t[i]
    BY <1>1
  <2> QED BY <2>1 DEF Elements
<1> QED BY <1>1, <1>2, <1>3, <1>4 DEF Elements

\* The rules that are built of a configuration, one for each axis it sets.
LEMMA BuiltElements ==
  ASSUME NEW cfg \in Config, OneValueEach(cfg)
  PROVE  Elements(BuildRules(cfg))
           = {FactorRange(v.min, v.max) : v \in cfg.factorRange}
               \cup {AllowedCountries(v) : v \in cfg.countries}
               \cup {RequiredFields(v) : v \in cfg.fields}
<1> DEFINE Any == UNION {{FactorRange(v.min, v.max) : v \in cfg.factorRange},
                         {AllowedCountries(v) : v \in cfg.countries},
                         {RequiredFields(v) : v \in cfg.fields}}
           first  == IF cfg.factorRange = {} THEN <<>>
                     ELSE <<FactorRange((CHOOSE v \in cfg.factorRange : TRUE).min,
                                        (CHOOSE v \in cfg.factorRange : TRUE).max)>>
           second == IF cfg.countries = {} THEN <<>>
                     ELSE <<AllowedCountries(CHOOSE v \in cfg.countries : TRUE)>>
           third  == IF cfg.fields = {} THEN <<>>
                     ELSE <<RequiredFields(CHOOSE v \in cfg.fields : TRUE)>>
<1>1. BuildRules(cfg) = (first \o second) \o third
  BY DEF BuildRules
<1>2. first \in Seq(Any) /\ Elements(first) = {FactorRange(v.min, v.max) : v \in cfg.factorRange}
  <2>1. CASE cfg.factorRange = {}
    BY <2>1 DEF Elements
  <2>2. CASE cfg.factorRange # {}
    <3>1. PICK x \in cfg.factorRange : x = CHOOSE v \in cfg.factorRange : TRUE
      BY <2>2
    <3>2. cfg.factorRange = {x}
      BY <3>1 DEF OneValueEach
    <3>3. first = <<FactorRange(x.min, x.max)>>
      BY <2>2, <3>1
    <3>4. {FactorRange(v.min, v.max) : v \in cfg.factorRange} = {FactorRange(x.min, x.max)} /\ FactorRange(x.min, x.max) \in Any
      BY <3>2
    <3> HIDE DEF first, Any
    <3> QED BY <3>3, <3>4, ElementsOfOne
  <2> QED BY <2>1, <2>2
<1>3. second \in Seq(Any) /\ Elements(second) = {AllowedCountries(v) : v \in cfg.countries}
  <2>1. CASE cfg.countries = {}
    BY <2>1 DEF Elements
  <2>2. CASE cfg.countries # {}
    <3>1. PICK x \in cfg.countries : x = CHOOSE v \in cfg.countries : TRUE
      BY <2>2
    <3>2. cfg.countries = {x}
      BY <3>1 DEF OneValueEach
    <3>3. second = <<AllowedCountries(x)>>
      BY <2>2, <3>1
    <3>4. {AllowedCountries(v) : v \in cfg.countries} = {AllowedCountries(x)} /\ AllowedCountries(x) \in Any
      BY <3>2
    <3> HIDE DEF second, Any
    <3> QED BY <3>3, <3>4, ElementsOfOne
  <2> QED BY <2>1, <2>2
<1>4. third \in Seq(Any) /\ Elements(third) = {RequiredFields(v) : v \in cfg.fields}
  <2>1. CASE cfg.fields = {}
    BY <2>1 DEF Elements
  <2>2. CASE cfg.fields # {}
    <3>1. PICK x \in cfg.fields : x = CHOOSE v \in cfg.fields : TRUE
      BY <2>2
    <3>2. cfg.fields = {x}
      BY <3>1 DEF OneValueEach
    <3>3. third = <<RequiredFields(x)>>
      BY <2>2, <3>1
    <3>4. {RequiredFields(v) : v \in cfg.fields} = {RequiredFields(x)} /\ RequiredFields(x) \in Any
      BY <3>2
    <3> HIDE DEF third, Any
    <3> QED BY <3>3, <3>4, ElementsOfOne
  <2> QED BY <2>1, <2>2
<1> HIDE DEF Any, first, second, third
<1>5. first \o second \in Seq(Any) /\ Elements(first \o second) = Elements(first) \cup Elements(second)
  BY <1>2, <1>3, ElementsOfConcat
<1>6. \A half \in Seq(Any) : Elements(half \o third) = Elements(half) \cup Elements(third)
  BY <1>4, ElementsOfConcat
<1> QED BY <1>1, <1>2, <1>3, <1>4, <1>5, <1>6

\* A configuration that is built and reported back comes back as it was.
THEOREM ConfigSurvives ==
  ASSUME NEW cfg \in Config, OneValueEach(cfg)
  PROVE  SnapshotToConfig(BuildRules(cfg)) = cfg
<1> DEFINE built == Elements(BuildRules(cfg))
           of(type) == {rule \in built : rule.type = type}
<1>1. of("FactorRange") = {FactorRange(v.min, v.max) : v \in cfg.factorRange}
  BY BuiltElements DEF FactorRange, AllowedCountries, RequiredFields
<1>2. of("AllowedCountries") = {AllowedCountries(v) : v \in cfg.countries}
  BY BuiltElements DEF FactorRange, AllowedCountries, RequiredFields
<1>3. of("RequiredFields") = {RequiredFields(v) : v \in cfg.fields}
  BY BuiltElements DEF FactorRange, AllowedCountries, RequiredFields
<1>4. {[min |-> r.min, max |-> r.max] : r \in of("FactorRange")} = cfg.factorRange
  <2>1. \A v \in cfg.factorRange : /\ v = [min |-> v.min, max |-> v.max]
                                   /\ FactorRange(v.min, v.max).min = v.min
                                   /\ FactorRange(v.min, v.max).max = v.max
    BY DEF Config, FactorRange
  <2> QED BY <1>1, <2>1
<1>5. {r.countries : r \in of("AllowedCountries")} = cfg.countries
  <2>1. \A v \in cfg.countries : AllowedCountries(v).countries = v
    BY DEF AllowedCountries
  <2> QED BY <1>2, <2>1
<1>6. {r.fields : r \in of("RequiredFields")} = cfg.fields
  <2>1. \A v \in cfg.fields : RequiredFields(v).fields = v
    BY DEF RequiredFields
  <2> QED BY <1>3, <2>1
<1>7. cfg = [factorRange |-> cfg.factorRange, countries |-> cfg.countries, fields |-> cfg.fields]
  BY DEF Config
<1> QED BY <1>4, <1>5, <1>6, <1>7, SnapshotOfElements

\* The record of a post changes only by a step of that post, never in its
\* configuration, and never back to idle.
LEMMA PostMoves ==
  ASSUME IInv, [Next]_vars, NEW p \in Posts
  PROVE  /\ \/ posts'[p] = posts[p]
            \/ PostRefused(p) \/ PostReplace(p) \/ PostEcho(p)
         /\ posts'[p].cfg = posts[p].cfg
         /\ posts[p].pc # "idle" => posts'[p].pc # "idle"
<1>0. posts \in [Posts -> PostRecord]
  BY DEF IInv, TypeOK
<1>1. ASSUME NEW q \in Posts, q # p, PostRefused(q) \/ PostReplace(q) \/ PostEcho(q)
      PROVE  posts'[p] = posts[p]
  BY <1>0, <1>1 DEF PostRefused, PostReplace, PostEcho
<1>2. CASE UNCHANGED posts
  BY <1>2
<1>3. ASSUME PostRefused(p) \/ PostReplace(p) \/ PostEcho(p)
      PROVE  posts'[p].cfg = posts[p].cfg /\ posts'[p].pc # "idle"
  BY <1>0, <1>3 DEF PostRefused, PostReplace, PostEcho, PostRecord
<1>4. \/ posts'[p] = posts[p]
      \/ PostRefused(p) \/ PostReplace(p) \/ PostEcho(p)
  BY <1>1, <1>2
     DEF Next, vars, EditFile, Arrive, CaptureRules, CaptureInner, EngineFails, Evaluate,
         NoMatch, Veto, Release, Finish, StartReload, ReloadStep, RefuseBody, BodyFails,
         BodySwap, FileSwap, GateFails, GatePasses, LoadFails, Load, Refuse, Acknowledge
<1> QED BY <1>3, <1>4

\* Only a step that checked the decision turns a call into a 200.
LEMMA CallReleases ==
  ASSUME IInv, GuardInv, [Next]_vars, NEW c \in Calls, calls'[c].status = 200
  PROVE  calls'[c] = calls[c] \/ Release(c)
<1>0. calls \in [Calls -> CallRecord] /\ (calls[c].status = 200 => calls[c].pc = "done")
  BY DEF IInv, TypeOK, GuardInv, ReleaseInv
<1>1. ASSUME NEW d \in Calls, d # c,
             Arrive(d) \/ CaptureRules(d) \/ CaptureInner(d) \/ EngineFails(d) \/ Evaluate(d)
      PROVE  calls'[c] = calls[c]
  BY <1>0, <1>1 DEF Arrive, CaptureRules, CaptureInner, EngineFails, Evaluate, NoMatch, Veto,
                    Release, Finish
<1>2. ASSUME Arrive(c) \/ CaptureRules(c) \/ CaptureInner(c) PROVE FALSE
  <2>1. calls'[c].status = calls[c].status
    BY <1>0, <1>2 DEF Arrive, CaptureRules, CaptureInner, CallRecord
  <2>2. calls[c].pc # "done"
    BY <1>2 DEF Arrive, CaptureRules, CaptureInner
  <2> QED BY <1>0, <2>1, <2>2
<1>3. ASSUME EngineFails(c) \/ NoMatch(c) \/ Veto(c) PROVE FALSE
  <2>1. Finish(c, 500) \/ Finish(c, 404)
    BY <1>3 DEF EngineFails, NoMatch, Veto
  <2>2. calls'[c].status \in {500, 404}
    BY <1>0, <2>1 DEF Finish, CallRecord
  <2> QED BY <2>2
<1>4. CASE UNCHANGED calls
  BY <1>4
<1> QED
  BY <1>1, <1>2, <1>3, <1>4
     DEF Next, vars, EditFile, StartReload, ReloadStep, RefuseBody, BodyFails, BodySwap,
         FileSwap, GateFails, GatePasses, LoadFails, Load, Refuse, Acknowledge, Evaluate,
         PostRefused, PostReplace, PostEcho

\* Every entry of the history of envelopes has the fields of one.
LEMMA EnvelopeType ==
  ASSUME TypeOK, NEW k \in DOMAIN envelopes
  PROVE  envelopes[k].by \in Posts \cup {Boot} /\ envelopes[k].rules \in Seq(GuardrailRule)
<1> DEFINE Entry == [rules: Seq(GuardrailRule), by: Posts \cup {Boot}, at: Nat]
<1>1. envelopes \in Seq(Entry)
  BY DEF TypeOK
<1>2. \A e \in Entry : e.by \in Posts \cup {Boot} /\ e.rules \in Seq(GuardrailRule)
  OBVIOUS
<1> HIDE DEF Entry
<1>3. envelopes[k] \in Entry
  BY <1>1
<1> QED BY <1>2, <1>3

\* What was released stays released under the rules that were checked.
LEMMA ReleaseStep ==
  ASSUME IInv, GuardInv, [Next]_vars, HistoriesGrow, NEW c \in Calls
  PROVE  ReleaseInv(c)'
<1> SUFFICES ASSUME calls'[c].status = 200
             PROVE  calls'[c].pc = "done" /\ Matches(c)' /\ Allowed(c)'
  BY DEF ReleaseInv
<1>0. /\ TypeOK /\ CallInv(c) /\ ReleaseInv(c)
      /\ calls \in [Calls -> CallRecord] /\ calls[c] \in CallRecord
  BY DEF IInv, TypeOK, GuardInv
<1>1. CASE calls'[c] = calls[c]
  <2>1. calls[c].pc = "done" /\ Matches(c) /\ Allowed(c)
    BY <1>0, <1>1 DEF ReleaseInv
  <2>2. calls[c].inner \in 1 .. Len(deciders) /\ calls[c].rules \in 1 .. Len(envelopes)
    BY <1>0, <2>1 DEF CallInv, CallRecord
  <2>3. deciders'[calls[c].inner] = deciders[calls[c].inner]
        /\ envelopes'[calls[c].rules] = envelopes[calls[c].rules]
    BY <2>2 DEF HistoriesGrow, Prefix
  <2> QED BY <1>1, <2>1, <2>3 DEF Matches, Allowed, Decided, Captured, Guarding
<1>2. CASE Release(c)
  <2>1. /\ calls' = [calls EXCEPT ![c].pc = "done", ![c].status = 200]
        /\ deciders' = deciders /\ envelopes' = envelopes
        /\ Matches(c) /\ Allowed(c)
    BY <1>2 DEF Release, Finish
  <2>2. /\ calls'[c].inner = calls[c].inner /\ calls'[c].rules = calls[c].rules
        /\ calls'[c].req = calls[c].req /\ calls'[c].pc = "done"
    BY <1>0, <2>1 DEF CallRecord
  <2> QED BY <2>1, <2>2 DEF Matches, Allowed, Decided, Captured, Guarding
<1> QED BY <1>1, <1>2, CallReleases

\* Every envelope but the first is what one post's configuration spells.
LEMMA EnvelopeStep ==
  ASSUME IInv, GuardInv, [Next]_vars, TypeOK', HistoriesGrow, NEW k \in DOMAIN envelopes'
  PROVE  EnvelopeInv(k)'
<1>0. /\ TypeOK /\ envelopes \in Seq([rules: Seq(GuardrailRule), by: Posts \cup {Boot}, at: Nat])
      /\ DOMAIN envelopes = 1 .. Len(envelopes) /\ Len(envelopes) \in Nat
      /\ \A j \in DOMAIN envelopes : EnvelopeInv(j)
  BY DEF IInv, TypeOK, GuardInv
<1>1. CASE k \in DOMAIN envelopes
  <2>1. envelopes'[k] = envelopes[k] /\ EnvelopeInv(k)
    BY <1>0, <1>1 DEF HistoriesGrow, Prefix
  <2>2. envelopes[k].by # Boot => envelopes[k].by \in Posts
    BY <1>0, <1>1, EnvelopeType
  <2> QED BY <2>1, <2>2, PostMoves DEF EnvelopeInv
<1>2. CASE k \notin DOMAIN envelopes
  <2>1. envelopes' # envelopes
    BY <1>2
  <2>2. PICK p \in Posts : PostReplace(p)
    BY <2>1
       DEF Next, vars, EditFile, Arrive, CaptureRules, CaptureInner, EngineFails, Evaluate,
           NoMatch, Veto, Release, Finish, StartReload, ReloadStep, RefuseBody, BodyFails,
           BodySwap, FileSwap, GateFails, GatePasses, LoadFails, Load, Refuse, Acknowledge,
           PostRefused, PostEcho
  <2>3. envelopes' = Append(envelopes, [rules |-> BuildRules(posts[p].cfg), by |-> p,
                                        at |-> Len(deciders)])
    BY <2>2 DEF PostReplace, Replace
  <2>4. k = Len(envelopes) + 1
    BY <1>0, <1>2, <2>3
  <2>5. envelopes'[k] = [rules |-> BuildRules(posts[p].cfg), by |-> p, at |-> Len(deciders)]
    BY <1>0, <2>3, <2>4
  <2>6. posts'[p].pc # "idle"
    BY <2>2 DEF IInv, TypeOK, PostReplace
  <2> QED BY <1>0, <2>4, <2>5, <2>6, PostMoves, ServingAssumption DEF EnvelopeInv, IInv
<1> QED BY <1>1, <1>2

\* What a post has installed and shown stays in the history.
LEMMA PostStep ==
  ASSUME IInv, GuardInv, [Next]_vars, HistoriesGrow, NEW p \in Posts
  PROVE  PostInv(p)'
<1>0. /\ TypeOK /\ PostInv(p) /\ Len(envelopes) >= 1 /\ Len(envelopes) \in Nat
      /\ posts \in [Posts -> PostRecord] /\ posts[p] \in PostRecord
      /\ posts[p].mine \in Nat /\ posts[p].echo \in Nat
  BY DEF IInv, TypeOK, GuardInv, PostRecord
<1>1. Len(envelopes) <= Len(envelopes') /\ (envelopes' = envelopes \/ Len(envelopes') \in Nat)
  BY TypeStep DEF HistoriesGrow, Prefix, TypeOK
<1>2. CASE posts'[p] = posts[p]
  BY <1>0, <1>1, <1>2 DEF PostInv
<1>3. CASE PostRefused(p)
  <2>1. posts'[p].pc = "done" /\ posts'[p].status = 400
    BY <1>0, <1>3 DEF PostRefused, PostRecord
  <2> QED BY <2>1 DEF PostInv
<1>4. CASE PostReplace(p)
  <2>1. posts'[p].pc = "replaced" /\ posts'[p].mine = Len(envelopes) + 1
        /\ posts'[p].status = posts[p].status /\ posts[p].pc = "idle"
    BY <1>0, <1>4 DEF PostReplace, PostRecord
  <2>2. Len(envelopes') = Len(envelopes) + 1
    BY <1>0, <1>4 DEF TypeOK, PostReplace, Replace
  <2> QED BY <1>0, <2>1, <2>2 DEF PostInv
<1>5. CASE PostEcho(p)
  <2>1. posts'[p].pc = "done" /\ posts'[p].mine = posts[p].mine /\ posts[p].pc = "replaced"
        /\ posts'[p].echo = Len(envelopes) /\ posts'[p].status = 200 /\ envelopes' = envelopes
    BY <1>0, <1>5 DEF PostEcho, PostRecord
  <2> QED BY <1>0, <2>1 DEF PostInv
<1> QED BY <1>2, <1>3, <1>4, <1>5, PostMoves

\* Serving always satisfies the guardrails part of the invariant too.
LEMMA GuardInvariance == Spec => [](IInv /\ GuardInv)
<1>1. ASSUME Init PROVE IInv /\ GuardInv
  <2>1. IInv
    BY <1>1, InitIInv
  <2>2. /\ envelopes = <<[rules |-> BuildRules(BootConfig), by |-> Boot, at |-> 1]>>
        /\ \A c \in Calls : calls[c].status = 0
        /\ \A p \in Posts : posts[p].pc = "idle" /\ posts[p].status = 0
    BY <1>1 DEF Init
  <2>3. DOMAIN envelopes = {1}
    BY <2>2
  <2> QED BY <2>1, <2>2, <2>3 DEF GuardInv, ReleaseInv, EnvelopeInv, PostInv
<1>2. ASSUME IInv, GuardInv, [Next]_vars PROVE IInv' /\ GuardInv'
  <2>1. IInv' /\ TypeOK' /\ HistoriesGrow
    BY <1>2, StepIInv, TypeStep, StepsExtend
  <2>2. \A c \in Calls : ReleaseInv(c)'
    BY <1>2, <2>1, ReleaseStep
  <2>3. \A k \in DOMAIN envelopes' : EnvelopeInv(k)'
    BY <1>2, <2>1, EnvelopeStep
  <2>4. \A p \in Posts : PostInv(p)'
    BY <1>2, <2>1, PostStep
  <2> QED BY <2>1, <2>2, <2>3, <2>4 DEF GuardInv
<1> QED BY <1>1, <1>2, PTL DEF Spec

\* Of two floats that are not NaN, one is less or they are equal.
LEMMA LessIsTotal ==
  ASSUME NEW x \in Factor \ {NaN}, NEW y \in Factor \ {NaN}
  PROVE  x = y \/ Less(x, y) \/ Less(y, x)
BY FloatsAssumption DEF Factor, Less

\* A decision that leaves the service lies within an envelope that was in force
\* during the call, but for NaN (guardrails.go: Decide copies the rules, asks
\* the inner decider and checks what it says).
THEOREM ReleasesStayWithin == Spec => []ReleasedWithinEnvelope
<1>1. ASSUME IInv, GuardInv, NEW c \in Calls, calls[c].status = 200, Decided(c) # NaN
      PROVE  \E k \in calls[c].sinceE .. Len(envelopes) : \A i \in DOMAIN envelopes[k].rules :
               LET rule == envelopes[k].rules[i]
               IN rule.type = "FactorRange" =>
                    /\ rule.min # NaN => AtMost(rule.min, Decided(c))
                    /\ rule.max # NaN => AtMost(Decided(c), rule.max)
  <2> DEFINE k == calls[c].rules
  <2>1. /\ TypeOK /\ CallInv(c) /\ calls[c] \in CallRecord /\ calls[c].pc = "done"
        /\ Matches(c) /\ Allowed(c)
    BY <1>1 DEF IInv, TypeOK, GuardInv, ReleaseInv
  <2>2. /\ k \in calls[c].sinceE .. Len(envelopes) /\ k \in 1 .. Len(envelopes)
        /\ calls[c].inner \in 1 .. Len(deciders)
    BY <2>1 DEF CallInv, CallRecord
  <2>3. Decided(c) \in Factor \ {NaN}
    <3>1. deciders[calls[c].inner].decider \in Deciders
      BY <2>1, <2>2, EntryType DEF TypeOK
    <3>2. FactorOf(Captured(c), calls[c].req) \in Factor
      BY <2>1, <3>1, FactorWritten DEF Matches, Captured
    <3> QED BY <1>1, <3>2 DEF Decided
  <2>4. ASSUME NEW i \in DOMAIN envelopes[k].rules, envelopes[k].rules[i].type = "FactorRange"
        PROVE  /\ envelopes[k].rules[i].min # NaN => AtMost(envelopes[k].rules[i].min, Decided(c))
               /\ envelopes[k].rules[i].max # NaN => AtMost(Decided(c), envelopes[k].rules[i].max)
    <3> DEFINE rule == envelopes[k].rules[i]
    <3>0. k \in DOMAIN envelopes
      BY <2>1, <2>2 DEF TypeOK
    <3>1. envelopes[k].rules \in Seq(GuardrailRule)
      BY <2>1, <3>0, EnvelopeType
    <3>2. rule \in GuardrailRule
      BY <3>1, <2>4
    <3>3. rule.min \in Factor /\ rule.max \in Factor
      BY <2>4, <3>2 DEF GuardrailRule
    <3>4. Check(rule, Decided(c), calls[c].req)
      BY <2>1, <2>4 DEF Allowed, Allows, Guarding
    <3>5. InRange(rule, Decided(c))
      BY <2>4, <3>4 DEF Check
    <3> HIDE DEF rule, k
    <3>6. /\ rule.min # NaN => AtMost(rule.min, Decided(c))
          /\ rule.max # NaN => AtMost(Decided(c), rule.max)
      BY <2>3, <3>3, <3>5, LessIsTotal DEF InRange, AtMost
    <3> QED BY <3>6 DEF rule, k
  <2> QED BY <2>2, <2>4
<1>2. IInv /\ GuardInv => ReleasedWithinEnvelope
  BY <1>1 DEF ReleasedWithinEnvelope
<1> QED BY <1>2, GuardInvariance, PTL

\* The 200 of a POST /admin/guardrails shows a configuration that somebody
\* posted, its own or a later one (guardrails_admin.go: Replace, then Snapshot,
\* translated to rules and back).
THEOREM EchoesAreConfigs == Spec => []EchoShowsAConfig
<1>1. ASSUME IInv, GuardInv, NEW p \in Posts, posts[p].status = 200
      PROVE  /\ posts[p].mine <= posts[p].echo
             /\ SnapshotToConfig(envelopes[posts[p].echo].rules)
                  = posts[envelopes[posts[p].echo].by].cfg
  <2> DEFINE k == posts[p].echo
  <2>1. TypeOK /\ PostInv(p) /\ posts[p] \in PostRecord
    BY <1>1 DEF IInv, TypeOK, GuardInv
  <2>2. k \in 1 .. Len(envelopes) /\ k # 1 /\ posts[p].mine <= k
    BY <1>1, <2>1 DEF PostInv, PostRecord
  <2>3. k \in DOMAIN envelopes
    BY <2>1, <2>2 DEF TypeOK
  <2>4. envelopes[k].by \in Posts /\ envelopes[k].rules = BuildRules(posts[envelopes[k].by].cfg)
    BY <1>1, <2>1, <2>2, <2>3, EnvelopeType DEF GuardInv, EnvelopeInv
  <2>5. posts[envelopes[k].by].cfg \in Configs
    BY <2>1, <2>4 DEF TypeOK, PostRecord
  <2>6. posts[envelopes[k].by].cfg \in Config /\ OneValueEach(posts[envelopes[k].by].cfg)
    BY <2>5, ServingAssumption
  <2> QED BY <2>2, <2>4, <2>6, ConfigSurvives
<1>2. IInv /\ GuardInv => EchoShowsAConfig
  BY <1>1 DEF EchoShowsAConfig
<1> QED BY <1>2, GuardInvariance, PTL

-----------------------------------------------------------------------------
(* The two holders of Serving are AtomicHolders.                           *)

\* A reload that is not done has installed no decider, a post that is idle no
\* rules.
LEMMA NothingInstalledYet ==
  ASSUME IInv, GuardInv
  PROVE  /\ \A r \in Reloads : reloads[r].pc # "done" => Gave(r) = {} /\ r \notin Reloaded
         /\ \A p \in Posts : posts[p].pc = "idle" => Set(p) = {} /\ p \notin Replaced
<1>1. ASSUME NEW r \in Reloads, reloads[r].pc # "done", NEW k \in DOMAIN deciders
      PROVE  deciders[k].by # r
  <2>1. DeciderInv(k) /\ r # Boot
    BY ServingAssumption DEF IInv
  <2> QED BY <1>1, <2>1 DEF DeciderInv
<1>2. ASSUME NEW p \in Posts, posts[p].pc = "idle", NEW k \in DOMAIN envelopes
      PROVE  envelopes[k].by # p
  <2>1. EnvelopeInv(k) /\ p # Boot
    BY ServingAssumption DEF GuardInv
  <2> QED BY <1>2, <2>1 DEF EnvelopeInv
<1>3. ASSUME NEW r \in Reloads, reloads[r].pc # "done" PROVE Gave(r) = {} /\ r \notin Reloaded
  BY <1>1, <1>3 DEF Gave, Reloaded
<1>4. ASSUME NEW p \in Posts, posts[p].pc = "idle" PROVE Set(p) = {} /\ p \notin Replaced
  BY <1>2, <1>4 DEF Set, Replaced
<1> QED BY <1>3, <1>4

\* A step of a call, seen from both holders.
CallSeen(c) ==
  \/ /\ c \notin Arrived /\ Arrived' = Arrived \cup {c}
     /\ UNCHANGED <<RulesTaken, InnerTaken>>
  \/ /\ c \in Arrived /\ RulesTaken[c] = {}
     /\ RulesTaken' = [RulesTaken EXCEPT ![c] = {Envelope}]
     /\ UNCHANGED <<Arrived, InnerTaken>>
  \/ /\ c \in Arrived /\ InnerTaken[c] = {}
     /\ InnerTaken' = [InnerTaken EXCEPT ![c] = {Inner}]
     /\ UNCHANGED <<Arrived, RulesTaken>>
  \/ /\ RulesTaken[c] # {} /\ InnerTaken[c] # {} /\ Arrived' = Arrived \ {c}
     /\ RulesTaken' = [RulesTaken EXCEPT ![c] = {}]
     /\ InnerTaken' = [InnerTaken EXCEPT ![c] = {}]

LEMMA CallAtHolders ==
  ASSUME IInv, NEW c \in Calls, UNCHANGED <<deciders, envelopes>>,
         Arrive(c) \/ CaptureRules(c) \/ CaptureInner(c)
           \/ \E status \in CallStatus : Evaluating(c) /\ Finish(c, status)
  PROVE  CallSeen(c)
<1>0. calls \in [Calls -> CallRecord] /\ calls[c] \in CallRecord
  BY DEF IInv, TypeOK
<1>1. \A d \in Calls : d # c => calls'[d] = calls[d]
  BY <1>0 DEF Arrive, CaptureRules, CaptureInner, Finish
<1>2. \A d \in Calls : d # c => /\ (d \in Arrived)' <=> d \in Arrived
                                /\ RulesTaken'[d] = RulesTaken[d]
                                /\ InnerTaken'[d] = InnerTaken[d]
  BY <1>1 DEF Arrived, RulesTaken, InnerTaken, Captured, Guarding
<1>3. /\ Arrived \subseteq Calls /\ Arrived' \subseteq Calls
      /\ DOMAIN RulesTaken = Calls /\ DOMAIN RulesTaken' = Calls
      /\ DOMAIN InnerTaken = Calls /\ DOMAIN InnerTaken' = Calls
      /\ RulesTaken = [d \in Calls |-> RulesTaken[d]] /\ InnerTaken = [d \in Calls |-> InnerTaken[d]]
      /\ RulesTaken' = [d \in Calls |-> RulesTaken'[d]]
      /\ InnerTaken' = [d \in Calls |-> InnerTaken'[d]]
  BY DEF Arrived, RulesTaken, InnerTaken
<1>4. CASE Arrive(c)
  <2>1. calls[c].pc = "idle" /\ calls'[c].pc = "entered"
    BY <1>0, <1>4 DEF Arrive
  <2>2. /\ c \notin Arrived /\ c \in Arrived'
        /\ RulesTaken[c] = {} /\ RulesTaken'[c] = {} /\ InnerTaken[c] = {} /\ InnerTaken'[c] = {}
    BY <2>1 DEF Arrived, RulesTaken, InnerTaken
  <2>3. Arrived' = Arrived \cup {c}
    BY <1>2, <1>3, <2>2
  <2>4. RulesTaken' = RulesTaken /\ InnerTaken' = InnerTaken
    BY <1>2, <1>3, <2>2
  <2> QED BY <2>2, <2>3, <2>4 DEF CallSeen
<1>5. CASE CaptureRules(c)
  <2>1. /\ calls[c].pc = "entered" /\ calls'[c].pc = "guarded"
        /\ calls'[c].rules = Len(envelopes)
    BY <1>0, <1>5 DEF CaptureRules, CallRecord
  <2>2. Guarding(c)' = Envelope
    BY <2>1 DEF Guarding, Envelope
  <2>3. /\ c \in Arrived /\ c \in Arrived' /\ InnerTaken[c] = {} /\ InnerTaken'[c] = {}
        /\ RulesTaken[c] = {} /\ RulesTaken'[c] = {Envelope}
    BY <2>1, <2>2 DEF Arrived, RulesTaken, InnerTaken
  <2>4. Arrived' = Arrived
    BY <1>2, <1>3, <2>3
  <2>5. InnerTaken' = InnerTaken /\ RulesTaken' = [RulesTaken EXCEPT ![c] = {Envelope}]
    BY <1>2, <1>3, <2>3
  <2> QED BY <2>3, <2>4, <2>5 DEF CallSeen
<1>6. CASE CaptureInner(c)
  <2>1. /\ calls[c].pc = "guarded" /\ calls'[c].pc = "captured"
        /\ calls'[c].inner = Len(deciders) /\ calls'[c].rules = calls[c].rules
    BY <1>0, <1>6 DEF CaptureInner, CallRecord
  <2>2. Captured(c)' = Inner /\ Guarding(c)' = Guarding(c)
    BY <2>1 DEF Captured, Inner, Guarding
  <2>3. /\ c \in Arrived /\ c \in Arrived' /\ RulesTaken'[c] = RulesTaken[c]
        /\ InnerTaken[c] = {} /\ InnerTaken'[c] = {Inner}
    BY <2>1, <2>2 DEF Arrived, RulesTaken, InnerTaken
  <2>4. Arrived' = Arrived
    BY <1>2, <1>3, <2>3
  <2>5. RulesTaken' = RulesTaken /\ InnerTaken' = [InnerTaken EXCEPT ![c] = {Inner}]
    BY <1>2, <1>3, <2>3
  <2> QED BY <2>3, <2>4, <2>5 DEF CallSeen
<1>7. ASSUME NEW status \in CallStatus, Evaluating(c), Finish(c, status) PROVE CallSeen(c)
  <2>1. calls[c].pc = "captured" /\ calls'[c].pc = "done"
    BY <1>0, <1>7 DEF Evaluating, Finish, CallRecord
  <2>2. /\ c \notin Arrived' /\ RulesTaken'[c] = {} /\ InnerTaken'[c] = {}
        /\ RulesTaken[c] # {} /\ InnerTaken[c] # {}
    BY <2>1 DEF Arrived, RulesTaken, InnerTaken
  <2>3. Arrived' = Arrived \ {c}
    BY <1>2, <1>3, <2>2
  <2>4. /\ RulesTaken' = [RulesTaken EXCEPT ![c] = {}]
        /\ InnerTaken' = [InnerTaken EXCEPT ![c] = {}]
    BY <1>2, <1>3, <2>2
  <2> QED BY <2>2, <2>3, <2>4 DEF CallSeen
<1> QED BY <1>4, <1>5, <1>6, <1>7

\* While calls do not move, what they have captured does not.
LEMMA CallsAtHoldersKept ==
  ASSUME IInv, HistoriesGrow, calls' = calls
  PROVE  UNCHANGED <<Arrived, RulesTaken, InnerTaken>>
<1>1. ASSUME NEW c \in Calls, calls[c].pc = "captured" PROVE Captured(c)' = Captured(c)
  <2>1. calls[c].inner \in 1 .. Len(deciders)
    BY <1>1 DEF IInv, TypeOK, CallInv, CallRecord
  <2> QED BY <2>1 DEF Captured, HistoriesGrow, Prefix
<1>2. ASSUME NEW c \in Calls, calls[c].pc \in {"guarded", "captured"}
      PROVE  Guarding(c)' = Guarding(c)
  <2>1. calls[c].rules \in 1 .. Len(envelopes)
    BY <1>2 DEF IInv, TypeOK, CallInv, CallRecord
  <2> QED BY <2>1 DEF Guarding, HistoriesGrow, Prefix
<1>3. InnerTaken' = InnerTaken
  BY <1>1 DEF InnerTaken
<1>4. RulesTaken' = RulesTaken
  BY <1>2 DEF RulesTaken
<1> QED BY <1>3, <1>4 DEF Arrived

\* What a reload that stays as it is has for the holder stays as it is while
\* no decider is installed.
LEMMA BringsKept ==
  ASSUME IInv, HistoriesGrow, NEW r \in Reloads, reloads'[r] = reloads[r], Gave(r)' = Gave(r)
  PROVE  Brings(r)' = Brings(r)
<1>1. HasBody(r)' = HasBody(r)
  BY DEF HasBody
<1>2. CASE reloads[r].pc = "loaded"
  <2>1. reloads[r].load \in 1 .. Len(files)
    BY <1>2 DEF IInv, TypeOK, ReloadInv, ReloadRecord
  <2>2. files'[reloads[r].load] = files[reloads[r].load]
    BY <2>1 DEF HistoriesGrow, Prefix
  <2> QED BY <1>2, <2>2 DEF Brings
<1>3. CASE reloads[r].pc # "loaded"
  BY <1>1, <1>3 DEF Brings
<1> QED BY <1>2, <1>3

\* A file or a body that loads gives a decider that is Loadable.
LEMMA LoadedIsLoadable ==
  ASSUME IInv, NEW r \in Reloads
  PROVE  /\ reloads[r].pc = "loaded" =>
              /\ reloads[r].load \in 1 .. Len(files)
              /\ FileLoader(files[reloads[r].load]).decider \in Loadable
         /\ FileLoader(File).err = "none" => FileLoader(File).decider \in Loadable
         /\ HasBody(r) /\ BodyLoader(reloads[r].body).err = "none" =>
              BodyLoader(reloads[r].body).decider \in Loadable
<1>0. /\ TypeOK /\ ReloadInv(r) /\ Len(files) >= 1 /\ reloads[r] \in ReloadRecord
  BY DEF IInv, TypeOK
<1>1. \A v \in 1 .. Len(files) : files[v] \in Files
  BY <1>0 DEF TypeOK
<1>2. ASSUME reloads[r].pc = "loaded"
      PROVE  /\ reloads[r].load \in 1 .. Len(files)
             /\ FileLoader(files[reloads[r].load]).err = "none"
  BY <1>0, <1>2 DEF ReloadInv, ReloadRecord, TypeOK
<1>3. File \in Files
  BY <1>0 DEF File, TypeOK
<1>4. reloads[r].body \in Bodies
  BY <1>0 DEF ReloadRecord
<1>5. reloads[r].pc = "loaded" => FileLoader(files[reloads[r].load]).decider \in Loadable
  BY <1>1, <1>2 DEF Loadable
<1>6. FileLoader(File).err = "none" => FileLoader(File).decider \in Loadable
  BY <1>3 DEF Loadable
<1>7. HasBody(r) /\ BodyLoader(reloads[r].body).err = "none" =>
        BodyLoader(reloads[r].body).decider \in Loadable
  BY <1>4 DEF Loadable, HasBody
<1> QED BY <1>2, <1>5, <1>6, <1>7

\* A step of a reload that installs nothing, seen from the swap holder: it
\* came with nothing, and may now have what it will install.
LEMMA ReloadAtHolder ==
  ASSUME IInv, GuardInv, NEW r \in Reloads, UNCHANGED <<files, deciders>>,
         \/ StartReload(r) \/ RefuseBody(r) \/ BodyFails(r) \/ GateFails(r)
         \/ GatePasses(r) \/ LoadFails(r) \/ Load(r)
  PROVE  /\ Brings(r) = {}
         /\ Brings(r)' = {} \/ \E d \in Loadable : Brings(r)' = {d}
<1>0. /\ reloads \in [Reloads -> ReloadRecord] /\ reloads[r] \in ReloadRecord /\ ReloadInv(r)
  BY DEF IInv, TypeOK
<1>1. reloads[r].pc \in {"idle", "started", "gated"}
  BY DEF StartReload, RefuseBody, BodyFails, GateFails, GatePasses, LoadFails, Load, HasBody,
         AtGate, AtLoader
<1>2. Gave(r) = {} /\ Gave(r)' = {}
  BY <1>1, NothingInstalledYet DEF Gave
<1>3. ~(HasBody(r) /\ BodyLoader(reloads[r].body).err = "none")
  BY DEF StartReload, RefuseBody, BodyFails, GateFails, GatePasses, LoadFails, Load, HasBody,
         AtGate, AtLoader
<1>4. Brings(r) = {}
  BY <1>1, <1>2, <1>3 DEF Brings
<1>5. CASE StartReload(r)
  <2>1. reloads'[r].pc = "started" /\ reloads'[r].body = reloads[r].body
    BY <1>0, <1>5 DEF StartReload, ReloadRecord
  <2>2. CASE reloads[r].body.media \in {"csv", "json"} /\ BodyLoader(reloads[r].body).err = "none"
    <3>1. BodyLoader(reloads[r].body).decider \in Loadable
      BY <1>0, <2>2 DEF Loadable, ReloadRecord
    <3>2. Brings(r)' = {BodyLoader(reloads[r].body).decider}
      BY <2>1, <2>2 DEF Brings, HasBody
    <3> QED BY <1>4, <3>1, <3>2
  <2>3. CASE ~(reloads[r].body.media \in {"csv", "json"} /\ BodyLoader(reloads[r].body).err = "none")
    BY <1>2, <1>4, <2>1, <2>3 DEF Brings, HasBody
  <2> QED BY <2>2, <2>3
<1>6. ASSUME reloads'[r].pc \in {"gated", "done"} PROVE Brings(r)' = {}
  BY <1>2, <1>6 DEF Brings, HasBody
<1>7. ASSUME NEW status, Refuse(r, status) PROVE reloads'[r].pc = "done"
  BY <1>0, <1>7 DEF Refuse, ReloadRecord
<1>8. CASE RefuseBody(r) \/ BodyFails(r) \/ GateFails(r) \/ LoadFails(r)
  <2>1. reloads'[r].pc = "done"
    BY <1>7, <1>8 DEF RefuseBody, BodyFails, GateFails, LoadFails
  <2> QED BY <1>4, <1>6, <2>1
<1>9. CASE GatePasses(r)
  <2>1. reloads'[r].pc = "gated"
    BY <1>0, <1>9 DEF GatePasses, ReloadRecord
  <2> QED BY <1>4, <1>6, <2>1
<1>10. CASE Load(r)
  <2>1. /\ reloads'[r].pc = "loaded" /\ reloads'[r].load = Len(files)
        /\ FileLoader(File).err = "none"
    BY <1>0, <1>10 DEF Load, ReloadRecord
  <2>2. Brings(r)' = {FileLoader(File).decider}
    BY <2>1 DEF Brings, File
  <2>3. FileLoader(File).decider \in Loadable
    BY <2>1, LoadedIsLoadable
  <2> QED BY <1>4, <2>2, <2>3
<1> QED BY <1>5, <1>8, <1>9, <1>10

\* A swap, seen from the swap holder: what the reload brought comes into force.
LEMMA SwapAtHolder ==
  ASSUME IInv, GuardInv, TypeOK', NEW r \in Reloads, BodySwap(r) \/ FileSwap(r)
  PROVE  /\ r \notin Reloaded /\ Reloaded' = Reloaded \cup {r}
         /\ Brings(r) = {Inner'} /\ Brings(r)' = {Inner'}
         /\ \A q \in Reloads : q # r => reloads'[q] = reloads[q] /\ Gave(q)' = Gave(q)
<1>0. /\ TypeOK /\ reloads \in [Reloads -> ReloadRecord] /\ reloads[r] \in ReloadRecord
      /\ deciders \in Seq([decider: Deciders, by: Reloads \cup {Boot}, file: Nat])
  BY DEF IInv, TypeOK
<1> DEFINE n == Len(deciders) + 1
<1>1. PICK decider \in Deciders, file \in Nat :
        Acknowledge(r, decider, file) /\ Brings(r) = {decider} /\ reloads[r].pc # "done"
  <2>1. CASE BodySwap(r)
    <3>1. BodyLoader(reloads[r].body).decider \in Deciders
      BY <1>0, <2>1, BodyLoaderOK DEF BodySwap, HasBody, ReloadRecord
    <3>2. Brings(r) = {BodyLoader(reloads[r].body).decider} /\ reloads[r].pc # "done"
      BY <2>1 DEF BodySwap, Brings, HasBody
    <3> QED BY <2>1, <3>1, <3>2 DEF BodySwap
  <2>2. CASE FileSwap(r)
    <3>1. reloads[r].load \in 1 .. Len(files) /\ FileLoader(files[reloads[r].load]).err = "none"
      <4>1. ReloadInv(r)
        BY DEF IInv
      <4>2. reloads[r].pc = "loaded"
        BY <2>2 DEF FileSwap
      <4> QED BY <1>0, <4>1, <4>2 DEF ReloadInv, ReloadRecord
    <3>2. files[reloads[r].load] \in Files
      BY <1>0, <3>1 DEF TypeOK
    <3>3. FileLoader(files[reloads[r].load]).decider \in Deciders
      BY <3>1, <3>2, FileLoaderOK
    <3>4. reloads[r].load \in Nat
      BY <1>0 DEF ReloadRecord
    <3>5. Brings(r) = {FileLoader(files[reloads[r].load]).decider} /\ reloads[r].pc # "done"
      BY <2>2 DEF FileSwap, Brings
    <3> QED BY <2>2, <3>3, <3>4, <3>5 DEF FileSwap
  <2> QED BY <2>1, <2>2
<1>2. /\ deciders' = Append(deciders, [decider |-> decider, by |-> r, file |-> file])
      /\ reloads' = [reloads EXCEPT ![r].pc = "done", ![r].status = 200]
  BY <1>1 DEF Acknowledge, Swap
<1>3. /\ Len(deciders) \in Nat /\ DOMAIN deciders = 1 .. Len(deciders)
      /\ Len(deciders') = n /\ DOMAIN deciders' = 1 .. n
      /\ deciders'[n] = [decider |-> decider, by |-> r, file |-> file]
      /\ \A k \in 1 .. Len(deciders) : deciders'[k] = deciders[k]
  BY <1>0, <1>2
<1>4. /\ \A k \in DOMAIN deciders : /\ k \in DOMAIN deciders' /\ deciders'[k].by = deciders[k].by
                                    /\ deciders'[k].decider = deciders[k].decider
      /\ \A k \in DOMAIN deciders' : k \in DOMAIN deciders \/ k = n
      /\ n \in DOMAIN deciders' /\ deciders'[n].by = r /\ deciders'[n].decider = decider
  BY <1>3
<1>5. Inner' = decider
  BY <1>3 DEF Inner
<1>6. r \notin Reloaded /\ \A k \in DOMAIN deciders : deciders[k].by # r
  <2>1. r \notin Reloaded
    BY <1>1, NothingInstalledYet
  <2> QED BY <2>1 DEF Reloaded
<1>7. /\ reloads'[r].pc = "done"
      /\ \A q \in Reloads : q # r => reloads'[q] = reloads[q]
  BY <1>0, <1>2 DEF ReloadRecord
<1> HIDE DEF n
<1>8. Reloaded' = Reloaded \cup {r}
  <2>1. ASSUME NEW q \in Reloads PROVE (q \in Reloaded)' <=> q \in Reloaded \/ q = r
    <3>1. (q \in Reloaded)' <=> \E k \in DOMAIN deciders' : deciders'[k].by = q
      BY DEF Reloaded
    <3>2. q \in Reloaded <=> \E k \in DOMAIN deciders : deciders[k].by = q
      BY DEF Reloaded
    <3> QED BY <1>4, <3>1, <3>2
  <2>2. Reloaded \subseteq Reloads /\ Reloaded' \subseteq Reloads
    BY DEF Reloaded
  <2> QED BY <2>1, <2>2
<1>9. Brings(r)' = {Inner'}
  <2>1. {k \in DOMAIN deciders' : deciders'[k].by = r} = {n}
    BY <1>4, <1>6
  <2>2. Gave(r)' = {deciders'[k].decider : k \in {j \in DOMAIN deciders' : deciders'[j].by = r}}
    BY DEF Gave
  <2>3. Gave(r)' = {decider}
    BY <1>4, <2>1, <2>2
  <2>4. Brings(r)' = Gave(r)'
    BY <1>7 DEF Brings, HasBody
  <2> QED BY <1>5, <2>3, <2>4
<1>10. ASSUME NEW q \in Reloads, q # r PROVE Gave(q)' = Gave(q)
  <2>1. {k \in DOMAIN deciders' : deciders'[k].by = q} = {k \in DOMAIN deciders : deciders[k].by = q}
    BY <1>4, <1>10
  <2>2. Gave(q)' = {deciders'[k].decider : k \in {j \in DOMAIN deciders' : deciders'[j].by = q}}
    BY DEF Gave
  <2>3. Gave(q) = {deciders[k].decider : k \in {j \in DOMAIN deciders : deciders[j].by = q}}
    BY DEF Gave
  <2> QED BY <1>4, <2>1, <2>2, <2>3
<1> QED BY <1>1, <1>5, <1>6, <1>7, <1>8, <1>9, <1>10

\* A step of a post, seen from the rules holder: a replacement brings its rules
\* into force, and no other step changes what there is.
LEMMA PostAtHolder ==
  ASSUME IInv, GuardInv, NEW p \in Posts
  PROVE  /\ PostRefused(p) \/ PostEcho(p) => Posted(p)' = Posted(p)
         /\ PostReplace(p) => /\ p \notin Replaced /\ Replaced' = Replaced \cup {p}
                              /\ Posted(p) = {Envelope'} /\ Posted(p)' = {Envelope'}
                              /\ \A q \in Posts : q # p => Set(q)' = Set(q)
<1>0. /\ TypeOK /\ posts \in [Posts -> PostRecord] /\ posts[p] \in PostRecord
      /\ envelopes \in Seq([rules: Seq(GuardrailRule), by: Posts \cup {Boot}, at: Nat])
  BY DEF IInv, TypeOK
<1>1. ASSUME PostRefused(p) \/ PostEcho(p) PROVE Posted(p)' = Posted(p)
  <2>1. envelopes' = envelopes /\ posts'[p].pc = "done"
    BY <1>0, <1>1 DEF PostRefused, PostEcho, PostRecord
  <2>2. posts[p].pc = "idle" => ~Buildable(posts[p].cfg)
    BY <1>1 DEF PostRefused, PostEcho
  <2> QED BY <2>1, <2>2 DEF Posted, Set
<1>2. ASSUME PostReplace(p)
      PROVE  /\ p \notin Replaced /\ Replaced' = Replaced \cup {p}
             /\ Posted(p) = {Envelope'} /\ Posted(p)' = {Envelope'}
             /\ \A q \in Posts : q # p => Set(q)' = Set(q)
  <2> DEFINE n == Len(envelopes) + 1
             rules == BuildRules(posts[p].cfg)
  <2>1. /\ posts[p].pc = "idle" /\ Buildable(posts[p].cfg) /\ posts'[p].pc = "replaced"
        /\ envelopes' = Append(envelopes, [rules |-> rules, by |-> p, at |-> Len(deciders)])
    BY <1>0, <1>2 DEF PostReplace, Replace, PostRecord
  <2> HIDE DEF rules
  <2>2. /\ Len(envelopes) \in Nat /\ DOMAIN envelopes = 1 .. Len(envelopes)
        /\ Len(envelopes') = n /\ DOMAIN envelopes' = 1 .. n
        /\ envelopes'[n] = [rules |-> rules, by |-> p, at |-> Len(deciders)]
        /\ \A k \in 1 .. Len(envelopes) : envelopes'[k] = envelopes[k]
    BY <1>0, <2>1
  <2>3. /\ \A k \in DOMAIN envelopes : /\ k \in DOMAIN envelopes'
                                       /\ envelopes'[k].by = envelopes[k].by
                                       /\ envelopes'[k].rules = envelopes[k].rules
        /\ \A k \in DOMAIN envelopes' : k \in DOMAIN envelopes \/ k = n
        /\ n \in DOMAIN envelopes' /\ envelopes'[n].by = p /\ envelopes'[n].rules = rules
    BY <2>2
  <2>4. Envelope' = rules
    BY <2>2 DEF Envelope
  <2>5. p \notin Replaced /\ \A k \in DOMAIN envelopes : envelopes[k].by # p
    <3>1. p \notin Replaced
      BY <2>1, NothingInstalledYet
    <3> QED BY <3>1 DEF Replaced
  <2> HIDE DEF n
  <2>6. Replaced' = Replaced \cup {p}
    <3>1. ASSUME NEW q \in Posts PROVE (q \in Replaced)' <=> q \in Replaced \/ q = p
      <4>1. (q \in Replaced)' <=> \E k \in DOMAIN envelopes' : envelopes'[k].by = q
        BY DEF Replaced
      <4>2. q \in Replaced <=> \E k \in DOMAIN envelopes : envelopes[k].by = q
        BY DEF Replaced
      <4> QED BY <2>3, <4>1, <4>2
    <3>2. Replaced \subseteq Posts /\ Replaced' \subseteq Posts
      BY DEF Replaced
    <3> QED BY <3>1, <3>2
  <2>7. Posted(p)' = {rules}
    <3>1. {k \in DOMAIN envelopes' : envelopes'[k].by = p} = {n}
      BY <2>3, <2>5
    <3>2. Set(p)' = {envelopes'[k].rules : k \in {j \in DOMAIN envelopes' : envelopes'[j].by = p}}
      BY DEF Set
    <3>3. Set(p)' = {rules}
      BY <2>3, <3>1, <3>2
    <3> QED BY <2>1, <3>3 DEF Posted
  <2>8. Posted(p) = {rules}
    BY <2>1 DEF Posted, rules
  <2>9. ASSUME NEW q \in Posts, q # p PROVE Set(q)' = Set(q)
    <3>1. {k \in DOMAIN envelopes' : envelopes'[k].by = q}
            = {k \in DOMAIN envelopes : envelopes[k].by = q}
      BY <2>3, <2>9
    <3>2. Set(q)' = {envelopes'[k].rules : k \in {j \in DOMAIN envelopes' : envelopes'[j].by = q}}
      BY DEF Set
    <3>3. Set(q) = {envelopes[k].rules : k \in {j \in DOMAIN envelopes : envelopes[j].by = q}}
      BY DEF Set
    <3> QED BY <2>3, <3>1, <3>2, <3>3
  <2> QED BY <2>4, <2>5, <2>6, <2>7, <2>8, <2>9
<1> QED BY <1>1, <1>2

\* A step that installs nothing and moves neither call nor post.
Quiet(r) ==
  \/ StartReload(r) \/ RefuseBody(r) \/ BodyFails(r) \/ GateFails(r)
  \/ GatePasses(r) \/ LoadFails(r) \/ Load(r)

\* The steps, by what they leave alone.
LEMMA StepKinds ==
  ASSUME [Next]_vars
  PROVE  \/ EditFile /\ UNCHANGED <<deciders, envelopes, calls, reloads, posts>>
         \/ \E c \in Calls :
              /\ Arrive(c) \/ CaptureRules(c) \/ CaptureInner(c)
                   \/ \E status \in CallStatus : Evaluating(c) /\ Finish(c, status)
              /\ UNCHANGED <<files, deciders, envelopes, reloads, posts>>
         \/ \E r \in Reloads : Quiet(r) /\ UNCHANGED <<files, deciders, envelopes, calls, posts>>
         \/ \E r \in Reloads : /\ BodySwap(r) \/ FileSwap(r)
                               /\ UNCHANGED <<files, envelopes, calls, posts>>
         \/ \E p \in Posts : /\ PostRefused(p) \/ PostEcho(p)
                             /\ UNCHANGED <<files, deciders, envelopes, calls, reloads>>
         \/ \E p \in Posts : PostReplace(p) /\ UNCHANGED <<files, deciders, calls, reloads>>
         \/ UNCHANGED <<files, deciders, envelopes, calls, reloads, posts>>
<1>1. ASSUME EditFile PROVE UNCHANGED <<deciders, envelopes, calls, reloads, posts>>
  BY <1>1 DEF EditFile
<1>2. ASSUME NEW c \in Calls,
             Arrive(c) \/ CaptureRules(c) \/ CaptureInner(c) \/ EngineFails(c) \/ Evaluate(c)
      PROVE  /\ Arrive(c) \/ CaptureRules(c) \/ CaptureInner(c)
                  \/ \E status \in CallStatus : Evaluating(c) /\ Finish(c, status)
             /\ UNCHANGED <<files, deciders, envelopes, reloads, posts>>
  BY <1>2 DEF Arrive, CaptureRules, CaptureInner, EngineFails, Evaluate, NoMatch, Veto, Release,
              Finish, CallStatus
<1>3. ASSUME NEW r \in Reloads, Quiet(r)
      PROVE  UNCHANGED <<files, deciders, envelopes, calls, posts>>
  BY <1>3 DEF Quiet, StartReload, RefuseBody, BodyFails, GateFails, GatePasses, LoadFails, Load,
              Refuse
<1>4. ASSUME NEW r \in Reloads, BodySwap(r) \/ FileSwap(r)
      PROVE  UNCHANGED <<files, envelopes, calls, posts>>
  BY <1>4 DEF BodySwap, FileSwap, Acknowledge
<1>5. ASSUME NEW p \in Posts, PostRefused(p) \/ PostEcho(p)
      PROVE  UNCHANGED <<files, deciders, envelopes, calls, reloads>>
  BY <1>5 DEF PostRefused, PostEcho
<1>6. ASSUME NEW p \in Posts, PostReplace(p) PROVE UNCHANGED <<files, deciders, calls, reloads>>
  BY <1>6 DEF PostReplace
<1> QED BY <1>1, <1>2, <1>3, <1>4, <1>5, <1>6 DEF Next, ReloadStep, Quiet, vars

LEMMA InitHolders ==
  ASSUME Init
  PROVE  SwapHolder!Init /\ RulesHolder!Init
<1>1. PICK content \in Files :
        /\ FileLoader(content).err = "none"
        /\ deciders = <<[decider |-> FileLoader(content).decider, by |-> Boot, file |-> 1]>>
  BY DEF Init
<1>2. envelopes = <<[rules |-> BuildRules(BootConfig), by |-> Boot, at |-> 1]>>
  BY DEF Init
<1>3. \A c \in Calls : calls[c].pc = "idle"
  BY DEF Init
<1>4. \A r \in Reloads : reloads[r].pc = "idle" /\ r # Boot
  BY ServingAssumption DEF Init
<1>5. \A p \in Posts : posts[p].pc = "idle" /\ posts[p].cfg \in Configs /\ p # Boot
  BY ServingAssumption DEF Init
<1>6. /\ DOMAIN deciders = {1} /\ deciders[1].by = Boot /\ Inner = FileLoader(content).decider
      /\ DOMAIN envelopes = {1} /\ envelopes[1].by = Boot /\ Envelope = BuildRules(BootConfig)
  BY <1>1, <1>2 DEF Inner, Envelope
<1>7. Inner \in Loadable
  BY <1>1, <1>6 DEF Loadable
<1>8. /\ Arrived = {} /\ InnerTaken = [c \in Calls |-> {}]
      /\ RulesTaken = [c \in Calls |-> {}]
  BY <1>3 DEF Arrived, InnerTaken, RulesTaken
<1>9. Reloaded = {} /\ Replaced = {}
  BY <1>4, <1>5, <1>6 DEF Reloaded, Replaced
<1>10. ASSUME NEW r \in Reloads PROVE Brings(r) = {}
  BY <1>4, <1>6, <1>10 DEF Brings, HasBody, Gave
<1>11. [r \in Reloads |-> Brings(r)] \in [Reloads -> {{}} \cup {{d} : d \in Loadable}]
  BY <1>10
<1> DEFINE Spelt == {BuildRules(cfg) : cfg \in Configs \cup {BootConfig}}
<1>12. ASSUME NEW p \in Posts PROVE Posted(p) \in {{}} \cup {{v} : v \in Spelt}
  <2>1. CASE Buildable(posts[p].cfg)
    BY <1>5, <2>1 DEF Posted
  <2>2. CASE ~Buildable(posts[p].cfg)
    BY <1>5, <1>6, <2>2 DEF Posted, Set
  <2> QED BY <2>1, <2>2
<1>13. [p \in Posts |-> Posted(p)] \in [Posts -> {{}} \cup {{v} : v \in Spelt}]
  BY <1>12
<1>14. SwapHolder!Init
  BY <1>7, <1>8, <1>9, <1>11 DEF SwapHolder!Init
<1>15. RulesHolder!Init
  BY <1>6, <1>8, <1>9, <1>13 DEF RulesHolder!Init
<1> QED BY <1>14, <1>15

\* Every step is a step of the swap holder, or none.
LEMMA StepSwapHolder ==
  ASSUME IInv, GuardInv, [Next]_vars
  PROVE  [SwapHolder!Next]_(SwapHolder!holder)
<1> DEFINE put == [r \in Reloads |-> Brings(r)]
<1>0. TypeOK' /\ HistoriesGrow
  BY TypeStep, StepsExtend
<1>1. ASSUME deciders' = deciders
      PROVE  /\ UNCHANGED <<Inner, Reloaded>>
             /\ \A r \in Reloads : reloads'[r] = reloads[r] => Brings(r)' = Brings(r)
  <2>1. \A r \in Reloads : Gave(r)' = Gave(r)
    BY <1>1 DEF Gave
  <2> QED BY <1>0, <1>1, <2>1, BringsKept DEF Inner, Reloaded
<1>2. ASSUME calls' = calls PROVE UNCHANGED <<Arrived, InnerTaken>>
  BY <1>0, <1>2, CallsAtHoldersKept
<1>3. ASSUME NEW c \in Calls,
             Arrive(c) \/ CaptureRules(c) \/ CaptureInner(c)
               \/ (\E status \in CallStatus : Evaluating(c) /\ Finish(c, status)),
             UNCHANGED <<files, deciders, envelopes, reloads, posts>>
      PROVE  [SwapHolder!Next]_(SwapHolder!holder)
  <2>1. UNCHANGED <<Inner, Reloaded>> /\ put' = put
    BY <1>1, <1>3
  <2>2. CallSeen(c)
    BY <1>3, CallAtHolders
  <2> HIDE DEF put
  <2>3. \/ SwapHolder!Ask(c) \/ SwapHolder!Capture(c) \/ SwapHolder!Return(c)
        \/ UNCHANGED SwapHolder!holder
    BY <2>1, <2>2 DEF put, CallSeen, SwapHolder!Ask, SwapHolder!Capture, SwapHolder!Return,
                      SwapHolder!holder
  <2> QED BY <2>3 DEF SwapHolder!Next
<1>4. ASSUME NEW r \in Reloads, Quiet(r), UNCHANGED <<files, deciders, envelopes, calls, posts>>
      PROVE  [SwapHolder!Next]_(SwapHolder!holder)
  <2>1. UNCHANGED <<Inner, Reloaded, Arrived, InnerTaken>>
    BY <1>1, <1>2, <1>4
  <2>2. \A q \in Reloads : q # r => reloads'[q] = reloads[q]
    BY <1>4 DEF IInv, TypeOK, Quiet, StartReload, RefuseBody, BodyFails, GateFails, GatePasses,
                LoadFails, Load, Refuse
  <2>3. \A q \in Reloads : q # r => Brings(q)' = Brings(q)
    BY <1>1, <1>4, <2>2
  <2>4. /\ Brings(r) = {}
        /\ Brings(r)' = {} \/ \E d \in Loadable : Brings(r)' = {d}
    BY <1>4, ReloadAtHolder DEF Quiet
  <2>5. CASE Brings(r)' = {}
    <3>1. put' = put
      BY <2>3, <2>4, <2>5
    <3> QED BY <2>1, <3>1 DEF SwapHolder!holder
  <2>6. ASSUME NEW d \in Loadable, Brings(r)' = {d} PROVE SwapHolder!Want(r, d)
    <3>1. put' = [put EXCEPT ![r] = {d}] /\ put[r] = {}
      BY <2>3, <2>4, <2>6
    <3> QED BY <2>1, <3>1 DEF SwapHolder!Want
  <2> QED BY <2>4, <2>5, <2>6 DEF SwapHolder!Next
<1>5. ASSUME NEW r \in Reloads, BodySwap(r) \/ FileSwap(r),
             UNCHANGED <<files, envelopes, calls, posts>>
      PROVE  [SwapHolder!Next]_(SwapHolder!holder)
  <2>1. UNCHANGED <<Arrived, InnerTaken>>
    BY <1>2, <1>5
  <2>2. /\ r \notin Reloaded /\ Reloaded' = Reloaded \cup {r}
        /\ Brings(r) = {Inner'} /\ Brings(r)' = {Inner'}
        /\ \A q \in Reloads : q # r => reloads'[q] = reloads[q] /\ Gave(q)' = Gave(q)
    BY <1>0, <1>5, SwapAtHolder
  <2>3. \A q \in Reloads : Brings(q)' = Brings(q)
    BY <1>0, <2>2, BringsKept
  <2>4. put' = put /\ put[r] = {Inner'}
    BY <2>2, <2>3
  <2>5. SwapHolder!Install(r)
    BY <2>1, <2>2, <2>4 DEF SwapHolder!Install
  <2> QED BY <2>5 DEF SwapHolder!Next
<1>6. ASSUME UNCHANGED <<deciders, calls, reloads>> PROVE UNCHANGED SwapHolder!holder
  <2>1. put' = put
    BY <1>1, <1>6
  <2> QED BY <1>1, <1>2, <1>6, <2>1 DEF SwapHolder!holder
<1> QED BY <1>3, <1>4, <1>5, <1>6, StepKinds

\* Every step is a step of the rules holder, or none.
LEMMA StepRulesHolder ==
  ASSUME IInv, GuardInv, [Next]_vars
  PROVE  [RulesHolder!Next]_(RulesHolder!holder)
<1> DEFINE put == [p \in Posts |-> Posted(p)]
<1>0. HistoriesGrow
  BY StepsExtend
<1>1. ASSUME envelopes' = envelopes
      PROVE  /\ UNCHANGED <<Envelope, Replaced>>
             /\ \A p \in Posts : posts'[p] = posts[p] => Posted(p)' = Posted(p)
  BY <1>1 DEF Envelope, Replaced, Posted, Set
<1>2. ASSUME calls' = calls PROVE UNCHANGED <<Arrived, RulesTaken>>
  BY <1>0, <1>2, CallsAtHoldersKept
<1>3. ASSUME NEW c \in Calls,
             Arrive(c) \/ CaptureRules(c) \/ CaptureInner(c)
               \/ (\E status \in CallStatus : Evaluating(c) /\ Finish(c, status)),
             UNCHANGED <<files, deciders, envelopes, reloads, posts>>
      PROVE  [RulesHolder!Next]_(RulesHolder!holder)
  <2>1. UNCHANGED <<Envelope, Replaced>> /\ put' = put
    BY <1>1, <1>3
  <2>2. CallSeen(c)
    BY <1>3, CallAtHolders
  <2> HIDE DEF put
  <2>3. \/ RulesHolder!Ask(c) \/ RulesHolder!Capture(c) \/ RulesHolder!Return(c)
        \/ UNCHANGED RulesHolder!holder
    BY <2>1, <2>2 DEF put, CallSeen, RulesHolder!Ask, RulesHolder!Capture, RulesHolder!Return,
                      RulesHolder!holder
  <2> QED BY <2>3 DEF RulesHolder!Next
<1>4. ASSUME NEW p \in Posts, PostReplace(p), calls' = calls
      PROVE  [RulesHolder!Next]_(RulesHolder!holder)
  <2>1. UNCHANGED <<Arrived, RulesTaken>>
    BY <1>2, <1>4
  <2>2. /\ p \notin Replaced /\ Replaced' = Replaced \cup {p}
        /\ Posted(p) = {Envelope'} /\ Posted(p)' = {Envelope'}
        /\ \A q \in Posts : q # p => Set(q)' = Set(q)
    BY <1>4, PostAtHolder
  <2>3. \A q \in Posts : q # p => posts'[q] = posts[q]
    BY <1>4 DEF IInv, TypeOK, PostReplace
  <2>4. \A q \in Posts : q # p => Posted(q)' = Posted(q)
    BY <2>2, <2>3 DEF Posted
  <2>5. put' = put /\ put[p] = {Envelope'}
    BY <2>2, <2>4
  <2>6. RulesHolder!Install(p)
    BY <2>1, <2>2, <2>5 DEF RulesHolder!Install
  <2> QED BY <2>6 DEF RulesHolder!Next
<1>5. ASSUME NEW p \in Posts, PostRefused(p) \/ PostEcho(p), UNCHANGED <<envelopes, calls>>
      PROVE  UNCHANGED RulesHolder!holder
  <2>1. \A q \in Posts : q # p => posts'[q] = posts[q]
    BY <1>5 DEF IInv, TypeOK, PostRefused, PostEcho
  <2>2. Posted(p)' = Posted(p)
    BY <1>5, PostAtHolder
  <2>3. put' = put
    BY <1>1, <1>5, <2>1, <2>2
  <2> QED BY <1>1, <1>2, <1>5, <2>3 DEF RulesHolder!holder
<1>6. ASSUME UNCHANGED <<envelopes, calls, posts>> PROVE UNCHANGED RulesHolder!holder
  <2>1. put' = put
    BY <1>1, <1>6
  <2> QED BY <1>1, <1>2, <1>6, <2>1 DEF RulesHolder!holder
<1> QED BY <1>3, <1>4, <1>5, <1>6, StepKinds

\* The swap holder is an AtomicHolder: each POST /decide captures the decider
\* in force at one instant after it came in, each reload installs what its
\* loader made of a file or a body at one instant, and no edit, post or refused
\* reload moves what is served (swap.go: "Decides started after Swap returns
\* observe next").
THEOREM SwapHolderIsAtomic == Spec => SwapHolder!Spec
<1>1. Init => SwapHolder!Init
  BY InitHolders
<1>2. IInv /\ GuardInv /\ [Next]_vars => [SwapHolder!Next]_(SwapHolder!holder)
  BY StepSwapHolder
<1> QED BY <1>1, <1>2, GuardInvariance, PTL DEF Spec, SwapHolder!Spec

\* So is the holder of the guardrails: its calls and posts see one value, which
\* is always one that the boot flags or some post spell (guardrails.Holder).
THEOREM RulesHolderIsAtomic == Spec => RulesHolder!Spec
<1>1. Init => RulesHolder!Init
  BY InitHolders
<1>2. IInv /\ GuardInv /\ [Next]_vars => [RulesHolder!Next]_(RulesHolder!holder)
  BY StepRulesHolder
<1> QED BY <1>1, <1>2, GuardInvariance, PTL DEF Spec, RulesHolder!Spec

-----------------------------------------------------------------------------
(* The holders themselves, for any number of readers, writers and words:   *)
(* the read lock held for the copy alone is enough for every copy to be    *)
(* whole, and the holder implements AtomicHolder.  This is what lets       *)
(* Serving take a capture and a replacement for one step each.             *)

\* A holder starts whole and with nobody inside.
LEMMA InitHolderInv ==
  ASSUME HolderInit
  PROVE  HolderInv
<1>1. Nothing \in Partial
  BY DEF Nothing, Partial
<1> QED
  BY <1>1 DEF HolderInit, HolderInv, HolderTypeOK, Exclusion, WholeValue, FaithfulCopy,
              NoTornCopy, Copied,
              ReaderInside, Nothing

\* A partial copy keeps what it has when one more word joins it.
LEMMA CopyGrows ==
  ASSUME NEW c \in Partial, NEW k \in Words, NEW v \in Values, NEW d,
         d = [j \in DOMAIN c \cup {k} |-> IF j = k THEN v ELSE c[j]]
  PROVE  /\ d \in Partial
         /\ DOMAIN d = DOMAIN c \cup {k}
         /\ d[k] = v /\ \A j \in DOMAIN c : j # k => d[j] = c[j]
<1>1. PICK known \in SUBSET Words : c \in [known -> Values]
  BY DEF Partial
<1>2. d \in [known \cup {k} -> Values] /\ known \cup {k} \in SUBSET Words
  BY <1>1
<1>3. d \in Partial
  BY <1>2 DEF Partial
<1> QED BY <1>3

\* A reader inside has copied words of the one value in force.
LEMMA InsideIsWhole ==
  ASSUME HolderTypeOK, Exclusion, WholeValue, FaithfulCopy, NEW r \in Readers, rpc[r] = "reading"
  PROVE  /\ \A j, k \in Words : word[j] = word[k]
         /\ \A u, v \in Copied(r) : u = v
<1>1. \A w \in Writers : written[w] = {}
  BY DEF WholeValue, Exclusion, ReaderInside
<1>2. \A j, k \in Words : word[j] = word[k]
  BY <1>1 DEF WholeValue
<1>3. copy[r] \in Partial
  BY DEF HolderTypeOK
<1>4. DOMAIN copy[r] \subseteq Words
  BY <1>3 DEF Partial
<1> QED BY <1>2, <1>4 DEF FaithfulCopy, Copied

\* Torn copies are excluded by the rest of the invariant while a reader is
\* inside, and do not change once it has left.
LEMMA StepHolderInv ==
  ASSUME HolderInv, [HolderNext]_holderVars
  PROVE  HolderInv'
<1>0. HolderTypeOK /\ Exclusion /\ WholeValue /\ FaithfulCopy /\ NoTornCopy
  BY DEF HolderInv
<1> DEFINE Parts == HolderTypeOK /\ Exclusion /\ WholeValue /\ FaithfulCopy
<1>1. ASSUME NEW r \in Readers, RLock(r) PROVE Parts' /\ NoTornCopy'
  <2>1. HolderTypeOK'
    BY <1>0, <1>1 DEF HolderTypeOK, RLock, writerVars
  <2>2. Exclusion' /\ WholeValue'
    BY <1>0, <1>1 DEF HolderTypeOK, Exclusion, WholeValue, ReaderInside, RLock,
                      WriterInside, writerVars
  <2>3. FaithfulCopy' /\ NoTornCopy'
    BY <1>0, <1>1 DEF HolderTypeOK, FaithfulCopy, NoTornCopy, Copied, RLock, writerVars
  <2> QED BY <2>1, <2>2, <2>3
<1>2. ASSUME NEW r \in Readers, CopyWord(r) PROVE Parts' /\ NoTornCopy'
  <2>1. PICK k \in Words \ DOMAIN copy[r] :
          copy' = [copy EXCEPT ![r] = [j \in DOMAIN @ \cup {k} |-> IF j = k THEN word[k] ELSE @[j]]]
    BY <1>2 DEF CopyWord
  <2>2. /\ rpc[r] = "reading"
        /\ word' = word /\ rpc' = rpc /\ wpc' = wpc /\ next' = next /\ written' = written
    BY <1>2 DEF CopyWord, writerVars
  <2>3. copy[r] \in Partial /\ word[k] \in Values
    BY <1>0 DEF HolderTypeOK
  <2>4. /\ copy'[r] \in Partial
        /\ DOMAIN copy'[r] = DOMAIN copy[r] \cup {k}
        /\ copy'[r][k] = word[k] /\ \A j \in DOMAIN copy[r] : j # k => copy'[r][j] = copy[r][j]
    <3>1. copy'[r] = [j \in DOMAIN copy[r] \cup {k} |-> IF j = k THEN word[k] ELSE copy[r][j]]
      BY <1>0, <2>1 DEF HolderTypeOK
    <3> QED BY <2>3, <3>1, CopyGrows
  <2>5. \A q \in Readers : q # r => copy'[q] = copy[q]
    BY <1>0, <2>1 DEF HolderTypeOK
  <2>6. copy' \in [Readers -> Partial]
    BY <1>0, <2>1, <2>4, <2>5 DEF HolderTypeOK
  <2>7. HolderTypeOK' /\ Exclusion' /\ WholeValue'
    BY <1>0, <2>2, <2>6 DEF HolderTypeOK, Exclusion, WholeValue, ReaderInside
  <2>8. FaithfulCopy'
    BY <1>0, <2>2, <2>4, <2>5 DEF FaithfulCopy
  <2>9. \A u, v \in Copied(r)' : u = v
    <3>1. \A j, l \in Words : word[j] = word[l]
      BY <1>0, <2>2, InsideIsWhole
    <3>2. DOMAIN copy'[r] \subseteq Words
      BY <2>4 DEF Partial
    <3>3. \A j \in DOMAIN copy'[r] : copy'[r][j] = word[j]
      BY <1>0, <2>2, <2>4 DEF FaithfulCopy
    <3> QED BY <3>1, <3>2, <3>3 DEF Copied
  <2>10. NoTornCopy'
    BY <1>0, <2>5, <2>9 DEF NoTornCopy, Copied
  <2> QED BY <2>7, <2>8, <2>10
<1>3. ASSUME NEW r \in Readers, RUnlock(r) PROVE Parts' /\ NoTornCopy'
  BY <1>0, <1>3 DEF RUnlock, HolderTypeOK, Exclusion, WholeValue, FaithfulCopy, NoTornCopy, Copied,
                    ReaderInside, writerVars
<1>4. ASSUME NEW r \in Readers, Return(r) PROVE Parts' /\ NoTornCopy'
  <2>1. Nothing \in Partial /\ DOMAIN Nothing = {}
    BY DEF Nothing, Partial
  <2>2. copy'[r] = Nothing /\ \A q \in Readers : q # r => copy'[q] = copy[q]
    BY <1>0, <1>4 DEF HolderTypeOK, Return
  <2>3. HolderTypeOK'
    BY <1>0, <1>4, <2>1 DEF HolderTypeOK, Return, writerVars
  <2>4. Exclusion' /\ WholeValue'
    BY <1>0, <1>4 DEF HolderTypeOK, Exclusion, WholeValue, ReaderInside, Return, writerVars
  <2>5. FaithfulCopy'
    BY <1>0, <1>4, <2>1, <2>2 DEF HolderTypeOK, FaithfulCopy, Return
  <2>6. ASSUME NEW q \in Readers PROVE \A u, v \in Copied(q)' : u = v
    <3>1. CASE q = r
      BY <2>1, <2>2, <3>1 DEF Copied
    <3>2. CASE q # r
      BY <1>0, <2>2, <3>2 DEF NoTornCopy, Copied
    <3> QED BY <3>1, <3>2
  <2>7. NoTornCopy'
    BY <2>6 DEF NoTornCopy
  <2> QED BY <2>3, <2>4, <2>5, <2>7
<1>5. ASSUME NEW w \in Writers, NEW v \in Values, Call(w, v) PROVE Parts' /\ NoTornCopy'
  BY <1>0, <1>5 DEF Call, HolderTypeOK, Exclusion, WholeValue, FaithfulCopy, NoTornCopy, Copied,
                    ReaderInside, readerVars
<1>6. ASSUME NEW w \in Writers, Announce(w) PROVE Parts' /\ NoTornCopy'
  BY <1>0, <1>6 DEF Announce, HolderTypeOK, Exclusion, WholeValue, FaithfulCopy, NoTornCopy, Copied,
                    ReaderInside, WriterInside, readerVars
<1>7. ASSUME NEW w \in Writers, Lock(w) PROVE Parts' /\ NoTornCopy'
  BY <1>0, <1>7 DEF Lock, HolderTypeOK, Exclusion, WholeValue, FaithfulCopy, NoTornCopy, Copied,
                    ReaderInside, readerVars
<1>8. ASSUME NEW w \in Writers, AssignWord(w) PROVE Parts' /\ NoTornCopy'
  BY <1>0, <1>8 DEF AssignWord, HolderTypeOK, Exclusion, WholeValue, FaithfulCopy,
                    NoTornCopy, Copied,
                    ReaderInside, readerVars
<1>9. ASSUME NEW w \in Writers, Unlock(w) PROVE Parts' /\ NoTornCopy'
  BY <1>0, <1>9 DEF Unlock, HolderTypeOK, Exclusion, WholeValue, FaithfulCopy, NoTornCopy, Copied,
                    ReaderInside, readerVars
<1>10. CASE UNCHANGED holderVars
  <2>1. /\ word' = word /\ rpc' = rpc /\ copy' = copy
        /\ wpc' = wpc /\ next' = next /\ written' = written
    BY <1>10 DEF holderVars, readerVars, writerVars
  <2>2. HolderTypeOK' /\ Exclusion' /\ WholeValue'
    BY <1>0, <2>1 DEF HolderTypeOK, Exclusion, WholeValue, ReaderInside
  <2>3. FaithfulCopy'
    BY <1>0, <2>1 DEF FaithfulCopy
  <2>4. NoTornCopy'
    BY <1>0, <2>1 DEF NoTornCopy, Copied
  <2> QED BY <2>2, <2>3, <2>4 DEF HolderInv
<1> QED
  BY <1>1, <1>2, <1>3, <1>4, <1>5, <1>6, <1>7, <1>8, <1>9, <1>10
     DEF HolderNext, Read, Write, HolderInv

\* Writers exclude each other and the readers inside, and copies are faithful.
THEOREM HolderInvariance == HolderSpec => []HolderInv
<1>1. HolderInit => HolderInv
  BY InitHolderInv
<1>2. HolderInv /\ [HolderNext]_holderVars => HolderInv'
  BY StepHolderInv
<1> QED BY <1>1, <1>2, PTL DEF HolderSpec

\* No Decide ever calls through an interface of two halves, and no guardrails
\* call walks a slice header of two halves, however reads and writes overlap.
THEOREM CopiesAreWhole == HolderSpec => []NoTornCopy
<1>1. HolderInv => NoTornCopy
  BY DEF HolderInv
<1> QED BY <1>1, HolderInvariance, PTL

-----------------------------------------------------------------------------
(* The refinement.                                                         *)

\* While a writer has assigned some word, its value is the one in force.
LEMMA InForceWriting ==
  ASSUME Exclusion, WholeValue, NEW w \in Writers, written[w] # {}
  PROVE  InForce = next[w]
<1>1. \A x \in Writers : written[x] # {} => x = w
  BY DEF Exclusion, WholeValue
<1> QED BY <1>1 DEF InForce

\* Otherwise it is what any word holds.
LEMMA InForceSettled ==
  ASSUME WholeValue, \A w \in Writers : written[w] = {}, NEW k \in Words
  PROVE  InForce = word[k]
<1>1. InForce = word[CHOOSE j \in Words : TRUE]
  BY DEF InForce
<1> QED BY <1>1 DEF WholeValue

\* Steps that leave the words alone leave the value in force alone.
LEMMA InForceKept ==
  ASSUME Exclusion, WholeValue, Exclusion', WholeValue',
         word' = word, written' = written,
         \A w \in Writers : written[w] # {} => next'[w] = next[w]
  PROVE  InForce' = InForce
<1>1. CASE \E w \in Writers : written[w] # {}
  <2>1. PICK w \in Writers : written[w] # {}
    BY <1>1
  <2>2. \A x \in Writers : written[x] # {} => x = w
    BY <2>1 DEF Exclusion, WholeValue
  <2> QED BY <2>1, <2>2 DEF InForce
<1>2. CASE \A w \in Writers : written[w] = {}
  BY <1>2 DEF InForce
<1> QED BY <1>1, <1>2

\* Initially no call is under way and the words agree.
LEMMA InitAtomic ==
  ASSUME HolderInit
  PROVE  Atomic!Init
<1>1. PICK v \in Values : word = [k \in Words |-> v]
  BY DEF HolderInit
<1>2. InForce = v
  BY <1>1, WordsAssumption DEF HolderInit, InForce
<1>3. \A r \in Readers : Copied(r) = {} /\ rpc[r] = "idle"
  BY DEF HolderInit, Copied, Nothing
<1>4. \A w \in Writers : wpc[w] = "idle" /\ written[w] = {}
  BY DEF HolderInit
<1> QED BY <1>2, <1>3, <1>4 DEF Atomic!Init

\* Every step of the holder is a step of the atomic one, or none.
LEMMA StepAtomic ==
  ASSUME HolderInv, HolderInv', [HolderNext]_holderVars
  PROVE  [Atomic!Next]_(Atomic!holder)
<1> DEFINE asked     == {r \in Readers : rpc[r] # "idle"}
           got       == [r \in Readers |-> Copied(r)]
           put       == [w \in Writers |-> IF wpc[w] = "idle" THEN {} ELSE {next[w]}]
           installed == {w \in Writers : written[w] # {}}
<1>0. /\ HolderTypeOK /\ Exclusion /\ WholeValue /\ FaithfulCopy /\ NoTornCopy
      /\ HolderTypeOK' /\ Exclusion' /\ WholeValue' /\ FaithfulCopy' /\ NoTornCopy'
  BY DEF HolderInv
<1>1. ASSUME NEW r \in Readers, RLock(r) PROVE Atomic!Ask(r)
  <2>1. InForce' = InForce
    BY <1>0, <1>1, InForceKept DEF RLock, writerVars
  <2>2. asked' = asked \cup {r} /\ r \notin asked
    BY <1>0, <1>1 DEF RLock, HolderTypeOK
  <2>3. got' = got /\ put' = put /\ installed' = installed
    BY <1>1 DEF RLock, writerVars, Copied
  <2> QED BY <2>1, <2>2, <2>3 DEF Atomic!Ask
<1>2. ASSUME NEW r \in Readers, CopyWord(r)
      PROVE  Atomic!Capture(r) \/ UNCHANGED Atomic!holder
  <2>1. /\ rpc[r] = "reading" /\ rpc' = rpc
        /\ word' = word /\ wpc' = wpc /\ next' = next /\ written' = written
    BY <1>2 DEF CopyWord, writerVars
  <2>2. InForce' = InForce
    BY <1>0, <2>1, InForceKept
  <2>3. \A k \in Words : word[k] = InForce
    BY <1>0, <2>1, InForceSettled DEF Exclusion, WholeValue, ReaderInside
  <2>4. asked' = asked /\ put' = put /\ installed' = installed
    BY <2>1
  <2>5. PICK k \in Words \ DOMAIN copy[r] :
          copy' = [copy EXCEPT ![r] = [j \in DOMAIN @ \cup {k} |-> IF j = k THEN word[k] ELSE @[j]]]
    BY <1>2 DEF CopyWord
  <2>6. /\ copy[r] \in Partial /\ word[k] \in Values
        /\ copy'[r] = [j \in DOMAIN copy[r] \cup {k} |-> IF j = k THEN word[k] ELSE copy[r][j]]
        /\ \A q \in Readers : q # r => copy'[q] = copy[q]
    BY <1>0, <2>5 DEF HolderTypeOK
  <2>7. DOMAIN copy[r] \subseteq Words /\ DOMAIN copy'[r] = DOMAIN copy[r] \cup {k}
        /\ copy'[r][k] = word[k]
    BY <2>6 DEF Partial
  <2>8. Copied(r)' = {InForce}
    BY <1>0, <2>1, <2>3, <2>7 DEF FaithfulCopy, Copied
  <2>9. \A q \in Readers : q # r => Copied(q)' = Copied(q)
    BY <2>6 DEF Copied
  <2>10. got' = [got EXCEPT ![r] = {InForce}]
    BY <2>8, <2>9
  <2>11. CASE DOMAIN copy[r] = {}
    <3>1. got[r] = {} /\ r \in asked
      BY <2>1, <2>11 DEF Copied
    <3> QED BY <2>2, <2>4, <2>10, <3>1 DEF Atomic!Capture
  <2>12. CASE DOMAIN copy[r] # {}
    <3>1. Copied(r) = {InForce}
      BY <1>0, <2>1, <2>3, <2>7, <2>12 DEF FaithfulCopy, Copied
    <3>2. got' = got
      BY <2>8, <2>9, <3>1
    <3> QED BY <2>2, <2>4, <3>2 DEF Atomic!holder
  <2> QED BY <2>11, <2>12
<1>3. ASSUME NEW r \in Readers, RUnlock(r) PROVE UNCHANGED Atomic!holder
  <2>1. InForce' = InForce
    BY <1>0, <1>3, InForceKept DEF RUnlock, writerVars
  <2>2. asked' = asked
    BY <1>0, <1>3 DEF RUnlock, HolderTypeOK
  <2>3. got' = got /\ put' = put /\ installed' = installed
    BY <1>3 DEF RUnlock, writerVars, Copied
  <2> QED BY <2>1, <2>2, <2>3 DEF Atomic!holder
<1>4. ASSUME NEW r \in Readers, Return(r) PROVE Atomic!Return(r)
  <2>1. InForce' = InForce
    BY <1>0, <1>4, InForceKept DEF Return, writerVars
  <2>2. asked' = asked \ {r} /\ put' = put /\ installed' = installed
    BY <1>0, <1>4 DEF Return, writerVars, HolderTypeOK
  <2>3. got[r] # {}
    <3>1. DOMAIN copy[r] = Words
      BY <1>0, <1>4 DEF Return, FaithfulCopy
    <3>2. PICK k \in Words : TRUE
      BY WordsAssumption
    <3>3. copy[r][k] \in Copied(r)
      BY <3>1, <3>2 DEF Copied
    <3> QED BY <3>3
  <2>4. copy'[r] = Nothing /\ \A q \in Readers : q # r => copy'[q] = copy[q]
    BY <1>0, <1>4 DEF Return, HolderTypeOK
  <2>5. DOMAIN Nothing = {}
    BY DEF Nothing
  <2>6. Copied(r)' = {}
    BY <2>4, <2>5 DEF Copied
  <2>7. \A q \in Readers : q # r => Copied(q)' = Copied(q)
    BY <2>4 DEF Copied
  <2>8. got' = [got EXCEPT ![r] = {}]
    BY <2>6, <2>7
  <2>9. r \in asked
    BY <1>4 DEF Return
  <2> QED BY <2>1, <2>2, <2>3, <2>8, <2>9 DEF Atomic!Return
<1>5. ASSUME NEW w \in Writers, NEW v \in Values, Call(w, v) PROVE Atomic!Want(w, v)
  <2>1. wpc[w] = "idle" /\ next' = [next EXCEPT ![w] = v] /\ wpc' = [wpc EXCEPT ![w] = "wanting"]
        /\ word' = word /\ rpc' = rpc /\ copy' = copy /\ written' = written
    BY <1>5 DEF Call, readerVars
  <2>2. InForce' = InForce
    BY <1>0, <2>1, InForceKept DEF HolderTypeOK, WholeValue
  <2>3. asked' = asked /\ got' = got /\ installed' = installed
    BY <2>1 DEF Copied
  <2>4. put[w] = {} /\ put' = [put EXCEPT ![w] = {v}]
    BY <1>0, <2>1 DEF HolderTypeOK
  <2> QED BY <2>2, <2>3, <2>4 DEF Atomic!Want
<1>6. ASSUME NEW w \in Writers, Announce(w) \/ Lock(w) PROVE UNCHANGED Atomic!holder
  <2>1. InForce' = InForce
    BY <1>0, <1>6, InForceKept DEF Announce, Lock, readerVars
  <2>2. asked' = asked /\ got' = got /\ installed' = installed
    BY <1>6 DEF Announce, Lock, readerVars, Copied
  <2>3. put' = put
    BY <1>0, <1>6 DEF Announce, Lock, HolderTypeOK
  <2> QED BY <2>1, <2>2, <2>3 DEF Atomic!holder
<1>7. ASSUME NEW w \in Writers, AssignWord(w)
      PROVE  Atomic!Install(w) \/ UNCHANGED Atomic!holder
  <2>1. wpc[w] = "writing" /\ rpc' = rpc /\ copy' = copy /\ wpc' = wpc /\ next' = next
    BY <1>7 DEF AssignWord, readerVars
  <2>2. PICK k \in Words : written' = [written EXCEPT ![w] = written[w] \cup {k}]
    BY <1>0, <1>7 DEF AssignWord, HolderTypeOK
  <2>3. written'[w] # {} /\ \A x \in Writers : x # w => written'[x] = written[x]
    BY <1>0, <2>2 DEF HolderTypeOK
  <2>4. InForce' = next[w]
    <3>1. \A x \in Writers : written'[x] # {} => x = w
      BY <1>0, <2>1 DEF Exclusion, WholeValue
    <3> QED BY <2>1, <2>3, <3>1 DEF InForce
  <2>5. asked' = asked /\ got' = got /\ put' = put /\ installed' = installed \cup {w}
    BY <2>1, <2>3 DEF Copied
  <2>6. put[w] = {next[w]}
    BY <2>1
  <2>7. CASE written[w] = {}
    BY <2>4, <2>5, <2>6, <2>7 DEF Atomic!Install
  <2>8. CASE written[w] # {}
    BY <1>0, <2>4, <2>5, <2>8, InForceWriting DEF Atomic!holder
  <2> QED BY <2>7, <2>8
<1>8. ASSUME NEW w \in Writers, Unlock(w) PROVE Atomic!Finish(w)
  <2>1. /\ wpc[w] = "writing" /\ written[w] = Words
        /\ word' = word /\ copy' = copy /\ next' = next
        /\ wpc' = [wpc EXCEPT ![w] = "idle"] /\ written' = [written EXCEPT ![w] = {}]
        /\ rpc' = [r \in Readers |-> IF rpc[r] = "waiting" THEN "reading" ELSE rpc[r]]
    BY <1>8 DEF Unlock
  <2>2. \A x \in Writers : written'[x] = {}
    BY <1>0, <2>1 DEF HolderTypeOK, Exclusion, WholeValue
  <2>3. PICK k \in Words : TRUE
    BY WordsAssumption
  <2>4. InForce' = word[k]
    <3>1. InForce' = word[CHOOSE j \in Words : TRUE]
      BY <2>1, <2>2 DEF InForce
    <3>2. \A i, j \in Words : word'[i] = word'[j]
      BY <1>0, <2>2 DEF WholeValue
    <3> QED BY <2>1, <2>3, <3>1, <3>2
  <2>5. InForce = next[w] /\ word[k] = next[w]
    BY <1>0, <2>1, InForceWriting DEF WholeValue
  <2>6. asked' = asked /\ got' = got
    BY <1>0, <2>1 DEF HolderTypeOK, Copied
  <2>7. w \in installed /\ installed' = installed \ {w} /\ put' = [put EXCEPT ![w] = {}]
    BY <1>0, <2>1, WordsAssumption DEF HolderTypeOK
  <2> QED BY <2>4, <2>5, <2>6, <2>7 DEF Atomic!Finish
<1>9. CASE UNCHANGED holderVars
  BY <1>9 DEF holderVars, readerVars, writerVars, Atomic!holder, InForce, Copied
<1> HIDE DEF asked, got, put, installed
<1> QED
  BY <1>1, <1>2, <1>3, <1>4, <1>5, <1>6, <1>7, <1>8, <1>9
     DEF HolderNext, Read, Write, Atomic!Next

\* Under the lock, each read and each replacement happens at one instant: the
\* single steps that module Serving takes for them are what the code does.
THEOREM HolderRefinement == HolderSpec => AtomicSpec
<1>1. HolderInit => Atomic!Init
  BY InitAtomic
<1>2. HolderInv /\ HolderInv' /\ [HolderNext]_holderVars => [Atomic!Next]_(Atomic!holder)
  BY StepAtomic
<1> QED BY <1>1, <1>2, HolderInvariance, PTL DEF HolderSpec, AtomicSpec, Atomic!Spec

=============================================================================
