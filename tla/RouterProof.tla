----------------------------- MODULE RouterProof -----------------------------
(***************************************************************************)
(* Proofs about Router, for any number of routes, calls and reloads, any   *)
(* hash, either policy and any contents of the files.  RouterInv is the    *)
(* inductive invariant: what each call and each reload has met so far, in  *)
(* terms of the histories of the holders, and which reload each entry of   *)
(* a history came from.  The last part maps each route to an AtomicHolder. *)
(***************************************************************************)
EXTENDS Router, RuleSetsProof, FiniteSetTheorems, TLAPS

-----------------------------------------------------------------------------
(* The routes.                                                             *)

\* Route flags are numbered from one; there is a first, and Choose finds one.
LEMMA RoutesAreNumbered ==
  /\ Indices = 1 .. Len(Routes) /\ Len(Routes) \in Nat /\ Len(Routes) >= 1
  /\ \A i \in Indices : Routes[i] \in RouteFlag
<1>1. Routes \in Seq(RouteFlag) /\ Routes # <<>>
  BY RouterAssumption
<1> QED BY <1>1 DEF Indices

LEMMA ChooseIsARoute ==
  ASSUME NEW c, Policy = "default" \/ calls[c].cid \in Cids
  PROVE  Choose(c) \in Indices
<1>1. CASE Policy = "default"
  BY <1>1, RoutesAreNumbered DEF Choose
<1>2. CASE Policy # "default"
  <2>1. Hash[calls[c].cid] \in Nat
    BY <1>2, RouterAssumption
  <2>2. \A n, m \in Nat : m >= 1 => (n % m) + 1 \in 1 .. m
    OBVIOUS
  <2> QED BY <1>2, <2>1, <2>2, RoutesAreNumbered DEF Choose
<1> QED BY <1>1, <1>2

\* What a route's loader makes of its file is a decider a holder can take.
LEMMA LoaderOK ==
  ASSUME NEW i \in Indices, NEW content \in Contents[Routes[i].path],
         Loader(i, content).err = "none"
  PROVE  Loader(i, content).decider \in Deciders
<1>1. Routes[i].model \in Models /\ Routes[i].type \in {"rules", "snapshot"}
  BY RoutesAreNumbered DEF RouteFlag
<1>2. Contents[Routes[i].path] \subseteq IF Routes[i].type = "rules" THEN Csv ELSE Snapshot
  BY RouterAssumption DEF Indices
<1>3. CASE Routes[i].type = "rules"
  <2>1. content \in Csv /\ "inmemory" \in Adapters
    BY <1>2, <1>3 DEF Adapters
  <2>2. RulesLoader(content, "inmemory", Routes[i].model).err = "none"
        /\ Loader(i, content) = RulesLoader(content, "inmemory", Routes[i].model)
    BY <1>3 DEF Loader
  <2>3. Loader(i, content).decider
          = [adapter |-> "inmemory", rules |-> content.rules, model |-> Routes[i].model]
    BY <1>1, <2>1, <2>2, RulesLoaderOK
  <2>4. content.rules \in Seq(Rule)
    BY <2>1 DEF Csv
  <2> QED BY <1>1, <2>1, <2>3, <2>4 DEF Deciders
<1>4. CASE Routes[i].type # "rules"
  BY <1>2, <1>4, SnapshotLoaderOK DEF Loader
<1> QED BY <1>3, <1>4

\* The version of its file that a route finds is one of the file's history.
LEMMA FileOfRoute ==
  ASSUME TypeOK, NEW i \in Indices
  PROVE  /\ Routes[i].path \in DOMAIN Contents
         /\ Version(i) \in Nat /\ Version(i) >= 1
         /\ \A v \in 1 .. Version(i) : files[Routes[i].path][v] \in Contents[Routes[i].path]
         /\ File(i) = files[Routes[i].path][Version(i)]
<1>1. Routes[i].path \in DOMAIN Contents
  BY RoutesAreNumbered DEF RouteFlag
<1>2. files[Routes[i].path] \in Seq(Contents[Routes[i].path]) /\ files[Routes[i].path] # <<>>
  BY <1>1 DEF TypeOK
<1> QED BY <1>1, <1>2 DEF Version, File

\* A holder holds deciders, one at least.
LEMMA HolderOfRoute ==
  ASSUME TypeOK, NEW i \in Indices
  PROVE  /\ holders[i] \in Seq(HolderEntry)
         /\ InForce(i) \in Nat /\ InForce(i) >= 1 /\ DOMAIN holders[i] = 1 .. InForce(i)
         /\ \A k \in 1 .. InForce(i) : /\ holders[i][k].decider \in Deciders
                                       /\ holders[i][k].by \in Reloads \cup {Boot}
                                       /\ holders[i][k].version \in Nat
<1>1. holders[i] \in Seq(HolderEntry) /\ holders[i] # <<>>
  BY DEF TypeOK
<1>2. \A h \in HolderEntry : /\ h.decider \in Deciders /\ h.by \in Reloads \cup {Boot}
                             /\ h.version \in Nat
  BY DEF HolderEntry
<1>3. \A k \in 1 .. Len(holders[i]) : holders[i][k] \in HolderEntry
  BY <1>1
<1> QED BY <1>1, <1>2, <1>3 DEF InForce

-----------------------------------------------------------------------------
(* The steps, by what they change.                                         *)

CallStep(c) ==
  \/ HeaderSent(c) \/ HeaderAbsent(c) \/ GenerateFails(c)
  \/ Capture(c) \/ EngineFails(c) \/ NoMatch(c) \/ Answer(c)

ReloadStep(r) == BadBody(r) \/ UnknownModel(r) \/ Lookup(r) \/ LoadFails(r) \/ Load(r)

\* A step edits a file, moves a call, moves a reload, or swaps a holder.
LEMMA StepKinds ==
  ASSUME [Next]_vars
  PROVE  \/ \E s \in DOMAIN Contents : EditFile(s)
         \/ \E c \in Calls : CallStep(c) /\ UNCHANGED <<files, holders, reloads>>
         \/ \E r \in Reloads : ReloadStep(r) /\ UNCHANGED <<files, holders, calls>>
         \/ \E r \in Reloads : FileSwap(r)
         \/ UNCHANGED vars
<1>1. ASSUME NEW c \in Calls, CallStep(c) PROVE UNCHANGED <<files, holders, reloads>>
  BY <1>1 DEF CallStep, HeaderSent, HeaderAbsent, Arrive, GenerateFails, Capture, EngineFails,
              NoMatch, Answer, Finish
<1>2. ASSUME NEW r \in Reloads, ReloadStep(r) PROVE UNCHANGED <<files, holders, calls>>
  BY <1>2 DEF ReloadStep, BadBody, UnknownModel, Refuse, Lookup, Enter, LoadFails, Load
<1> QED BY <1>1, <1>2 DEF Next, CallStep, ReloadStep

\* The record that a step of a call leaves behind.
Becomes(c, record) == calls' = [calls EXCEPT ![c] = record]

Enters(c, cid) ==
  /\ calls[c].pc = "idle" /\ cid \in Cids
  /\ Becomes(c, [calls[c] EXCEPT !.pc = "entered", !.cid = cid,
                                 !.after = {d \in Calls : calls[d].pc = "done"},
                                 !.since = [i \in Indices |-> InForce(i)]])

Captures(c) ==
  /\ calls[c].pc = "entered"
  /\ Becomes(c, [calls[c] EXCEPT !.pc = "captured", !.route = Choose(c),
                                 !.inner = InForce(Choose(c))])

Ends(c, status, answer) ==
  Becomes(c, [calls[c] EXCEPT !.pc = "done", !.status = status, !.answer = answer])

Fails(c) == calls[c].pc \in {"idle", "captured"} /\ Ends(c, 500, NoAnswer)

Decides(c) ==
  /\ calls[c].pc = "captured"
  /\ \/ ~Matched(Captured(c), calls[c].req) /\ Ends(c, 404, NoAnswer)
     \/ Matched(Captured(c), calls[c].req) /\ Ends(c, 200, Stamp(InnerDecision(c), calls[c].route))

\* A step of a call is one of four kinds.
LEMMA CallEffect ==
  ASSUME RouterInv, NEW c \in Calls, CallStep(c)
  PROVE  (\E cid \in Cids : Enters(c, cid)) \/ Captures(c) \/ Fails(c) \/ Decides(c)
<1>0. calls \in [Calls -> CallRecord] /\ calls[c] \in CallRecord
  BY DEF RouterInv, TypeOK
<1>1. ASSUME NEW cid, Arrive(c, cid)
      PROVE  Becomes(c, [calls[c] EXCEPT !.pc = "entered", !.cid = cid,
                                 !.after = {d \in Calls : calls[d].pc = "done"},
                                 !.since = [i \in Indices |-> InForce(i)]])
  BY <1>1 DEF Arrive, Becomes
<1>2. ASSUME NEW status, NEW answer, Finish(c, status, answer) PROVE Ends(c, status, answer)
  BY <1>2 DEF Finish, Ends, Becomes
<1>3. CASE HeaderSent(c)
  <2>1. calls[c].header \in Cids
    BY <1>0, <1>3 DEF HeaderSent, CallRecord, Sent
  <2>2. Arrive(c, calls[c].header) /\ calls[c].pc = "idle"
    BY <1>3 DEF HeaderSent, Arrive
  <2> QED BY <1>1, <2>1, <2>2 DEF Enters
<1>4. CASE HeaderAbsent(c)
  <2>1. PICK cid \in Generated : Arrive(c, cid)
    BY <1>4 DEF HeaderAbsent
  <2>2. cid \in Cids /\ calls[c].pc = "idle"
    BY <2>1, RouterAssumption DEF Arrive
  <2> QED BY <1>1, <2>1, <2>2 DEF Enters
<1>5. CASE GenerateFails(c)
  BY <1>2, <1>5 DEF GenerateFails, Fails
<1>6. CASE Capture(c)
  BY <1>6 DEF Capture, Captures, Becomes
<1>7. CASE EngineFails(c)
  BY <1>2, <1>7 DEF EngineFails, Fails
<1>8. CASE NoMatch(c)
  BY <1>2, <1>8 DEF NoMatch, Decides
<1>9. CASE Answer(c)
  BY <1>2, <1>9 DEF Answer, Decides
<1> QED BY <1>3, <1>4, <1>5, <1>6, <1>7, <1>8, <1>9 DEF CallStep

\* The record that a step of a reload leaves behind.
ReloadBecomes(r, record) == reloads' = [reloads EXCEPT ![r] = record]

Refused(r, status) == ReloadBecomes(r, [reloads[r] EXCEPT !.pc = "done", !.status = status])

LooksUp(r) ==
  \E i \in Named(r) :
    /\ reloads[r].pc = "idle"
    /\ ReloadBecomes(r, [reloads[r] EXCEPT !.pc = "named", !.route = i,
                                           !.since = Version(i), !.sinceH = InForce(i)])

Loads(r) ==
  /\ reloads[r].pc = "named"
  /\ Loader(reloads[r].route, File(reloads[r].route)).err = "none"
  /\ ReloadBecomes(r, [reloads[r] EXCEPT !.pc = "loaded",
                                         !.version = Version(reloads[r].route)])

\* A step of a reload is one of three kinds; a lookup finds a route that has
\* the name.
LEMMA ReloadEffect ==
  ASSUME NEW r \in Reloads, ReloadStep(r)
  PROVE  /\ reloads[r].pc # "done"
         /\ (\E status \in {400, 404, 500} : Refused(r, status)) \/ LooksUp(r) \/ Loads(r)
<1>1. ASSUME NEW status, Refuse(r, status) PROVE Refused(r, status)
  BY <1>1 DEF Refuse, Refused, ReloadBecomes
<1>2. CASE BadBody(r) \/ UnknownModel(r) \/ LoadFails(r)
  BY <1>1, <1>2 DEF BadBody, UnknownModel, LoadFails
<1>3. CASE Lookup(r)
  <2>1. Named(r) # {} /\ Named(r) \in SUBSET (1 .. Len(Routes)) /\ Len(Routes) \in Nat
    BY <1>3, RoutesAreNumbered DEF Lookup, Named
  <2>2. PICK x \in Named(r) : \A y \in Named(r) : y <= x
    BY <2>1, GreatestNat
  <2>3. Max(Named(r)) \in Named(r)
    <3>1. \A y \in Named(r) : x >= y
      BY <2>1, <2>2
    <3> QED BY <2>2, <3>1 DEF Max
  <2>4. Enter(r, Max(Named(r))) /\ reloads[r].pc = "idle"
    BY <1>3 DEF Lookup
  <2> DEFINE i == Max(Named(r))
  <2>5. ReloadBecomes(r, [reloads[r] EXCEPT !.pc = "named", !.route = i,
                                            !.since = Version(i), !.sinceH = InForce(i)])
    BY <2>4 DEF Enter, ReloadBecomes
  <2> QED BY <2>3, <2>4, <2>5 DEF LooksUp
<1>4. CASE Load(r)
  BY <1>4 DEF Load, Loads, ReloadBecomes
<1> QED BY <1>2, <1>3, <1>4 DEF ReloadStep

\* A swap appends what the loader made of the version it read.
LEMMA SwapEffect ==
  ASSUME RouterInv, NEW r \in Reloads, FileSwap(r)
  PROVE  LET i == reloads[r].route
             h == Install(i, r)
         IN /\ reloads[r].pc = "loaded" /\ i \in Named(r) /\ i \in Indices
            /\ h \in HolderEntry
            /\ h.by = r /\ h.version = reloads[r].version
            /\ h.decider = Loader(i, files[Routes[i].path][reloads[r].version]).decider
            /\ holders' = [holders EXCEPT ![i] = Append(holders[i], h)]
            /\ ReloadBecomes(r, [reloads[r] EXCEPT !.pc = "done", !.status = 200])
            /\ UNCHANGED <<files, calls>>
<1> DEFINE i == reloads[r].route
           v == reloads[r].version
           content == files[Routes[i].path][v]
<1>1. TypeOK /\ ReloadInv(r) /\ reloads[r].pc = "loaded" /\ reloads[r] \in ReloadRecord
  BY DEF RouterInv, TypeOK, FileSwap
<1>2. i \in Named(r) /\ i \in Indices /\ v \in 1 .. Version(i) /\ Loader(i, content).err = "none"
  BY <1>1 DEF ReloadInv, Named, ReloadRecord
<1>3. content \in Contents[Routes[i].path] /\ v \in Nat
  BY <1>1, <1>2, FileOfRoute
<1>4. Loader(i, content).decider \in Deciders
  BY <1>2, <1>3, LoaderOK
<1>5. Install(i, r) = [decider |-> Loader(i, content).decider, by |-> r, version |-> v]
  BY DEF Install
<1>6. Install(i, r) \in HolderEntry
  BY <1>3, <1>4, <1>5 DEF HolderEntry
<1>7. /\ holders' = [holders EXCEPT ![i] = Append(holders[i], Install(i, r))]
      /\ ReloadBecomes(r, [reloads[r] EXCEPT !.pc = "done", !.status = 200])
      /\ UNCHANGED <<files, calls>>
  BY DEF FileSwap, ReloadBecomes
<1> QED BY <1>1, <1>2, <1>5, <1>6, <1>7

\* An edit appends to the history of one file.
LEMMA EditEffect ==
  ASSUME NEW s \in DOMAIN Contents, EditFile(s)
  PROVE  /\ \E content \in Contents[s] : files' = [files EXCEPT ![s] = Append(files[s], content)]
         /\ UNCHANGED <<holders, calls, reloads>>
  BY DEF EditFile

-----------------------------------------------------------------------------
(* Type correctness.                                                       *)

\* The values the steps assign are ones the records may hold.
LEMMA StatusValues ==
  /\ \A s \in {200, 404, 500} : s \in CallStatus
  /\ \A s \in {200, 400, 404, 500} : s \in ReloadStatus
  /\ \A i \in Indices : i \in RouteNo
  /\ \A cid \in Cids : cid \in Sent
  BY DEF CallStatus, ReloadStatus, RouteNo, Sent

\* A record stays one when a field of it is given a value of the field's type.
LEMMA CallFields ==
  ASSUME NEW me \in CallRecord
  PROVE  /\ \A v \in {"entered", "captured", "done"} : [me EXCEPT !.pc = v] \in CallRecord
         /\ \A v \in Sent : [me EXCEPT !.cid = v] \in CallRecord
         /\ \A v \in SUBSET Calls : [me EXCEPT !.after = v] \in CallRecord
         /\ \A v \in [Indices -> Nat] : [me EXCEPT !.since = v] \in CallRecord
         /\ \A v \in RouteNo : [me EXCEPT !.route = v] \in CallRecord
         /\ \A v \in Nat : [me EXCEPT !.inner = v] \in CallRecord
         /\ \A v \in CallStatus : [me EXCEPT !.status = v] \in CallRecord
         /\ \A v \in Answers : [me EXCEPT !.answer = v] \in CallRecord
  BY DEF CallRecord

LEMMA ReloadFields ==
  ASSUME NEW me \in ReloadRecord
  PROVE  /\ \A v \in {"named", "loaded", "done"} : [me EXCEPT !.pc = v] \in ReloadRecord
         /\ \A v \in RouteNo : [me EXCEPT !.route = v] \in ReloadRecord
         /\ \A v \in Nat : [me EXCEPT !.since = v] \in ReloadRecord
         /\ \A v \in Nat : [me EXCEPT !.sinceH = v] \in ReloadRecord
         /\ \A v \in Nat : [me EXCEPT !.version = v] \in ReloadRecord
         /\ \A v \in ReloadStatus : [me EXCEPT !.status = v] \in ReloadRecord
  BY DEF ReloadRecord

LEMMA CallEndsTyped ==
  ASSUME NEW me \in CallRecord, NEW status \in CallStatus, NEW answer \in Answers
  PROVE  [me EXCEPT !.pc = "done", !.status = status, !.answer = answer] \in CallRecord
<1> DEFINE me1 == [me EXCEPT !.pc = "done"]
           me2 == [me1 EXCEPT !.status = status]
<1>1. me1 \in CallRecord
  BY CallFields
<1> HIDE DEF me1
<1>2. me2 \in CallRecord
  BY <1>1, CallFields
<1> HIDE DEF me2
<1>3. [me2 EXCEPT !.answer = answer] \in CallRecord
  BY <1>2, CallFields
<1> QED BY <1>3 DEF me1, me2

LEMMA EndsTyped ==
  ASSUME NEW me \in ReloadRecord, NEW status \in ReloadStatus
  PROVE  [me EXCEPT !.pc = "done", !.status = status] \in ReloadRecord
<1> DEFINE me1 == [me EXCEPT !.pc = "done"]
<1>1. me1 \in ReloadRecord
  BY ReloadFields
<1> HIDE DEF me1
<1>2. [me1 EXCEPT !.status = status] \in ReloadRecord
  BY <1>1, ReloadFields
<1> QED BY <1>2 DEF me1

\* A call that has captured a decider captured one that its route held.
LEMMA CapturedOK ==
  ASSUME TypeOK, NEW c \in Calls, CallStage(c), calls[c].inner # 0
  PROVE  /\ calls[c].cid \in Cids /\ calls[c].route = Choose(c) /\ calls[c].route \in Indices
         /\ calls[c].inner \in 1 .. InForce(calls[c].route)
         /\ calls[c].since[calls[c].route] \in 1 .. calls[c].inner
         /\ Captured(c) \in Deciders
<1>1. calls[c] \in CallRecord
  BY DEF TypeOK
<1>2. /\ calls[c].cid \in Cids /\ calls[c].route = Choose(c)
      /\ calls[c].inner \in calls[c].since[calls[c].route] .. InForce(calls[c].route)
      /\ \A i \in Indices : calls[c].since[i] \in 1 .. InForce(i)
  BY DEF CallStage
<1>3. calls[c].route \in Indices
  BY <1>2, ChooseIsARoute
<1>4. /\ calls[c].inner \in 1 .. InForce(calls[c].route) /\ calls[c].inner \in Nat
      /\ calls[c].since[calls[c].route] \in 1 .. calls[c].inner
  BY <1>1, <1>2, <1>3, HolderOfRoute DEF CallRecord
<1> QED BY <1>2, <1>3, <1>4, HolderOfRoute DEF Captured

\* What a decision looks like when the router has stamped it.
LEMMA StampOK ==
  ASSUME TypeOK, NEW c \in Calls, CallStage(c), calls[c].inner # 0,
         Matched(Captured(c), calls[c].req)
  PROVE  /\ Stamp(InnerDecision(c), calls[c].route)
              = [model |-> Routes[calls[c].route].model,
                 experiment |-> Routes[calls[c].route].variant,
                 factor |-> FactorOf(Captured(c), calls[c].req)]
         /\ Stamp(InnerDecision(c), calls[c].route) \in Answers
<1>1. calls[c].route \in Indices /\ Captured(c) \in Deciders
  BY CapturedOK
<1>2. FactorOf(Captured(c), calls[c].req) \in Factor
  BY <1>1, FactorWritten
<1>3. Routes[calls[c].route].model \in Labels /\ Routes[calls[c].route].variant \in STRING
  BY <1>1, RoutesAreNumbered DEF RouteFlag, Labels
<1>4. Stamp(InnerDecision(c), calls[c].route)
        = [model |-> Routes[calls[c].route].model,
           experiment |-> Routes[calls[c].route].variant,
           factor |-> FactorOf(Captured(c), calls[c].req)]
  BY DEF Stamp, InnerDecision
<1>5. Routes[calls[c].route].variant \in Labels
  BY <1>3 DEF Labels
<1> QED BY <1>2, <1>3, <1>4, <1>5 DEF Answers

\* Every step keeps every variable in its type.
LEMMA TypeStep ==
  ASSUME RouterInv, [Next]_vars
  PROVE  TypeOK'
<1>0. /\ TypeOK
      /\ files = [s \in DOMAIN Contents |-> files[s]]
      /\ \A s \in DOMAIN Contents : files[s] \in Seq(Contents[s]) /\ files[s] # <<>>
      /\ holders \in [Indices -> Seq(HolderEntry)] /\ \A i \in Indices : holders[i] # <<>>
      /\ calls \in [Calls -> CallRecord]
      /\ reloads \in [Reloads -> ReloadRecord]
  BY DEF RouterInv, TypeOK
<1>1. ASSUME NEW s \in DOMAIN Contents, EditFile(s) PROVE TypeOK'
  <2>1. PICK content \in Contents[s] : files' = [files EXCEPT ![s] = Append(files[s], content)]
    BY <1>1, EditEffect
  <2>2. Append(files[s], content) \in Seq(Contents[s]) /\ Append(files[s], content) # <<>>
    BY <1>0, AppendGrows
  <2>3. DOMAIN files = DOMAIN Contents
    BY <1>0
  <2>4. /\ files' = [t \in DOMAIN Contents |-> files'[t]]
        /\ \A t \in DOMAIN Contents : files'[t] \in Seq(Contents[t]) /\ files'[t] # <<>>
    BY <1>0, <2>1, <2>2, <2>3
  <2> QED BY <1>0, <1>1, <2>4, EditEffect DEF TypeOK
<1>2. ASSUME NEW c \in Calls, CallStep(c), UNCHANGED <<files, holders, reloads>> PROVE TypeOK'
  <2>1. calls[c] \in CallRecord /\ CallStage(c)
    BY <1>0 DEF RouterInv
  <2>2. ASSUME NEW record \in CallRecord, Becomes(c, record) PROVE TypeOK'
    BY <1>0, <1>2, <2>2 DEF TypeOK, Becomes
  <2>3. ASSUME NEW cid \in Cids, Enters(c, cid) PROVE TypeOK'
    <3>1. [i \in Indices |-> InForce(i)] \in [Indices -> Nat]
      BY <1>0, HolderOfRoute
    <3> DEFINE done  == {d \in Calls : calls[d].pc = "done"}
               lens  == [i \in Indices |-> InForce(i)]
               me1   == [calls[c] EXCEPT !.pc = "entered"]
               me2   == [me1 EXCEPT !.cid = cid]
               me3   == [me2 EXCEPT !.after = done]
    <3>2. me1 \in CallRecord
      BY <2>1, CallFields
    <3> HIDE DEF me1
    <3>3. me2 \in CallRecord
      BY <2>3, <3>2, CallFields, StatusValues
    <3> HIDE DEF me2
    <3>4. me3 \in CallRecord
      BY <3>3, CallFields
    <3> HIDE DEF me3
    <3>5. [me3 EXCEPT !.since = lens] \in CallRecord
      BY <3>1, <3>4, CallFields
    <3>6. Becomes(c, [me3 EXCEPT !.since = lens])
      BY <2>3 DEF Enters, me1, me2, me3
    <3> QED BY <2>2, <3>5, <3>6
  <2>4. CASE Captures(c)
    <3>1. calls[c].cid \in Cids
      BY <2>1, <2>4 DEF CallStage, Captures
    <3>2. Choose(c) \in Indices /\ InForce(Choose(c)) \in Nat
      BY <1>0, <3>1, ChooseIsARoute, HolderOfRoute
    <3> DEFINE me1 == [calls[c] EXCEPT !.pc = "captured"]
               me2 == [me1 EXCEPT !.route = Choose(c)]
    <3>3. me1 \in CallRecord
      BY <2>1, CallFields
    <3> HIDE DEF me1
    <3>4. me2 \in CallRecord
      BY <3>2, <3>3, CallFields, StatusValues
    <3> HIDE DEF me2
    <3>5. [me2 EXCEPT !.inner = InForce(Choose(c))] \in CallRecord
      BY <3>2, <3>4, CallFields
    <3>6. Becomes(c, [me2 EXCEPT !.inner = InForce(Choose(c))])
      BY <2>4 DEF Captures, me1, me2
    <3> QED BY <2>2, <3>5, <3>6
  <2>5. ASSUME NEW status \in {200, 404, 500}, NEW answer \in Answers, Ends(c, status, answer)
        PROVE  TypeOK'
    <3>1. status \in CallStatus
      BY <2>5, StatusValues
    <3> DEFINE me == calls[c]
    <3>2. Becomes(c, [me EXCEPT !.pc = "done", !.status = status, !.answer = answer])
          /\ me \in CallRecord
      BY <2>1, <2>5 DEF Ends
    <3> HIDE DEF me
    <3>3. [me EXCEPT !.pc = "done", !.status = status, !.answer = answer] \in CallRecord
      BY <2>5, <3>1, <3>2, CallEndsTyped
    <3> QED BY <2>2, <3>2, <3>3
  <2>6. NoAnswer \in Answers
    BY DEF NoAnswer, Answers, Factor, Labels
  <2>7. CASE Fails(c)
    BY <2>5, <2>6, <2>7 DEF Fails
  <2>8. CASE Decides(c)
    <3>1. calls[c].inner # 0
      BY <2>1, <2>8 DEF CallStage, Decides
    <3>2. CASE ~Matched(Captured(c), calls[c].req)
      BY <2>5, <2>6, <2>8, <3>2 DEF Decides
    <3>3. CASE Matched(Captured(c), calls[c].req)
      <4>1. Stamp(InnerDecision(c), calls[c].route) \in Answers
        BY <1>0, <2>1, <3>1, <3>3, StampOK
      <4> QED BY <2>5, <2>8, <3>3, <4>1 DEF Decides
    <3> QED BY <3>2, <3>3
  <2> QED BY <1>2, <2>3, <2>4, <2>7, <2>8, CallEffect
<1>3. ASSUME NEW r \in Reloads, ReloadStep(r), UNCHANGED <<files, holders, calls>> PROVE TypeOK'
  <2>1. reloads[r] \in ReloadRecord
    BY <1>0
  <2>2. ASSUME NEW record \in ReloadRecord, ReloadBecomes(r, record) PROVE TypeOK'
    BY <1>0, <1>3, <2>2 DEF TypeOK, ReloadBecomes
  <2>3. ASSUME NEW status \in {400, 404, 500}, Refused(r, status) PROVE TypeOK'
    <3>1. status \in ReloadStatus
      BY <2>3, StatusValues
    <3> DEFINE me == reloads[r]
    <3>2. ReloadBecomes(r, [me EXCEPT !.pc = "done", !.status = status]) /\ me \in ReloadRecord
      BY <2>1, <2>3 DEF Refused
    <3> HIDE DEF me
    <3>3. [me EXCEPT !.pc = "done", !.status = status] \in ReloadRecord
      BY <3>1, <3>2, EndsTyped
    <3> QED BY <2>2, <3>2, <3>3
  <2>4. CASE LooksUp(r)
    <3>1. PICK i \in Named(r) : ReloadBecomes(r, [reloads[r] EXCEPT !.pc = "named", !.route = i,
                                               !.since = Version(i), !.sinceH = InForce(i)])
      BY <2>4 DEF LooksUp
    <3>2. i \in Indices /\ Version(i) \in Nat /\ InForce(i) \in Nat
      BY <1>0, FileOfRoute, HolderOfRoute DEF Named
    <3> DEFINE me1 == [reloads[r] EXCEPT !.pc = "named"]
               me2 == [me1 EXCEPT !.route = i]
               me3 == [me2 EXCEPT !.since = Version(i)]
    <3>3. me1 \in ReloadRecord
      BY <2>1, ReloadFields
    <3> HIDE DEF me1
    <3>4. me2 \in ReloadRecord
      BY <3>2, <3>3, ReloadFields, StatusValues
    <3> HIDE DEF me2
    <3>5. me3 \in ReloadRecord
      BY <3>2, <3>4, ReloadFields
    <3> HIDE DEF me3
    <3>6. [me3 EXCEPT !.sinceH = InForce(i)] \in ReloadRecord
      BY <3>2, <3>5, ReloadFields
    <3>7. ReloadBecomes(r, [me3 EXCEPT !.sinceH = InForce(i)])
      BY <3>1 DEF me1, me2, me3
    <3> QED BY <2>2, <3>6, <3>7
  <2>5. CASE Loads(r)
    <3>1. reloads[r].route \in Indices
      BY <2>5 DEF RouterInv, ReloadInv, Loads, Named
    <3>2. Version(reloads[r].route) \in Nat
      BY <1>0, <3>1, FileOfRoute
    <3> DEFINE me1 == [reloads[r] EXCEPT !.pc = "loaded"]
    <3>3. me1 \in ReloadRecord
      BY <2>1, ReloadFields
    <3> HIDE DEF me1
    <3>4. [me1 EXCEPT !.version = Version(reloads[r].route)] \in ReloadRecord
      BY <3>2, <3>3, ReloadFields
    <3>5. ReloadBecomes(r, [me1 EXCEPT !.version = Version(reloads[r].route)])
      BY <2>5 DEF Loads, me1
    <3> QED BY <2>2, <3>4, <3>5
  <2> QED BY <1>3, <2>3, <2>4, <2>5, ReloadEffect
<1>4. ASSUME NEW r \in Reloads, FileSwap(r) PROVE TypeOK'
  <2> DEFINE i == reloads[r].route
             h == Install(i, r)
  <2>1. /\ i \in Indices /\ h \in HolderEntry
        /\ holders' = [holders EXCEPT ![i] = Append(holders[i], h)]
        /\ ReloadBecomes(r, [reloads[r] EXCEPT !.pc = "done", !.status = 200])
        /\ UNCHANGED <<files, calls>>
    BY <1>4, SwapEffect
  <2> HIDE DEF i, h
  <2>2. Append(holders[i], h) \in Seq(HolderEntry) /\ Append(holders[i], h) # <<>>
    <3>1. holders[i] \in Seq(HolderEntry) /\ h \in HolderEntry
      BY <1>0, <2>1
    <3>2. Append(holders[i], h) \in Seq(HolderEntry)
          /\ Len(Append(holders[i], h)) = Len(holders[i]) + 1 /\ Len(holders[i]) \in Nat
      BY <3>1, AppendGrows
    <3> QED BY <3>2
  <2>3. holders' \in [Indices -> Seq(HolderEntry)] /\ \A j \in Indices : holders'[j] # <<>>
    BY <1>0, <2>1, <2>2
  <2>4. [reloads[r] EXCEPT !.pc = "done", !.status = 200] \in ReloadRecord
    BY <1>0, EndsTyped, StatusValues
  <2>5. reloads' \in [Reloads -> ReloadRecord]
    BY <1>0, <2>1, <2>4 DEF ReloadBecomes
  <2> QED BY <1>0, <2>1, <2>3, <2>5 DEF TypeOK
<1>5. CASE UNCHANGED vars
  BY <1>0, <1>5 DEF TypeOK, vars
<1> QED BY <1>1, <1>2, <1>3, <1>4, <1>5, StepKinds

-----------------------------------------------------------------------------
(* The histories only grow, and a handler moves by its own steps only.     *)

HistoriesGrow ==
  /\ \A s \in DOMAIN Contents : Prefix(files[s], files'[s])
  /\ \A i \in Indices : Prefix(holders[i], holders'[i])

\* Nothing is taken out of a history.
LEMMA StepsExtend ==
  ASSUME RouterInv, [Next]_vars
  PROVE  HistoriesGrow
<1>0. /\ \A s \in DOMAIN Contents : files[s] \in Seq(Contents[s])
      /\ files = [s \in DOMAIN Contents |-> files[s]]
      /\ holders \in [Indices -> Seq(HolderEntry)]
  BY DEF RouterInv, TypeOK
<1>1. /\ \A s \in DOMAIN Contents : Prefix(files[s], files[s])
      /\ \A i \in Indices : Prefix(holders[i], holders[i])
  BY <1>0, PrefixSelf
<1>2. ASSUME NEW s \in DOMAIN Contents, EditFile(s) PROVE HistoriesGrow
  <2>1. PICK content \in Contents[s] : files' = [files EXCEPT ![s] = Append(files[s], content)]
    BY <1>2, EditEffect
  <2>2. Prefix(files[s], Append(files[s], content))
    BY <1>0, AppendGrows
  <2>3. DOMAIN files = DOMAIN Contents
    BY <1>0
  <2>4. \A t \in DOMAIN Contents : files'[t] = IF t = s THEN Append(files[s], content) ELSE files[t]
    BY <2>1, <2>3
  <2> QED BY <1>1, <1>2, <2>2, <2>4, EditEffect DEF HistoriesGrow
<1>3. ASSUME NEW r \in Reloads, FileSwap(r) PROVE HistoriesGrow
  <2> DEFINE i == reloads[r].route
             h == Install(i, r)
  <2>1. /\ i \in Indices /\ h \in HolderEntry
        /\ holders' = [holders EXCEPT ![i] = Append(holders[i], h)]
        /\ files' = files
    BY <1>3, SwapEffect
  <2> HIDE DEF i, h
  <2>2. Prefix(holders[i], Append(holders[i], h))
    <3>1. holders[i] \in Seq(HolderEntry) /\ h \in HolderEntry
      BY <1>0, <2>1
    <3> QED BY <3>1, AppendGrows
  <2>3. \A j \in Indices : holders'[j] = IF j = i THEN Append(holders[i], h) ELSE holders[j]
    BY <1>0, <2>1
  <2> QED BY <1>1, <2>1, <2>2, <2>3 DEF HistoriesGrow
<1>4. ASSUME UNCHANGED <<files, holders>> PROVE HistoriesGrow
  BY <1>1, <1>4 DEF HistoriesGrow
<1> QED BY <1>2, <1>3, <1>4, StepKinds DEF vars

\* The fields of a call that a step of it sets and leaves alone.
LEMMA EntersSets ==
  ASSUME TypeOK, NEW c \in Calls, NEW cid, Enters(c, cid)
  PROVE  /\ calls'[c].pc = "entered" /\ calls'[c].cid = cid /\ cid \in Cids
         /\ calls'[c].after = {d \in Calls : calls[d].pc = "done"}
         /\ calls'[c].since = [i \in Indices |-> InForce(i)]
         /\ calls'[c].inner = calls[c].inner /\ calls'[c].status = calls[c].status
         /\ \A d \in Calls : d # c => calls'[d] = calls[d]
         /\ calls[c].pc = "idle"
<1>1. calls \in [Calls -> CallRecord] /\ calls[c] \in CallRecord
  BY DEF TypeOK
<1> QED BY <1>1 DEF Enters, Becomes, CallRecord

LEMMA CapturesSets ==
  ASSUME TypeOK, NEW c \in Calls, Captures(c)
  PROVE  /\ calls'[c].pc = "captured" /\ calls'[c].route = Choose(c)
         /\ calls'[c].inner = InForce(Choose(c)) /\ calls'[c].cid = calls[c].cid
         /\ calls'[c].after = calls[c].after /\ calls'[c].since = calls[c].since
         /\ calls'[c].status = calls[c].status
         /\ \A d \in Calls : d # c => calls'[d] = calls[d]
         /\ calls[c].pc = "entered"
<1>1. calls \in [Calls -> CallRecord] /\ calls[c] \in CallRecord
  BY DEF TypeOK
<1> QED BY <1>1 DEF Captures, Becomes, CallRecord

LEMMA EndsSets ==
  ASSUME TypeOK, NEW c \in Calls, NEW status, NEW answer, Ends(c, status, answer)
  PROVE  /\ calls'[c].pc = "done" /\ calls'[c].status = status /\ calls'[c].answer = answer
         /\ calls'[c].cid = calls[c].cid /\ calls'[c].req = calls[c].req
         /\ calls'[c].after = calls[c].after /\ calls'[c].since = calls[c].since
         /\ calls'[c].route = calls[c].route /\ calls'[c].inner = calls[c].inner
         /\ \A d \in Calls : d # c => calls'[d] = calls[d]
<1>1. calls \in [Calls -> CallRecord] /\ calls[c] \in CallRecord
  BY DEF TypeOK
<1> QED BY <1>1 DEF Ends, Becomes, CallRecord

\* The record of a call changes only by a step of that call, and that one
\* touches nothing else.
LEMMA CallMoves ==
  ASSUME RouterInv, [Next]_vars, NEW c \in Calls
  PROVE  \/ calls'[c] = calls[c]
         \/ /\ (\E cid \in Cids : Enters(c, cid)) \/ Captures(c) \/ Fails(c) \/ Decides(c)
            /\ UNCHANGED <<files, holders, reloads>>
<1>0. TypeOK
  BY DEF RouterInv
<1>1. ASSUME NEW d \in Calls, CallStep(d), UNCHANGED <<files, holders, reloads>>, d # c
      PROVE  calls'[c] = calls[c]
  <2>1. ASSUME NEW cid \in Cids, Enters(d, cid) PROVE calls'[c] = calls[c]
    BY <1>0, <1>1, <2>1, EntersSets
  <2>2. CASE Captures(d)
    BY <1>0, <1>1, <2>2, CapturesSets
  <2>3. ASSUME NEW status, NEW answer, Ends(d, status, answer) PROVE calls'[c] = calls[c]
    BY <1>0, <1>1, <2>3, EndsSets
  <2>4. CASE Fails(d)
    BY <2>3, <2>4 DEF Fails
  <2>5. CASE Decides(d)
    BY <2>3, <2>5 DEF Decides
  <2> QED BY <1>1, <2>1, <2>2, <2>4, <2>5, CallEffect
<1>2. ASSUME CallStep(c)
      PROVE  (\E cid \in Cids : Enters(c, cid)) \/ Captures(c) \/ Fails(c) \/ Decides(c)
  BY <1>2, CallEffect
<1>3. ASSUME NEW r \in Reloads, FileSwap(r) PROVE calls' = calls
  BY <1>3 DEF FileSwap
<1>4. ASSUME NEW s \in DOMAIN Contents, EditFile(s) PROVE calls' = calls
  BY <1>4 DEF EditFile
<1> QED BY <1>1, <1>2, <1>3, <1>4, StepKinds DEF vars

\* A call that is done stays as it is.
LEMMA DoneStays ==
  ASSUME RouterInv, [Next]_vars, NEW c \in Calls, calls[c].pc = "done"
  PROVE  calls'[c] = calls[c]
<1>1. ~Captures(c) /\ ~Fails(c) /\ ~Decides(c) /\ \A cid \in Cids : ~Enters(c, cid)
  BY DEF Captures, Fails, Decides, Enters
<1> QED BY <1>1, CallMoves

-----------------------------------------------------------------------------
(* Calls: each part of the invariant is kept by every step.                *)

\* While the histories grow, the entries that were in them stay.
LEMMA EntriesStay ==
  ASSUME TypeOK, TypeOK', HistoriesGrow
  PROVE  /\ \A i \in Indices : /\ InForce(i) \in Nat /\ InForce(i)' \in Nat
                               /\ InForce(i) <= InForce(i)'
                               /\ \A k \in 1 .. InForce(i) : holders'[i][k] = holders[i][k]
         /\ \A i \in Indices : /\ Version(i) \in Nat /\ Version(i)' \in Nat
                               /\ Version(i) <= Version(i)'
                               /\ \A v \in 1 .. Version(i) :
                                    files'[Routes[i].path][v] = files[Routes[i].path][v]
<1>1. ASSUME NEW i \in Indices
      PROVE  /\ InForce(i) \in Nat /\ InForce(i)' \in Nat /\ InForce(i) <= InForce(i)'
             /\ \A k \in 1 .. InForce(i) : holders'[i][k] = holders[i][k]
  <2>1. InForce(i) \in Nat
    BY HolderOfRoute
  <2>2. InForce(i)' \in Nat
    <3>1. holders'[i] \in Seq(HolderEntry)
      BY DEF TypeOK
    <3> QED BY <3>1 DEF InForce
  <2> QED BY <2>1, <2>2 DEF HistoriesGrow, Prefix, InForce
<1>2. ASSUME NEW i \in Indices
      PROVE  /\ Version(i) \in Nat /\ Version(i)' \in Nat /\ Version(i) <= Version(i)'
             /\ \A v \in 1 .. Version(i) : files'[Routes[i].path][v] = files[Routes[i].path][v]
  <2>1. Version(i) \in Nat /\ Routes[i].path \in DOMAIN Contents
    BY FileOfRoute
  <2>2. Version(i)' \in Nat
    <3>1. files'[Routes[i].path] \in Seq(Contents[Routes[i].path])
      BY <2>1 DEF TypeOK
    <3> QED BY <3>1 DEF Version
  <2> QED BY <2>1, <2>2 DEF HistoriesGrow, Prefix, Version
<1> QED BY <1>1, <1>2

\* A call that stays as it is keeps what is true of it, swaps or not.
LEMMA CallKept ==
  ASSUME RouterInv, TypeOK', HistoriesGrow, NEW c \in Calls, calls'[c] = calls[c]
  PROVE  CallStage(c)' /\ CallAnswer(c)'
<1>0. TypeOK /\ CallStage(c) /\ CallAnswer(c) /\ calls[c] \in CallRecord
  BY DEF RouterInv, TypeOK
<1>1. Choose(c)' = Choose(c)
  BY DEF Choose
<1>2. ASSUME NEW i \in Indices, calls[c].since[i] \in 1 .. InForce(i)
      PROVE  calls[c].since[i] \in 1 .. InForce(i)'
  BY <1>0, <1>2, EntriesStay
<1>3. ASSUME calls[c].inner # 0
      PROVE  /\ calls[c].inner \in calls[c].since[calls[c].route] .. InForce(calls[c].route)'
             /\ Captured(c)' = Captured(c)
  <2>1. calls[c].route \in Indices /\ calls[c].inner \in 1 .. InForce(calls[c].route)
        /\ calls[c].inner \in calls[c].since[calls[c].route] .. InForce(calls[c].route)
    BY <1>0, <1>3, CapturedOK DEF CallStage
  <2>2. calls[c].since[calls[c].route] \in Nat
    BY <1>0, <2>1 DEF CallRecord
  <2>3. /\ InForce(calls[c].route) \in Nat /\ InForce(calls[c].route)' \in Nat
        /\ InForce(calls[c].route) <= InForce(calls[c].route)'
        /\ holders'[calls[c].route][calls[c].inner] = holders[calls[c].route][calls[c].inner]
    BY <1>0, <2>1, EntriesStay
  <2> QED BY <2>1, <2>2, <2>3 DEF Captured
<1>4. CallStage(c)'
  BY <1>0, <1>1, <1>2, <1>3 DEF CallStage
<1>5. CallAnswer(c)'
  BY <1>0, <1>3 DEF CallAnswer, InnerDecision
<1> QED BY <1>4, <1>5

\* A call that takes a step keeps its stage and its answer true.
LEMMA CallStepInv ==
  ASSUME RouterInv, [Next]_vars, TypeOK', HistoriesGrow, NEW c \in Calls
  PROVE  CallStage(c)' /\ CallAnswer(c)'
<1>0. TypeOK /\ CallStage(c) /\ CallAnswer(c) /\ calls[c] \in CallRecord
  BY DEF RouterInv, TypeOK
<1>1. ASSUME NEW cid \in Cids, Enters(c, cid), UNCHANGED <<files, holders, reloads>>
      PROVE  CallStage(c)' /\ CallAnswer(c)'
  <2>1. /\ calls'[c].pc = "entered" /\ calls'[c].cid = cid
        /\ calls'[c].since = [i \in Indices |-> InForce(i)]
        /\ calls'[c].inner = 0 /\ calls'[c].status = 0
    BY <1>0, <1>1, EntersSets DEF CallStage
  <2>2. \A i \in Indices : calls'[c].since[i] \in 1 .. InForce(i)'
    <3> TAKE i \in Indices
    <3>1. InForce(i)' = InForce(i) /\ calls'[c].since[i] = InForce(i)
      BY <1>1, <2>1 DEF InForce
    <3>2. InForce(i) \in Nat /\ InForce(i) >= 1
      BY <1>0, HolderOfRoute
    <3> QED BY <3>1, <3>2
  <2>3. CallStage(c)'
    BY <2>1, <2>2 DEF CallStage
  <2>4. CallAnswer(c)'
    BY <2>1 DEF CallAnswer
  <2> QED BY <2>3, <2>4
<1>2. ASSUME Captures(c), UNCHANGED <<files, holders, reloads>>
      PROVE  CallStage(c)' /\ CallAnswer(c)'
  <2>1. /\ calls[c].pc = "entered" /\ calls[c].cid \in Cids /\ calls[c].status = 0
        /\ \A i \in Indices : calls[c].since[i] \in 1 .. InForce(i)
    BY <1>0, <1>2 DEF CallStage, Captures
  <2>2. /\ calls'[c].pc = "captured" /\ calls'[c].route = Choose(c)
        /\ calls'[c].inner = InForce(Choose(c)) /\ calls'[c].cid = calls[c].cid
        /\ calls'[c].since = calls[c].since /\ calls'[c].status = 0
    BY <1>0, <1>2, <2>1, CapturesSets
  <2>3. Choose(c)' = Choose(c) /\ \A i \in Indices : InForce(i)' = InForce(i)
    BY <1>2, <2>2 DEF Choose, InForce
  <2>4. Choose(c) \in Indices
    BY <2>1, ChooseIsARoute
  <2>5. InForce(Choose(c)) \in Nat /\ InForce(Choose(c)) >= 1
        /\ calls[c].since[Choose(c)] \in 1 .. InForce(Choose(c))
    BY <1>0, <2>1, <2>4, HolderOfRoute
  <2>6. CallStage(c)'
    BY <2>1, <2>2, <2>3, <2>4, <2>5 DEF CallStage
  <2>7. CallAnswer(c)'
    BY <2>2 DEF CallAnswer
  <2> QED BY <2>6, <2>7
<1>3. ASSUME NEW status, NEW answer, Ends(c, status, answer), UNCHANGED <<files, holders, reloads>>
      PROVE  /\ CallStage(c)'
             /\ \/ status \notin {200, 404}
                \/ /\ calls[c].inner # 0 /\ status = 404 /\ answer = NoAnswer
                   /\ ~Matched(Captured(c), calls[c].req)
                \/ /\ calls[c].inner # 0 /\ status = 200
                   /\ Matched(Captured(c), calls[c].req)
                   /\ answer = Stamp(InnerDecision(c), calls[c].route)
                => CallAnswer(c)'
  <2>1. /\ calls'[c].pc = "done" /\ calls'[c].status = status /\ calls'[c].answer = answer
        /\ calls'[c].cid = calls[c].cid /\ calls'[c].req = calls[c].req
        /\ calls'[c].since = calls[c].since
        /\ calls'[c].route = calls[c].route /\ calls'[c].inner = calls[c].inner
    BY <1>0, <1>3, EndsSets
  <2>2. /\ Choose(c)' = Choose(c) /\ \A i \in Indices : InForce(i)' = InForce(i)
        /\ calls[c].inner # 0 => calls[c].route \in Indices
    BY <1>0, <1>3, <2>1, CapturedOK DEF Choose, InForce
  <2>3. Captured(c)' = Captured(c) /\ InnerDecision(c)' = InnerDecision(c)
    BY <1>3, <2>1 DEF Captured, InnerDecision
  <2>4. CallStage(c)'
    BY <1>0, <2>1, <2>2 DEF CallStage
  <2>5. Stamp(InnerDecision(c), calls[c].route)' = Stamp(InnerDecision(c), calls[c].route)
    BY <2>1, <2>3
  <2> QED BY <2>1, <2>3, <2>4, <2>5 DEF CallAnswer
<1>4. ASSUME Fails(c), UNCHANGED <<files, holders, reloads>>
      PROVE  CallStage(c)' /\ CallAnswer(c)'
  <2>1. Ends(c, 500, NoAnswer)
    BY <1>4 DEF Fails
  <2> QED BY <1>3, <1>4, <2>1
<1>5. ASSUME Decides(c), UNCHANGED <<files, holders, reloads>>
      PROVE  CallStage(c)' /\ CallAnswer(c)'
  <2>1. calls[c].inner # 0
    BY <1>0, <1>5 DEF Decides, CallStage
  <2>2. CASE Matched(Captured(c), calls[c].req)
    BY <1>3, <1>5, <2>1, <2>2 DEF Decides
  <2>3. CASE ~Matched(Captured(c), calls[c].req)
    BY <1>3, <1>5, <2>1, <2>3 DEF Decides
  <2> QED BY <2>2, <2>3
<1> QED BY <1>1, <1>2, <1>4, <1>5, CallMoves, CallKept

\* The calls that were done when a call came in have met no more than it may.
LEMMA AfterStep ==
  ASSUME RouterInv, [Next]_vars, NEW c \in Calls
  PROVE  CallAfter(c)'
<1>0. TypeOK /\ CallAfter(c) /\ calls[c] \in CallRecord
  BY DEF RouterInv, TypeOK
<1>1. CASE calls'[c].after = calls[c].after /\ calls'[c].since = calls[c].since
  <2>1. \A d \in calls[c].after : d \in Calls /\ calls[d].pc = "done"
    BY <1>0 DEF CallRecord, CallAfter
  <2>2. \A d \in calls[c].after : calls'[d] = calls[d]
    BY <2>1, DoneStays
  <2> QED BY <1>0, <1>1, <2>2 DEF CallAfter
<1>2. ASSUME NEW cid \in Cids, Enters(c, cid) PROVE CallAfter(c)'
  <2>1. /\ calls'[c].after = {d \in Calls : calls[d].pc = "done"}
        /\ calls'[c].since = [i \in Indices |-> InForce(i)]
    BY <1>0, <1>2, EntersSets
  <2>2. ASSUME NEW d \in Calls, calls[d].pc = "done"
        PROVE  /\ calls'[d].pc = "done"
               /\ calls'[d].inner # 0 => calls'[d].inner <= calls'[c].since[calls'[d].route]
    <3>1. calls'[d] = calls[d]
      BY <2>2, DoneStays
    <3>2. ASSUME calls[d].inner # 0
          PROVE  calls[d].inner <= calls'[c].since[calls[d].route]
      <4>1. calls[d].route \in Indices /\ calls[d].inner \in 1 .. InForce(calls[d].route)
        BY <1>0, <3>2, CapturedOK DEF RouterInv
      <4> QED BY <1>0, <2>1, <4>1, HolderOfRoute
    <3> QED BY <2>2, <3>1, <3>2
  <2> QED BY <2>1, <2>2 DEF CallAfter
<1>3. CASE Captures(c)
  BY <1>0, <1>1, <1>3, CapturesSets
<1>4. ASSUME NEW status, NEW answer, Ends(c, status, answer) PROVE CallAfter(c)'
  BY <1>0, <1>1, <1>4, EndsSets
<1>5. CASE Fails(c) \/ Decides(c)
  BY <1>4, <1>5 DEF Fails, Decides
<1>6. CASE calls'[c] = calls[c]
  BY <1>1, <1>6
<1> QED BY <1>2, <1>3, <1>5, <1>6, CallMoves

-----------------------------------------------------------------------------
(* Reloads and what they install.                                          *)

\* The fields of a reload that a step of it sets and leaves alone.
LEMMA RefusedSets ==
  ASSUME TypeOK, NEW r \in Reloads, NEW status, Refused(r, status)
  PROVE  /\ reloads'[r].pc = "done" /\ reloads'[r].status = status
         /\ \A q \in Reloads : q # r => reloads'[q] = reloads[q]
         /\ reloads'[r].names = reloads[r].names /\ reloads'[r].route = reloads[r].route
         /\ reloads'[r].since = reloads[r].since /\ reloads'[r].sinceH = reloads[r].sinceH
         /\ reloads'[r].version = reloads[r].version
<1>1. reloads \in [Reloads -> ReloadRecord] /\ reloads[r] \in ReloadRecord
  BY DEF TypeOK
<1> QED BY <1>1 DEF Refused, ReloadBecomes, ReloadRecord

LEMMA LooksUpSets ==
  ASSUME TypeOK, NEW r \in Reloads, LooksUp(r)
  PROVE  \E i \in Named(r) :
           /\ reloads'[r].pc = "named" /\ reloads'[r].route = i
           /\ reloads'[r].since = Version(i) /\ reloads'[r].sinceH = InForce(i)
           /\ reloads'[r].names = reloads[r].names /\ reloads'[r].status = reloads[r].status
           /\ \A q \in Reloads : q # r => reloads'[q] = reloads[q]
<1>1. reloads \in [Reloads -> ReloadRecord] /\ reloads[r] \in ReloadRecord
  BY DEF TypeOK
<1>2. PICK i \in Named(r) :
        ReloadBecomes(r, [reloads[r] EXCEPT !.pc = "named", !.route = i,
                                            !.since = Version(i), !.sinceH = InForce(i)])
  BY DEF LooksUp
<1>3. /\ reloads'[r].pc = "named" /\ reloads'[r].route = i
      /\ reloads'[r].since = Version(i) /\ reloads'[r].sinceH = InForce(i)
      /\ reloads'[r].names = reloads[r].names /\ reloads'[r].status = reloads[r].status
      /\ \A q \in Reloads : q # r => reloads'[q] = reloads[q]
  BY <1>1, <1>2 DEF ReloadBecomes, ReloadRecord
<1> QED BY <1>3

LEMMA LoadsSets ==
  ASSUME TypeOK, NEW r \in Reloads, Loads(r)
  PROVE  /\ reloads'[r].pc = "loaded" /\ reloads'[r].version = Version(reloads[r].route)
         /\ reloads'[r].names = reloads[r].names /\ reloads'[r].route = reloads[r].route
         /\ reloads'[r].since = reloads[r].since /\ reloads'[r].sinceH = reloads[r].sinceH
         /\ reloads'[r].status = reloads[r].status
         /\ \A q \in Reloads : q # r => reloads'[q] = reloads[q]
<1>1. reloads \in [Reloads -> ReloadRecord] /\ reloads[r] \in ReloadRecord
  BY DEF TypeOK
<1> QED BY <1>1 DEF Loads, ReloadBecomes, ReloadRecord

\* The record of a reload changes only by a step of that reload.
LEMMA ReloadMoves ==
  ASSUME RouterInv, [Next]_vars, NEW r \in Reloads
  PROVE  \/ reloads'[r] = reloads[r]
         \/ /\ (\E status \in {400, 404, 500} : Refused(r, status)) \/ LooksUp(r) \/ Loads(r)
            /\ reloads[r].pc # "done"
            /\ UNCHANGED <<files, holders, calls>>
         \/ FileSwap(r)
<1>0. TypeOK
  BY DEF RouterInv
<1>1. ASSUME NEW q \in Reloads, q # r, ReloadStep(q) PROVE reloads'[r] = reloads[r]
  <2>1. ASSUME NEW status, Refused(q, status) PROVE reloads'[r] = reloads[r]
    BY <1>0, <1>1, <2>1, RefusedSets
  <2>2. CASE LooksUp(q)
    BY <1>0, <1>1, <2>2, LooksUpSets
  <2>3. CASE Loads(q)
    BY <1>0, <1>1, <2>3, LoadsSets
  <2> QED BY <1>1, <2>1, <2>2, <2>3, ReloadEffect
<1>2. ASSUME NEW q \in Reloads, q # r, FileSwap(q) PROVE reloads'[r] = reloads[r]
  <2>1. Refused(q, 200)
    BY <1>2, SwapEffect DEF Refused
  <2> QED BY <1>0, <1>2, <2>1, RefusedSets
<1>3. ASSUME ReloadStep(r)
      PROVE  /\ (\E status \in {400, 404, 500} : Refused(r, status)) \/ LooksUp(r) \/ Loads(r)
             /\ reloads[r].pc # "done"
  BY <1>3, ReloadEffect
<1>4. ASSUME NEW s \in DOMAIN Contents, EditFile(s) PROVE reloads' = reloads
  BY <1>4 DEF EditFile
<1> QED BY <1>1, <1>2, <1>3, <1>4, StepKinds DEF vars

\* A reload that is done stays as it is.
LEMMA ReloadDoneStays ==
  ASSUME RouterInv, [Next]_vars, NEW r \in Reloads, reloads[r].pc = "done"
  PROVE  reloads'[r] = reloads[r]
<1>1. ~FileSwap(r)
  BY DEF FileSwap
<1> QED BY <1>1, ReloadMoves

\* What a reload has looked up and read stays true of the histories.
LEMMA ReloadStepInv ==
  ASSUME RouterInv, [Next]_vars, TypeOK', HistoriesGrow, NEW r \in Reloads
  PROVE  ReloadInv(r)'
<1>0. /\ TypeOK /\ ReloadInv(r) /\ reloads[r] \in ReloadRecord
      /\ \A i \in Indices : \A k \in DOMAIN holders[i] : HolderInv(i, k)
  BY DEF RouterInv, TypeOK
<1>1. /\ reloads[r].since \in Nat /\ reloads[r].sinceH \in Nat /\ reloads[r].version \in Nat
  BY <1>0 DEF ReloadRecord
<1>2. \A i \in Named(r) : i \in Indices
  BY DEF Named
<1>3. CASE reloads'[r] = reloads[r]
  <2>1. Named(r)' = Named(r)
    BY <1>3 DEF Named
  <2>2. ASSUME NEW i \in Indices, i = reloads[r].route, reloads[r].pc \in {"named", "loaded"}
        PROVE  /\ reloads[r].since \in 1 .. Version(i)' /\ reloads[r].sinceH \in 1 .. InForce(i)'
               /\ \A k \in 1 .. reloads[r].sinceH : holders'[i][k].version <= reloads[r].since
    <3>1. /\ reloads[r].since \in 1 .. Version(i) /\ reloads[r].sinceH \in 1 .. InForce(i)
          /\ \A k \in 1 .. reloads[r].sinceH : holders[i][k].version <= reloads[r].since
      BY <1>0, <2>2 DEF ReloadInv
    <3>2. /\ InForce(i) \in Nat /\ InForce(i)' \in Nat /\ InForce(i) <= InForce(i)'
          /\ Version(i) \in Nat /\ Version(i)' \in Nat /\ Version(i) <= Version(i)'
          /\ \A k \in 1 .. InForce(i) : holders'[i][k] = holders[i][k]
      BY <1>0, EntriesStay
    <3>3. \A k \in 1 .. reloads[r].sinceH : k \in 1 .. InForce(i)
      BY <1>1, <3>1, <3>2
    <3>4. reloads[r].since \in 1 .. Version(i)' /\ reloads[r].sinceH \in 1 .. InForce(i)'
      BY <1>1, <3>1, <3>2
    <3> QED BY <3>1, <3>2, <3>3, <3>4
  <2>3. ASSUME NEW i \in Indices, i = reloads[r].route, reloads[r].pc = "loaded"
        PROVE  /\ reloads[r].version \in reloads[r].since .. Version(i)'
               /\ Loader(i, files'[Routes[i].path][reloads[r].version]).err = "none"
    <3>1. /\ reloads[r].since \in 1 .. Version(i)
          /\ reloads[r].version \in reloads[r].since .. Version(i)
          /\ Loader(i, files[Routes[i].path][reloads[r].version]).err = "none"
      BY <1>0, <2>3 DEF ReloadInv
    <3>2. /\ Version(i) \in Nat /\ Version(i)' \in Nat /\ Version(i) <= Version(i)'
          /\ \A v \in 1 .. Version(i) : files'[Routes[i].path][v] = files[Routes[i].path][v]
      BY <1>0, EntriesStay
    <3>3. reloads[r].version \in 1 .. Version(i)
          /\ reloads[r].version \in reloads[r].since .. Version(i)'
      BY <1>1, <3>1, <3>2
    <3> QED BY <3>1, <3>2, <3>3
  <2>4. reloads[r].pc \in {"named", "loaded"} =>
          reloads[r].route \in Named(r) /\ reloads[r].route \in Indices
    BY <1>0, <1>2 DEF ReloadInv
  <2>5. reloads[r].pc # "done" => reloads[r].status = 0
    BY <1>0 DEF ReloadInv
  <2> QED BY <1>3, <2>1, <2>2, <2>3, <2>4, <2>5 DEF ReloadInv
<1>4. ASSUME NEW status, Refused(r, status) PROVE ReloadInv(r)'
  BY <1>0, <1>4, RefusedSets DEF ReloadInv
<1>5. ASSUME LooksUp(r), reloads[r].pc # "done", UNCHANGED <<files, holders, calls>>
      PROVE  ReloadInv(r)'
  <2>1. PICK i \in Named(r) :
          /\ reloads'[r].pc = "named" /\ reloads'[r].route = i
          /\ reloads'[r].since = Version(i) /\ reloads'[r].sinceH = InForce(i)
          /\ reloads'[r].names = reloads[r].names /\ reloads'[r].status = reloads[r].status
    BY <1>0, <1>5, LooksUpSets
  <2>2. Named(r)' = Named(r) /\ i \in Indices /\ reloads[r].status = 0
    BY <1>0, <1>2, <1>5, <2>1 DEF Named, ReloadInv
  <2>3. /\ Version(i)' = Version(i) /\ InForce(i)' = InForce(i)
        /\ Version(i) \in Nat /\ Version(i) >= 1
        /\ InForce(i) \in Nat /\ InForce(i) >= 1 /\ DOMAIN holders[i] = 1 .. InForce(i)
    BY <1>0, <1>5, <2>2, FileOfRoute, HolderOfRoute DEF Version, InForce
  <2>4. \A k \in 1 .. InForce(i) : holders'[i][k].version <= Version(i)
    <3>1. \A k \in 1 .. InForce(i) : holders[i][k].version \in 1 .. Version(i)
      BY <1>0, <2>2, <2>3 DEF HolderInv
    <3> QED BY <1>5, <2>3, <3>1
  <2> QED BY <2>1, <2>2, <2>3, <2>4 DEF ReloadInv
<1>6. ASSUME Loads(r), UNCHANGED <<files, holders, calls>> PROVE ReloadInv(r)'
  <2>1. /\ reloads'[r].pc = "loaded" /\ reloads'[r].version = Version(reloads[r].route)
        /\ reloads'[r].names = reloads[r].names /\ reloads'[r].route = reloads[r].route
        /\ reloads'[r].since = reloads[r].since /\ reloads'[r].sinceH = reloads[r].sinceH
        /\ reloads'[r].status = reloads[r].status
    BY <1>0, <1>6, LoadsSets
  <2>2. reloads[r].pc = "named" /\ Loader(reloads[r].route, File(reloads[r].route)).err = "none"
    BY <1>6 DEF Loads
  <2>3. PICK i \in Named(r) : i = reloads[r].route
    BY <1>0, <2>2 DEF ReloadInv
  <2>4. /\ i \in Indices /\ reloads[r].status = 0
        /\ reloads[r].since \in 1 .. Version(i) /\ reloads[r].sinceH \in 1 .. InForce(i)
        /\ \A k \in 1 .. reloads[r].sinceH : holders[i][k].version <= reloads[r].since
    BY <1>0, <1>2, <2>2, <2>3 DEF ReloadInv
  <2>5. Named(r)' = Named(r)
    BY <2>1 DEF Named
  <2>6. Version(i)' = Version(i) /\ InForce(i)' = InForce(i)
    BY <1>6 DEF Version, InForce
  <2>7. Version(i) \in Nat /\ File(i) = files[Routes[i].path][Version(i)]
    BY <1>0, <2>4, FileOfRoute
  <2>8. Version(i) \in reloads[r].since .. Version(i)
    BY <1>1, <2>4, <2>7
  <2>9. Loader(i, files'[Routes[i].path][reloads'[r].version]).err = "none"
    BY <1>6, <2>1, <2>2, <2>3, <2>7
  <2> QED BY <1>6, <2>1, <2>3, <2>4, <2>5, <2>6, <2>8, <2>9 DEF ReloadInv
<1>7. CASE FileSwap(r)
  <2>1. Refused(r, 200)
    BY <1>7, SwapEffect DEF Refused
  <2> QED BY <1>4, <2>1
<1> QED BY <1>3, <1>4, <1>5, <1>6, <1>7, ReloadMoves

\* What a swap leaves behind: one more decider in one holder.
LEMMA SwapSets ==
  ASSUME RouterInv, NEW q \in Reloads, FileSwap(q), NEW i, i = reloads[q].route
  PROVE  /\ i \in Indices /\ i \in Named(q) /\ reloads[q].pc = "loaded" /\ reloads[q].status = 0
         /\ reloads'[q].status = 200 /\ reloads'[q].pc = "done"
         /\ reloads'[q].names = reloads[q].names /\ reloads'[q].route = i
         /\ reloads'[q].since = reloads[q].since /\ reloads'[q].sinceH = reloads[q].sinceH
         /\ \A r \in Reloads : r # q => reloads'[r] = reloads[r]
         /\ files' = files /\ calls' = calls
         /\ InForce(i)' = InForce(i) + 1 /\ InForce(i) \in Nat
         /\ \A k \in 1 .. InForce(i) : holders'[i][k] = holders[i][k]
         /\ holders'[i][InForce(i) + 1].by = q
         /\ holders'[i][InForce(i) + 1].version = reloads[q].version
         /\ holders'[i][InForce(i) + 1].decider
              = Loader(i, files[Routes[i].path][reloads[q].version]).decider
         /\ \A j \in Indices : j # i => holders'[j] = holders[j]
<1>0. TypeOK /\ ReloadInv(q) /\ holders \in [Indices -> Seq(HolderEntry)]
  BY DEF RouterInv, TypeOK
<1>1. PICK h \in HolderEntry :
        /\ reloads[q].pc = "loaded" /\ i \in Named(q) /\ i \in Indices
        /\ h.by = q /\ h.version = reloads[q].version
        /\ h.decider = Loader(i, files[Routes[i].path][reloads[q].version]).decider
        /\ holders' = [holders EXCEPT ![i] = Append(holders[i], h)]
        /\ ReloadBecomes(q, [reloads[q] EXCEPT !.pc = "done", !.status = 200])
        /\ UNCHANGED <<files, calls>>
  BY SwapEffect
<1>2. Refused(q, 200)
  BY <1>1 DEF Refused
<1>3. reloads[q].status = 0
  BY <1>0, <1>1 DEF ReloadInv
<1>4. holders[i] \in Seq(HolderEntry) /\ InForce(i) \in Nat
  BY <1>0, <1>1, HolderOfRoute
<1>5. holders'[i] = Append(holders[i], h) /\ \A j \in Indices : j # i => holders'[j] = holders[j]
  BY <1>0, <1>1
<1>6. /\ Len(holders'[i]) = Len(holders[i]) + 1 /\ holders'[i][Len(holders[i]) + 1] = h
      /\ \A k \in 1 .. Len(holders[i]) : holders'[i][k] = holders[i][k]
  BY <1>4, <1>5, AppendGrows DEF Prefix
<1>7. /\ InForce(i)' = InForce(i) + 1 /\ holders'[i][InForce(i) + 1] = h
      /\ \A k \in 1 .. InForce(i) : holders'[i][k] = holders[i][k]
  BY <1>6 DEF InForce
<1>8. /\ reloads'[q].status = 200 /\ reloads'[q].pc = "done"
      /\ reloads'[q].names = reloads[q].names /\ reloads'[q].route = i
      /\ reloads'[q].since = reloads[q].since /\ reloads'[q].sinceH = reloads[q].sinceH
      /\ \A r \in Reloads : r # q => reloads'[r] = reloads[r]
  BY <1>0, <1>2, RefusedSets
<1> QED BY <1>1, <1>3, <1>4, <1>5, <1>7, <1>8

\* A holder changes only when a reload swaps it.
LEMMA HoldersMove ==
  ASSUME RouterInv, [Next]_vars, NEW i \in Indices
  PROVE  holders'[i] = holders[i] \/ \E q \in Reloads : FileSwap(q) /\ i = reloads[q].route
<1>1. ASSUME NEW q \in Reloads, FileSwap(q), i # reloads[q].route PROVE holders'[i] = holders[i]
  BY <1>1, SwapSets
<1>2. ASSUME NEW s \in DOMAIN Contents, EditFile(s) PROVE holders' = holders
  BY <1>2 DEF EditFile
<1> QED BY <1>1, <1>2, StepKinds DEF vars

\* What RouteIsolation says of one decider.
Isolated(i, k) ==
  LET h == holders[i][k]
  IN /\ h.by # Boot => reloads[h.by].names = Routes[i].model
     /\ Loader(i, files[Routes[i].path][h.version]).err = "none"
     /\ h.decider = Loader(i, files[Routes[i].path][h.version]).decider

\* A decider that a holder had keeps its origin: its reload is done and its
\* version of the file stays in the history.
LEMMA OldEntry ==
  ASSUME RouterInv, [Next]_vars, TypeOK', HistoriesGrow,
         NEW i \in Indices, NEW k \in 1 .. InForce(i)
  PROVE  HolderInv(i, k)' /\ Isolated(i, k)'
<1>0. TypeOK /\ DOMAIN holders[i] = 1 .. InForce(i)
  BY HolderOfRoute DEF RouterInv
<1>1. HolderInv(i, k) /\ Isolated(i, k)
  BY <1>0 DEF RouterInv, RouteIsolation, Isolated
<1>2. /\ InForce(i) \in Nat
      /\ Version(i) \in Nat /\ Version(i)' \in Nat /\ Version(i) <= Version(i)'
      /\ \A j \in 1 .. InForce(i) : holders'[i][j] = holders[i][j]
      /\ \A v \in 1 .. Version(i) : files'[Routes[i].path][v] = files[Routes[i].path][v]
  BY <1>0, EntriesStay
<1>3. holders'[i][k] = holders[i][k] /\ holders[i][k].version \in 1 .. Version(i)
  BY <1>1, <1>2 DEF HolderInv
<1>4. files'[Routes[i].path][holders[i][k].version] = files[Routes[i].path][holders[i][k].version]
  BY <1>2, <1>3
<1>5. holders[i][k].by \in Reloads \cup {Boot}
  BY <1>0, HolderOfRoute
<1>6. ASSUME NEW r \in Reloads, r = holders[i][k].by, r # Boot
      PROVE  /\ reloads'[r] = reloads[r] /\ reloads[r].status = 200 /\ reloads[r].route = i
             /\ holders[i][k].version \in reloads[r].since .. Version(i)'
             /\ reloads[r].sinceH < k
             /\ \A j \in 1 .. reloads[r].sinceH : holders'[i][j].version <= holders[i][k].version
  <2>1. /\ reloads[r].status = 200 /\ reloads[r].route = i
        /\ holders[i][k].version \in reloads[r].since .. Version(i)
        /\ reloads[r].sinceH < k
        /\ \A j \in 1 .. reloads[r].sinceH : holders[i][j].version <= holders[i][k].version
    BY <1>1, <1>6 DEF HolderInv
  <2>2. reloads[r].pc = "done" /\ reloads[r] \in ReloadRecord
    <3>1. ReloadInv(r) /\ reloads[r] \in ReloadRecord
      BY <1>0 DEF RouterInv, TypeOK
    <3> QED BY <2>1, <3>1 DEF ReloadInv
  <2>3. reloads'[r] = reloads[r]
    BY <2>2, ReloadDoneStays
  <2>4. reloads[r].sinceH \in Nat /\ reloads[r].since \in Nat
    BY <2>2 DEF ReloadRecord
  <2>5. \A j \in 1 .. reloads[r].sinceH : j \in 1 .. InForce(i)
    BY <1>2, <2>1, <2>4
  <2>6. holders[i][k].version \in reloads[r].since .. Version(i)'
    BY <1>2, <1>3, <2>1, <2>4
  <2> QED BY <1>2, <2>1, <2>3, <2>5, <2>6
<1>7. holders[i][k].version \in 1 .. Version(i)'
  BY <1>2, <1>3
<1>8. HolderInv(i, k)'
  BY <1>3, <1>5, <1>6, <1>7 DEF HolderInv
<1>9. Isolated(i, k)'
  BY <1>1, <1>3, <1>4, <1>5, <1>6 DEF Isolated
<1> QED BY <1>8, <1>9

\* A decider that a swap adds comes from the reload's own route, from a
\* version read since the reload came in.
LEMMA NewEntry ==
  ASSUME RouterInv, TypeOK', NEW q \in Reloads, FileSwap(q), NEW i, i = reloads[q].route,
         NEW k, k = InForce(i) + 1
  PROVE  HolderInv(i, k)' /\ Isolated(i, k)'
<1>0. TypeOK /\ ReloadInv(q) /\ reloads[q] \in ReloadRecord
  BY DEF RouterInv, TypeOK
<1>1. /\ i \in Indices /\ i \in Named(q) /\ reloads[q].pc = "loaded"
      /\ reloads'[q].status = 200
      /\ reloads'[q].names = reloads[q].names /\ reloads'[q].route = i
      /\ reloads'[q].since = reloads[q].since /\ reloads'[q].sinceH = reloads[q].sinceH
      /\ files' = files
      /\ InForce(i)' = InForce(i) + 1 /\ InForce(i) \in Nat
      /\ \A j \in 1 .. InForce(i) : holders'[i][j] = holders[i][j]
      /\ holders'[i][InForce(i) + 1].by = q
      /\ holders'[i][InForce(i) + 1].version = reloads[q].version
      /\ holders'[i][InForce(i) + 1].decider
           = Loader(i, files[Routes[i].path][reloads[q].version]).decider
  BY SwapSets
<1>2. /\ reloads[q].since \in 1 .. Version(i) /\ reloads[q].sinceH \in 1 .. InForce(i)
      /\ \A j \in 1 .. reloads[q].sinceH : holders[i][j].version <= reloads[q].since
      /\ reloads[q].version \in reloads[q].since .. Version(i)
      /\ Loader(i, files[Routes[i].path][reloads[q].version]).err = "none"
  BY <1>0, <1>1 DEF ReloadInv
<1>3. /\ reloads[q].since \in Nat /\ reloads[q].sinceH \in Nat /\ reloads[q].version \in Nat
      /\ Version(i) \in Nat /\ Version(i)' = Version(i)
  BY <1>0, <1>1, FileOfRoute DEF ReloadRecord, Version
<1>4. \A j \in 1 .. reloads[q].sinceH : holders'[i][j].version <= reloads[q].version
  <2>1. ASSUME NEW j \in 1 .. reloads[q].sinceH
        PROVE  holders'[i][j].version <= reloads[q].version
    <3>1. j \in 1 .. InForce(i)
      BY <1>1, <1>2, <1>3
    <3>2. holders[i][j].version \in Nat
      BY <1>0, <1>1, <3>1, HolderOfRoute
    <3> QED BY <1>1, <1>2, <1>3, <3>1, <3>2
  <2> QED BY <2>1
<1>5. reloads[q].version \in 1 .. Version(i) /\ reloads[q].sinceH < k
  BY <1>1, <1>2, <1>3
<1>6. /\ holders'[i][k].by = q /\ holders'[i][k].version = reloads[q].version
      /\ holders'[i][k].decider = Loader(i, files'[Routes[i].path][reloads[q].version]).decider
  BY <1>1
<1>7. HolderInv(i, k)'
  <2>1. holders'[i][k].version \in 1 .. Version(i)'
    BY <1>3, <1>5, <1>6
  <2>2. /\ reloads'[q].status = 200 /\ reloads'[q].route = i
        /\ holders'[i][k].version \in reloads'[q].since .. Version(i)'
        /\ reloads'[q].sinceH < k
        /\ \A j \in 1 .. reloads'[q].sinceH : holders'[i][j].version <= holders'[i][k].version
    BY <1>1, <1>2, <1>3, <1>4, <1>5, <1>6
  <2> QED BY <1>6, <2>1, <2>2 DEF HolderInv
<1>8. Isolated(i, k)'
  <2>1. reloads'[q].names = Routes[i].model
    BY <1>1 DEF Named
  <2> QED BY <1>1, <1>2, <1>6, <2>1 DEF Isolated
<1> QED BY <1>7, <1>8

\* Every decider of every holder has its origin, after a step as before it.
LEMMA HolderStep ==
  ASSUME RouterInv, [Next]_vars, TypeOK', HistoriesGrow
  PROVE  (\A i \in Indices : \A k \in DOMAIN holders[i] : HolderInv(i, k))' /\ RouteIsolation'
<1>1. ASSUME NEW i \in Indices, NEW k \in DOMAIN holders'[i]
      PROVE  HolderInv(i, k)' /\ Isolated(i, k)'
  <2>0. TypeOK
    BY DEF RouterInv
  <2>1. /\ DOMAIN holders[i] = 1 .. InForce(i) /\ DOMAIN holders'[i] = 1 .. InForce(i)'
        /\ InForce(i) \in Nat /\ InForce(i)' \in Nat
    <3>1. holders'[i] \in Seq(HolderEntry)
      BY DEF TypeOK
    <3> QED BY <2>0, <3>1, HolderOfRoute DEF InForce
  <2>2. CASE k \in 1 .. InForce(i)
    BY <2>2, OldEntry
  <2>3. CASE k \notin 1 .. InForce(i)
    <3>1. PICK q \in Reloads : FileSwap(q) /\ i = reloads[q].route
      <4>1. holders'[i] # holders[i]
        BY <1>1, <2>1, <2>3
      <4> QED BY <4>1, HoldersMove
    <3>2. InForce(i)' = InForce(i) + 1
      BY <3>1, SwapSets
    <3>3. k = InForce(i) + 1
      BY <1>1, <2>1, <2>3, <3>2
    <3> QED BY <3>1, <3>3, NewEntry
  <2> QED BY <2>2, <2>3
<1>2. RouteIsolation'
  BY <1>1 DEF RouteIsolation, Isolated
<1> QED BY <1>1, <1>2

\* A reload adds its decider when it is answered, and then only.
LEMMA OneDeciderStep ==
  ASSUME RouterInv, [Next]_vars, TypeOK', HistoriesGrow
  PROVE  OneDeciderEach'
<1>0. /\ TypeOK /\ OneDeciderEach
      /\ \A i \in Indices : \A k \in DOMAIN holders[i] : HolderInv(i, k)
  BY DEF RouterInv
<1>1. \A i \in Indices :
        /\ DOMAIN holders[i] = 1 .. InForce(i) /\ DOMAIN holders'[i] = 1 .. InForce(i)'
        /\ InForce(i) \in Nat /\ InForce(i)' \in Nat /\ InForce(i) <= InForce(i)'
        /\ \A k \in 1 .. InForce(i) : holders'[i][k] = holders[i][k]
  <2>1. \A i \in Indices : holders'[i] \in Seq(HolderEntry)
    BY DEF TypeOK
  <2> QED BY <1>0, <2>1, HolderOfRoute, EntriesStay DEF InForce
<1>2. ASSUME NEW r \in Reloads, reloads'[r].status = 200
      PROVE  \E i \in Indices : \E k \in DOMAIN holders'[i] : holders'[i][k].by = r
  <2>0. ReloadInv(r) /\ reloads[r] \in ReloadRecord
    BY <1>0 DEF RouterInv, TypeOK
  <2>1. CASE reloads[r].status = 200
    <3>1. PICK i \in Indices : \E k \in DOMAIN holders[i] : holders[i][k].by = r
      BY <1>0, <2>1 DEF OneDeciderEach
    <3>2. PICK k \in DOMAIN holders[i] : holders[i][k].by = r
      BY <3>1
    <3>3. k \in DOMAIN holders'[i] /\ holders'[i][k] = holders[i][k]
      BY <1>1, <3>2
    <3> QED BY <3>2, <3>3
  <2>2. CASE FileSwap(r)
    <3>1. PICK i \in Indices : i = reloads[r].route
      BY <2>2, SwapSets
    <3>2. InForce(i)' = InForce(i) + 1 /\ holders'[i][InForce(i) + 1].by = r
      BY <2>2, <3>1, SwapSets
    <3>3. InForce(i) + 1 \in DOMAIN holders'[i]
      BY <1>1, <3>2
    <3> QED BY <3>2, <3>3
  <2>3. ASSUME reloads[r].status # 200, ~FileSwap(r) PROVE FALSE
    <3>1. /\ (\E status \in {400, 404, 500} : Refused(r, status)) \/ LooksUp(r) \/ Loads(r)
          /\ reloads[r].pc # "done"
      BY <1>2, <2>3, ReloadMoves
    <3>2. reloads'[r].status = reloads[r].status \/ reloads'[r].status \in {400, 404, 500}
      BY <1>0, <3>1, RefusedSets, LooksUpSets, LoadsSets
    <3> QED BY <1>2, <2>3, <3>2
  <2> QED BY <2>1, <2>2, <2>3
<1>3. ASSUME NEW i \in Indices, NEW k \in DOMAIN holders'[i], NEW l \in DOMAIN holders'[i],
             holders'[i][k].by # Boot, holders'[i][k].by = holders'[i][l].by
      PROVE  k = l
  <2>1. CASE holders'[i] = holders[i]
    BY <1>0, <1>3, <2>1 DEF OneDeciderEach
  <2>2. ASSUME NEW q \in Reloads, FileSwap(q), i = reloads[q].route PROVE k = l
    <3>1. /\ InForce(i)' = InForce(i) + 1 /\ holders'[i][InForce(i) + 1].by = q
          /\ reloads[q].status = 0 /\ q # Boot
      BY <2>2, SwapSets, RouterAssumption
    <3>2. \A j \in 1 .. InForce(i) : holders'[i][j].by # q
      <4>1. ASSUME NEW j \in 1 .. InForce(i), holders[i][j].by = q PROVE FALSE
        <5>1. reloads[q].status = 200
          BY <1>0, <1>1, <3>1, <4>1 DEF HolderInv
        <5> QED BY <3>1, <5>1
      <4> QED BY <1>1, <4>1
    <3>3. /\ k \in 1 .. InForce(i) \/ k = InForce(i) + 1
          /\ l \in 1 .. InForce(i) \/ l = InForce(i) + 1
      BY <1>1, <1>3, <3>1
    <3>4. CASE k \in 1 .. InForce(i) /\ l \in 1 .. InForce(i)
      BY <1>0, <1>1, <1>3, <3>4 DEF OneDeciderEach
    <3> QED BY <1>3, <3>1, <3>2, <3>3, <3>4
  <2> QED BY <2>1, <2>2, HoldersMove
<1> QED BY <1>2, <1>3 DEF OneDeciderEach

-----------------------------------------------------------------------------
(* The invariant.                                                          *)

\* The process starts with no call, no reload, and the deciders it booted.
LEMMA InitRouterInv == Init => RouterInv
<1> SUFFICES ASSUME Init PROVE RouterInv
  OBVIOUS
<1>1. PICK b \in BootFiles : files = [s \in DOMAIN Contents |-> <<b[s]>>]
  BY DEF Init
<1>2. \A s \in DOMAIN Contents : /\ files[s] = <<b[s]>> /\ b[s] \in Contents[s]
  BY <1>1 DEF BootFiles
<1>3. /\ files = [s \in DOMAIN Contents |-> files[s]]
      /\ \A s \in DOMAIN Contents : files[s] \in Seq(Contents[s]) /\ files[s] # <<>>
  BY <1>1, <1>2
<1>4. ASSUME NEW i \in Indices
      PROVE  /\ Version(i) = 1 /\ File(i) = files[Routes[i].path][1]
             /\ File(i) \in Contents[Routes[i].path]
             /\ Loader(i, File(i)).err = "none"
             /\ [decider |-> Loader(i, File(i)).decider, by |-> Boot, version |-> 1]
                  \in HolderEntry
  <2>1. Routes[i].path \in DOMAIN Contents
    BY RoutesAreNumbered DEF RouteFlag
  <2>2. /\ Version(i) = 1 /\ File(i) = files[Routes[i].path][1]
        /\ File(i) \in Contents[Routes[i].path]
    <3>1. PICK s \in DOMAIN Contents : s = Routes[i].path
      BY <2>1
    <3>2. files[s] = <<b[s]>> /\ b[s] \in Contents[s]
      BY <1>2
    <3>3. Len(files[s]) = 1 /\ files[s][1] = b[s]
      BY <3>2
    <3> QED BY <3>1, <3>2, <3>3 DEF Version, File
  <2>3. Loader(i, File(i)).err = "none"
    BY DEF Init
  <2>4. Loader(i, File(i)).decider \in Deciders
    BY <2>2, <2>3, LoaderOK
  <2> QED BY <2>2, <2>3, <2>4 DEF HolderEntry
<1>5. ASSUME NEW i \in Indices
      PROVE  /\ holders[i] = <<[decider |-> Loader(i, File(i)).decider, by |-> Boot, version |-> 1]>>
             /\ holders[i] \in Seq(HolderEntry) /\ holders[i] # <<>>
             /\ DOMAIN holders[i] = {1} /\ InForce(i) = 1
             /\ holders[i][1] = [decider |-> Loader(i, File(i)).decider, by |-> Boot, version |-> 1]
  <2>1. holders[i] = <<[decider |-> Loader(i, File(i)).decider, by |-> Boot, version |-> 1]>>
    BY DEF Init
  <2> DEFINE h == [decider |-> Loader(i, File(i)).decider, by |-> Boot, version |-> 1]
  <2>2. h \in HolderEntry
    BY <1>4
  <2> HIDE DEF h
  <2>3. holders[i] = <<h>>
    BY <2>1 DEF h
  <2>4. holders[i] \in Seq(HolderEntry) /\ holders[i] # <<>> /\ DOMAIN holders[i] = {1}
        /\ Len(holders[i]) = 1 /\ holders[i][1] = h
    BY <2>2, <2>3
  <2> QED BY <2>1, <2>4 DEF InForce, h
<1>6. holders \in [Indices -> Seq(HolderEntry)]
  <2>1. holders = [i \in Indices |-> holders[i]]
    BY DEF Init
  <2> QED BY <1>5, <2>1
<1>7. ASSUME NEW c \in Calls
      PROVE  /\ calls[c] \in CallRecord /\ calls[c].pc = "idle" /\ calls[c].inner = 0
             /\ calls[c].status = 0 /\ calls[c].after = {}
  <2>1. PICK h \in Cids \cup {NoHeader}, q \in Requests :
          calls[c] = [pc |-> "idle", header |-> h, req |-> q, cid |-> NoHeader,
                      after |-> {}, since |-> [i \in Indices |-> 0],
                      route |-> 0, inner |-> 0, status |-> 0, answer |-> NoAnswer]
    BY DEF Init
  <2>2. /\ h \in Sent /\ NoHeader \in Sent /\ {} \in SUBSET Calls
        /\ [i \in Indices |-> 0] \in [Indices -> Nat] /\ 0 \in RouteNo /\ 0 \in CallStatus
    BY DEF Sent, RouteNo, CallStatus
  <2>3. NoAnswer \in Answers
    BY DEF NoAnswer, Answers, Factor, Labels
  <2> QED BY <2>1, <2>2, <2>3 DEF CallRecord
<1>8. calls \in [Calls -> CallRecord]
  BY <1>7 DEF Init
<1>9. ASSUME NEW r \in Reloads
      PROVE  /\ reloads[r] \in ReloadRecord /\ reloads[r].pc = "idle" /\ reloads[r].status = 0
  <2>1. PICK m \in {Routes[i].model : i \in Indices} \cup {Unknown, Malformed} :
          reloads[r] = [pc |-> "idle", names |-> m, route |-> 0, since |-> 0,
                        sinceH |-> 0, version |-> 0, status |-> 0]
    BY DEF Init
  <2>2. m \in ModelNames /\ 0 \in RouteNo /\ 0 \in ReloadStatus
    BY RoutesAreNumbered DEF ModelNames, RouteFlag, RouteNo, ReloadStatus
  <2> QED BY <2>1, <2>2 DEF ReloadRecord
<1>10. reloads \in [Reloads -> ReloadRecord]
  BY <1>9 DEF Init
<1>11. TypeOK
  BY <1>3, <1>5, <1>6, <1>8, <1>10 DEF TypeOK
<1>12. ASSUME NEW i \in Indices, NEW k \in DOMAIN holders[i]
       PROVE  HolderInv(i, k) /\ Isolated(i, k) /\ k = 1 /\ holders[i][k].by = Boot
  <2>1. k = 1 /\ holders[i][k] = [decider |-> Loader(i, File(i)).decider, by |-> Boot, version |-> 1]
    BY <1>5, <1>12
  <2>2. /\ holders[i][k].by = Boot /\ holders[i][k].version = 1
        /\ holders[i][k].decider = Loader(i, File(i)).decider
    BY <2>1
  <2>3. holders[i][k].version \in 1 .. Version(i)
    <3>1. Version(i) = 1
      BY <1>4
    <3> QED BY <2>2, <3>1
  <2>4. HolderInv(i, k)
    BY <2>2, <2>3 DEF HolderInv
  <2>5. Isolated(i, k)
    BY <1>4, <2>2 DEF Isolated
  <2> QED BY <2>1, <2>2, <2>4, <2>5
<1>13. \A c \in Calls : CallStage(c) /\ CallAnswer(c) /\ CallAfter(c)
  BY <1>7 DEF CallStage, CallAnswer, CallAfter
<1>14. \A r \in Reloads : ReloadInv(r)
  BY <1>9 DEF ReloadInv
<1>15. RouteIsolation /\ \A i \in Indices : \A k \in DOMAIN holders[i] : HolderInv(i, k)
  BY <1>12 DEF RouteIsolation, Isolated
<1>16. OneDeciderEach
  BY <1>9, <1>12 DEF OneDeciderEach
<1> QED BY <1>11, <1>13, <1>14, <1>15, <1>16 DEF RouterInv

\* Every step keeps every part of the invariant.
LEMMA StepRouterInv == RouterInv /\ [Next]_vars => RouterInv'
<1> SUFFICES ASSUME RouterInv, [Next]_vars PROVE RouterInv'
  OBVIOUS
<1>1. TypeOK' /\ HistoriesGrow
  BY TypeStep, StepsExtend
<1>2. (\A c \in Calls : CallStage(c) /\ CallAnswer(c) /\ CallAfter(c))'
  BY <1>1, CallStepInv, AfterStep
<1>3. (\A r \in Reloads : ReloadInv(r))'
  BY <1>1, ReloadStepInv
<1> QED BY <1>1, <1>2, <1>3, HolderStep, OneDeciderStep DEF RouterInv

\* In every reachable state: each route's holder holds only what its own
\* loader made of versions of its own file, each installed by one reload that
\* named the route; each call holds the ID, the route and the decider that it
\* captured at one instant of its life (router.Router, routeReloadHandler).
THEOREM RoutesAreIsolated == Spec => []RouterInv
<1> QED BY InitRouterInv, StepRouterInv, PTL DEF Spec

\* A reload answered 200 has added one decider to one holder; one refused, or
\* not answered yet, has added none (routeReloadHandler).
THEOREM ReloadsMoveOneHolder == Spec => []AckedMovesOneHolder
<1>1. ASSUME RouterInv PROVE AckedMovesOneHolder
  <2>0. /\ TypeOK /\ OneDeciderEach
        /\ \A i \in Indices : \A k \in DOMAIN holders[i] : HolderInv(i, k)
    BY <1>1 DEF RouterInv
  <2>1. ASSUME NEW r \in Reloads, NEW i \in Indices, NEW k \in DOMAIN holders[i],
               holders[i][k].by = r
        PROVE  reloads[r].status = 200 /\ reloads[r].route = i
    BY <2>0, <2>1, RouterAssumption DEF HolderInv
  <2>2. ASSUME NEW r \in Reloads
        PROVE  LET mine == UNION {{<<i, k>> : k \in {j \in DOMAIN holders[i] :
                                                       holders[i][j].by = r}} : i \in Indices}
               IN  Cardinality(mine) = IF reloads[r].status = 200 THEN 1 ELSE 0
    <3> DEFINE mine == UNION {{<<i, k>> : k \in {j \in DOMAIN holders[i] :
                                                   holders[i][j].by = r}} : i \in Indices}
    <3>1. CASE reloads[r].status = 200
      <4>1. PICK i \in Indices : \E k \in DOMAIN holders[i] : holders[i][k].by = r
        BY <2>0, <3>1 DEF OneDeciderEach
      <4>2. PICK k \in DOMAIN holders[i] : holders[i][k].by = r
        BY <4>1
      <4>3. ASSUME NEW j \in Indices, NEW l \in DOMAIN holders[j], holders[j][l].by = r
            PROVE  j = i /\ l = k
        <5>1. j = i
          BY <2>1, <4>2, <4>3
        <5>2. r # Boot
          BY RouterAssumption
        <5> QED BY <2>0, <4>2, <4>3, <5>1, <5>2 DEF OneDeciderEach
      <4>4. mine = {<<i, k>>}
        BY <4>2, <4>3
      <4>5. Cardinality({<<i, k>>}) = 1
        BY FS_Singleton
      <4>6. Cardinality(mine) = 1
        BY <4>4, <4>5
      <4> QED BY <3>1, <4>6
    <3>2. CASE reloads[r].status # 200
      <4>1. mine = {}
        BY <2>1, <3>2
      <4> QED BY <3>2, <4>1, FS_EmptySet
    <3> QED BY <3>1, <3>2
  <2> QED BY <2>2 DEF AckedMovesOneHolder
<1> QED BY <1>1, RoutesAreIsolated, PTL

\* An answer has both labels of one route and the factor of rules that this
\* route's holder held while the call was in flight (Router.Decide).
THEOREM LabelsAreTrue == Spec => []LabelsNameTheRules
<1>1. ASSUME RouterInv PROVE LabelsNameTheRules
  <2>1. ASSUME NEW c \in Calls, calls[c].status = 200
        PROVE  \E i \in Indices :
                 /\ calls[c].answer.model = Routes[i].model
                 /\ calls[c].answer.experiment = Routes[i].variant
                 /\ \E k \in calls[c].since[i] .. InForce(i) :
                      /\ Matched(holders[i][k].decider, calls[c].req)
                      /\ FactorOf(holders[i][k].decider, calls[c].req) = calls[c].answer.factor
    <3>1. TypeOK /\ CallStage(c) /\ CallAnswer(c)
      BY <1>1 DEF RouterInv
    <3>2. /\ calls[c].inner # 0 /\ Matched(Captured(c), calls[c].req)
          /\ calls[c].answer = Stamp(InnerDecision(c), calls[c].route)
      BY <2>1, <3>1 DEF CallAnswer
    <3>3. calls[c].answer = [model |-> Routes[calls[c].route].model,
                             experiment |-> Routes[calls[c].route].variant,
                             factor |-> FactorOf(Captured(c), calls[c].req)]
      BY <3>1, <3>2, StampOK
    <3>4. /\ calls[c].route \in Indices
          /\ calls[c].inner \in calls[c].since[calls[c].route] .. InForce(calls[c].route)
      BY <3>1, <3>2, CapturedOK DEF CallStage
    <3>5. /\ Matched(holders[calls[c].route][calls[c].inner].decider, calls[c].req)
          /\ FactorOf(holders[calls[c].route][calls[c].inner].decider, calls[c].req)
               = calls[c].answer.factor
      BY <3>2, <3>3 DEF Captured
    <3> QED BY <3>3, <3>4, <3>5
  <2> QED BY <2>1 DEF LabelsNameTheRules
<1> QED BY <1>1, RoutesAreIsolated, PTL

\* A call with the ID of one that was answered before it came in goes to the
\* same route, meets rules at least as new, and gets the same answer when the
\* rules and the question are the same (Policy.Choose, the swap holder).
THEOREM RetriesStay == Spec => []RetryStaysAndAdvances
<1>1. ASSUME RouterInv PROVE RetryStaysAndAdvances
  <2>1. ASSUME NEW a \in Calls, NEW b \in Calls,
               a \in calls[b].after, calls[a].cid = calls[b].cid,
               calls[a].inner # 0, calls[b].inner # 0
        PROVE  /\ calls[b].route = calls[a].route /\ calls[b].inner >= calls[a].inner
               /\ calls[b].inner = calls[a].inner /\ calls[b].req = calls[a].req
                    => \A s \in {200, 404} :
                         calls[b].status = s /\ calls[a].status \in {200, 404}
                           => calls[b].answer = calls[a].answer
    <3>0. /\ TypeOK /\ CallStage(a) /\ CallStage(b) /\ CallAnswer(a) /\ CallAnswer(b)
          /\ CallAfter(b)
      BY <1>1 DEF RouterInv
    <3>1. Choose(a) = Choose(b)
      BY <2>1 DEF Choose
    <3>2. calls[b].route = calls[a].route
      BY <2>1, <3>0, <3>1, CapturedOK
    <3>3. calls[a].inner <= calls[b].since[calls[a].route]
      BY <2>1, <3>0 DEF CallAfter
    <3>4. /\ calls[b].since[calls[b].route] \in 1 .. calls[b].inner
          /\ calls[a].inner \in Nat /\ calls[b].inner \in Nat
      <4>1. calls[a] \in CallRecord /\ calls[b] \in CallRecord
        BY <3>0 DEF TypeOK
      <4> QED BY <2>1, <3>0, <4>1, CapturedOK DEF CallRecord
    <3>5. calls[b].inner >= calls[a].inner
      BY <3>2, <3>3, <3>4
    <3>6. ASSUME calls[b].inner = calls[a].inner, calls[b].req = calls[a].req,
                 calls[b].status \in {200, 404}, calls[a].status \in {200, 404}
          PROVE  calls[b].answer = calls[a].answer
      <4>1. Captured(b) = Captured(a)
        BY <3>2, <3>6 DEF Captured
      <4>2. InnerDecision(b) = InnerDecision(a)
        BY <3>6, <4>1 DEF InnerDecision
      <4>3. Matched(Captured(b), calls[b].req) <=> Matched(Captured(a), calls[a].req)
        BY <3>6, <4>1
      <4>4. CASE Matched(Captured(a), calls[a].req)
        <5>1. calls[a].status = 200 /\ calls[b].status = 200
          BY <3>0, <3>6, <4>3, <4>4 DEF CallAnswer
        <5>2. /\ calls[a].answer = Stamp(InnerDecision(a), calls[a].route)
              /\ calls[b].answer = Stamp(InnerDecision(b), calls[b].route)
          BY <3>0, <5>1 DEF CallAnswer
        <5> QED BY <3>2, <4>2, <5>2
      <4>5. CASE ~Matched(Captured(a), calls[a].req)
        <5>1. calls[a].status = 404 /\ calls[b].status = 404
          BY <3>0, <3>6, <4>3, <4>5 DEF CallAnswer
        <5> QED BY <3>0, <5>1 DEF CallAnswer
      <4> QED BY <4>4, <4>5
    <3> QED BY <3>2, <3>5, <3>6
  <2> QED BY <2>1 DEF RetryStaysAndAdvances
<1> QED BY <1>1, RoutesAreIsolated, PTL

\* What a reload installs was on disk at some instant since it came in, and is
\* no older than anything its route had been given before (routeReloadHandler).
THEOREM NoReloadGoesBack == Spec => []ReloadsGoForward
<1>1. ASSUME RouterInv PROVE ReloadsGoForward
  BY <1>1 DEF RouterInv, HolderInv, ReloadsGoForward
<1> QED BY <1>1, RoutesAreIsolated, PTL

-----------------------------------------------------------------------------
(* Each route's holder is an AtomicHolder.                                 *)

\* A reload that is not done has installed nothing.
LEMMA NotYetInstalled ==
  ASSUME RouterInv, NEW i \in Indices, NEW r \in Reloads, reloads[r].pc # "done"
  PROVE  \A k \in DOMAIN holders[i] : holders[i][k].by # r
<1>1. reloads[r].status = 0
  BY DEF RouterInv, ReloadInv
<1>2. \A k \in DOMAIN holders[i] : HolderInv(i, k)
  BY DEF RouterInv
<1>3. r # Boot
  BY RouterAssumption
<1> QED BY <1>1, <1>2, <1>3 DEF HolderInv

\* What a reload has loaded for a route, that route can serve.
LEMMA LoadedIsServable ==
  ASSUME RouterInv, NEW r \in Reloads, reloads[r].pc = "loaded"
  PROVE  /\ reloads[r].route \in Indices
         /\ reloads[r].version \in 1 .. Version(reloads[r].route)
         /\ Install(reloads[r].route, r).decider \in Servable(reloads[r].route)
<1> DEFINE i == reloads[r].route
           v == reloads[r].version
<1>1. TypeOK /\ ReloadInv(r) /\ reloads[r] \in ReloadRecord
  BY DEF RouterInv, TypeOK
<1>2. /\ i \in Indices /\ v \in 1 .. Version(i)
      /\ Loader(i, files[Routes[i].path][v]).err = "none"
  BY <1>1 DEF ReloadInv, Named, ReloadRecord
<1>3. files[Routes[i].path][v] \in Contents[Routes[i].path]
  BY <1>1, <1>2, FileOfRoute
<1>4. Install(i, r).decider = Loader(i, files[Routes[i].path][v]).decider
  BY DEF Install
<1> QED BY <1>2, <1>3, <1>4 DEF Servable

\* What a reload that stays as it is has for a holder that stays as it is.
LEMMA BringsKept ==
  ASSUME RouterInv, TypeOK', HistoriesGrow, NEW i \in Indices, NEW r \in Reloads,
         reloads'[r] = reloads[r],
         holders'[i] = holders[i] \/ (reloads[r].pc = "loaded" /\ reloads[r].route = i)
  PROVE  Brings(i, r)' = Brings(i, r)
<1>0. TypeOK
  BY DEF RouterInv
<1>1. CASE reloads[r].pc = "loaded" /\ reloads[r].route = i
  <2> DEFINE v == reloads[r].version
  <2>1. files'[Routes[i].path][v] = files[Routes[i].path][v]
    BY <1>0, <1>1, LoadedIsServable, EntriesStay
  <2>2. Install(i, r)' = Install(i, r)
    BY <1>1, <2>1 DEF Install
  <2> QED BY <1>1, <2>2 DEF Brings
<1>2. CASE ~(reloads[r].pc = "loaded" /\ reloads[r].route = i)
  BY <1>2 DEF Brings
<1> QED BY <1>1, <1>2

\* A step of a call, seen from a holder.
LEMMA CallAtHolder ==
  ASSUME RouterInv, NEW i \in Indices, NEW c \in Calls, CallStep(c),
         UNCHANGED <<files, holders, reloads>>
  PROVE  \/ /\ c \notin Asking(i) /\ Asking(i)' = Asking(i) \cup {c} /\ Taken(i)' = Taken(i)
         \/ /\ c \in Asking(i) /\ Taken(i)[c] = {} /\ Asking(i)' = Asking(i)
            /\ Taken(i)' = [Taken(i) EXCEPT ![c] = {Serves(i)}]
         \/ /\ Taken(i)[c] # {} /\ Asking(i)' = Asking(i) \ {c}
            /\ Taken(i)' = [Taken(i) EXCEPT ![c] = {}]
         \/ Asking(i)' = Asking(i) /\ Taken(i)' = Taken(i)
<1>0. TypeOK /\ CallStage(c) /\ calls[c] \in CallRecord
  BY DEF RouterInv, TypeOK
<1>1. ASSUME \A d \in Calls : d # c => calls'[d] = calls[d]
      PROVE  \A d \in Calls : d # c => /\ (d \in Asking(i))' <=> d \in Asking(i)
                                       /\ Taken(i)'[d] = Taken(i)[d]
  BY <1>1 DEF Asking, Taken, Choose, Captured
<1>2. ASSUME NEW cid, Enters(c, cid)
      PROVE  \/ /\ c \notin Asking(i) /\ Asking(i)' = Asking(i) \cup {c} /\ Taken(i)' = Taken(i)
             \/ Asking(i)' = Asking(i) /\ Taken(i)' = Taken(i)
  <2>1. /\ calls[c].pc = "idle" /\ calls'[c].pc = "entered"
        /\ \A d \in Calls : d # c => calls'[d] = calls[d]
    BY <1>0, <1>2, EntersSets
  <2>2. c \notin Asking(i) /\ Taken(i)[c] = {} /\ Taken(i)'[c] = {}
    BY <2>1 DEF Asking, Taken
  <2>3. Taken(i)' = Taken(i)
    BY <1>1, <2>1, <2>2 DEF Taken
  <2>4. Asking(i)' = Asking(i) \cup {c} \/ Asking(i)' = Asking(i)
    BY <1>1, <2>1, <2>2 DEF Asking
  <2> QED BY <2>2, <2>3, <2>4
<1>3. ASSUME Captures(c)
      PROVE  \/ /\ c \in Asking(i) /\ Taken(i)[c] = {} /\ Asking(i)' = Asking(i)
                /\ Taken(i)' = [Taken(i) EXCEPT ![c] = {Serves(i)}]
             \/ Asking(i)' = Asking(i) /\ Taken(i)' = Taken(i)
  <2>1. /\ calls[c].pc = "entered" /\ calls'[c].pc = "captured"
        /\ calls'[c].route = Choose(c) /\ calls'[c].inner = InForce(Choose(c))
        /\ calls'[c].cid = calls[c].cid
        /\ \A d \in Calls : d # c => calls'[d] = calls[d]
    BY <1>0, <1>3, CapturesSets
  <2>2. Choose(c)' = Choose(c)
    BY <2>1 DEF Choose
  <2>3. c \in Asking(i) <=> Choose(c) = i
    BY <2>1 DEF Asking
  <2>4. (c \in Asking(i))' <=> Choose(c) = i
    BY <2>1, <2>2 DEF Asking
  <2>5. Asking(i)' = Asking(i)
    BY <1>1, <2>1, <2>3, <2>4 DEF Asking
  <2>6. Taken(i)[c] = {}
    BY <2>1 DEF Taken
  <2>7. CASE Choose(c) = i
    <3>1. Captured(c)' = Serves(i)
      BY <2>1, <2>7 DEF Captured, Serves
    <3>2. Taken(i)'[c] = {Serves(i)}
      BY <2>1, <2>7, <3>1 DEF Taken
    <3>3. Taken(i)' = [Taken(i) EXCEPT ![c] = {Serves(i)}]
      BY <1>1, <2>1, <3>2 DEF Taken
    <3> QED BY <2>3, <2>5, <2>6, <2>7, <3>3
  <2>8. CASE Choose(c) # i
    <3>1. Taken(i)'[c] = {}
      BY <2>1, <2>8 DEF Taken
    <3> QED BY <1>1, <2>1, <2>5, <2>6, <3>1 DEF Taken
  <2> QED BY <2>7, <2>8
<1>4. ASSUME NEW status, NEW answer, Ends(c, status, answer), calls[c].pc \in {"idle", "captured"}
      PROVE  \/ /\ Taken(i)[c] # {} /\ Asking(i)' = Asking(i) \ {c}
                /\ Taken(i)' = [Taken(i) EXCEPT ![c] = {}]
             \/ Asking(i)' = Asking(i) /\ Taken(i)' = Taken(i)
  <2>1. calls'[c].pc = "done" /\ \A d \in Calls : d # c => calls'[d] = calls[d]
    BY <1>0, <1>4, EndsSets
  <2>2. ~(c \in Asking(i))' /\ Taken(i)'[c] = {}
    BY <2>1 DEF Asking, Taken
  <2>3. Asking(i)' = Asking(i) \ {c}
    BY <1>1, <2>1, <2>2 DEF Asking
  <2>4. Taken(i)' = [Taken(i) EXCEPT ![c] = {}]
    BY <1>1, <2>1, <2>2 DEF Taken
  <2>5. CASE calls[c].pc = "captured" /\ calls[c].route = i
    <3>1. Taken(i)[c] # {}
      BY <2>5 DEF Taken
    <3> QED BY <2>3, <2>4, <3>1
  <2>6. CASE ~(calls[c].pc = "captured" /\ calls[c].route = i)
    <3>1. calls[c].pc = "captured" => calls[c].route = Choose(c)
      BY <1>0 DEF CallStage
    <3>2. Taken(i)[c] = {} /\ c \notin Asking(i)
      BY <1>4, <2>6, <3>1 DEF Taken, Asking
    <3>3. Taken(i)' = Taken(i)
      BY <2>4, <3>2 DEF Taken
    <3> QED BY <2>3, <3>2, <3>3
  <2> QED BY <2>5, <2>6
<1>5. CASE Fails(c)
  BY <1>4, <1>5 DEF Fails
<1>6. CASE Decides(c)
  BY <1>4, <1>6 DEF Decides
<1>7. CASE Captures(c)
  BY <1>3, <1>7
<1>8. CASE \E cid \in Cids : Enters(c, cid)
  BY <1>2, <1>8
<1> QED BY <1>5, <1>6, <1>7, <1>8, CallEffect


\* A step of a reload other than its swap, seen from a holder: it brings what
\* its loader has just built, or nothing new.
LEMMA ReloadAtHolder ==
  ASSUME RouterInv, TypeOK', HistoriesGrow, NEW i \in Indices, NEW r \in Reloads, ReloadStep(r),
         UNCHANGED <<files, holders, calls>>
  PROVE  /\ \A q \in Reloads : q # r => Brings(i, q)' = Brings(i, q)
         /\ \/ Brings(i, r)' = Brings(i, r)
            \/ /\ Brings(i, r) = {}
               /\ \E d \in Servable(i) : Brings(i, r)' = {d}
<1>0. TypeOK /\ reloads[r].pc \in {"idle", "named"} /\ reloads[r] \in ReloadRecord
  BY DEF RouterInv, TypeOK, ReloadStep, BadBody, UnknownModel, Lookup, LoadFails, Load
<1>1. ASSUME \A q \in Reloads : q # r => reloads'[q] = reloads[q]
      PROVE  \A q \in Reloads : q # r => Brings(i, q)' = Brings(i, q)
  BY <1>1, BringsKept
<1>2. Brings(i, r) = {}
  <2>1. \A k \in DOMAIN holders[i] : holders[i][k].by # r
    BY <1>0, NotYetInstalled
  <2> QED BY <1>0, <2>1 DEF Brings
<1>3. ASSUME reloads'[r].pc # "loaded" PROVE Brings(i, r)' = Brings(i, r)
  BY <1>0, <1>3 DEF Brings
<1>4. ASSUME NEW status, Refused(r, status)
      PROVE  /\ \A q \in Reloads : q # r => Brings(i, q)' = Brings(i, q)
             /\ Brings(i, r)' = Brings(i, r)
  BY <1>0, <1>1, <1>3, <1>4, RefusedSets
<1>5. ASSUME LooksUp(r)
      PROVE  /\ \A q \in Reloads : q # r => Brings(i, q)' = Brings(i, q)
             /\ Brings(i, r)' = Brings(i, r)
  <2>1. reloads'[r].pc = "named" /\ \A q \in Reloads : q # r => reloads'[q] = reloads[q]
    BY <1>0, <1>5, LooksUpSets
  <2> QED BY <1>1, <1>3, <2>1
<1>6. ASSUME Loads(r)
      PROVE  /\ \A q \in Reloads : q # r => Brings(i, q)' = Brings(i, q)
             /\ \/ Brings(i, r)' = Brings(i, r)
                \/ \E d \in Servable(i) : Brings(i, r)' = {d}
  <2>1. /\ reloads'[r].pc = "loaded" /\ reloads'[r].version = Version(reloads[r].route)
        /\ reloads'[r].route = reloads[r].route
        /\ \A q \in Reloads : q # r => reloads'[q] = reloads[q]
    BY <1>0, <1>6, LoadsSets
  <2>2. CASE reloads[r].route = i
    <3>1. Loader(i, File(i)).err = "none"
      BY <1>6, <2>2 DEF Loads
    <3>2. File(i) = files[Routes[i].path][Version(i)] /\ File(i) \in Contents[Routes[i].path]
      BY <1>0, FileOfRoute
    <3>3. Install(i, r)'.decider = Loader(i, File(i)).decider
      BY <2>1, <2>2, <3>2 DEF Install
    <3>4. Brings(i, r)' = {Loader(i, File(i)).decider}
      BY <2>1, <2>2, <3>3 DEF Brings
    <3>5. Loader(i, File(i)).decider \in Servable(i)
      BY <3>1, <3>2 DEF Servable
    <3> QED BY <1>1, <2>1, <3>4, <3>5
  <2>3. CASE reloads[r].route # i
    <3>1. Brings(i, r)' = Brings(i, r)
      BY <1>0, <2>1, <2>3 DEF Brings
    <3> QED BY <1>1, <2>1, <3>1
  <2> QED BY <2>2, <2>3
<1> QED BY <1>2, <1>4, <1>5, <1>6, ReloadEffect

\* A swap, seen from its own holder: what it brought comes into force.
LEMMA SwapAtHolder ==
  ASSUME RouterInv, TypeOK', HistoriesGrow, NEW q \in Reloads, FileSwap(q),
         NEW i \in Indices, i = reloads[q].route
  PROVE  /\ q \notin Installed(i) /\ Installed(i)' = Installed(i) \cup {q}
         /\ Brings(i, q) = {Serves(i)'}
         /\ \A r \in Reloads : Brings(i, r)' = Brings(i, r)
<1>0. TypeOK
  BY DEF RouterInv
<1> DEFINE n == InForce(i) + 1
<1>1. /\ reloads[q].pc = "loaded" /\ reloads'[q].pc = "done"
      /\ \A r \in Reloads : r # q => reloads'[r] = reloads[r]
      /\ InForce(i)' = n /\ InForce(i) \in Nat
      /\ \A k \in 1 .. InForce(i) : holders'[i][k] = holders[i][k]
      /\ holders'[i][n].by = q
      /\ holders'[i][n].decider = Loader(i, files[Routes[i].path][reloads[q].version]).decider
  BY SwapSets
<1>2. DOMAIN holders[i] = 1 .. InForce(i)
  BY <1>0, HolderOfRoute
<1>3. DOMAIN holders'[i] = 1 .. n
  <2>1. holders'[i] \in Seq(HolderEntry)
    BY DEF TypeOK
  <2> QED BY <1>1, <2>1 DEF InForce
<1>4. /\ \A k \in DOMAIN holders[i] : k \in DOMAIN holders'[i] /\ holders'[i][k] = holders[i][k]
      /\ \A k \in DOMAIN holders'[i] : k \in DOMAIN holders[i] \/ k = n
      /\ n \in DOMAIN holders'[i]
  BY <1>1, <1>2, <1>3
<1>5. \A k \in DOMAIN holders[i] : holders[i][k].by # q
  BY <1>1, NotYetInstalled
<1>6. Serves(i)' = holders'[i][n].decider
  BY <1>1 DEF Serves
<1>7. Brings(i, q) = {Serves(i)'}
  <2>1. Install(i, q).decider = Loader(i, files[Routes[i].path][reloads[q].version]).decider
    BY DEF Install
  <2> QED BY <1>1, <1>6, <2>1 DEF Brings
<1> HIDE DEF n
<1>8. q \notin Installed(i) /\ Installed(i)' = Installed(i) \cup {q}
  <2>1. q \notin Installed(i)
    BY <1>5 DEF Installed
  <2>2. ASSUME NEW r \in Reloads PROVE (r \in Installed(i))' <=> r \in Installed(i) \/ r = q
    <3>1. (r \in Installed(i))' <=> \E k \in DOMAIN holders'[i] : holders'[i][k].by = r
      BY DEF Installed
    <3>2. r \in Installed(i) <=> \E k \in DOMAIN holders[i] : holders[i][k].by = r
      BY DEF Installed
    <3>3. ASSUME NEW k \in DOMAIN holders[i] PROVE holders'[i][k].by = holders[i][k].by
      BY <1>4
    <3> QED BY <1>1, <1>4, <3>1, <3>2, <3>3
  <2>3. Installed(i)' \subseteq Reloads /\ Installed(i) \subseteq Reloads
    BY DEF Installed
  <2> QED BY <2>1, <2>2, <2>3
<1>9. Brings(i, q)' = {Serves(i)'}
  <2>1. {k \in DOMAIN holders'[i] : holders'[i][k].by = q} = {n}
    BY <1>1, <1>4, <1>5
  <2>2. Brings(i, q)' = {holders'[i][k].decider : k \in {j \in DOMAIN holders'[i] :
                                                           holders'[i][j].by = q}}
    BY <1>1 DEF Brings
  <2> QED BY <1>6, <2>1, <2>2
<1>10. ASSUME NEW r \in Reloads, r # q PROVE Brings(i, r)' = Brings(i, r)
  <2>1. CASE reloads[r].pc = "loaded" /\ reloads[r].route = i
    BY <1>1, <1>10, <2>1, BringsKept
  <2>2. CASE ~(reloads[r].pc = "loaded" /\ reloads[r].route = i)
    <3>1. {k \in DOMAIN holders'[i] : holders'[i][k].by = r}
            = {k \in DOMAIN holders[i] : holders[i][k].by = r}
      BY <1>1, <1>4, <1>10
    <3>2. \A k \in {j \in DOMAIN holders[i] : holders[i][j].by = r} : holders'[i][k] = holders[i][k]
      BY <1>4
    <3>3. reloads'[r] = reloads[r]
      BY <1>1, <1>10
    <3>4. Brings(i, r)' = {holders'[i][k].decider : k \in {j \in DOMAIN holders'[i] :
                                                             holders'[i][j].by = r}}
      BY <2>2, <3>3 DEF Brings
    <3>5. Brings(i, r) = {holders[i][k].decider : k \in {j \in DOMAIN holders[i] :
                                                           holders[i][j].by = r}}
      BY <2>2 DEF Brings
    <3> QED BY <3>1, <3>2, <3>4, <3>5
  <2> QED BY <2>1, <2>2
<1> QED BY <1>7, <1>8, <1>9, <1>10

\* A swap, seen from another holder: nothing.
LEMMA SwapElsewhere ==
  ASSUME RouterInv, TypeOK', HistoriesGrow, NEW q \in Reloads, FileSwap(q),
         NEW i \in Indices, i # reloads[q].route
  PROVE  holders'[i] = holders[i] /\ \A r \in Reloads : Brings(i, r)' = Brings(i, r)
<1>0. reloads[q].route \in Indices
  BY SwapEffect
<1>1. /\ reloads[q].pc = "loaded" /\ reloads'[q].pc = "done"
      /\ \A r \in Reloads : r # q => reloads'[r] = reloads[r]
      /\ holders'[i] = holders[i]
  BY <1>0, SwapSets
<1>2. \A r \in Reloads : r # q => Brings(i, r)' = Brings(i, r)
  BY <1>1, BringsKept
<1>3. Brings(i, q)' = Brings(i, q)
  BY <1>1 DEF Brings
<1> QED BY <1>1, <1>2, <1>3

\* What calls have captured does not move while they do not.
LEMMA CallsAtHolderKept ==
  ASSUME RouterInv, [Next]_vars, TypeOK', HistoriesGrow, NEW i \in Indices, calls' = calls
  PROVE  Asking(i)' = Asking(i) /\ Taken(i)' = Taken(i)
<1>0. TypeOK
  BY DEF RouterInv
<1>1. Asking(i)' = Asking(i)
  BY DEF Asking, Choose
<1>2. ASSUME NEW c \in Calls, calls[c].pc = "captured" PROVE Captured(c)' = Captured(c)
  <2>1. calls[c].inner # 0 /\ CallStage(c)
    BY <1>2 DEF RouterInv, CallStage
  <2>2. calls[c].route \in Indices /\ calls[c].inner \in 1 .. InForce(calls[c].route)
    BY <1>0, <2>1, CapturedOK DEF CallStage
  <2> QED BY <1>0, <2>2, EntriesStay DEF Captured
<1> QED BY <1>1, <1>2 DEF Taken

LEMMA InitRoute ==
  ASSUME Init, NEW i \in Indices
  PROVE  Route(i)!Init
<1>0. RouterInv
  BY InitRouterInv
<1>1. /\ InForce(i) = 1 /\ Serves(i) = Loader(i, File(i)).decider
      /\ DOMAIN holders[i] = {1} /\ holders[i][1].by = Boot
  BY DEF Init, InForce, Serves
<1>2. Serves(i) \in Servable(i)
  <2>1. Loader(i, File(i)).err = "none"
    BY DEF Init
  <2>2. File(i) \in Contents[Routes[i].path]
    BY <1>0, FileOfRoute DEF RouterInv
  <2> QED BY <1>1, <2>1, <2>2 DEF Servable
<1>3. ASSUME NEW c \in Calls PROVE calls[c].pc = "idle"
  BY DEF Init
<1>4. Asking(i) = {} /\ Taken(i) = [c \in Calls |-> {}]
  BY <1>3 DEF Asking, Taken
<1>5. ASSUME NEW r \in Reloads PROVE reloads[r].pc = "idle" /\ r # Boot
  BY RouterAssumption DEF Init
<1>6. Installed(i) = {} /\ [r \in Reloads |-> Brings(i, r)] = [r \in Reloads |-> {}]
  BY <1>1, <1>5 DEF Installed, Brings
<1> QED BY <1>2, <1>4, <1>6 DEF Route!Init

\* Every step of the router is a step of the route's register, or none.
LEMMA StepRoute ==
  ASSUME RouterInv, RouterInv', [Next]_vars, NEW i \in Indices
  PROVE  [Route(i)!Next]_(Route(i)!holder)
<1> DEFINE put == [r \in Reloads |-> Brings(i, r)]
<1>0. TypeOK' /\ HistoriesGrow
  BY StepsExtend DEF RouterInv
<1>1. ASSUME NEW c \in Calls, CallStep(c), UNCHANGED <<files, holders, reloads>>
      PROVE  [Route(i)!Next]_(Route(i)!holder)
  <2>1. Serves(i)' = Serves(i) /\ Installed(i)' = Installed(i)
    BY <1>1 DEF Serves, InForce, Installed
  <2>2. put' = put
    BY <1>0, <1>1, BringsKept
  <2> HIDE DEF put
  <2>3. \/ Route(i)!Ask(c) \/ Route(i)!Capture(c) \/ Route(i)!Return(c)
        \/ UNCHANGED Route(i)!holder
    <3>1. \/ /\ c \notin Asking(i) /\ Asking(i)' = Asking(i) \cup {c} /\ Taken(i)' = Taken(i)
          \/ /\ c \in Asking(i) /\ Taken(i)[c] = {} /\ Asking(i)' = Asking(i)
             /\ Taken(i)' = [Taken(i) EXCEPT ![c] = {Serves(i)}]
          \/ /\ Taken(i)[c] # {} /\ Asking(i)' = Asking(i) \ {c}
             /\ Taken(i)' = [Taken(i) EXCEPT ![c] = {}]
          \/ Asking(i)' = Asking(i) /\ Taken(i)' = Taken(i)
      BY <1>1, CallAtHolder
    <3> QED BY <2>1, <2>2, <3>1
            DEF put, Route!Ask, Route!Capture, Route!Return, Route!holder
  <2> QED BY <2>3 DEF Route!Next
<1>2. ASSUME calls' = calls PROVE Asking(i)' = Asking(i) /\ Taken(i)' = Taken(i)
  BY <1>0, <1>2, CallsAtHolderKept
<1>3. ASSUME holders'[i] = holders[i] PROVE Serves(i)' = Serves(i) /\ Installed(i)' = Installed(i)
  BY <1>3 DEF Serves, InForce, Installed
<1>4. ASSUME NEW r \in Reloads, ReloadStep(r), UNCHANGED <<files, holders, calls>>
      PROVE  [Route(i)!Next]_(Route(i)!holder)
  <2>1. Serves(i)' = Serves(i) /\ Installed(i)' = Installed(i)
        /\ Asking(i)' = Asking(i) /\ Taken(i)' = Taken(i)
    BY <1>2, <1>3, <1>4
  <2>2. /\ \A q \in Reloads : q # r => Brings(i, q)' = Brings(i, q)
        /\ \/ Brings(i, r)' = Brings(i, r)
           \/ /\ Brings(i, r) = {}
              /\ \E d \in Servable(i) : Brings(i, r)' = {d}
    BY <1>0, <1>4, ReloadAtHolder
  <2>3. CASE Brings(i, r)' = Brings(i, r)
    <3>1. put' = put
      BY <2>2, <2>3
    <3> QED BY <2>1, <3>1 DEF Route!holder
  <2>4. ASSUME Brings(i, r) = {}, NEW d \in Servable(i), Brings(i, r)' = {d}
        PROVE  Route(i)!Want(r, d)
    <3>1. put' = [put EXCEPT ![r] = {d}] /\ put[r] = {}
      BY <2>2, <2>4
    <3> QED BY <2>1, <3>1 DEF Route!Want
  <2> QED BY <2>2, <2>3, <2>4 DEF Route!Next
<1>5. ASSUME NEW q \in Reloads, FileSwap(q) PROVE [Route(i)!Next]_(Route(i)!holder)
  <2>1. calls' = calls
    BY <1>5 DEF FileSwap
  <2>2. Asking(i)' = Asking(i) /\ Taken(i)' = Taken(i)
    BY <1>2, <2>1
  <2>3. CASE i = reloads[q].route
    <3>1. /\ q \notin Installed(i) /\ Installed(i)' = Installed(i) \cup {q}
          /\ Brings(i, q) = {Serves(i)'}
          /\ \A r \in Reloads : Brings(i, r)' = Brings(i, r)
      BY <1>0, <1>5, <2>3, SwapAtHolder
    <3>2. put' = put /\ put[q] = {Serves(i)'}
      BY <3>1
    <3>3. Route(i)!Install(q)
      BY <2>2, <3>1, <3>2 DEF Route!Install
    <3> QED BY <3>3 DEF Route!Next
  <2>4. CASE i # reloads[q].route
    <3>1. holders'[i] = holders[i] /\ \A r \in Reloads : Brings(i, r)' = Brings(i, r)
      BY <1>0, <1>5, <2>4, SwapElsewhere
    <3>2. put' = put
      BY <3>1
    <3> QED BY <1>3, <2>2, <3>1, <3>2 DEF Route!holder
  <2> QED BY <2>3, <2>4
<1>6. ASSUME UNCHANGED <<holders, calls, reloads>> PROVE UNCHANGED Route(i)!holder
  <2>1. put' = put
    BY <1>0, <1>6, BringsKept
  <2> QED BY <1>2, <1>3, <1>6, <2>1 DEF Route!holder
<1>7. ASSUME NEW s \in DOMAIN Contents, EditFile(s) PROVE UNCHANGED <<holders, calls, reloads>>
  BY <1>7, EditEffect
<1>8. CASE UNCHANGED vars
  BY <1>6, <1>8 DEF vars
<1> QED BY <1>1, <1>4, <1>5, <1>6, <1>7, <1>8, StepKinds

\* Each route's holder is an AtomicHolder of its own, that holds nothing but
\* what the route's loader makes of the route's file: its calls capture the
\* value in force at one instant, its reloads install theirs at one instant,
\* and whatever is called, reloaded or edited elsewhere is no step of it
\* (README.md: "each route's holder is independent").
THEOREM RoutesAreIndependent ==
  ASSUME NEW i \in Indices
  PROVE  Spec => Route(i)!Spec
<1>1. Init => Route(i)!Init
  BY InitRoute
<1>2. RouterInv /\ RouterInv' /\ [Next]_vars => [Route(i)!Next]_(Route(i)!holder)
  BY StepRoute
<1> QED BY <1>1, <1>2, RoutesAreIsolated, PTL DEF Spec, Route!Spec

=============================================================================
