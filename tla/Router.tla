-------------------------------- MODULE Router --------------------------------
(***************************************************************************)
(* markup-server with --route flags: a policy picks the route of each      *)
(* POST /decide, the route's own swap holder serves it, and the router     *)
(* stamps the route's labels on the decision.  POST /admin/reload names a  *)
(* model version; no gate diagnoses the file and no body carries rules.    *)
(*                                                                         *)
(* holders[i] is the history of what the holder of the i-th --route flag   *)
(* was given (its last entry is in force), files[s] that of a file on      *)
(* disk.  Holder and file indices play the part of captured pointers, as   *)
(* in module Serving.                                                      *)
(***************************************************************************)
EXTENDS RuleSets, FiniteSetsExt

CONSTANTS
  Calls, Reloads,  \* one-shot POST /decide and POST /admin/reload requests
  Boot,            \* the author of the deciders the process starts with
  Routes,          \* the --route flags: [model, variant, type, path]
  Policy,          \* --policy
  Cids,            \* correlation IDs, sent by callers or generated
  Generated,       \* those of Cids that generateUUID may draw
  NoHeader,        \* an absent X-Correlation-ID header
  Hash,            \* hashFNV1a on Cids
  Contents,        \* what the file at each path may hold
  MaxEdits         \* bound on the edits of all files

RouteFlag == [model: Models, variant: STRING, type: {"rules", "snapshot"},
              path: DOMAIN Contents]
Unknown   == "unknown"     \* a reload body with a model_version of no route
Malformed == "malformed"   \* one that is no JSON, or has no model_version
NoLabel   == ""            \* the zero value of a decision's labels
NoAnswer  == [model |-> NoLabel, experiment |-> NoLabel, factor |-> 0]

\* run turns to router mode when there is a --route flag.
ASSUME RouterAssumption ==
  /\ Boot \notin Reloads
  /\ Routes \in Seq(RouteFlag) /\ Routes # <<>>
  /\ Policy \in {"hash-correlation", "default"}
  /\ Generated \subseteq Cids /\ NoHeader \notin Cids
  /\ Hash \in [Cids -> Nat]
  /\ \A i \in DOMAIN Routes :
       Contents[Routes[i].path] \subseteq
         IF Routes[i].type = "rules" THEN Csv ELSE Snapshot
  /\ {Unknown, Malformed} \cap Models = {}
  /\ MaxEdits \in Nat

VARIABLES files, holders, calls, reloads
vars == <<files, holders, calls, reloads>>

Indices == DOMAIN Routes
File(i) == files[Routes[i].path][Len(files[Routes[i].path])]
InForce(i) == Len(holders[i])
Version(i) == Len(files[Routes[i].path])

\* The loader closure that buildRoutes gives the i-th route.
Loader(i, content) ==
  IF Routes[i].type = "rules" THEN RulesLoader(content, "inmemory", Routes[i].model)
                              ELSE SnapshotLoader(content)

\* The file each path holds at boot; buildRoutes fails on one that does not load.
BootFiles == {b \in [DOMAIN Contents -> UNION {Contents[s] : s \in DOMAIN Contents}] :
                \A s \in DOMAIN Contents : b[s] \in Contents[s]}

Init ==
  /\ \E b \in BootFiles : files = [s \in DOMAIN Contents |-> <<b[s]>>]
  /\ \A i \in Indices : Loader(i, File(i)).err = "none"
  /\ holders = [i \in Indices |->
       <<[decider |-> Loader(i, File(i)).decider, by |-> Boot, version |-> 1]>>]
  /\ calls \in [Calls -> {[pc |-> "idle", header |-> h, req |-> q, cid |-> NoHeader,
                           after |-> {}, since |-> [i \in Indices |-> 0],
                           route |-> 0, inner |-> 0, status |-> 0, answer |-> NoAnswer] :
                          h \in Cids \cup {NoHeader}, q \in Requests}]
  /\ reloads \in [Reloads -> {[pc |-> "idle", names |-> m, route |-> 0, since |-> 0,
                               sinceH |-> 0, version |-> 0, status |-> 0] :
                              m \in {Routes[i].model : i \in Indices}
                                      \cup {Unknown, Malformed}}]

-----------------------------------------------------------------------------
(* POST /decide: WithCorrelationID, Router.Decide, the swap holder below.  *)

Arrive(c, cid) ==
  /\ calls[c].pc = "idle"
  /\ calls' = [calls EXCEPT ![c].pc = "entered", ![c].cid = cid,
                            ![c].after = {d \in Calls : calls[d].pc = "done"},
                            ![c].since = [i \in Indices |-> InForce(i)]]
  /\ UNCHANGED <<files, holders, reloads>>

\* The middleware keeps the caller's ID, or draws one.
HeaderSent(c) == calls[c].header # NoHeader /\ Arrive(c, calls[c].header)
HeaderAbsent(c) == calls[c].header = NoHeader /\ \E cid \in Generated : Arrive(c, cid)

Finish(c, status, answer) ==
  /\ calls' = [calls EXCEPT ![c].pc = "done", ![c].status = status, ![c].answer = answer]
  /\ UNCHANGED <<files, holders, reloads>>

GenerateFails(c) ==
  calls[c].pc = "idle" /\ calls[c].header = NoHeader /\ Finish(c, 500, NoAnswer)

\* Faulty: routes take turns.
Choose_RoundRobin(c) == (Cardinality(calls[c].after) % Len(Routes)) + 1

\* Policy.Choose.  The middleware leaves no call without an ID.
Choose(c) == IF Policy = "default" THEN 1 ELSE (Hash[calls[c].cid] % Len(Routes)) + 1

Capture(c) ==
  /\ calls[c].pc = "entered"
  /\ calls' = [calls EXCEPT ![c].pc = "captured", ![c].route = Choose(c),
                            ![c].inner = InForce(Choose(c))]
  /\ UNCHANGED <<files, holders, reloads>>

Captured(c) == holders[calls[c].route][calls[c].inner].decider

InnerDecision(c) == [model |-> Captured(c).model, experiment |-> NoLabel,
                     factor |-> FactorOf(Captured(c), calls[c].req)]

\* Faulty: the decision keeps the labels of the inner decider.
Stamp_Inner(decision, i) == [decision EXCEPT !.experiment = Routes[i].variant]

Stamp(decision, i) ==
  [model |-> Routes[i].model, experiment |-> Routes[i].variant, factor |-> decision.factor]

\* The router passes an inner error on; the handler maps it to 404 or 500.
EngineFails(c) == calls[c].pc = "captured" /\ Finish(c, 500, NoAnswer)
NoMatch(c) ==
  calls[c].pc = "captured" /\ ~Matched(Captured(c), calls[c].req) /\ Finish(c, 404, NoAnswer)
Answer(c) ==
  /\ calls[c].pc = "captured"
  /\ Matched(Captured(c), calls[c].req)
  /\ Finish(c, 200, Stamp(InnerDecision(c), calls[c].route))

-----------------------------------------------------------------------------
(* POST /admin/reload: routeReloadHandler.                                 *)

Named(r) == {i \in Indices : Routes[i].model = reloads[r].names}

Refuse(r, status) ==
  /\ reloads' = [reloads EXCEPT ![r].pc = "done", ![r].status = status]
  /\ UNCHANGED <<files, holders, calls>>

BadBody(r) == reloads[r].pc = "idle" /\ reloads[r].names = Malformed /\ Refuse(r, 400)

Enter(r, i) ==
  /\ reloads' = [reloads EXCEPT ![r].pc = "named", ![r].route = i,
                                ![r].since = Version(i), ![r].sinceH = InForce(i)]
  /\ UNCHANGED <<files, holders, calls>>

UnknownModel(r) ==
  reloads[r].pc = "idle" /\ reloads[r].names # Malformed /\ Named(r) = {} /\ Refuse(r, 404)

\* byName keeps the last of the routes that share a model version.
Lookup(r) == reloads[r].pc = "idle" /\ Named(r) # {} /\ Enter(r, Max(Named(r)))

LoadFails(r) ==
  /\ reloads[r].pc = "named"
  /\ Loader(reloads[r].route, File(reloads[r].route)).err # "none"
  /\ Refuse(r, 500)

\* Faulty: the loader remembers what it read at boot.
Load_Boot(r) ==
  /\ reloads[r].pc = "named"
  /\ reloads' = [reloads EXCEPT ![r].pc = "loaded", ![r].version = 1]
  /\ UNCHANGED <<files, holders, calls>>

Load(r) ==
  /\ reloads[r].pc = "named"
  /\ Loader(reloads[r].route, File(reloads[r].route)).err = "none"
  /\ reloads' = [reloads EXCEPT ![r].pc = "loaded", ![r].version = Version(reloads[r].route)]
  /\ UNCHANGED <<files, holders, calls>>

Install(i, r) ==
  [decider |-> Loader(reloads[r].route,
                      files[Routes[reloads[r].route].path][reloads[r].version]).decider,
   by |-> r, version |-> reloads[r].version]

\* Faulty: the holder of the first route is swapped whatever route is named;
\* or every holder is.
FileSwap_FirstHolder(r) ==
  /\ reloads[r].pc = "loaded"
  /\ holders' = [holders EXCEPT ![1] = Append(@, Install(1, r))]
  /\ reloads' = [reloads EXCEPT ![r].pc = "done", ![r].status = 200]
  /\ UNCHANGED <<files, calls>>

FileSwap_Everywhere(r) ==
  /\ reloads[r].pc = "loaded"
  /\ holders' = [i \in Indices |-> Append(holders[i], Install(i, r))]
  /\ reloads' = [reloads EXCEPT ![r].pc = "done", ![r].status = 200]
  /\ UNCHANGED <<files, calls>>

FileSwap(r) ==
  /\ reloads[r].pc = "loaded"
  /\ holders' = [holders EXCEPT ![reloads[r].route] = Append(@, Install(reloads[r].route, r))]
  /\ reloads' = [reloads EXCEPT ![r].pc = "done", ![r].status = 200]
  /\ UNCHANGED <<files, calls>>

-----------------------------------------------------------------------------
\* The operator's editor, outside the process.
EditFile(s) ==
  /\ MapThenSumSet(LAMBDA t : Len(files[t]) - 1, DOMAIN Contents) < MaxEdits
  /\ \E content \in Contents[s] : files' = [files EXCEPT ![s] = Append(@, content)]
  /\ UNCHANGED <<holders, calls, reloads>>

Next ==
  \/ \E s \in DOMAIN Contents : EditFile(s)
  \/ \E c \in Calls : \/ HeaderSent(c) \/ HeaderAbsent(c) \/ GenerateFails(c)
                      \/ Capture(c) \/ EngineFails(c) \/ NoMatch(c) \/ Answer(c)
  \/ \E r \in Reloads : \/ BadBody(r) \/ UnknownModel(r) \/ Lookup(r)
                        \/ LoadFails(r) \/ Load(r) \/ FileSwap(r)

Spec == Init /\ [][Next]_vars

-----------------------------------------------------------------------------
(* Properties.                                                             *)

HolderEntry == [decider: Deciders, by: Reloads \cup {Boot}, version: Nat]
RouteNo      == {0} \cup Indices   \* 0 while no route is chosen
CallStatus   == {0, 200, 404, 500}
ReloadStatus == {0, 200, 400, 404, 500}
Labels       == STRING \cup Models \cup {NoLabel}
Answers      == [model: Labels, experiment: Labels, factor: Factor]
Sent         == Cids \cup {NoHeader}
ModelNames   == Models \cup {Unknown, Malformed}

CallRecord ==
  [pc: {"idle", "entered", "captured", "done"}, header: Sent, req: Requests, cid: Sent,
   after: SUBSET Calls, since: [Indices -> Nat], route: RouteNo, inner: Nat,
   status: CallStatus, answer: Answers]
ReloadRecord ==
  [pc: {"idle", "named", "loaded", "done"}, names: ModelNames, route: RouteNo,
   since: Nat, sinceH: Nat, version: Nat, status: ReloadStatus]

TypeOK ==
  /\ files = [s \in DOMAIN Contents |-> files[s]]
  /\ \A s \in DOMAIN Contents : files[s] \in Seq(Contents[s]) /\ files[s] # <<>>
  /\ holders \in [Indices -> Seq(HolderEntry)] /\ \A i \in Indices : holders[i] # <<>>
  /\ calls \in [Calls -> CallRecord]
  /\ reloads \in [Reloads -> ReloadRecord]

\* Reloading one route does not touch the others: a holder only ever gets
\* what its own loader made of its own file, from a reload that named it
\* (README.md: "each route's holder is independent").
RouteIsolation ==
  \A i \in Indices : \A k \in DOMAIN holders[i] :
    LET h == holders[i][k]
    IN /\ h.by # Boot => reloads[h.by].names = Routes[i].model
       /\ Loader(i, files[Routes[i].path][h.version]).err = "none"
       /\ h.decider = Loader(i, files[Routes[i].path][h.version]).decider

\* What a call has captured so far, what it was answered, and the calls that
\* were done when it came in.
CallStage(c) ==
  LET me == calls[c]
  IN /\ me.pc = "idle" => me.inner = 0 /\ me.status = 0 /\ me.after = {}
     /\ me.pc = "entered" => me.inner = 0 /\ me.status = 0 /\ me.cid \in Cids
     /\ me.pc = "captured" => me.inner # 0 /\ me.status = 0
     /\ me.pc = "entered" \/ me.inner # 0 => \A i \in Indices : me.since[i] \in 1 .. InForce(i)
     /\ me.inner # 0 => /\ me.cid \in Cids /\ me.route = Choose(c)
                        /\ me.inner \in me.since[me.route] .. InForce(me.route)

CallAnswer(c) ==
  LET me == calls[c]
  IN /\ me.status = 200 => /\ me.inner # 0 /\ Matched(Captured(c), me.req)
                           /\ me.answer = Stamp(InnerDecision(c), me.route)
     /\ me.status = 404 => /\ me.inner # 0 /\ ~Matched(Captured(c), me.req)
                           /\ me.answer = NoAnswer

CallAfter(c) ==
  \A d \in calls[c].after :
    /\ calls[d].pc = "done"
    /\ calls[d].inner # 0 => calls[d].inner <= calls[c].since[calls[d].route]

\* What a reload has looked up and read so far.
ReloadInv(r) ==
  LET me == reloads[r]
  IN /\ me.pc # "done" => me.status = 0
     /\ me.pc \in {"named", "loaded"} =>
          /\ me.route \in Named(r)
          /\ me.since \in 1 .. Version(me.route) /\ me.sinceH \in 1 .. InForce(me.route)
          /\ \A k \in 1 .. me.sinceH : holders[me.route][k].version <= me.since
     /\ me.pc = "loaded" =>
          /\ me.version \in me.since .. Version(me.route)
          /\ Loader(me.route, files[Routes[me.route].path][me.version]).err = "none"

\* Where the k-th decider of a route came from.
HolderInv(i, k) ==
  LET h == holders[i][k]
      r == reloads[h.by]
  IN /\ h.version \in 1 .. Version(i)
     /\ h.by # Boot => /\ r.status = 200 /\ r.route = i
                       /\ h.version \in r.since .. Version(i)
                       /\ r.sinceH < k
                       /\ \A j \in 1 .. r.sinceH : holders[i][j].version <= h.version

\* A reload that was answered 200 is the author of one decider, and only such
\* a reload is.
OneDeciderEach ==
  /\ \A r \in Reloads : reloads[r].status = 200 =>
       \E i \in Indices : \E k \in DOMAIN holders[i] : holders[i][k].by = r
  /\ \A i \in Indices : \A k, l \in DOMAIN holders[i] :
       holders[i][k].by # Boot /\ holders[i][k].by = holders[i][l].by => k = l

RouterInv ==
  /\ TypeOK
  /\ RouteIsolation
  /\ \A c \in Calls : CallStage(c) /\ CallAnswer(c) /\ CallAfter(c)
  /\ \A r \in Reloads : ReloadInv(r)
  /\ \A i \in Indices : \A k \in DOMAIN holders[i] : HolderInv(i, k)
  /\ OneDeciderEach

\* A reload is answered 200 exactly when it moved one holder, once.
AckedMovesOneHolder ==
  \A r \in Reloads :
    LET mine == UNION {{<<i, k>> : k \in {j \in DOMAIN holders[i] : holders[i][j].by = r}} :
                         i \in Indices}
    IN Cardinality(mine) = IF reloads[r].status = 200 THEN 1 ELSE 0

\* The labels on an answer are those of the rules that made it: some route
\* has both labels, and a decider that its holder held at an instant of the
\* call gives the factor (ADR-0011: the router is the source of truth).
LabelsNameTheRules ==
  \A c \in Calls : calls[c].status = 200 =>
    \E i \in Indices :
      /\ calls[c].answer.model = Routes[i].model
      /\ calls[c].answer.experiment = Routes[i].variant
      /\ \E k \in calls[c].since[i] .. InForce(i) :
           /\ Matched(holders[i][k].decider, calls[c].req)
           /\ FactorOf(holders[i][k].decider, calls[c].req) = calls[c].answer.factor

\* A retry (a call with the ID of one that was answered before it came in)
\* stays on the route, whatever it asks, and never meets older rules than
\* the call it repeats; the same rules give the same question the same answer.
RetryStaysAndAdvances ==
  \A a, b \in Calls :
    LET first == calls[a]  again == calls[b]
    IN /\ a \in again.after /\ first.cid = again.cid
       /\ first.inner # 0 /\ again.inner # 0
       => /\ again.route = first.route
          /\ again.inner >= first.inner
          /\ again.inner = first.inner /\ again.req = first.req
               => \A s \in {200, 404} : again.status = s /\ first.status \in {200, 404}
                                          => again.answer = first.answer

\* Per route: a reload installs what the file held since the reload came in,
\* and one that came in after another had swapped does not bring older rules.
ReloadsGoForward ==
  \A i \in Indices : \A j \in DOMAIN holders[i] :
    LET r == reloads[holders[i][j].by]
    IN holders[i][j].by # Boot =>
         /\ holders[i][j].version \in r.since .. Version(i)
         /\ \A k \in 1 .. r.sinceH : holders[i][k].version <= holders[i][j].version

-----------------------------------------------------------------------------
(* README.md: "each route's holder is independent": each is an             *)
(* AtomicHolder of its own (RouterProof).                                  *)

\* What the i-th route's loader can make of what its file may hold, and what
\* it holds now.
Servable(i) == {Loader(i, content).decider :
                  content \in {f \in Contents[Routes[i].path] : Loader(i, f).err = "none"}}
Serves(i) == holders[i][InForce(i)].decider

\* The calls under way that the policy sends there, and what they captured.
Asking(i) == {c \in Calls : calls[c].pc \in {"entered", "captured"} /\ Choose(c) = i}
Taken(i) ==
  [c \in Calls |-> IF calls[c].pc = "captured" /\ calls[c].route = i THEN {Captured(c)} ELSE {}]

\* The reloads that have installed a decider there, and what each has for the
\* holder: what its loader built, then what it installed.
Installed(i) == {r \in Reloads : \E k \in DOMAIN holders[i] : holders[i][k].by = r}
Brings(i, r) ==
  IF reloads[r].pc = "loaded" /\ reloads[r].route = i
  THEN {Install(i, r).decider}
  ELSE {holders[i][k].decider : k \in {j \in DOMAIN holders[i] : holders[i][j].by = r}}

\* Calls of other routes, and reloads that name them, do not exist for it.
Route(i) == INSTANCE AtomicHolder
              WITH Readers   <- Calls, Writers <- Reloads, Values <- Servable(i),
                   current   <- Serves(i),
                   asked     <- Asking(i),
                   got       <- Taken(i),
                   put       <- [r \in Reloads |-> Brings(i, r)],
                   installed <- Installed(i)

-----------------------------------------------------------------------------
(* What the repository says of itself and the code does not keep.          *)

\* README.md:128 of hash-correlation: "When the header is absent (e.g.,
\* health probes), falls back to the first route."
HeaderlessOnFirstRoute ==
  \A c \in Calls : calls[c].header = NoHeader /\ calls[c].inner # 0 => calls[c].route = 1

=============================================================================
