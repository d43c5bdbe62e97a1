------------------------------- MODULE Serving -------------------------------
(***************************************************************************)
(* markup-server with one rule source: POST /decide calls running through  *)
(* the guardrails holder and the swap holder, while POST /admin/reload and *)
(* POST /admin/guardrails replace what the holders hold and an operator    *)
(* edits the file the reloads read.                                        *)
(*                                                                         *)
(* Every pointer assigned under a lock is one entry of a history: the last *)
(* entry of deciders is swap.Decider.inner, the last of envelopes is the   *)
(* guardrails Holder's rules, the last of files is the file on disk.  An   *)
(* index into a history is the pointer a goroutine has captured.  That one *)
(* step may stand for a lock, a copy and an unlock is module Holder's      *)
(* subject.  A request is one-shot: calls, reloads and posts map each to   *)
(* what it carries and to the local variables of its handler.              *)
(***************************************************************************)
EXTENDS Guardrails

CONSTANTS
  Calls, Reloads, Posts,  \* POST /decide, /admin/reload, /admin/guardrails
  Boot,                   \* the author of what the process starts with
  Mode,                   \* "rules" or "snapshot": the flag that names the file
  Adapter, Model,         \* --adapter (indexed with --snapshot), --model
  DiagnoseOn,             \* --diagnose=on
  Files,                  \* what the file may hold: Csv or Snapshot records
  Bodies,                 \* reload bodies, see Body
  Configs,                \* POSTed guardrails configurations
  BootConfig,             \* the configuration the boot flags spell
  MaxEdits                \* bound on the edits of the file

\* A body is none (or empty, or of a media type no loader supports), a CSV,
\* a snapshot, larger than the limit, or cut off while it is read.
Body == [media: {"none", "oversize", "broken"}]
          \cup [media: {"csv"}, content: Csv] \cup [media: {"json"}, content: Snapshot]

Config == [factorRange: SUBSET [min: Factor, max: Factor],
           countries: SUBSET SUBSET Countries,
           fields: SUBSET SUBSET STRING]

\* An axis is one pointer or one slice.
OneValueEach(cfg) ==
  /\ \A v, w \in cfg.factorRange : v = w
  /\ \A v, w \in cfg.countries : v = w
  /\ \A v, w \in cfg.fields : v = w

ASSUME ServingAssumption ==
  /\ Boot \notin Reloads \cup Posts
  /\ Mode \in {"rules", "snapshot"}
  /\ Adapter \in Adapters /\ (Mode = "snapshot" => Adapter = "indexed")
  /\ Model \in Models
  /\ DiagnoseOn \in BOOLEAN
  /\ Files \subseteq IF Mode = "rules" THEN Csv ELSE Snapshot
  /\ Bodies \subseteq Body
  /\ Configs \cup {BootConfig} \subseteq Config
  /\ \A cfg \in Configs \cup {BootConfig} : OneValueEach(cfg)
  /\ Buildable(BootConfig)
  /\ MaxEdits \in Nat

VARIABLES files, deciders, envelopes, calls, reloads, posts
vars == <<files, deciders, envelopes, calls, reloads, posts>>

-----------------------------------------------------------------------------
GateWired == Mode = "rules"

\* The Loader closure on what the file holds, the body loader on a body.
FileLoader(content) == IF GateWired THEN RulesLoader(content, Adapter, Model)
                                    ELSE SnapshotLoader(content)

BodyLoader(body) == IF body.media = "csv" THEN CsvBody(body.content, Adapter, Model)
                                          ELSE JsonBody(body.content)

\* writeDiagnoseRejection and statusForLoadErr.
StatusFor(err) == IF err \in {"rejected", "invalid"} THEN 400 ELSE 500

File     == files[Len(files)]
Inner    == deciders[Len(deciders)].decider
Envelope == envelopes[Len(envelopes)].rules

\* swap.Decider.Swap and guardrails.Holder.Replace.  file is the version of
\* the file a decider was loaded from, 0 for a body; at is how many deciders
\* had been installed when an envelope was.
Swap(decider, by, file) ==
  deciders' = Append(deciders, [decider |-> decider, by |-> by, file |-> file])

Replace(rules, by) ==
  envelopes' = Append(envelopes, [rules |-> rules, by |-> by, at |-> Len(deciders)])

\* run(): the file loads (and is healthy when --diagnose=on), or no boot.
\* The boot's gate and its loader read the file one after the other (module
\* Lifecycle): what the gate saw need not be what is served.
Init ==
  /\ GateWired /\ DiagnoseOn => \E seen \in Files : DiagnoseFile(seen) = "none"
  /\ \E content \in Files :
       /\ FileLoader(content).err = "none"
       /\ files = <<content>>
       /\ deciders = <<[decider |-> FileLoader(content).decider, by |-> Boot, file |-> 1]>>
  /\ envelopes = <<[rules |-> BuildRules(BootConfig), by |-> Boot, at |-> 1]>>
  /\ calls \in [Calls -> {[pc |-> "idle", req |-> q, sinceD |-> 0, sinceE |-> 0,
                           rules |-> 0, inner |-> 0, status |-> 0]
                            : q \in Requests}]
  /\ reloads \in [Reloads -> {[pc |-> "idle", body |-> b, sinceF |-> 0, sinceD |-> 0,
                               gate |-> 0, load |-> 0, status |-> 0] : b \in Bodies}]
  /\ posts \in [Posts -> {[pc |-> "idle", cfg |-> c, mine |-> 0, echo |-> 0,
                           status |-> 0] : c \in Configs}]

-----------------------------------------------------------------------------
(* POST /decide: holderDecider.Decide around swap.Decider.Decide.          *)

Arrive(c) ==
  /\ calls[c].pc = "idle"
  /\ calls' = [calls EXCEPT ![c].pc = "entered", ![c].sinceD = Len(deciders),
                            ![c].sinceE = Len(envelopes)]
  /\ UNCHANGED <<files, deciders, envelopes, reloads, posts>>

\* The guardrails holder copies its rules first,
CaptureRules(c) ==
  /\ calls[c].pc = "entered"
  /\ calls' = [calls EXCEPT ![c].pc = "guarded", ![c].rules = Len(envelopes)]
  /\ UNCHANGED <<files, deciders, envelopes, reloads, posts>>

\* Faulty: the decider is resolved once, when the layers are wired; or it is
\* taken when the call comes in, ahead of the rules.
CaptureInner_AtWiring(c) ==
  /\ calls[c].pc = "guarded"
  /\ calls' = [calls EXCEPT ![c].pc = "captured", ![c].inner = 1]
  /\ UNCHANGED <<files, deciders, envelopes, reloads, posts>>

CaptureInner_BeforeRules(c) ==
  /\ calls[c].pc = "guarded"
  /\ calls' = [calls EXCEPT ![c].pc = "captured", ![c].inner = calls[c].sinceD]
  /\ UNCHANGED <<files, deciders, envelopes, reloads, posts>>

\* then the swap holder below it copies the inner decider.
CaptureInner(c) ==
  /\ calls[c].pc = "guarded"
  /\ calls' = [calls EXCEPT ![c].pc = "captured", ![c].inner = Len(deciders)]
  /\ UNCHANGED <<files, deciders, envelopes, reloads, posts>>

Captured(c) == deciders[calls[c].inner].decider
Guarding(c) == envelopes[calls[c].rules].rules

\* What a call captured stays as it was: a decider and a rule slice are never
\* written after they are installed, so these read the histories.
Matches(c)  == Matched(Captured(c), calls[c].req)
Decided(c)  == FactorOf(Captured(c), calls[c].req)
Allowed(c)  == Allows(Guarding(c), Decided(c), calls[c].req)

Evaluating(c) == calls[c].pc = "captured"

Finish(c, status) ==
  /\ calls' = [calls EXCEPT ![c].pc = "done", ![c].status = status]
  /\ UNCHANGED <<files, deciders, envelopes, reloads, posts>>

\* An engine error (a canceled context) and ErrNoMatch pass the rules by.
EngineFails(c) == Evaluating(c) /\ Finish(c, 500)
NoMatch(c) == Evaluating(c) /\ ~Matches(c) /\ Finish(c, 404)
Veto(c)    == Evaluating(c) /\ Matches(c) /\ ~Allowed(c) /\ Finish(c, 500)
Release(c) == Evaluating(c) /\ Matches(c) /\ Allowed(c) /\ Finish(c, 200)

Evaluate(c) == NoMatch(c) \/ Veto(c) \/ Release(c)

-----------------------------------------------------------------------------
(* POST /admin/reload.                                                     *)

StartReload(r) ==
  /\ reloads[r].pc = "idle"
  /\ reloads' = [reloads EXCEPT ![r].pc = "started", ![r].sinceF = Len(files),
                                ![r].sinceD = Len(deciders)]
  /\ UNCHANGED <<files, deciders, envelopes, calls, posts>>

Refuse(r, status) ==
  /\ reloads' = [reloads EXCEPT ![r].pc = "done", ![r].status = status]
  /\ UNCHANGED <<files, deciders, envelopes, calls, posts>>

Acknowledge(r, decider, file) ==
  /\ Swap(decider, r, file)
  /\ reloads' = [reloads EXCEPT ![r].pc = "done", ![r].status = 200]
  /\ UNCHANGED <<files, envelopes, calls, posts>>

RefuseBody(r) ==
  /\ reloads[r].pc = "started"
  /\ \/ reloads[r].body.media = "oversize" /\ Refuse(r, 413)
     \/ reloads[r].body.media = "broken" /\ Refuse(r, 500)

HasBody(r) == reloads[r].pc = "started" /\ reloads[r].body.media \in {"csv", "json"}

BodyFails(r) ==
  /\ HasBody(r)
  /\ BodyLoader(reloads[r].body).err # "none"
  /\ Refuse(r, StatusFor(BodyLoader(reloads[r].body).err))

BodySwap(r) ==
  /\ HasBody(r)
  /\ BodyLoader(reloads[r].body).err = "none"
  /\ Acknowledge(r, BodyLoader(reloads[r].body).decider, 0)

\* The gate reads the file, and whatever it found healthy
AtGate(r) == GateWired /\ reloads[r].pc = "started" /\ reloads[r].body.media = "none"

GateFails(r) ==
  /\ AtGate(r)
  /\ DiagnoseFile(File) # "none"
  /\ Refuse(r, StatusFor(DiagnoseFile(File)))

GatePasses(r) ==
  /\ AtGate(r)
  /\ DiagnoseFile(File) = "none"
  /\ reloads' = [reloads EXCEPT ![r].pc = "gated", ![r].gate = Len(files)]
  /\ UNCHANGED <<files, deciders, envelopes, calls, posts>>

\* the loader reads the file again.
AtLoader(r) == \/ reloads[r].pc = "gated"
               \/ ~GateWired /\ reloads[r].pc = "started" /\ reloads[r].body.media = "none"

LoadFails(r) ==
  /\ AtLoader(r)
  /\ FileLoader(File).err # "none"
  /\ Refuse(r, StatusFor(FileLoader(File).err))

\* Faulty: the loader keeps the content it read at boot; or it reads through
\* a mount that may lag one edit behind.
Load_Boot(r) ==
  /\ AtLoader(r)
  /\ reloads' = [reloads EXCEPT ![r].pc = "loaded", ![r].load = 1]
  /\ UNCHANGED <<files, deciders, envelopes, calls, posts>>

Load_Lagging(r) ==
  /\ AtLoader(r)
  /\ \E v \in {Len(files), Len(files) - 1} \cap DOMAIN files :
       /\ FileLoader(files[v]).err = "none"
       /\ reloads' = [reloads EXCEPT ![r].pc = "loaded", ![r].load = v]
  /\ UNCHANGED <<files, deciders, envelopes, calls, posts>>

Load(r) ==
  /\ AtLoader(r)
  /\ FileLoader(File).err = "none"
  /\ reloads' = [reloads EXCEPT ![r].pc = "loaded", ![r].load = Len(files)]
  /\ UNCHANGED <<files, deciders, envelopes, calls, posts>>

\* Faulty: the decider goes live although the answer is an error.
FileSwap_Unacknowledged(r) ==
  /\ reloads[r].pc = "loaded"
  /\ Swap(FileLoader(files[reloads[r].load]).decider, r, reloads[r].load)
  /\ reloads' = [reloads EXCEPT ![r].pc = "done", ![r].status = 500]
  /\ UNCHANGED <<files, envelopes, calls, posts>>

FileSwap(r) ==
  /\ reloads[r].pc = "loaded"
  /\ Acknowledge(r, FileLoader(files[reloads[r].load]).decider, reloads[r].load)

ReloadStep(r) == \/ RefuseBody(r) \/ BodyFails(r) \/ BodySwap(r) \/ GateFails(r)
                 \/ GatePasses(r) \/ LoadFails(r) \/ Load(r) \/ FileSwap(r)

-----------------------------------------------------------------------------
(* POST /admin/guardrails: Replace, then a Snapshot of its own to answer.  *)

PostRefused(p) ==
  /\ posts[p].pc = "idle"
  /\ ~Buildable(posts[p].cfg)
  /\ posts' = [posts EXCEPT ![p].pc = "done", ![p].status = 400]
  /\ UNCHANGED <<files, deciders, envelopes, calls, reloads>>

PostReplace(p) ==
  /\ posts[p].pc = "idle"
  /\ Buildable(posts[p].cfg)
  /\ Replace(BuildRules(posts[p].cfg), p)
  /\ posts' = [posts EXCEPT ![p].pc = "replaced", ![p].mine = Len(envelopes) + 1]
  /\ UNCHANGED <<files, deciders, calls, reloads>>

\* Faulty: the snapshot is taken before the Replace.
PostEcho_Before(p) ==
  /\ posts[p].pc = "replaced"
  /\ posts' = [posts EXCEPT ![p].pc = "done", ![p].echo = posts[p].mine - 1, ![p].status = 200]
  /\ UNCHANGED <<files, deciders, envelopes, calls, reloads>>

PostEcho(p) ==
  /\ posts[p].pc = "replaced"
  /\ posts' = [posts EXCEPT ![p].pc = "done", ![p].echo = Len(envelopes), ![p].status = 200]
  /\ UNCHANGED <<files, deciders, envelopes, calls, reloads>>

-----------------------------------------------------------------------------
\* The operator's editor, outside the process.
EditFile ==
  /\ Len(files) <= MaxEdits
  /\ \E content \in Files : files' = Append(files, content)
  /\ UNCHANGED <<deciders, envelopes, calls, reloads, posts>>

Next ==
  \/ EditFile
  \/ \E c \in Calls : Arrive(c) \/ CaptureRules(c) \/ CaptureInner(c)
                       \/ EngineFails(c) \/ Evaluate(c)
  \/ \E r \in Reloads : StartReload(r) \/ ReloadStep(r)
  \/ \E p \in Posts : PostRefused(p) \/ PostReplace(p) \/ PostEcho(p)

Spec == Init /\ [][Next]_vars

-----------------------------------------------------------------------------
(* Properties.                                                             *)

\* The HTTP statuses the handlers write; 0 while they have written none.
CallStatus   == {0, 200, 404, 500}
ReloadStatus == {0, 200, 400, 413, 500}
PostStatus   == {0, 200, 400}

CallRecord == [pc: {"idle", "entered", "guarded", "captured", "done"}, req: Requests,
               sinceD: Nat, sinceE: Nat, rules: Nat, inner: Nat,
               status: CallStatus]
ReloadRecord == [pc: {"idle", "started", "gated", "loaded", "done"}, body: Bodies,
                 sinceF: Nat, sinceD: Nat, gate: Nat, load: Nat,
                 status: ReloadStatus]
PostRecord == [pc: {"idle", "replaced", "done"}, cfg: Configs, mine: Nat, echo: Nat,
               status: PostStatus]

TypeOK ==
  /\ files \in Seq(Files)
  /\ deciders \in Seq([decider: Deciders, by: Reloads \cup {Boot}, file: Nat])
  /\ envelopes \in Seq([rules: Seq(GuardrailRule), by: Posts \cup {Boot}, at: Nat])
  /\ calls \in [Calls -> CallRecord]
  /\ reloads \in [Reloads -> ReloadRecord]
  /\ posts \in [Posts -> PostRecord]

\* What a call captures was in force at some instant after it arrived: no
\* handler answers from a pointer that was replaced before its call came in
\* (swap.go: "Decides started after Swap returns observe next").
CapturesInForce ==
  \A c \in Calls :
    /\ calls[c].rules # 0 => calls[c].rules \in calls[c].sinceE .. Len(envelopes)
    /\ calls[c].inner # 0 => calls[c].inner \in calls[c].sinceD .. Len(deciders)

\* The guardrails layer sits above the swap holder and captures first, so no
\* envelope is ever applied to a decider that had been replaced before the
\* envelope was installed: an operator may reload first and relax the
\* guardrails after.  (Tightening first and reloading after is not covered:
\* a call between the two captures judges the new decider by the old rules.)
EnvelopeNeverMeetsOlderDecider ==
  \A c \in Calls :
    calls[c].rules # 0 /\ calls[c].inner # 0 => calls[c].inner >= envelopes[calls[c].rules].at

\* Of two floats neither of which is NaN, the first is no larger.
AtMost(x, y) == x = y \/ Less(x, y)

\* A decision that leaves the service lies within the envelope the service had
\* at some instant of the call, whatever was reloaded and replaced meanwhile;
\* all but NaN, which lies within every envelope, and a bound that is NaN (the
\* boot flags can spell it) bounds nothing: no comparison is true of it
\* (rules.go: FactorRange is the "no markup larger than 3x" rule).  An infinite
\* factor passes the gate and is held back here.
ReleasedWithinEnvelope ==
  \A c \in Calls : calls[c].status = 200 /\ Decided(c) # NaN =>
    \E k \in calls[c].sinceE .. Len(envelopes) : \A i \in DOMAIN envelopes[k].rules :
      LET rule == envelopes[k].rules[i]
      IN rule.type = "FactorRange" =>
           /\ rule.min # NaN => AtMost(rule.min, Decided(c))
           /\ rule.max # NaN => AtMost(Decided(c), rule.max)

\* A reload is answered 200 exactly when it installed a decider, and then it
\* installed exactly one; every other answer left the serving decider alone.
AckedMeansInstalledOnce ==
  /\ \A r \in Reloads :
       reloads[r].status = 200 <=> \E i \in DOMAIN deciders : deciders[i].by = r
  /\ \A i, j \in DOMAIN deciders : deciders[i].by = deciders[j].by => i = j

\* A file reload installs what the file held at some instant of the reload.
ReloadReadsCurrentFile ==
  \A i \in DOMAIN deciders :
    deciders[i].by # Boot /\ deciders[i].file # 0 =>
      deciders[i].file \in reloads[deciders[i].by].sinceF .. Len(files)

\* A file reload that started after another one had installed its decider
\* never brings an older version of the file back.
LaterReloadNotOlder ==
  \A i, j \in DOMAIN deciders :
    /\ deciders[j].by # Boot /\ deciders[j].file # 0
    /\ i <= reloads[deciders[j].by].sinceD
    => deciders[i].file <= deciders[j].file

\* An unhealthy CSV rule set goes live through a reload only when the file
\* was edited between the gate's read and the loader's.
UnhealthyOnlyIfEdited ==
  \A i \in DOMAIN deciders :
    LET r == reloads[deciders[i].by]
    IN /\ GateWired
       /\ deciders[i].by # Boot
       /\ deciders[i].file # 0 \/ r.body.media = "csv"
       /\ ~IsHealthy(deciders[i].decider.rules)
       => r.gate < r.load

\* The 200 of a POST /admin/guardrails shows, axis for axis, a configuration
\* somebody sent: its own, or that of a POST that replaced the rules after it,
\* never what was in force before (guardrails_admin.go: configToSpec and
\* snapshotToConfig translate to rules and back, around an unlocked interval).
EchoShowsAConfig ==
  \A p \in Posts : posts[p].status = 200 =>
    LET shown == envelopes[posts[p].echo]
    IN /\ posts[p].mine <= posts[p].echo
       /\ SnapshotToConfig(shown.rules) = posts[shown.by].cfg

-----------------------------------------------------------------------------
(* The inductive invariant behind the safety properties (ServingProof).    *)

CallInv(c) ==
  /\ calls[c].pc # "idle" =>
       calls[c].sinceD \in 1 .. Len(deciders) /\ calls[c].sinceE \in 1 .. Len(envelopes)
  /\ IF calls[c].pc \in {"idle", "entered"} THEN calls[c].rules = 0
     ELSE calls[c].rules \in calls[c].sinceE .. Len(envelopes)
  /\ IF calls[c].pc \in {"idle", "entered", "guarded"} THEN calls[c].inner = 0
     ELSE /\ calls[c].inner \in calls[c].sinceD .. Len(deciders)
          /\ calls[c].inner >= envelopes[calls[c].rules].at

\* What a reload has read so far, by the stage it has reached.
ReloadInv(r) ==
  LET me == reloads[r]
  IN /\ me.pc # "idle" =>
          /\ me.sinceF \in 1 .. Len(files)
          /\ me.sinceD \in 1 .. Len(deciders)
          /\ \A i \in 1 .. me.sinceD : deciders[i].file <= me.sinceF
     /\ me.pc # "done" => me.status = 0
     /\ me.pc \in {"gated", "loaded"} =>
          /\ me.body.media = "none"
          /\ GateWired => /\ me.gate \in me.sinceF .. Len(files)
                          /\ DiagnoseFile(files[me.gate]) = "none"
     /\ me.pc = "loaded" =>
          /\ me.load \in me.sinceF .. Len(files)
          /\ GateWired => me.gate <= me.load
          /\ FileLoader(files[me.load]).err = "none"

\* Where the i-th decider came from.
DeciderInv(i) ==
  LET d == deciders[i]
      r == reloads[d.by]
  IN /\ d.file <= Len(files)
     /\ d.by = Boot <=> i = 1
     /\ d.by # Boot =>
          /\ r.pc = "done" /\ r.status = 200 /\ r.sinceD < i
          /\ IF d.file = 0
             THEN /\ r.body.media \in {"csv", "json"}
                  /\ BodyLoader(r.body).err = "none"
                  /\ d.decider = BodyLoader(r.body).decider
             ELSE /\ r.body.media = "none"
                  /\ d.file = r.load /\ r.sinceF <= r.load
                  /\ FileLoader(files[r.load]).err = "none"
                  /\ d.decider = FileLoader(files[r.load]).decider
                  /\ GateWired => /\ r.gate \in 1 .. r.load
                                  /\ DiagnoseFile(files[r.gate]) = "none"
          /\ d.file # 0 => \A j \in 1 .. r.sinceD : deciders[j].file <= d.file

IInv ==
  /\ TypeOK
  /\ Len(files) >= 1 /\ Len(deciders) >= 1 /\ Len(envelopes) >= 1
  /\ \A i \in DOMAIN envelopes : envelopes[i].at \in 1 .. Len(deciders)
  /\ \A c \in Calls : CallInv(c)
  /\ \A r \in Reloads : ReloadInv(r)
  /\ \A i \in DOMAIN deciders : DeciderInv(i)
  /\ AckedMeansInstalledOnce

\* What the guardrails layer let out, where each envelope came from, and what
\* a post has installed and shown so far.
ReleaseInv(c) == calls[c].status = 200 => calls[c].pc = "done" /\ Matches(c) /\ Allowed(c)

EnvelopeInv(k) ==
  /\ envelopes[k].by = Boot <=> k = 1
  /\ k # 1 => /\ envelopes[k].rules = BuildRules(posts[envelopes[k].by].cfg)
              /\ posts[envelopes[k].by].pc # "idle"

PostInv(p) ==
  /\ posts[p].pc = "replaced" => posts[p].mine \in 2 .. Len(envelopes)
  /\ posts[p].status = 200 => /\ posts[p].pc = "done" /\ posts[p].mine >= 2
                              /\ posts[p].echo \in posts[p].mine .. Len(envelopes)

GuardInv ==
  /\ \A c \in Calls : ReleaseInv(c)
  /\ \A k \in DOMAIN envelopes : EnvelopeInv(k)
  /\ \A p \in Posts : PostInv(p)

-----------------------------------------------------------------------------
(* The two holders as AtomicHolders (ServingProof): what a call captures   *)
(* from either was in force at one instant of the call, what a handler     *)
(* installs comes into force at one instant of its request, and nothing    *)
(* else does.                                                              *)

\* The calls under way, and what they have captured from either holder.
Arrived == {c \in Calls : calls[c].pc \in {"entered", "guarded", "captured"}}
InnerTaken == [c \in Calls |-> IF calls[c].pc = "captured" THEN {Captured(c)} ELSE {}]
RulesTaken ==
  [c \in Calls |-> IF calls[c].pc \in {"guarded", "captured"} THEN {Guarding(c)} ELSE {}]

\* The deciders that loading a file or a body can give.
Loadable ==
  {FileLoader(f).decider : f \in {g \in Files : FileLoader(g).err = "none"}}
    \cup {BodyLoader(b).decider :
             b \in {a \in Bodies : a.media \in {"csv", "json"} /\ BodyLoader(a).err = "none"}}

\* The deciders and the rules that a handler has installed.
Gave(r) == {deciders[k].decider : k \in {j \in DOMAIN deciders : deciders[j].by = r}}
Set(p)  == {envelopes[k].rules : k \in {j \in DOMAIN envelopes : envelopes[j].by = p}}

\* What a reload has for the swap holder: what it is bound to install, once it
\* has come in with a body that loads or has loaded the file, then what it has.
Brings(r) ==
  IF reloads[r].pc = "loaded" THEN {FileLoader(files[reloads[r].load]).decider}
  ELSE IF HasBody(r) /\ BodyLoader(reloads[r].body).err = "none"
       THEN {BodyLoader(reloads[r].body).decider}
       ELSE Gave(r)

\* A post whose configuration builds waits to replace the rules from the start.
Posted(p) ==
  IF posts[p].pc = "idle" /\ Buildable(posts[p].cfg) THEN {BuildRules(posts[p].cfg)} ELSE Set(p)

Reloaded == {r \in Reloads : \E k \in DOMAIN deciders : deciders[k].by = r}
Replaced == {p \in Posts : \E k \in DOMAIN envelopes : envelopes[k].by = p}

SwapHolder == INSTANCE AtomicHolder
  WITH Readers   <- Calls, Writers <- Reloads, Values <- Loadable,
       current   <- Inner,
       asked     <- Arrived,
       got       <- InnerTaken,
       put       <- [r \in Reloads |-> Brings(r)],
       installed <- Reloaded

RulesHolder == INSTANCE AtomicHolder
  WITH Readers   <- Calls, Writers <- Posts,
       Values    <- {BuildRules(cfg) : cfg \in Configs \cup {BootConfig}},
       current   <- Envelope,
       asked     <- Arrived,
       got       <- RulesTaken,
       put       <- [p \in Posts |-> Posted(p)],
       installed <- Replaced

-----------------------------------------------------------------------------
(* What the repository says of itself and the code does not keep.          *)

\* reload.go:70, ADR-0026: "if the new rules fail diagnosis, the handler
\* returns 400 ... and the active Decider is NOT swapped".
UnhealthyNeverSwappedIn ==
  GateWired => \A i \in DOMAIN deciders :
                 deciders[i].by # Boot /\ deciders[i].file # 0 =>
                   IsHealthy(deciders[i].decider.rules)

=============================================================================
