------------------------------ MODULE Lifecycle ------------------------------
(***************************************************************************)
(* The life of one markup-server process: run() from its flags to the      *)
(* listener, what clients and probes can reach meanwhile, and the shutdown *)
(* that SIGTERM starts.  An operator may edit the rules file at any time   *)
(* and SIGTERM may come at any time, also during boot.                     *)
(*                                                                         *)
(* main is the goroutine of run(), server the one that listens.  What      *)
(* net/http does at Shutdown is external: the listener closes, connections *)
(* of HTTP/1 that have a request, or have yet to send their first, are     *)
(* waited for; those h2c took over are not known to it.  A call has a      *)
(* connection of its own.  The sink's side of SIGTERM is DecisionSink.     *)
(***************************************************************************)
EXTENDS RuleSets

CONSTANTS
  Calls,          \* requests, each on a connection of its own
  FlagSets,       \* what the command line may say, see Flags
  CsvFiles,       \* contents of a rules file
  SnapshotFiles,  \* contents of a snapshot file
  Model,          \* --model
  MaxEdits        \* bound on the edits of the file

Protocols == {"http1", "h2c"}

\* sources: which of --rules, --snapshot, --route are set; guardrails: whether
\* the guardrail flags build; diagnose "other" is any word the flag accepts.
Flags == [sources: SUBSET {"rules", "snapshot", "route"}, guardrails: BOOLEAN,
          diagnose: {"on", "warn", "off", "other"}, adapter: Adapters \cup {"unknown"},
          otel: BOOLEAN, sink: {"", "s3", "unknown"}]

ASSUME LifecycleAssumption ==
  /\ FlagSets \subseteq Flags
  /\ CsvFiles \subseteq Csv /\ SnapshotFiles \subseteq Snapshot
  /\ Model \in Models
  /\ MaxEdits \in Nat

VARIABLES flags, main, exit, otel, file, edits, gated, serving, ready, server,
          cancelled, calls, probes
boot == <<flags, otel, gated, serving, ready>>
disk == <<file, edits>>
net  == <<server, calls, probes>>
vars == <<flags, main, exit, otel, file, edits, gated, serving, ready, server,
          cancelled, calls, probes>>

Init ==
  /\ flags \in FlagSets
  /\ main = "flags" /\ exit = "none" /\ otel = "off"
  /\ file \in IF flags.sources = {"rules"} THEN CsvFiles
              ELSE IF flags.sources = {"snapshot"} THEN SnapshotFiles
              ELSE CsvFiles \cup SnapshotFiles
  /\ edits = 0
  /\ gated = {} /\ serving = {}
  /\ ready = FALSE
  /\ server = "none" /\ cancelled = FALSE
  /\ calls \in [Calls -> [pc: {"none"}, proto: Protocols]]
  /\ probes = {}

-----------------------------------------------------------------------------
(* The world around the process.                                           *)

EditFile ==
  /\ edits < MaxEdits
  /\ file' \in IF file \in CsvFiles THEN CsvFiles ELSE SnapshotFiles
  /\ edits' = edits + 1
  /\ UNCHANGED <<boot, main, exit, cancelled, net>>

\* signal.NotifyContext: a second signal changes nothing.
Sigterm ==
  /\ main # "exited" /\ ~cancelled
  /\ cancelled' = TRUE
  /\ UNCHANGED <<boot, main, exit, disk, net>>

-----------------------------------------------------------------------------
(* Boot: a step returns an error, or the next one begins.                  *)

Fails(from) ==
  /\ main = from
  /\ main' = "deferred" /\ exit' = "error"
  /\ UNCHANGED <<boot, disk, cancelled, net>>

Proceeds(from, to) ==
  /\ main = from
  /\ main' = to
  /\ UNCHANGED <<flags, exit, disk, cancelled, net>>

Is(source) == flags.sources = {source}

\* buildGuardrailRules, and the sources that exclude one another.
FlagsRefused == (~flags.guardrails \/ Cardinality(flags.sources) # 1) /\ Fails("flags")

FlagsAccepted ==
  /\ flags.guardrails /\ Cardinality(flags.sources) = 1
  /\ Proceeds("flags", "otel")
  /\ UNCHANGED <<otel, gated, serving, ready>>

BootstrapFails == flags.otel /\ Fails("otel")

Bootstrap ==
  /\ Proceeds("otel", "sink")
  /\ otel' = IF flags.otel THEN "up" ELSE "off"
  /\ UNCHANGED <<gated, serving, ready>>

\* buildDecisionSink: s3sink.New asks the bucket, under the process's context.
SinkFails == flags.sink # "" /\ Fails("sink")

BuildSink ==
  /\ flags.sink # "unknown"
  /\ Proceeds("sink", "gate")
  /\ UNCHANGED <<otel, gated, serving, ready>>

\* The gate reads the rules file; only "on" minds what it finds, but every
\* mode other than "off" minds a file that cannot be read.
Gates == Is("rules") /\ flags.diagnose # "off"

\* Faulty: what cannot be read is left to the loader, and the rest is logged.
GateRefuses_Warns(diagnosis) == diagnosis \in {"internal", "invalid"}

GateRefuses(diagnosis) == \/ diagnosis \in {"internal", "invalid"}
                          \/ diagnosis = "rejected" /\ flags.diagnose = "on"

GateFails == Gates /\ GateRefuses(DiagnoseFile(file)) /\ Fails("gate")

GatePasses ==
  /\ Gates => ~GateRefuses(DiagnoseFile(file))
  /\ Proceeds("gate", "load")
  /\ gated' = IF Gates THEN {file} ELSE {}
  /\ UNCHANGED <<otel, serving, ready>>

\* The loader reads the file again; an unknown adapter is found out here.  A
\* route loads its file with the inmemory adapter, or as a snapshot.
LoadFile ==
  CASE Is("rules")    -> IF flags.adapter \in Adapters
                         THEN RulesLoader(file, flags.adapter, Model) ELSE Failed("internal")
    [] Is("snapshot") -> SnapshotLoader(file)
    [] Is("route")    -> IF file \in CsvFiles THEN RulesLoader(file, "inmemory", Model)
                                              ELSE SnapshotLoader(file)

LoadFails == main = "load" /\ LoadFile.err # "none" /\ Fails("load")

\* Faulty: markReady is left to whoever listens.
Load_NotMarked ==
  /\ main = "load" /\ main' = "select"
  /\ LoadFile.err = "none"
  /\ serving' = {[decider |-> LoadFile.decider, from |-> file]}
  /\ ready' = FALSE
  /\ server' = "starting"
  /\ UNCHANGED <<flags, exit, otel, gated, disk, cancelled, calls, probes>>

\* wireTracedHandler, wireRouterHandler: load, wire, markReady; then the
\* listening goroutine is spawned and run() waits.
Load ==
  /\ main = "load" /\ main' = "select"
  /\ LoadFile.err = "none"
  /\ serving' = {[decider |-> LoadFile.decider, from |-> file]}
  /\ ready' = TRUE
  /\ server' = "starting"
  /\ UNCHANGED <<flags, exit, otel, gated, disk, cancelled, calls, probes>>

-----------------------------------------------------------------------------
(* Serving.                                                                *)

ShuttingDown == main \in {"draining", "deferred", "exited"}

\* ListenAndServe; it answers ErrServerClosed once Shutdown has begun.
Listen ==
  /\ main # "exited" /\ server = "starting"
  /\ IF ShuttingDown THEN server' = "closed" ELSE server' \in {"open", "failed"}
  /\ UNCHANGED <<boot, main, exit, disk, cancelled, calls, probes>>

Moves(c, from, to) ==
  /\ main # "exited"
  /\ calls[c].pc = from
  /\ calls' = [calls EXCEPT ![c].pc = to]
  /\ UNCHANGED <<boot, main, exit, disk, cancelled, server, probes>>

Connect(c) == server = "open" /\ Moves(c, "none", "connected")
Arrive(c)  == Moves(c, "connected", "active")
Answer(c)  == Moves(c, "active", "answered")

\* GET /readyz, on a new connection or on one that is still there.
Probe ==
  /\ main # "exited"
  /\ server = "open" \/ \E c \in Calls : calls[c].pc = "connected"
  /\ probes' = probes \cup {IF ready THEN 200 ELSE 503}
  /\ UNCHANGED <<boot, main, exit, disk, cancelled, server, calls>>

-----------------------------------------------------------------------------
(* Shutdown.                                                               *)

\* The connections Shutdown waits for.
Tracked == {c \in Calls : calls[c].proto = "http1" /\ calls[c].pc \in {"connected", "active"}}

Close == server' = IF server = "open" THEN "closed" ELSE server

ServerFailed ==
  /\ main = "select" /\ server = "failed"
  /\ main' = "deferred" /\ exit' = "error"
  /\ UNCHANGED <<boot, disk, cancelled, net>>

BeginShutdown ==
  /\ main = "select" /\ cancelled
  /\ main' = "draining"
  /\ Close
  /\ UNCHANGED <<boot, exit, disk, cancelled, calls, probes>>

\* Faulty: run() returns nil without waiting, as a deferred Close would.
Drained_AtOnce ==
  /\ main = "draining"
  /\ main' = "deferred" /\ exit' = "ok"
  /\ UNCHANGED <<boot, disk, cancelled, net>>

Drained ==
  /\ main = "draining" /\ Tracked = {}
  /\ main' = "deferred" /\ exit' = "ok"
  /\ UNCHANGED <<boot, disk, cancelled, net>>

\* Faulty: Shutdown is given the background context.
DrainExpires_Never ==
  /\ main = "draining" /\ FALSE
  /\ main' = "deferred" /\ exit' = "error"
  /\ UNCHANGED <<boot, disk, cancelled, net>>

\* Five seconds: Shutdown returns the context's error and run() with it.
DrainExpires ==
  /\ main = "draining" /\ Tracked # {}
  /\ main' = "deferred" /\ exit' = "error"
  /\ UNCHANGED <<boot, disk, cancelled, net>>

\* The deferred flush of the spans, done or timed out; then the process goes,
\* and whatever was still on a connection with it.
Exit ==
  /\ main = "deferred"
  /\ main' = "exited"
  /\ otel' = IF otel = "up" THEN "flushed" ELSE otel
  /\ server' = IF server = "none" THEN server ELSE "closed"
  /\ calls' = [c \in Calls |->
                 [calls[c] EXCEPT !.pc = IF @ = "active" THEN "cut"
                                         ELSE IF @ = "connected" THEN "refused" ELSE @]]
  /\ UNCHANGED <<flags, exit, gated, serving, ready, disk, cancelled, probes>>

-----------------------------------------------------------------------------
Main == \/ FlagsRefused \/ FlagsAccepted \/ BootstrapFails \/ Bootstrap
        \/ SinkFails \/ BuildSink \/ GateFails \/ GatePasses \/ LoadFails \/ Load
        \/ ServerFailed \/ BeginShutdown \/ Drained \/ DrainExpires \/ Exit

Next == \/ Main \/ Listen \/ Probe \/ EditFile \/ Sigterm
        \/ \E c \in Calls : Connect(c) \/ Arrive(c) \/ Answer(c)

\* The goroutine of run() is scheduled and its timers fire.  Nothing is asked
\* of the handlers: one that hangs must not keep the process.
Fairness == WF_vars(Main) /\ WF_vars(Listen)

Spec == Init /\ [][Next]_vars /\ Fairness

-----------------------------------------------------------------------------
(* Properties.                                                             *)

ServedOK ==
  /\ Cardinality(serving) <= 1
  /\ \A s \in serving : s.decider.model \in Models /\ s.from \in CsvFiles \cup SnapshotFiles

TypeOK ==
  /\ flags \in FlagSets
  /\ main \in {"flags", "otel", "sink", "gate", "load", "select", "draining",
               "deferred", "exited"}
  /\ exit \in {"none", "ok", "error"} /\ otel \in {"off", "up", "flushed"}
  /\ file \in CsvFiles \cup SnapshotFiles /\ edits \in 0 .. MaxEdits
  /\ gated \in SUBSET CsvFiles /\ ServedOK
  /\ ready \in BOOLEAN /\ cancelled \in BOOLEAN
  /\ server \in {"none", "starting", "open", "failed", "closed"}
  /\ calls \in [Calls -> [pc: {"none", "connected", "active", "answered", "cut", "refused"},
                          proto: Protocols]]
  /\ probes \subseteq {200, 503}

\* ADR-0013, k8s-deploy.md: a boot that fails does so before the listener
\* opens, so nothing is ever reached that has no decider, and no probe sees
\* the gap: the 503 of /readyz is never written.
ReachedMeansReady ==
  /\ server \in {"open", "failed"} => serving # {}
  /\ \A c \in Calls : calls[c].pc # "none" => serving # {}
  /\ probes \subseteq {200}

\* What each stage of run() implies: nothing is loaded, listening or reached
\* before Load; once Shutdown begins the listener is not open.
Booting == main \in {"flags", "otel", "sink", "gate", "load"}

StagesInOrder ==
  /\ Booting => serving = {} /\ server = "none"
  /\ Booting /\ main # "flags" => Cardinality(flags.sources) = 1
  /\ main \in {"select", "draining"} => serving # {}
  /\ server # "none" => serving # {} /\ ready
  /\ server = "none" => probes = {} /\ \A c \in Calls : calls[c].pc = "none"
  /\ ShuttingDown => server # "open"
  /\ main \notin {"deferred", "exited"} => exit = "none"

\* The gate passed what it read, which is what the loader reads but for an edit.
GateHolds ==
  /\ Is("rules") => file \in CsvFiles
  /\ Is("snapshot") => file \in SnapshotFiles
  /\ main = "load" /\ Gates => gated # {}
  /\ \A f \in gated : ~GateRefuses(DiagnoseFile(f)) /\ (edits = 0 => f = file)

\* A drain that ended well left no HTTP/1 request behind, and none can come.
DrainHolds ==
  /\ main = "deferred" /\ exit = "ok" => Tracked = {}
  /\ main # "exited" => \A c \in Calls : calls[c].pc # "cut"

LifecycleInv == TypeOK /\ ReachedMeansReady /\ StagesInOrder /\ GateHolds /\ DrainHolds

\* A rule set that --diagnose=on should have refused is served only when the
\* file changed between the gate's read and the loader's.
UnhealthyBootOnlyIfEdited ==
  \A s \in serving :
    Is("rules") /\ flags.diagnose = "on" /\ ~IsHealthy(s.decider.rules)
      => edits > 0 /\ s.from \notin gated

\* What the end of the process leaves behind.  Spans that were recorded are
\* flushed, whichever way boot or shutdown ended (main.go: the deferred
\* shutdown).  Exit code 0 says that every HTTP/1 request the server had read
\* was answered: one is cut off only under a nonzero code (h2c calls are not
\* covered: net/http does not know their connections).
ExitIsHonest ==
  main = "exited" =>
    /\ otel # "up"
    /\ exit = "ok" => \A c \in Calls : calls[c].pc = "cut" => calls[c].proto # "http1"

\* SIGTERM ends the process, whatever the handlers do.
SigtermEndsProcess == cancelled ~> main = "exited"

=============================================================================
