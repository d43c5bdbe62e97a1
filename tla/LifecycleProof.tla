--------------------------- MODULE LifecycleProof ---------------------------
(***************************************************************************)
(* Proofs about Lifecycle, for every set of command lines, files and       *)
(* calls, and any number of edits.                                         *)
(***************************************************************************)
EXTENDS Lifecycle, RuleSetsProof, FiniteSetTheorems, TLAPS

-----------------------------------------------------------------------------
(* The steps of run() that look alike.                                     *)

\* run() returns an error: from a stage of boot, after the listener failed, or
\* when the drain takes too long.
Aborts == /\ Booting \/ main = "draining" \/ (main = "select" /\ server = "failed")
          /\ main' = "deferred" /\ exit' = "error"
          /\ UNCHANGED <<boot, disk, cancelled, net>>

\* Boot goes on to a stage before the load.
Advances == /\ Booting /\ main' \in {"otel", "sink", "gate"}
            /\ main = "flags" => Cardinality(flags.sources) = 1
            /\ otel' \in {otel, "up", "off"}
            /\ UNCHANGED <<flags, exit, disk, cancelled, net, gated, serving, ready>>

\* Every step is one of these, or an action by itself.
LEMMA NextKinds ==
  ASSUME Next
  PROVE  \/ Aborts \/ Advances \/ GatePasses \/ Load \/ BeginShutdown \/ Drained \/ Exit
         \/ Listen \/ Probe \/ EditFile \/ Sigterm
         \/ \E c \in Calls : Connect(c) \/ Arrive(c) \/ Answer(c)
<1>1. FlagsRefused \/ BootstrapFails \/ SinkFails \/ GateFails \/ LoadFails => Aborts
  BY DEF FlagsRefused, BootstrapFails, SinkFails, GateFails, LoadFails, Fails, Aborts, Booting
<1>2. ServerFailed \/ DrainExpires => Aborts
  BY DEF ServerFailed, DrainExpires, Aborts
<1>3. FlagsAccepted \/ Bootstrap \/ BuildSink => Advances
  BY DEF FlagsAccepted, Bootstrap, BuildSink, Proceeds, Advances, Booting
<1> QED BY <1>1, <1>2, <1>3 DEF Next, Main

-----------------------------------------------------------------------------
(* Types.                                                                  *)

\* A rules file is no snapshot file.
LEMMA CsvIsNoSnapshot ==
  ASSUME NEW f \in Csv
  PROVE  f \notin Snapshot
<1>1. f = [opens |-> f.opens, parses |-> f.parses, rules |-> f.rules]
  BY DEF Csv
<1>2. "version" \notin DOMAIN f
  BY <1>1
<1>3. \A s \in Snapshot : "version" \in DOMAIN s
  BY DEF Snapshot
<1> QED BY <1>2, <1>3

\* The contents a file may have.
LEMMA FileKinds ==
  /\ CsvFiles \subseteq Csv /\ SnapshotFiles \subseteq Snapshot /\ Model \in Models
  /\ CsvFiles \cap SnapshotFiles = {}
BY LifecycleAssumption, CsvIsNoSnapshot

\* A command line that was accepted names one source.
LEMMA OneSource ==
  ASSUME TypeOK, Cardinality(flags.sources) = 1
  PROVE  Is("rules") \/ Is("snapshot") \/ Is("route")
<1>1. flags.sources \subseteq {"rules", "snapshot", "route"}
  BY LifecycleAssumption DEF TypeOK, Flags
<1>2. IsFiniteSet({"rules", "snapshot", "route"})
  <2>1. IsFiniteSet({"rules"} \cup {"snapshot"})
    BY FS_Singleton, FS_AddElement
  <2>2. IsFiniteSet(({"rules"} \cup {"snapshot"}) \cup {"route"})
    BY <2>1, FS_AddElement
  <2>3. ({"rules"} \cup {"snapshot"}) \cup {"route"} = {"rules", "snapshot", "route"}
    OBVIOUS
  <2> QED BY <2>2, <2>3
<1>3. IsFiniteSet(flags.sources)
  BY <1>1, <1>2, FS_Subset
<1>4. PICK x : flags.sources = {x}
  BY <1>3, FS_Singleton
<1> QED BY <1>1, <1>4 DEF Is

\* What boot loads has a model tag; in rules mode it holds the rules of the file.
LEMMA LoadFileOK ==
  ASSUME TypeOK, GateHolds, Cardinality(flags.sources) = 1, LoadFile.err = "none"
  PROVE  /\ LoadFile.decider.model \in Models
         /\ Is("rules") => LoadFile.decider.rules = file.rules /\ file.opens /\ file.parses
<1>1. file \in CsvFiles \/ file \in SnapshotFiles
  BY DEF TypeOK
<1>2. ASSUME NEW adapter \in Adapters, file \in CsvFiles, RulesLoader(file, adapter, Model).err = "none"
      PROVE  /\ RulesLoader(file, adapter, Model).decider.model \in Models
             /\ RulesLoader(file, adapter, Model).decider.rules = file.rules
             /\ file.opens /\ file.parses
  <2>1. file \in Csv /\ Model \in Models
    BY <1>2, FileKinds
  <2>2. RulesLoader(file, adapter, Model).decider
          = [adapter |-> adapter, rules |-> file.rules, model |-> Model]
        /\ file.opens /\ file.parses
    BY <1>2, <2>1, RulesLoaderOK
  <2> QED BY <2>1, <2>2
<1>3. ASSUME file \in SnapshotFiles, SnapshotLoader(file).err = "none"
      PROVE  SnapshotLoader(file).decider.model \in Models
  BY <1>3, FileKinds, SnapshotLoaderOK DEF Deciders
<1>4. CASE Is("rules")
  <2>1. LoadFile = IF flags.adapter \in Adapters
                   THEN RulesLoader(file, flags.adapter, Model) ELSE Failed("internal")
    BY <1>4 DEF LoadFile, Is
  <2>2. file \in CsvFiles
    BY <1>4 DEF GateHolds
  <2>3. flags.adapter \in Adapters
    BY <2>1 DEF Failed
  <2> QED BY <1>2, <2>1, <2>2, <2>3
<1>5. CASE Is("snapshot")
  <2>1. LoadFile = SnapshotLoader(file) /\ ~Is("rules")
    BY <1>5 DEF LoadFile, Is
  <2>2. file \in SnapshotFiles
    BY <1>5 DEF GateHolds
  <2> QED BY <1>3, <2>1, <2>2
<1>6. CASE Is("route")
  <2>1. LoadFile = (IF file \in CsvFiles THEN RulesLoader(file, "inmemory", Model)
                                         ELSE SnapshotLoader(file)) /\ ~Is("rules")
    BY <1>6 DEF LoadFile, Is
  <2>2. "inmemory" \in Adapters
    BY DEF Adapters
  <2> QED BY <1>1, <1>2, <1>3, <2>1, <2>2
<1> QED BY <1>4, <1>5, <1>6, OneSource

\* Every step keeps the types.
LEMMA NextTypeOK ==
  ASSUME TypeOK, StagesInOrder, GateHolds, [Next]_vars
  PROVE  TypeOK'
<1>0. UNCHANGED serving => ServedOK'
  BY DEF TypeOK, ServedOK
<1>1. CASE Aborts
  BY <1>0, <1>1 DEF Aborts, TypeOK, boot, disk, net
<1>2. CASE Advances
  BY <1>0, <1>2 DEF Advances, TypeOK, disk, net
<1>3. CASE GatePasses
  <2>1. gated' \in SUBSET CsvFiles
    BY <1>3 DEF GatePasses, Gates, GateHolds
  <2> QED BY <1>0, <1>3, <2>1 DEF GatePasses, Proceeds, TypeOK, disk, net
<1>4. CASE Load
  <2>1. Cardinality(flags.sources) = 1
    BY <1>4 DEF Load, StagesInOrder, Booting
  <2>2. LoadFile.decider.model \in Models
    BY <1>4, <2>1, LoadFileOK DEF Load
  <2>3. serving' = {[decider |-> LoadFile.decider, from |-> file]}
    BY <1>4 DEF Load
  <2>4. Cardinality(serving') = 1
    BY <2>3, FS_Singleton
  <2>5. ServedOK'
    <3>1. \A s \in serving' : s.decider = LoadFile.decider /\ s.from = file
      BY <2>3
    <3>2. UNCHANGED file
      BY <1>4 DEF Load, disk
    <3> QED BY <2>2, <2>4, <3>1, <3>2 DEF ServedOK, TypeOK
  <2> QED BY <1>4, <2>5 DEF Load, TypeOK, disk
<1>5. CASE BeginShutdown
  BY <1>0, <1>5 DEF BeginShutdown, Close, TypeOK, boot, disk
<1>6. CASE Drained
  BY <1>0, <1>6 DEF Drained, TypeOK, boot, disk, net
<1>7. CASE Exit
  <2>1. calls' \in [Calls -> [pc: {"none", "connected", "active", "answered", "cut", "refused"},
                              proto: Protocols]]
    BY <1>7 DEF Exit, TypeOK
  <2> QED BY <1>0, <1>7, <2>1 DEF Exit, TypeOK, disk
<1>8. CASE Listen
  BY <1>0, <1>8 DEF Listen, TypeOK, boot, disk
<1>9. CASE Probe
  BY <1>0, <1>9 DEF Probe, TypeOK, boot, disk
<1>10. CASE EditFile
  BY <1>0, <1>10, LifecycleAssumption DEF EditFile, TypeOK, boot, net
<1>11. CASE Sigterm
  BY <1>0, <1>11 DEF Sigterm, TypeOK, boot, disk, net
<1>12. ASSUME NEW c \in Calls, Connect(c) \/ Arrive(c) \/ Answer(c) PROVE TypeOK'
  <2>1. PICK from \in {"none", "connected", "active"}, to \in {"connected", "active", "answered"} :
          Moves(c, from, to)
    BY <1>12 DEF Connect, Arrive, Answer
  <2> QED BY <1>0, <2>1 DEF Moves, TypeOK, boot, disk
<1>13. CASE UNCHANGED vars
  BY <1>0, <1>13 DEF vars, TypeOK
<1> QED
  BY <1>1, <1>2, <1>3, <1>4, <1>5, <1>6, <1>7, <1>8, <1>9, <1>10, <1>11, <1>12, <1>13, NextKinds

-----------------------------------------------------------------------------
(* The stages of run(), the gate and the drain.                            *)

\* The listener, the calls and the probes move alone.
LEMMA NetStep ==
  ASSUME \/ Listen \/ Probe \/ \E c \in Calls : Connect(c) \/ Arrive(c) \/ Answer(c)
  PROVE  /\ main # "exited"
         /\ UNCHANGED <<flags, otel, gated, serving, ready, main, exit, file, edits, cancelled>>
BY DEF Listen, Probe, Connect, Arrive, Answer, Moves, boot, disk

\* Every step keeps the order of the stages.
LEMMA NextStagesInOrder ==
  ASSUME TypeOK, StagesInOrder, [Next]_vars
  PROVE  StagesInOrder'
<1>1. CASE Aborts
  BY <1>1 DEF Aborts, StagesInOrder, Booting, ShuttingDown, boot, net
<1>2. CASE Advances
  BY <1>2 DEF Advances, StagesInOrder, Booting, ShuttingDown, net
<1>3. CASE GatePasses
  BY <1>3 DEF GatePasses, Proceeds, StagesInOrder, Booting, ShuttingDown, net
<1>4. CASE Load
  BY <1>4 DEF Load, StagesInOrder, Booting, ShuttingDown
<1>5. CASE BeginShutdown
  BY <1>5 DEF BeginShutdown, Close, StagesInOrder, Booting, ShuttingDown, boot
<1>6. CASE Drained
  BY <1>6 DEF Drained, StagesInOrder, Booting, ShuttingDown, boot, net
<1>7. CASE Exit
  <2>1. \A c \in Calls : calls[c].pc = "none" => calls'[c].pc = "none"
    BY <1>7 DEF Exit, TypeOK
  <2> QED BY <1>7, <2>1 DEF Exit, StagesInOrder, Booting, ShuttingDown
<1>8. CASE Listen
  BY <1>8 DEF Listen, StagesInOrder, Booting, ShuttingDown, boot
<1>9. CASE Probe
  BY <1>9 DEF Probe, StagesInOrder, Booting, ShuttingDown, boot
<1>10. CASE EditFile \/ Sigterm \/ UNCHANGED vars
  BY <1>10 DEF EditFile, Sigterm, vars, StagesInOrder, Booting, ShuttingDown, boot, net
<1>11. ASSUME NEW c \in Calls, Connect(c) \/ Arrive(c) \/ Answer(c) PROVE StagesInOrder'
  <2>1. server # "none" /\ UNCHANGED server
    BY <1>11 DEF Connect, Arrive, Answer, Moves, StagesInOrder
  <2> QED BY <1>11, <2>1, NetStep DEF Connect, Arrive, Answer, Moves, StagesInOrder, Booting, ShuttingDown
<1> QED
  BY <1>1, <1>2, <1>3, <1>4, <1>5, <1>6, <1>7, <1>8, <1>9, <1>10, <1>11, NextKinds

\* What was reached has a decider, and no probe saw the gap.
LEMMA NextReachedMeansReady ==
  ASSUME TypeOK, StagesInOrder, ReachedMeansReady, [Next]_vars
  PROVE  ReachedMeansReady'
<1>1. StagesInOrder'
  BY NextStagesInOrder
<1>2. /\ server' \in {"open", "failed"} => serving' # {}
      /\ \A c \in Calls : calls'[c].pc # "none" => serving' # {}
  BY <1>1 DEF StagesInOrder
<1>3. probes' \subseteq {200}
  <2>1. CASE Probe
    <3>1. server # "none"
      BY <2>1 DEF Probe, StagesInOrder
    <3> QED BY <2>1, <3>1 DEF Probe, StagesInOrder, ReachedMeansReady
  <2>2. CASE UNCHANGED probes
    BY <2>2 DEF ReachedMeansReady
  <2>3. Probe \/ UNCHANGED probes
    BY NextKinds DEF Aborts, Advances, GatePasses, Proceeds, Load, BeginShutdown, Drained, Exit, Listen,
       EditFile, Sigterm, Connect, Arrive, Answer, Moves, net, vars
  <2> QED BY <2>1, <2>2, <2>3
<1> QED BY <1>2, <1>3 DEF ReachedMeansReady

\* Every step keeps what the gate read, and what it made of it.
LEMMA NextGateHolds ==
  ASSUME TypeOK, StagesInOrder, GateHolds, [Next]_vars
  PROVE  GateHolds'
<1>1. CASE Aborts \/ Drained \/ Exit \/ BeginShutdown \/ Load
  <2>1. main' # "load" /\ UNCHANGED <<flags, file, gated, edits>>
    BY <1>1 DEF Aborts, Drained, Exit, BeginShutdown, Load, boot, disk
  <2> QED BY <2>1 DEF GateHolds, GateRefuses, Is
<1>2. CASE Advances
  <2>1. main' # "load" /\ UNCHANGED <<flags, file, gated, edits>>
    BY <1>2 DEF Advances, disk
  <2> QED BY <2>1 DEF GateHolds, GateRefuses, Is
<1>3. CASE GatePasses
  <2>1. UNCHANGED <<flags, file, edits>> /\ gated' = (IF Gates THEN {file} ELSE {})
        /\ (Gates => ~GateRefuses(DiagnoseFile(file)))
    BY <1>3 DEF GatePasses, Proceeds, disk
  <2>2. Gates' <=> Gates
    BY <2>1 DEF Gates, Is
  <2>3. \A f \in gated' : Gates /\ f = file
    BY <2>1
  <2> QED BY <2>1, <2>2, <2>3 DEF GateHolds, GateRefuses, Is
<1>4. CASE EditFile
  <2>1. edits' # 0 /\ UNCHANGED <<flags, gated, main>>
    BY <1>4 DEF EditFile, TypeOK, boot
  <2>2. Is("rules") => file' \in CsvFiles
    BY <1>4 DEF EditFile, GateHolds
  <2>3. Is("snapshot") => file' \in SnapshotFiles
    BY <1>4, FileKinds DEF EditFile, GateHolds
  <2> QED BY <2>1, <2>2, <2>3 DEF GateHolds, GateRefuses, Gates, Is
<1>5. CASE Sigterm \/ UNCHANGED vars
  BY <1>5 DEF Sigterm, vars, GateHolds, GateRefuses, Gates, Is, boot, disk
<1>6. CASE Listen \/ Probe \/ \E c \in Calls : Connect(c) \/ Arrive(c) \/ Answer(c)
  BY <1>6, NetStep DEF GateHolds, GateRefuses, Gates, Is
<1> QED BY <1>1, <1>2, <1>3, <1>4, <1>5, <1>6, NextKinds

\* Once the listener is closed no connection is made, so a drain that ended well
\* stays ended.
LEMMA NextDrainHolds ==
  ASSUME TypeOK, StagesInOrder, DrainHolds, [Next]_vars
  PROVE  DrainHolds'
<1>1. CASE Aborts \/ Advances \/ GatePasses \/ Load \/ BeginShutdown
  <2>1. main # "exited" /\ ~(main' = "deferred" /\ exit' = "ok") /\ UNCHANGED calls
    BY <1>1 DEF Aborts, Advances, GatePasses, Proceeds, Load, BeginShutdown, Booting, net
  <2> QED BY <2>1 DEF DrainHolds
<1>2. CASE Drained
  <2>1. Tracked = {} /\ main # "exited" /\ UNCHANGED calls
    BY <1>2 DEF Drained, net
  <2> QED BY <2>1 DEF DrainHolds, Tracked
<1>3. CASE Exit
  BY <1>3 DEF Exit, DrainHolds
<1>4. CASE Listen \/ Probe \/ EditFile \/ Sigterm \/ UNCHANGED vars
  <2>1. UNCHANGED <<main, exit, calls>>
    BY <1>4 DEF Listen, Probe, EditFile, Sigterm, vars, net
  <2> QED BY <2>1 DEF DrainHolds, Tracked
<1>5. ASSUME NEW c \in Calls, Connect(c) \/ Arrive(c) \/ Answer(c) PROVE DrainHolds'
  <2>1. PICK to \in {"connected", "active", "answered"} : calls' = [calls EXCEPT ![c].pc = to]
    BY <1>5 DEF Connect, Arrive, Answer, Moves
  <2>2. \A d \in Calls : calls'[d].pc # "cut"
    BY <1>5, <2>1, NetStep DEF DrainHolds, TypeOK
  <2>3. ASSUME main = "deferred" PROVE ~Connect(c)
    BY <2>3 DEF Connect, StagesInOrder, ShuttingDown
  <2>4. ASSUME main = "deferred", exit = "ok" PROVE Tracked' = {}
    <3>1. Tracked = {} /\ (Arrive(c) \/ Answer(c))
      BY <1>5, <2>3, <2>4 DEF DrainHolds
    <3>2. calls[c].pc \in {"connected", "active"}
      BY <3>1 DEF Arrive, Answer, Moves
    <3>3. calls[c].proto # "http1"
      BY <3>1, <3>2 DEF Tracked
    <3>4. \A d \in Calls : calls'[d].proto = calls[d].proto /\ (d # c => calls'[d].pc = calls[d].pc)
      BY <2>1 DEF TypeOK
    <3> QED BY <3>1, <3>3, <3>4 DEF Tracked
  <2> QED BY <1>5, <2>2, <2>4, NetStep DEF DrainHolds
<1> QED BY <1>1, <1>2, <1>3, <1>4, <1>5, NextKinds

\* Rules that boot refuses come in only by an edit between gate and loader.
LEMMA NextUnhealthyBoot ==
  ASSUME TypeOK, StagesInOrder, GateHolds, UnhealthyBootOnlyIfEdited, [Next]_vars
  PROVE  UnhealthyBootOnlyIfEdited'
<1>1. CASE Load
  <2> SUFFICES ASSUME Is("rules"), flags.diagnose = "on", ~IsHealthy(LoadFile.decider.rules)
               PROVE  edits > 0 /\ file \notin gated
    BY <1>1 DEF Load, UnhealthyBootOnlyIfEdited, Is, disk
  <2>1. Cardinality(flags.sources) = 1 /\ main = "load" /\ LoadFile.err = "none"
    BY <1>1 DEF Load, StagesInOrder, Booting
  <2>2. LoadFile.decider.rules = file.rules /\ file.opens /\ file.parses
    BY <2>1, LoadFileOK
  <2>3. file \in Csv
    BY FileKinds DEF GateHolds
  <2>4. DiagnoseFile(file) = "rejected"
    BY <2>2, <2>3, DiagnoseFileNone
  <2>5. GateRefuses(DiagnoseFile(file))
    BY <2>4 DEF GateRefuses
  <2>6. file \notin gated
    BY <2>5 DEF GateHolds
  <2>7. gated # {}
    BY <2>1 DEF GateHolds, Gates
  <2>8. edits # 0
    BY <2>6, <2>7 DEF GateHolds
  <2> QED BY <2>6, <2>8 DEF TypeOK
<1>2. CASE GatePasses
  <2>1. serving' = {}
    BY <1>2 DEF GatePasses, Proceeds, StagesInOrder, Booting
  <2> QED BY <2>1 DEF UnhealthyBootOnlyIfEdited
<1>3. CASE EditFile
  <2>1. edits' > 0 /\ UNCHANGED <<flags, serving, gated>>
    BY <1>3 DEF EditFile, TypeOK, boot
  <2>2. edits' = edits + 1
    BY <1>3 DEF EditFile
  <2> QED BY <2>1, <2>2 DEF UnhealthyBootOnlyIfEdited, Is
<1>4. CASE UNCHANGED <<flags, serving, gated, edits>>
  BY <1>4 DEF UnhealthyBootOnlyIfEdited, Is
<1>5. Load \/ GatePasses \/ EditFile \/ UNCHANGED <<flags, serving, gated, edits>>
  BY NextKinds, NetStep DEF Aborts, Advances, BeginShutdown, Drained, Exit, Sigterm, boot, disk, vars
<1> QED BY <1>1, <1>2, <1>3, <1>4, <1>5

\* What the end of the process leaves behind is honest.
LEMMA NextExitIsHonest ==
  ASSUME TypeOK, StagesInOrder, DrainHolds, ExitIsHonest, [Next]_vars
  PROVE  ExitIsHonest'
<1>1. CASE Exit
  <2>1. otel' # "up"
    BY <1>1 DEF Exit
  <2>2. ASSUME exit = "ok", NEW c \in Calls, calls'[c].pc = "cut" PROVE calls'[c].proto # "http1"
    <3>1. calls[c].pc = "active" /\ calls'[c].proto = calls[c].proto
      BY <1>1, <2>2 DEF Exit, DrainHolds, TypeOK
    <3>2. c \notin Tracked
      BY <1>1, <2>2 DEF Exit, DrainHolds
    <3> QED BY <3>1, <3>2 DEF Tracked
  <2> QED BY <1>1, <2>1, <2>2 DEF Exit, ExitIsHonest
<1>2. CASE main' = "exited" /\ UNCHANGED <<main, exit, otel, calls>>
  BY <1>2 DEF ExitIsHonest
<1>3. CASE main' # "exited"
  BY <1>3 DEF ExitIsHonest
<1>4. Exit \/ main' # "exited" \/ UNCHANGED <<main, exit, otel, calls>>
  BY NextKinds, NetStep DEF Aborts, Advances, GatePasses, Proceeds, Load, BeginShutdown, Drained,
     EditFile, Sigterm, boot, net, vars
<1> QED BY <1>1, <1>2, <1>3, <1>4

-----------------------------------------------------------------------------
(* The theorems.                                                           *)

LifeInv == LifecycleInv /\ UnhealthyBootOnlyIfEdited /\ ExitIsHonest

\* A process starts with nothing but its command line and its file.
LEMMA InitLifeInv ==
  ASSUME Init
  PROVE  LifeInv
<1>1. flags \in FlagSets /\ file \in CsvFiles \cup SnapshotFiles
  BY DEF Init
<1>2. ServedOK
  BY FS_EmptySet DEF Init, ServedOK
<1>3. calls \in [Calls -> [pc: {"none", "connected", "active", "answered", "cut", "refused"},
                          proto: Protocols]]
  BY DEF Init
<1>4. edits \in 0 .. MaxEdits
  BY LifecycleAssumption DEF Init
<1>5. TypeOK
  BY <1>1, <1>2, <1>3, <1>4 DEF Init, TypeOK
<1>6. \A c \in Calls : calls[c].pc = "none"
  BY DEF Init
<1>7. StagesInOrder
  BY <1>6 DEF Init, StagesInOrder, Booting, ShuttingDown
<1>8. GateHolds
  BY DEF Init, GateHolds, Is
<1>9. DrainHolds /\ ReachedMeansReady
  BY <1>6 DEF Init, DrainHolds, ReachedMeansReady
<1>10. UnhealthyBootOnlyIfEdited /\ ExitIsHonest
  BY DEF Init, UnhealthyBootOnlyIfEdited, ExitIsHonest
<1> QED BY <1>5, <1>7, <1>8, <1>9, <1>10 DEF LifeInv, LifecycleInv

\* LifeInv is inductive.
LEMMA Invariance == Spec => []LifeInv
<1>1. Init => LifeInv
  BY InitLifeInv
<1>2. LifeInv /\ [Next]_vars => LifeInv'
  BY NextTypeOK, NextStagesInOrder, NextReachedMeansReady, NextGateHolds, NextDrainHolds,
     NextUnhealthyBoot, NextExitIsHonest DEF LifeInv, LifecycleInv
<1> QED BY <1>1, <1>2, PTL DEF Spec

\* Nothing is reached before it has a decider: not a connection, not a probe, not
\* a listener that failed, on any command line.
THEOREM ReachedIsReady == Spec => []LifecycleInv
<1>1. LifeInv => LifecycleInv
  BY DEF LifeInv
<1> QED BY <1>1, Invariance, PTL

\* Under --diagnose=on a rule set that fails diagnosis is served only after an edit
\* between the gate's read and the loader's.
THEOREM UnhealthyNeedsEdit == Spec => []UnhealthyBootOnlyIfEdited
<1>1. LifeInv => UnhealthyBootOnlyIfEdited
  BY DEF LifeInv
<1> QED BY <1>1, Invariance, PTL

\* Spans are flushed on every way out, and exit code 0 cuts no HTTP/1 request off.
THEOREM HonestExit == Spec => []ExitIsHonest
<1>1. LifeInv => ExitIsHonest
  BY DEF LifeInv
<1> QED BY <1>1, Invariance, PTL

=============================================================================
