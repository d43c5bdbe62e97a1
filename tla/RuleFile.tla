------------------------------ MODULE RuleFile ------------------------------
(***************************************************************************)
(* The file between those who write a rule set and the server that reads   *)
(* it.  With --snapshot the writer is cmd/snapshot-build, with --rules the *)
(* operator's editor.  Neither replaces the file: both truncate it and     *)
(* then write, and the server reads in buffers, at boot and at every       *)
(* reload.  Module Serving takes an edit to be atomic and both reads whole *)
(* files; here writer and readers advance by pieces, runs fail half way,   *)
(* and the server crashes and boots from what the file then holds.         *)
(*                                                                         *)
(* Pieces at the same index sit at the same offset: a file whose pieces    *)
(* are of other widths is torn inside a piece, and decodes less often than *)
(* one torn here.                                                          *)
(***************************************************************************)
EXTENDS FileFormats

CONSTANTS
  Modes,       \* the flags that may name the file: "rules", "snapshot"
  Adapter,     \* --adapter, in rules mode
  Model,       \* --model of the server
  DiagnoseOn,  \* --diagnose=on, which gates the boot in rules mode
  Sources,     \* what a run may be given: a CSV and, for the tool, its --model
  Loads,       \* boots and POST /admin/reload, one-shot
  MaxRuns,     \* bound on the runs of the writer
  MaxCrashes   \* bound on the crashes of the server

ASSUME RuleFileAssumption ==
  /\ Modes \subseteq {"rules", "snapshot"} /\ DiagnoseOn \in BOOLEAN
  /\ Adapter \in Adapters /\ Model \in Models
  /\ Sources \subseteq [csv: Csv, model: Models]
  /\ MaxRuns \in Nat /\ MaxCrashes \in Nat

VARIABLES
  mode,       \* the flag the server was started with, once and for all
  disk,       \* the pieces the file holds
  whole,      \* history: the source the file holds in full, if it does
  writer,     \* the run that is on its way: its source and what it has to write
  runs,       \* the runs that began
  installed,  \* the decider in the swap holder; none while the server is down
  loads,      \* where each load is, what it has read and what it came to
  crashes
vars == <<mode, disk, whole, writer, runs, installed, loads, crashes>>

-----------------------------------------------------------------------------
GateWired == mode = "rules"

FileLoader(got) == IF GateWired THEN RulesLoader(ParseCsv(got), Adapter, Model)
                                ELSE SnapshotLoader(DecodeSnapshot(got))

-----------------------------------------------------------------------------
NoRun   == [pc |-> "idle"]
Idle    == [pc |-> "idle", boot |-> FALSE, got |-> <<>>, quiet |-> TRUE,
            held |-> {}, made |-> {}]

Output(s) == IF GateWired THEN CsvPieces(s.csv)
                          ELSE SnapshotPieces(Build(s.csv.rules, s.model))

\* What snapshot-build makes a snapshot of: readRules and snapshot.Build succeed.
Builds(s) == s.csv.opens /\ s.csv.parses /\ Accepts("indexed", s.csv.rules)

\* A run that gets to its end: snapshot.Write succeeds as well.  An editor's
\* always does.
Writes(s) == IF GateWired THEN s.csv.opens
                          ELSE Builds(s) /\ Encodable(Build(s.csv.rules, s.model))

Init ==
  /\ mode \in Modes
  /\ \E s \in Sources : Writes(s) /\ disk = Output(s) /\ whole = {s}
  /\ writer = NoRun /\ runs = 0
  /\ installed = {}
  /\ loads = [r \in Loads |-> Idle]
  /\ crashes = 0

server == <<installed, loads, crashes>>

-----------------------------------------------------------------------------
(* The writer: cmd/snapshot-build, one run at a time, or an editor.        *)

StartRun ==
  /\ writer = NoRun /\ runs < MaxRuns
  /\ \E s \in Sources :
       /\ GateWired => Writes(s)
       /\ writer' = [pc |-> IF GateWired THEN "create" ELSE "build", src |-> s, todo |-> <<>>]
  /\ runs' = runs + 1
  /\ UNCHANGED <<mode, disk, whole, server>>

RunEnds == writer' = NoRun /\ UNCHANGED <<mode, disk, whole, runs, server>>

\* The rules do not open, do not parse, or the engine refuses one.
BuildFails ==
  /\ writer.pc = "build" /\ ~Builds(writer.src)
  /\ RunEnds

BuildSnapshot ==
  /\ writer.pc = "build" /\ Builds(writer.src)
  /\ writer' = [writer EXCEPT !.pc = "create"]
  /\ UNCHANGED <<mode, disk, whole, runs, server>>

\* The readers of a file that changes under them.
Disturb == loads' = [r \in Loads |-> IF loads[r].pc \in {"gate", "load"}
                                     THEN [loads[r] EXCEPT !.quiet = FALSE]
                                     ELSE loads[r]]

\* os.Create opens what is there and cuts it to nothing.
Create ==
  /\ writer.pc = "create"
  /\ disk' = <<>> /\ whole' = {}
  /\ writer' = [writer EXCEPT !.pc = "encode"]
  /\ Disturb
  /\ UNCHANGED <<mode, runs, installed, crashes>>

\* json.Encode writes when all is encoded: a NaN or an infinity leaves the
\* file empty.
EncodeFails == writer.pc = "encode" /\ ~Writes(writer.src) /\ RunEnds

Encode ==
  /\ writer.pc = "encode" /\ Writes(writer.src)
  /\ writer' = [writer EXCEPT !.pc = "write", !.todo = Output(writer.src)]
  /\ UNCHANGED <<mode, disk, whole, runs, server>>

WritePiece ==
  /\ writer.pc = "write" /\ writer.todo # <<>>
  /\ disk' = Append(disk, Head(writer.todo))
  /\ writer' = [writer EXCEPT !.todo = Tail(@)]
  /\ whole' = IF Tail(writer.todo) = <<>> THEN {writer.src} ELSE {}
  /\ Disturb
  /\ UNCHANGED <<mode, runs, installed, crashes>>

\* The file cannot be created, the disk is full, or the run is killed.
RunFails == writer.pc \in {"build", "create", "encode", "write"} /\ RunEnds

RunSucceeds == writer.pc = "write" /\ writer.todo = <<>> /\ RunEnds

Writer == \/ StartRun \/ BuildFails \/ BuildSnapshot \/ Create \/ EncodeFails
          \/ Encode \/ WritePiece \/ RunFails \/ RunSucceeds

-----------------------------------------------------------------------------
(* The server: its boot and its reloads.                                   *)

Reading == {r \in Loads : loads[r].pc \in {"gate", "load"}}

\* A boot that fails ends the process, and another is started.  The gate of a
\* boot is --diagnose's, that of a reload is always there.
StartLoad(r) ==
  /\ loads[r].pc = "idle"
  /\ installed = {} => Reading = {}
  /\ loads' = [loads EXCEPT
       ![r].boot = installed = {},
       ![r].pc = IF GateWired /\ (installed = {} => DiagnoseOn) THEN "gate" ELSE "load"]
  /\ UNCHANGED <<mode, disk, whole, writer, runs, installed, crashes>>

Got(r) == loads[r].got

\* The end of the file, or the brace that ends the JSON value.
AtEnd(r) == \/ Len(Got(r)) >= Len(disk)
            \/ Got(r) # <<>> /\ Got(r)[Len(Got(r))].kind = "end"

ReadPiece(r) ==
  /\ r \in Reading /\ ~AtEnd(r)
  /\ loads' = [loads EXCEPT ![r].got = Append(@, disk[Len(@) + 1])]
  /\ UNCHANGED <<mode, disk, whole, writer, runs, installed, crashes>>

LoadEnds(r, pc, made) ==
  loads' = [loads EXCEPT ![r].pc = pc, ![r].got = <<>>, ![r].held = whole, ![r].made = made]

Refuse(r) ==
  /\ LoadEnds(r, "failed", {})
  /\ UNCHANGED <<mode, disk, whole, writer, runs, installed, crashes>>

Diagnosis(r) == DiagnoseFile(ParseCsv(Got(r)))

GateFails(r) == loads[r].pc = "gate" /\ AtEnd(r) /\ Diagnosis(r) # "none" /\ Refuse(r)

\* The loader opens the file again.
GatePasses(r) ==
  /\ loads[r].pc = "gate" /\ AtEnd(r) /\ Diagnosis(r) = "none"
  /\ loads' = [loads EXCEPT ![r].pc = "load", ![r].got = <<>>]
  /\ UNCHANGED <<mode, disk, whole, writer, runs, installed, crashes>>

AtLoader(r) == loads[r].pc = "load" /\ AtEnd(r)

LoadFails(r) == AtLoader(r) /\ FileLoader(Got(r)).err # "none" /\ Refuse(r)

Install(r) ==
  /\ AtLoader(r) /\ FileLoader(Got(r)).err = "none"
  /\ installed' = {FileLoader(Got(r)).decider}
  /\ LoadEnds(r, "installed", {FileLoader(Got(r)).decider})
  /\ UNCHANGED <<mode, disk, whole, writer, runs, crashes>>

Crash ==
  /\ crashes < MaxCrashes
  /\ crashes' = crashes + 1
  /\ installed' = {}
  /\ loads' = [r \in Loads |-> IF r \in Reading THEN [Idle EXCEPT !.pc = "cut"] ELSE loads[r]]
  /\ UNCHANGED <<mode, disk, whole, writer, runs>>

-----------------------------------------------------------------------------
Next == \/ Writer \/ Crash
        \/ \E r \in Loads : \/ StartLoad(r) \/ ReadPiece(r) \/ GateFails(r) \/ GatePasses(r)
                            \/ LoadFails(r) \/ Install(r)

Spec == Init /\ [][Next]_vars

-----------------------------------------------------------------------------
(* Properties.                                                             *)

TypeOK ==
  /\ mode \in Modes
  /\ disk \in Seq(Pieces)
  /\ whole \subseteq Sources /\ Cardinality(whole) <= 1
  /\ writer = NoRun \/ writer \in [pc: {"build", "create", "encode", "write"}, src: Sources,
                                   todo: Seq(Pieces)]
  /\ runs \in 0 .. MaxRuns /\ crashes \in 0 .. MaxCrashes
  /\ installed \subseteq Deciders /\ Cardinality(installed) <= 1
  /\ loads \in [Loads -> [pc: {"idle", "gate", "load", "installed", "failed", "cut"},
                          boot: BOOLEAN, got: Seq(Pieces), quiet: BOOLEAN,
                          held: SUBSET Sources, made: SUBSET Deciders]]

\* The decider a source stands for, built straight from its CSV.
Expected(s) == IF GateWired THEN RulesLoader(s.csv, Adapter, Model)
                            ELSE RulesLoader(s.csv, "indexed", s.model)

\* The gates a load of s had to pass.
Passes(s, load) ==
  GateWired /\ (load.boot => DiagnoseOn) => DiagnoseFile(s.csv) = "none"

Undisturbed(r) == loads[r].quiet /\ loads[r].pc \in {"installed", "failed"}

\* ADR-0007: "a Decider built from a snapshot produces identical Decisions to
\* one built directly from rules", through the tool, the file and the loader.
\* A load no write fell into, of a file some run had written in full, fails
\* exactly when the gate or the engine refuses that run's rules, and else
\* installs the decider its CSV stands for.  And a snapshot that a failed,
\* killed or still running build left behind is refused, at boot as in a
\* reload (snapshot-promotion.md: "A corrupted snapshot file fails fast").
WholeFileLoads ==
  \A r \in Loads : Undisturbed(r) =>
    /\ \A s \in loads[r].held :
         /\ loads[r].pc = "installed" <=> Passes(s, loads[r]) /\ Expected(s).err = "none"
         /\ \A d \in loads[r].made : Alike(d, Expected(s).decider)
    /\ mode = "snapshot" /\ loads[r].held = {} => loads[r].pc = "failed"

\* Also when a build rewrites the snapshot under a load: every rule of the
\* decider has a factor some run wrote for a rule of its name, never a silent
\* zero (snapshot.go: ErrMissingFactor).
EveryFactorWasWritten ==
  \A d \in installed : \A i \in DOMAIN d.rules :
    \E s \in {t \in Sources : Writes(t)} : \E j \in DOMAIN s.csv.rules :
      /\ s.csv.rules[j].name = d.rules[i].name
      /\ s.csv.rules[j].factor = d.rules[i].factor

-----------------------------------------------------------------------------
(* What makes these inductive (RuleFileProof).                             *)

Outputs == {Output(s) : s \in {t \in Sources : Writes(t)}}

\* The beginning of a sequence, or all of it.
Begins(seq, out) == Len(seq) <= Len(out) /\ \A i \in DOMAIN seq : seq[i] = out[i]

\* The file holds the beginning of what one run writes.
DiskInv ==
  \E s \in Sources :
    LET out == Output(s)
    IN /\ Writes(s) /\ Begins(disk, out)
       /\ whole = IF Len(disk) = Len(out) THEN {s} ELSE {}

\* What a run has still to write is what the file lacks.
WriterInv ==
  /\ writer.pc = "encode" => disk = <<>> /\ whole = {}
  /\ writer.pc = "write" =>
       /\ Writes(writer.src) /\ disk \o writer.todo = Output(writer.src)
       /\ whole = IF writer.todo = <<>> THEN {writer.src} ELSE {}

\* Each piece was written by some run at that place.
FromRuns(got) ==
  LET outs == Outputs
  IN \A i \in DOMAIN got : \E out \in outs : i \in DOMAIN out /\ got[i] = out[i]

\* A load has what runs have written, and what one run has when no write fell
\* into the load; the gate, if there is one, has then seen all of it.
LoadInv(r) ==
  LET me == loads[r]
  IN /\ FromRuns(me.got)
     /\ me.pc = "idle" => me.got = <<>>
     /\ me.pc = "gate" => GateWired /\ (me.boot => DiagnoseOn)
     /\ r \in Reading /\ me.quiet =>
          /\ Begins(me.got, disk)
          /\ me.pc = "load" /\ GateWired /\ (me.boot => DiagnoseOn)
               => DiagnoseFile(ParseCsv(disk)) = "none"

RuleFileInv ==
  /\ TypeOK /\ EveryFactorWasWritten
  /\ DiskInv /\ WriterInv /\ \A r \in Loads : LoadInv(r)

=============================================================================
