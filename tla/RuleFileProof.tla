---------------------------- MODULE RuleFileProof ----------------------------
(***************************************************************************)
(* Proofs about RuleFile, for every set of sources, loads, runs and        *)
(* crashes.  RuleFileInv is the inductive invariant: whatever the writer   *)
(* is at, the file is the beginning of what one run writes, and each piece *)
(* a load has got stands where some run put it.                            *)
(***************************************************************************)
EXTENDS RuleFile, RuleSetsProof, FiniteSetTheorems

-----------------------------------------------------------------------------
(* What a run writes.                                                      *)

LEMMA SourceType ==
  ASSUME NEW s \in Sources
  PROVE  /\ s.csv \in Csv /\ s.model \in Models
         /\ s.csv.opens \in BOOLEAN /\ s.csv.parses \in BOOLEAN /\ s.csv.rules \in Seq(Rule)
<1>1. s \in [csv: Csv, model: Models]
  BY RuleFileAssumption
<1>2. s.csv \in Csv /\ s.model \in Models
  BY <1>1
<1> QED BY <1>2 DEF Csv

\* A run writes pieces, at least one, and the brace that ends a snapshot last.
LEMMA OutputType ==
  ASSUME NEW s \in Sources, Writes(s)
  PROVE  /\ Output(s) \in Seq(Pieces) /\ Len(Output(s)) \in Nat /\ Len(Output(s)) >= 1
         /\ DOMAIN Output(s) = 1 .. Len(Output(s))
         /\ \A i \in DOMAIN Output(s) : Output(s)[i].kind = "end" => i = Len(Output(s))
<1>1. CASE GateWired
  <2>1. Output(s) = CsvPieces(s.csv)
    BY <1>1 DEF Output
  <2>2. s.csv \in Csv
    BY SourceType
  <2> QED BY <2>1, <2>2, CsvPiecesType
<1>2. CASE ~GateWired
  <2>1. /\ Output(s) = SnapshotPieces(Build(s.csv.rules, s.model)) /\ Builds(s)
        /\ Encodable(Build(s.csv.rules, s.model))
    BY <1>2 DEF Output, Writes
  <2>2. s.csv.rules \in Seq(Rule) /\ s.model \in Models
    BY SourceType
  <2>3. DistinctNames(s.csv.rules)
    BY <2>1 DEF Builds, Accepts
  <2>4. /\ Output(s) \in Seq(Pieces) /\ Len(Output(s)) = 2 * Len(s.csv.rules) + 3
        /\ \A i \in DOMAIN Output(s) : Output(s)[i].kind = "end" => i = Len(Output(s))
    BY <2>1, <2>2, <2>3, SnapshotPiecesType
  <2>5. Len(s.csv.rules) \in Nat
    BY <2>2
  <2> QED BY <2>4, <2>5
<1> QED BY <1>1, <1>2

\* Where a piece that was read came from.
LEMMA PieceOfRun ==
  ASSUME NEW got, FromRuns(got), NEW i \in DOMAIN got
  PROVE  \E s \in Sources : Writes(s) /\ i \in DOMAIN Output(s) /\ got[i] = Output(s)[i]
BY DEF FromRuns, Outputs

\* A whole file is what one run writes, a shorter one its beginning.
LEMMA DiskOfRun ==
  ASSUME TypeOK, DiskInv
  PROVE  /\ \A s \in whole : s \in Sources /\ Writes(s) /\ disk = Output(s)
         /\ \E s \in Sources : /\ Writes(s) /\ Begins(disk, Output(s))
                               /\ whole = {} => Len(disk) < Len(Output(s))
<1>1. PICK s \in Sources : /\ Writes(s) /\ Begins(disk, Output(s))
                           /\ whole = IF Len(disk) = Len(Output(s)) THEN {s} ELSE {}
  BY DEF DiskInv
<1>2. disk \in Seq(Pieces) /\ Len(disk) \in Nat
  BY DEF TypeOK
<1>3. Output(s) \in Seq(Pieces) /\ Len(Output(s)) \in Nat
  BY <1>1, OutputType
<1>4. whole = {} => Len(disk) < Len(Output(s))
  BY <1>1, <1>2, <1>3 DEF Begins
<1>5. ASSUME NEW t \in whole PROVE t = s /\ disk = Output(s)
  <2>1. t = s /\ Len(disk) = Len(Output(s))
    BY <1>1
  <2>2. \A i \in 1 .. Len(disk) : disk[i] = Output(s)[i]
    BY <1>1, <1>2 DEF Begins
  <2> QED BY <1>2, <1>3, <2>1, <2>2
<1> QED BY <1>1, <1>4, <1>5

-----------------------------------------------------------------------------
(* What the loader and the gate make of it.                                *)

\* Every rule of a decider has a factor some run wrote under its name.
FactorsWereWritten(d) ==
  \A i \in DOMAIN d.rules :
    \E s \in {t \in Sources : Writes(t)} : \E j \in DOMAIN s.csv.rules :
      /\ s.csv.rules[j].name = d.rules[i].name
      /\ s.csv.rules[j].factor = d.rules[i].factor

\* So it is with whatever a load installs, from however many runs it read.
LEMMA FileLoaderOK ==
  ASSUME NEW got \in Seq(Pieces), FromRuns(got), FileLoader(got).err = "none"
  PROVE  FileLoader(got).decider \in Deciders /\ FactorsWereWritten(FileLoader(got).decider)
<1>1. ASSUME GateWired
      PROVE  FileLoader(got).decider \in Deciders /\ FactorsWereWritten(FileLoader(got).decider)
  <2> DEFINE csv == ParseCsv(got)
  <2>1. ASSUME NEW i \in DOMAIN got, i >= 2
        PROVE  \E s \in {t \in Sources : Writes(t)} :
                 \/ got[i].kind = "malformed"
                 \/ got[i].kind = "row" /\ \E j \in DOMAIN s.csv.rules : got[i].rule = s.csv.rules[j]
    <3>1. PICK s \in Sources : Writes(s) /\ i \in DOMAIN Output(s) /\ got[i] = Output(s)[i]
      BY <2>1, PieceOfRun
    <3>2. Output(s) = CsvPieces(s.csv) /\ s.csv \in Csv
      BY <1>1, SourceType DEF Output
    <3>3. i \in DOMAIN CsvPieces(s.csv) /\ got[i] = CsvPieces(s.csv)[i]
      BY <3>1, <3>2
    <3>4. \/ got[i].kind = "malformed"
          \/ got[i].kind = "row" /\ \E j \in DOMAIN s.csv.rules : got[i].rule = s.csv.rules[j]
      BY <2>1, <3>2, <3>3, CsvPieceKinds
    <3> QED BY <3>1, <3>4
  <2>2. \A i \in DOMAIN got : i >= 2 => got[i].kind \in {"row", "malformed"}
    BY <2>1
  <2>3. /\ csv \in Csv
        /\ \A i \in DOMAIN csv.rules :
             /\ i + 1 \in DOMAIN got /\ i + 1 >= 2 /\ got[i + 1].kind = "row"
             /\ csv.rules[i] = got[i + 1].rule
    BY <2>2, ParseCsvType
  <2>4. FileLoader(got) = RulesLoader(csv, Adapter, Model)
    BY <1>1 DEF FileLoader
  <2>5. Adapter \in Adapters /\ Model \in Models
    BY RuleFileAssumption
  <2>6. FileLoader(got).decider = [adapter |-> Adapter, rules |-> csv.rules, model |-> Model]
    BY <2>3, <2>4, <2>5, RulesLoaderOK
  <2>7. csv.rules \in Seq(Rule)
    BY <2>3 DEF Csv
  <2> HIDE DEF csv
  <2>8. FileLoader(got).decider \in Deciders
    BY <2>5, <2>6, <2>7 DEF Deciders
  <2>9. ASSUME NEW i \in DOMAIN csv.rules
        PROVE  \E s \in {t \in Sources : Writes(t)} : \E j \in DOMAIN s.csv.rules :
                 /\ s.csv.rules[j].name = csv.rules[i].name
                 /\ s.csv.rules[j].factor = csv.rules[i].factor
    <3>1. /\ i + 1 \in DOMAIN got /\ i + 1 >= 2 /\ got[i + 1].kind = "row"
          /\ csv.rules[i] = got[i + 1].rule
      BY <2>3
    <3>2. PICK s \in {t \in Sources : Writes(t)} :
            \E j \in DOMAIN s.csv.rules : got[i + 1].rule = s.csv.rules[j]
      BY <2>1, <3>1
    <3> QED BY <3>1, <3>2
  <2>10. FactorsWereWritten(FileLoader(got).decider)
    BY <2>6, <2>9 DEF FactorsWereWritten
  <2> QED BY <2>8, <2>10
<1>2. ASSUME ~GateWired
      PROVE  FileLoader(got).decider \in Deciders /\ FactorsWereWritten(FileLoader(got).decider)
  <2> DEFINE Wrote(name, factor) ==
               \E s \in {t \in Sources : Writes(t)} : \E j \in DOMAIN s.csv.rules :
                 s.csv.rules[j].name = name /\ s.csv.rules[j].factor = factor
             Written == {w \in RuleNames \X Factor : Wrote(w[1], w[2])}
             load == FileLoader(got)
  <2>1. load = SnapshotLoader(DecodeSnapshot(got))
    BY <1>2 DEF FileLoader
  <2>2. load.decider \in Deciders
    BY <2>1, DecodeSnapshotType, SnapshotLoaderOK
  <2>3. ASSUME NEW i \in DOMAIN got, got[i].kind = "factor"
        PROVE  <<got[i].name, got[i].factor>> \in Written
    <3>1. PICK s \in Sources : Writes(s) /\ i \in DOMAIN Output(s) /\ got[i] = Output(s)[i]
      BY PieceOfRun
    <3>2. /\ Output(s) = SnapshotPieces(Build(s.csv.rules, s.model)) /\ Builds(s)
          /\ Encodable(Build(s.csv.rules, s.model))
      BY <1>2, <3>1 DEF Output, Writes
    <3>3. s.csv.rules \in Seq(Rule) /\ s.model \in Models
      BY SourceType
    <3>4. DistinctNames(s.csv.rules)
      BY <3>2 DEF Builds, Accepts
    <3>5. \A k \in DOMAIN Output(s) : Output(s)[k].kind = "factor" =>
            \E j \in DOMAIN s.csv.rules : /\ Output(s)[k].name = s.csv.rules[j].name
                                          /\ Output(s)[k].factor = s.csv.rules[j].factor
      BY <3>2, <3>3, <3>4, SnapshotPiecesType
    <3>6. Wrote(got[i].name, got[i].factor)
      BY <2>3, <3>1, <3>5
    <3>7. got[i].name \in RuleNames /\ got[i].factor \in Factor
      <4>1. got[i] \in Pieces
        OBVIOUS
      <4> QED BY <2>3, <4>1 DEF Pieces, Factor
    <3> HIDE DEF Wrote
    <3> QED BY <3>6, <3>7
  <2> HIDE DEF Written, Wrote, load
  <2>4. load.err = "none"
    BY <1>2 DEF load
  <2>5. \A i \in DOMAIN load.decider.rules :
          <<load.decider.rules[i].name, load.decider.rules[i].factor>> \in Written
    BY <2>1, <2>3, <2>4, ReadFactorsWereWritten
  <2>6. \A i \in DOMAIN load.decider.rules :
          Wrote(load.decider.rules[i].name, load.decider.rules[i].factor)
    BY <2>5 DEF Written
  <2>7. FactorsWereWritten(load.decider)
    BY <2>6 DEF FactorsWereWritten, Wrote
  <2> QED BY <2>2, <2>7 DEF load
<1> QED BY <1>1, <1>2


\* The gate of a whole CSV says what it says of the rule list behind it,
LEMMA GateAgrees ==
  ASSUME NEW s \in Sources, Writes(s), GateWired
  PROVE  DiagnoseFile(ParseCsv(Output(s))) = DiagnoseFile(s.csv)
<1>1. Output(s) = CsvPieces(s.csv) /\ s.csv.opens /\ s.csv \in Csv
  BY SourceType DEF Output, Writes
<1> QED BY <1>1, CsvReadsBack

\* and the loader of a whole file decides as the rule list does.
LEMMA LoaderAgrees ==
  ASSUME TypeOK, NEW s \in Sources, Writes(s)
  PROVE  /\ FileLoader(Output(s)).err = "none" <=> Expected(s).err = "none"
         /\ FileLoader(Output(s)).err = "none"
              => Alike(FileLoader(Output(s)).decider, Expected(s).decider)
<1>1. CASE GateWired
  <2>1. Output(s) = CsvPieces(s.csv) /\ s.csv.opens /\ s.csv \in Csv
    BY <1>1, SourceType DEF Output, Writes
  <2>2. RulesLoader(ParseCsv(CsvPieces(s.csv)), Adapter, Model)
          = RulesLoader(s.csv, Adapter, Model)
    BY <2>1, CsvReadsBack
  <2>3. FileLoader(Output(s)) = Expected(s)
    BY <1>1, <2>1, <2>2 DEF FileLoader, Expected
  <2> QED BY <2>3 DEF Alike
<1>2. CASE ~GateWired
  <2>1. /\ Output(s) = SnapshotPieces(Build(s.csv.rules, s.model)) /\ Builds(s)
        /\ Encodable(Build(s.csv.rules, s.model))
    BY <1>2 DEF Output, Writes
  <2>2. s.csv.rules \in Seq(Rule) /\ s.model \in Models
    BY SourceType
  <2>3. s.csv.opens /\ s.csv.parses /\ Accepts("indexed", s.csv.rules)
    BY <2>1 DEF Builds
  <2>4. Expected(s) = BuildDecider("indexed", s.csv.rules, s.model)
    BY <1>2, <2>3 DEF Expected, RulesLoader
  <2>5. Expected(s).err = "none"
    BY <2>3, <2>4 DEF BuildDecider, Loaded
  <2>6. FileLoader(Output(s)) = SnapshotLoader(DecodeSnapshot(SnapshotPieces(Build(s.csv.rules, s.model))))
    BY <1>2, <2>1 DEF FileLoader
  <2>7. /\ FileLoader(Output(s)).err = "none"
        /\ Alike(FileLoader(Output(s)).decider, Expected(s).decider)
    BY <2>1, <2>2, <2>3, <2>4, <2>6, SnapshotDecidesAlike, EncodableNumbers
  <2> QED BY <2>5, <2>7
<1> QED BY <1>1, <1>2

\* A snapshot that is not whole does not load.
LEMMA ShortDiskRefused ==
  ASSUME TypeOK, DiskInv, whole = {}, ~GateWired
  PROVE  FileLoader(disk).err # "none"
<1>1. PICK s \in Sources : /\ Writes(s) /\ Begins(disk, Output(s))
                           /\ Len(disk) < Len(Output(s))
  BY DiskOfRun
<1>2. /\ Output(s) = SnapshotPieces(Build(s.csv.rules, s.model)) /\ Builds(s)
      /\ Encodable(Build(s.csv.rules, s.model))
  BY <1>1 DEF Output, Writes
<1>3. s.csv.rules \in Seq(Rule) /\ s.model \in Models
  BY SourceType
<1>4. DistinctNames(s.csv.rules)
  BY <1>2 DEF Builds, Accepts
<1> DEFINE n == Len(s.csv.rules)
           m == Len(disk)
           snap == Build(s.csv.rules, s.model)
<1>5. n \in Nat /\ DOMAIN snap.engine = 1 .. n
  BY <1>3 DEF Build
<1>6. Len(Output(s)) = 2 * n + 3 /\ Output(s) \in Seq(Pieces)
  BY <1>2, <1>3, <1>4, SnapshotPiecesType
<1>7. disk \in Seq(Pieces) /\ m \in Nat
  BY DEF TypeOK
<1>8. m \in 0 .. 2 * n + 2
  BY <1>1, <1>5, <1>6, <1>7
<1>9. disk = SubSeq(Output(s), 1, m)
  <2>1. \A i \in 1 .. m : disk[i] = Output(s)[i]
    BY <1>1, <1>7 DEF Begins
  <2>2. DOMAIN disk = 1 .. m
    BY <1>7
  <2>3. m <= Len(Output(s))
    BY <1>1, <1>6, <1>7
  <2>4. SubSeq(Output(s), 1, m) = [i \in 1 .. m |-> Output(s)[i]]
    BY <1>6, <1>7, <2>3
  <2>5. disk = [i \in 1 .. m |-> disk[i]]
    BY <1>7
  <2> QED BY <2>1, <2>4, <2>5
<1> HIDE DEF n, m, snap
<1>10. SnapshotLoader(DecodeSnapshot(disk)) = Failed("internal")
  <2>1. disk = SubSeq(SnapshotPieces(snap), 1, m)
    BY <1>2, <1>9 DEF snap
  <2>2. Encodable(snap)
    BY <1>2 DEF snap
  <2> QED BY <1>5, <1>8, <2>1, <2>2, ShortSnapshotRefused
<1> QED BY <1>10 DEF FileLoader, Failed

-----------------------------------------------------------------------------
(* How a load ends.                                                        *)

\* WholeFileLoads, of one load.
Judged(load) ==
  load.quiet /\ load.pc \in {"installed", "failed"} =>
    /\ \A s \in load.held :
         /\ load.pc = "installed" <=> Passes(s, load) /\ Expected(s).err = "none"
         /\ \A d \in load.made : Alike(d, Expected(s).decider)
    /\ mode = "snapshot" /\ load.held = {} => load.pc = "failed"

LoadsInv == \A r \in Loads : LoadInv(r)

\* A load that no write fell into has read the file to its end.
LEMMA QuietReadsAll ==
  ASSUME TypeOK, DiskInv, NEW r \in Loads, LoadInv(r),
         r \in Reading, loads[r].quiet, AtEnd(r)
  PROVE  Got(r) = disk
<1> DEFINE got == loads[r].got
<1>1. got \in Seq(Pieces) /\ disk \in Seq(Pieces) /\ Len(got) \in Nat /\ Len(disk) \in Nat
  BY DEF TypeOK
<1>2. Len(got) <= Len(disk) /\ \A i \in 1 .. Len(got) : got[i] = disk[i]
  BY <1>1 DEF LoadInv, Begins
<1>3. PICK s \in Sources : Writes(s) /\ Begins(disk, Output(s))
  BY DiskOfRun
<1>4. /\ Len(disk) <= Len(Output(s)) /\ \A i \in 1 .. Len(disk) : disk[i] = Output(s)[i]
      /\ DOMAIN Output(s) = 1 .. Len(Output(s)) /\ Len(Output(s)) \in Nat
      /\ \A i \in DOMAIN Output(s) : Output(s)[i].kind = "end" => i = Len(Output(s))
  BY <1>1, <1>3, OutputType DEF Begins
<1>5. Len(got) = Len(disk)
  <2>1. CASE Len(got) >= Len(disk)
    BY <1>1, <1>2, <2>1
  <2>2. CASE got # <<>> /\ got[Len(got)].kind = "end"
    <3>1. Len(got) \in 1 .. Len(disk) /\ Len(got) \in 1 .. Len(got)
      BY <1>1, <1>2, <2>2
    <3>2. Output(s)[Len(got)].kind = "end" /\ Len(got) \in DOMAIN Output(s)
      BY <1>1, <1>2, <1>4, <2>2, <3>1
    <3>3. Len(got) = Len(Output(s))
      BY <1>4, <3>2
    <3> QED BY <1>1, <1>2, <1>4, <3>3
  <2> QED BY <2>1, <2>2 DEF AtEnd, Got
<1>6. got = disk
  BY <1>1, <1>2, <1>5
<1> QED BY <1>6 DEF Got

\* A load that fails is in the right: the gate or the engine refuses the rules
\* of a file that is there in full.
LEMMA RefusalJudged ==
  ASSUME TypeOK, DiskInv, NEW r \in Loads, LoadInv(r), AtEnd(r),
         \/ loads[r].pc = "gate" /\ Diagnosis(r) # "none"
         \/ loads[r].pc = "load" /\ FileLoader(Got(r)).err # "none",
         NEW load, load.pc = "failed", load.held = whole, load.made = {},
         load.quiet = loads[r].quiet, load.boot = loads[r].boot
  PROVE  Judged(load)
<1> SUFFICES ASSUME load.quiet, NEW s \in whole
             PROVE  ~(Passes(s, load) /\ Expected(s).err = "none")
  BY DEF Judged
<1>1. r \in Reading
  BY DEF Reading
<1>2. Got(r) = disk
  BY <1>1, QuietReadsAll
<1>3. s \in Sources /\ Writes(s) /\ disk = Output(s)
  BY DiskOfRun
<1>4. CASE loads[r].pc = "gate" /\ Diagnosis(r) # "none"
  <2>1. GateWired /\ (load.boot => DiagnoseOn)
    BY <1>4 DEF LoadInv
  <2>2. DiagnoseFile(s.csv) # "none"
    BY <1>2, <1>3, <1>4, <2>1, GateAgrees DEF Diagnosis
  <2> QED BY <2>1, <2>2 DEF Passes
<1>5. CASE loads[r].pc = "load" /\ FileLoader(Got(r)).err # "none"
  BY <1>2, <1>3, <1>5, LoaderAgrees
<1> QED BY <1>4, <1>5

\* A load that installs is in the right as well.
LEMMA InstallJudged ==
  ASSUME TypeOK, DiskInv, NEW r \in Loads, LoadInv(r), AtEnd(r),
         loads[r].pc = "load", FileLoader(Got(r)).err = "none",
         NEW load, load.pc = "installed", load.held = whole,
         load.made = {FileLoader(Got(r)).decider},
         load.quiet = loads[r].quiet, load.boot = loads[r].boot
  PROVE  Judged(load)
<1> SUFFICES ASSUME load.quiet
             PROVE  /\ \A s \in whole : /\ Passes(s, load) /\ Expected(s).err = "none"
                                        /\ Alike(FileLoader(Got(r)).decider, Expected(s).decider)
                    /\ ~(mode = "snapshot" /\ whole = {})
  BY DEF Judged
<1>1. r \in Reading
  BY DEF Reading
<1>2. Got(r) = disk
  BY <1>1, QuietReadsAll
<1>3. ASSUME NEW s \in whole
      PROVE  /\ Passes(s, load) /\ Expected(s).err = "none"
             /\ Alike(FileLoader(Got(r)).decider, Expected(s).decider)
  <2>1. s \in Sources /\ Writes(s) /\ disk = Output(s)
    BY DiskOfRun
  <2>2. Expected(s).err = "none" /\ Alike(FileLoader(Got(r)).decider, Expected(s).decider)
    BY <1>2, <2>1, LoaderAgrees
  <2>3. Passes(s, load)
    <3> SUFFICES ASSUME GateWired, load.boot => DiagnoseOn PROVE DiagnoseFile(s.csv) = "none"
      BY DEF Passes
    <3>1. DiagnoseFile(ParseCsv(disk)) = "none"
      BY <1>1 DEF LoadInv
    <3> QED BY <2>1, <3>1, GateAgrees
  <2> QED BY <2>2, <2>3
<1>4. ~(mode = "snapshot" /\ whole = {})
  BY <1>2, ShortDiskRefused DEF GateWired
<1> QED BY <1>3, <1>4


-----------------------------------------------------------------------------
(* The steps.                                                              *)

LEMMA InitRuleFileInv ==
  ASSUME Init
  PROVE  RuleFileInv /\ WholeFileLoads
<1>1. PICK s \in Sources : Writes(s) /\ disk = Output(s) /\ whole = {s}
  BY DEF Init
<1>2. disk \in Seq(Pieces) /\ Len(disk) \in Nat
  BY <1>1, OutputType
<1>3. Cardinality({s}) = 1 /\ Cardinality({}) = 0
  BY FS_Singleton, FS_EmptySet
<1>4. TypeOK
  <2>1. loads \in [Loads -> [pc: {"idle", "gate", "load", "installed", "failed", "cut"},
                             boot: BOOLEAN, got: Seq(Pieces), quiet: BOOLEAN,
                             held: SUBSET Sources, made: SUBSET Deciders]]
    <3>1. <<>> \in Seq(Pieces)
      OBVIOUS
    <3> QED BY <3>1 DEF Init, Idle
  <2>2. mode \in Modes /\ writer = NoRun /\ runs = 0 /\ crashes = 0 /\ installed = {}
    BY DEF Init
  <2>3. whole \subseteq Sources /\ Cardinality(whole) <= 1 /\ Cardinality(installed) <= 1
    BY <1>1, <1>3, <2>2
  <2>4. runs \in 0 .. MaxRuns /\ crashes \in 0 .. MaxCrashes
    BY <2>2, RuleFileAssumption
  <2> QED BY <1>2, <2>1, <2>2, <2>3, <2>4 DEF TypeOK
<1>5. EveryFactorWasWritten
  BY DEF Init, EveryFactorWasWritten
<1>6. DiskInv
  <2>1. Begins(disk, Output(s))
    BY <1>1, <1>2 DEF Begins
  <2> QED BY <1>1, <2>1 DEF DiskInv
<1>7. WriterInv
  BY DEF Init, NoRun, WriterInv
<1>8. \A r \in Loads : LoadInv(r)
  BY DEF Init, Idle, LoadInv, FromRuns, Reading
<1>9. WholeFileLoads
  BY DEF Init, Idle, WholeFileLoads, Undisturbed
<1> QED BY <1>4, <1>5, <1>6, <1>7, <1>8, <1>9 DEF RuleFileInv

\* What the flags say does not change, and with it what a run writes.
LEMMA SameMode ==
  ASSUME mode' = mode
  PROVE  /\ GateWired' = GateWired /\ Outputs' = Outputs
         /\ \A s : Output(s)' = Output(s) /\ Writes(s)' = Writes(s)
<1>1. GateWired' = GateWired
  BY DEF GateWired
<1>2. \A s : Output(s)' = Output(s) /\ Writes(s)' = Writes(s)
  BY <1>1 DEF Output, Writes
<1>3. Outputs' = Outputs
  BY <1>2 DEF Outputs
<1> QED BY <1>1, <1>2, <1>3

\* A load stays what it is while the file does.
LEMMA LoadKept ==
  ASSUME NEW r \in Loads, LoadInv(r), mode' = mode, disk' = disk, loads'[r] = loads[r]
  PROVE  LoadInv(r)'
<1>1. GateWired' = GateWired /\ Outputs' = Outputs
  BY SameMode
<1>2. (r \in Reading)' <=> r \in Reading
  BY DEF Reading
<1>3. FromRuns(loads[r].got)' <=> FromRuns(loads[r].got)
  BY <1>1 DEF FromRuns
<1> QED BY <1>1, <1>2, <1>3 DEF LoadInv

\* What a load came to is judged alike before and after a step.
LEMMA JudgedKept ==
  ASSUME NEW r \in Loads, NEW load, Judged(load), mode' = mode, loads'[r] = load
  PROVE  Judged(loads[r])'
<1>1. GateWired' = GateWired
  BY DEF GateWired
<1> QED BY <1>1 DEF Judged, Passes, Expected

\* A write leaves a load with what runs have written, and alone with its end.
LEMMA LoadDisturbed ==
  ASSUME NEW r \in Loads, LoadInv(r), Judged(loads[r]), mode' = mode, Disturb, TypeOK
  PROVE  LoadInv(r)' /\ Judged(loads[r])'
<1>1. GateWired' = GateWired /\ Outputs' = Outputs
  BY SameMode
<1>2. loads'[r] = IF loads[r].pc \in {"gate", "load"} THEN [loads[r] EXCEPT !.quiet = FALSE]
                                                      ELSE loads[r]
  BY DEF Disturb
<1>3. CASE loads[r].pc \in {"gate", "load"}
  <2>1. /\ loads'[r].pc = loads[r].pc /\ loads'[r].got = loads[r].got
        /\ loads'[r].boot = loads[r].boot /\ loads'[r].quiet = FALSE
    BY <1>2, <1>3 DEF TypeOK
  <2>2. FromRuns(loads[r].got)'
    BY <1>1, <2>1 DEF FromRuns, LoadInv
  <2>3. LoadInv(r)'
    BY <1>1, <1>3, <2>1, <2>2 DEF LoadInv
  <2>4. Judged(loads[r])'
    BY <2>1 DEF Judged
  <2> QED BY <2>3, <2>4
<1>4. CASE loads[r].pc \notin {"gate", "load"}
  <2>1. loads'[r] = loads[r]
    BY <1>2, <1>4
  <2>2. FromRuns(loads[r].got)'
    BY <1>1, <2>1 DEF FromRuns, LoadInv
  <2>3. LoadInv(r)'
    <3>1. ~(r \in Reading)'
      BY <1>4, <2>1 DEF Reading
    <3> QED BY <1>1, <1>4, <2>1, <2>2, <3>1 DEF LoadInv
  <2> QED BY <2>1, <2>3, JudgedKept
<1> QED BY <1>3, <1>4


\* The factors of what is served stay written.
LEMMA FactorsKept ==
  ASSUME EveryFactorWasWritten, mode' = mode, installed' \subseteq installed
  PROVE  EveryFactorWasWritten'
<1>1. \A s : Writes(s)' = Writes(s)
  BY SameMode
<1> QED BY <1>1 DEF EveryFactorWasWritten

\* The file and its writer stay what they are.
LEMMA FileKept ==
  ASSUME DiskInv, WriterInv, UNCHANGED <<mode, disk, whole, writer>>
  PROVE  DiskInv' /\ WriterInv'
<1>1. \A s : Output(s)' = Output(s) /\ Writes(s)' = Writes(s)
  BY SameMode
<1> QED BY <1>1 DEF DiskInv, WriterInv

Load == [pc: {"idle", "gate", "load", "installed", "failed", "cut"},
         boot: BOOLEAN, got: Seq(Pieces), quiet: BOOLEAN,
         held: SUBSET Sources, made: SUBSET Deciders]

\* LoadInv, of one load.
LoadFine(load) ==
  /\ FromRuns(load.got)
  /\ load.pc = "idle" => load.got = <<>>
  /\ load.pc = "gate" => GateWired /\ (load.boot => DiagnoseOn)
  /\ load.pc \in {"gate", "load"} /\ load.quiet =>
       /\ Begins(load.got, disk)
       /\ load.pc = "load" /\ GateWired /\ (load.boot => DiagnoseOn)
            => DiagnoseFile(ParseCsv(disk)) = "none"

\* A step of one load.
LEMMA LoadStep ==
  ASSUME RuleFileInv, WholeFileLoads, NEW r \in Loads, NEW load \in Load,
         UNCHANGED <<mode, disk, whole, writer, runs, crashes>>,
         loads' = [loads EXCEPT ![r] = load], LoadFine(load), Judged(load),
         installed' = installed
           \/ \E d \in Deciders : installed' = {d} /\ FactorsWereWritten(d)
  PROVE  RuleFileInv' /\ WholeFileLoads'
<1> USE DEF RuleFileInv
<1>1. GateWired' = GateWired /\ Outputs' = Outputs /\ \A s : Writes(s)' = Writes(s)
  BY SameMode
<1>2. DiskInv' /\ WriterInv'
  BY FileKept
<1>3. EveryFactorWasWritten'
  <2>1. CASE installed' = installed
    BY <2>1, FactorsKept
  <2>2. CASE \E d \in Deciders : installed' = {d} /\ FactorsWereWritten(d)
    BY <1>1, <2>2 DEF EveryFactorWasWritten, FactorsWereWritten
  <2> QED BY <2>1, <2>2
<1>4. loads \in [Loads -> Load]
  BY DEF TypeOK, Load
<1>5. TypeOK'
  <2>1. loads' \in [Loads -> Load]
    BY <1>4
  <2>2. installed' \subseteq Deciders /\ Cardinality(installed') <= 1
    <3>1. CASE installed' = installed
      BY <3>1 DEF TypeOK
    <3>2. CASE \E d \in Deciders : installed' = {d}
      BY <3>2, FS_Singleton
    <3> QED BY <3>1, <3>2
  <2> QED BY <2>1, <2>2 DEF TypeOK, Load
<1>6. ASSUME NEW q \in Loads PROVE LoadInv(q)' /\ Judged(loads[q])'
  <2>1. CASE q = r
    <3>1. loads'[q] = load
      BY <1>4, <2>1
    <3>2. FromRuns(loads[q].got)'
      BY <1>1, <3>1 DEF FromRuns, LoadFine
    <3>3. LoadInv(q)'
      BY <1>1, <3>1, <3>2 DEF LoadInv, LoadFine, Reading
    <3> QED BY <3>1, <3>3, JudgedKept
  <2>2. CASE q # r
    <3>1. loads'[q] = loads[q]
      BY <1>4, <2>2
    <3>2. Judged(loads[q])
      BY DEF WholeFileLoads, Undisturbed, Judged
    <3> QED BY <3>1, <3>2, LoadKept, JudgedKept
  <2> QED BY <2>1, <2>2
<1>7. WholeFileLoads'
  BY <1>6 DEF WholeFileLoads, Undisturbed, Judged
<1> QED BY <1>2, <1>3, <1>5, <1>6, <1>7

\* A step of the writer, as far as it does not touch the writer's own part.
LEMMA WriterStep ==
  ASSUME RuleFileInv, WholeFileLoads, UNCHANGED <<mode, installed, crashes>>,
         Disturb \/ UNCHANGED <<disk, whole, loads>>,
         disk' \in Seq(Pieces), whole' \subseteq Sources, Cardinality(whole') <= 1,
         \/ writer' = NoRun
         \/ writer' \in [pc: {"build", "create", "encode", "write"}, src: Sources,
                         todo: Seq(Pieces)],
         runs' \in 0 .. MaxRuns, DiskInv', WriterInv'
  PROVE  RuleFileInv' /\ WholeFileLoads'
<1> USE DEF RuleFileInv
<1>1. EveryFactorWasWritten'
  BY FactorsKept
<1>2. loads \in [Loads -> Load]
  BY DEF TypeOK, Load
<1>3. loads' \in [Loads -> Load]
  <2>1. CASE Disturb
    <3>1. \A r \in Loads : [loads[r] EXCEPT !.quiet = FALSE] \in Load /\ loads[r] \in Load
      BY <1>2 DEF Load
    <3> QED BY <2>1, <3>1 DEF Disturb
  <2>2. CASE UNCHANGED loads
    BY <1>2, <2>2
  <2> QED BY <2>1, <2>2
<1>4. TypeOK'
  BY <1>3 DEF TypeOK, Load
<1>5. ASSUME NEW r \in Loads PROVE LoadInv(r)' /\ Judged(loads[r])'
  <2>1. Judged(loads[r])
    BY DEF WholeFileLoads, Undisturbed, Judged
  <2>2. CASE Disturb
    BY <2>1, <2>2, LoadDisturbed
  <2>3. CASE UNCHANGED <<disk, whole, loads>>
    BY <2>1, <2>3, LoadKept, JudgedKept
  <2> QED BY <2>2, <2>3
<1>6. WholeFileLoads'
  BY <1>5 DEF WholeFileLoads, Undisturbed, Judged
<1> QED BY <1>1, <1>4, <1>5, <1>6

\* Two sequences with the same elements are one.
LEMMA SameSequence ==
  ASSUME NEW S, NEW s \in Seq(S), NEW t \in Seq(S), Len(s) = Len(t),
         \A i \in 1 .. Len(t) : s[i] = t[i]
  PROVE  s = t
<1>1. s = [i \in 1 .. Len(s) |-> s[i]]
  OBVIOUS
<1>2. t = [i \in 1 .. Len(t) |-> t[i]]
  OBVIOUS
<1>3. [i \in 1 .. Len(t) |-> s[i]] = [i \in 1 .. Len(t) |-> t[i]]
  OBVIOUS
<1> QED BY <1>1, <1>2, <1>3, Zenon

\* A sequence that continues another.
Joins(S, d, t, out) == d \in Seq(S) /\ t \in Seq(S) /\ out = d \o t

LEMMA Joined ==
  ASSUME NEW S, NEW d, NEW t, NEW out, Joins(S, d, t, out)
  PROVE  /\ out \in Seq(S) /\ Len(out) = Len(d) + Len(t)
         /\ \A i \in 1 .. Len(d) : out[i] = d[i]
         /\ \A i \in Len(d) + 1 .. Len(out) : out[i] = t[i - Len(d)]
<1>0. d \in Seq(S) /\ t \in Seq(S) /\ out = d \o t
  BY DEF Joins
<1>1. d \o t \in Seq(S)
  BY <1>0
<1>2. Len(d \o t) = Len(d) + Len(t)
  BY <1>0
<1>3. \A i \in 1 .. Len(d) : (d \o t)[i] = d[i]
  BY <1>0
<1>4. \A i \in Len(d) + 1 .. Len(d) + Len(t) : (d \o t)[i] = t[i - Len(d)]
  BY <1>0
<1> QED BY <1>0, <1>1, <1>2, <1>3, <1>4

\* A piece that goes from what is to be written to the file leaves their
\* sequence as it is.
Moves(S, d, t, out, e, u) ==
  Joins(S, d, t, out) /\ t # <<>> /\ e = Append(d, Head(t)) /\ u = Tail(t)

LEMMA MovePiece ==
  ASSUME NEW S, NEW d, NEW t, NEW out, NEW e, NEW u, Moves(S, d, t, out, e, u)
  PROVE  /\ e \in Seq(S) /\ u \in Seq(S) /\ e \o u = out
         /\ Begins(e, out) /\ (u = <<>> <=> Len(e) = Len(out))
<1>0. d \in Seq(S) /\ t \in Seq(S) /\ Joins(S, d, t, out)
  BY DEF Joins, Moves
<1>1. Len(t) \in Nat /\ Len(t) >= 1 /\ Len(d) \in Nat
  BY <1>0 DEF Moves
<1>2. Head(t) = t[1] /\ t[1] \in S
  BY <1>0, <1>1
<1>3. e \in Seq(S) /\ Len(e) = Len(d) + 1 /\ e[Len(d) + 1] = t[1]
      /\ \A i \in 1 .. Len(d) : e[i] = d[i]
  BY <1>0, <1>2 DEF Moves
<1>4. u \in Seq(S) /\ Len(u) = Len(t) - 1 /\ \A i \in 1 .. Len(t) - 1 : u[i] = t[i + 1]
  BY <1>0, <1>1 DEF Moves
<1> DEFINE v == e \o u
<1>5. /\ out \in Seq(S) /\ Len(out) = Len(d) + Len(t)
      /\ \A i \in 1 .. Len(d) : out[i] = d[i]
      /\ \A i \in Len(d) + 1 .. Len(out) : out[i] = t[i - Len(d)]
  BY <1>0, Joined
<1>6. /\ v \in Seq(S) /\ Len(v) = Len(e) + Len(u)
      /\ \A i \in 1 .. Len(e) : v[i] = e[i]
      /\ \A i \in Len(e) + 1 .. Len(v) : v[i] = u[i - Len(e)]
  <2>1. Joins(S, e, u, v)
    BY <1>3, <1>4 DEF Joins
  <2> HIDE DEF v
  <2> QED BY <2>1, Joined
<1> HIDE DEF v
<1>7. ASSUME NEW i \in 1 .. Len(e) PROVE e[i] = out[i]
  <2>1. CASE i <= Len(d)
    BY <1>1, <1>3, <1>5, <2>1
  <2>2. CASE i = Len(d) + 1
    <3>1. i \in Len(d) + 1 .. Len(out) /\ i - Len(d) = 1
      BY <1>1, <1>5, <2>2
    <3>2. out[i] = t[i - Len(d)]
      BY <1>5, <3>1
    <3> QED BY <1>3, <2>2, <3>1, <3>2
  <2> QED BY <1>1, <1>3, <2>1, <2>2
<1>8. Len(v) = Len(out) /\ Len(e) \in Nat /\ Len(out) \in Nat
  BY <1>1, <1>3, <1>4, <1>5, <1>6
<1>9. ASSUME NEW i \in 1 .. Len(out) PROVE v[i] = out[i]
  <2>1. CASE i <= Len(e)
    BY <1>3, <1>6, <1>7, <2>1
  <2>2. CASE i > Len(e)
    <3>1. i \in Len(e) + 1 .. Len(v) /\ i \in Len(d) + 1 .. Len(out)
      BY <1>1, <1>3, <1>8, <2>2
    <3>2. v[i] = u[i - Len(e)] /\ out[i] = t[i - Len(d)]
      BY <1>5, <1>6, <3>1
    <3>3. i - Len(e) \in 1 .. Len(t) - 1 /\ (i - Len(e)) + 1 = i - Len(d)
      BY <1>1, <1>3, <1>5, <3>1
    <3>4. u[i - Len(e)] = t[(i - Len(e)) + 1]
      BY <1>4, <3>3
    <3> QED BY <3>2, <3>3, <3>4
  <2> QED BY <1>8, <2>1, <2>2
<1>10. v = out
  <2>1. v \in Seq(S) /\ out \in Seq(S) /\ Len(v) = Len(out)
        /\ \A i \in 1 .. Len(out) : v[i] = out[i]
    BY <1>5, <1>6, <1>8, <1>9
  <2> QED BY <2>1, SameSequence, Zenon
<1>11. Begins(e, out)
  BY <1>1, <1>3, <1>5, <1>7 DEF Begins
<1>12. u = <<>> <=> Len(e) = Len(out)
  BY <1>1, <1>3, <1>4, <1>5
<1> QED BY <1>3, <1>4, <1>10, <1>11, <1>12 DEF v

\* Every step of the writer.
LEMMA WriterKeeps ==
  ASSUME RuleFileInv, WholeFileLoads, Writer
  PROVE  RuleFileInv' /\ WholeFileLoads'
<1> USE DEF RuleFileInv
<1> DEFINE Run == [pc: {"build", "create", "encode", "write"}, src: Sources, todo: Seq(Pieces)]
<1>1. /\ mode \in Modes /\ disk \in Seq(Pieces) /\ Len(disk) \in Nat
      /\ whole \subseteq Sources /\ Cardinality(whole) <= 1
      /\ writer = NoRun \/ writer \in Run
      /\ runs \in 0 .. MaxRuns
  BY DEF TypeOK
<1>2. writer.pc # "idle" => writer \in Run
  BY <1>1 DEF NoRun
<1>3. ASSUME StartRun PROVE RuleFileInv' /\ WholeFileLoads'
  <2>1. UNCHANGED <<mode, disk, whole, installed, loads, crashes>> /\ runs' \in 0 .. MaxRuns
    BY <1>1, <1>3, RuleFileAssumption DEF StartRun, server
  <2>2. PICK s \in Sources : writer' = [pc |-> IF GateWired THEN "create" ELSE "build",
                                        src |-> s, todo |-> <<>>]
    BY <1>3 DEF StartRun
  <2>3. <<>> \in Seq(Pieces)
    OBVIOUS
  <2>4. writer' \in Run /\ writer'.pc \in {"create", "build"}
    BY <2>2, <2>3
  <2>5. WriterInv'
    BY <2>4 DEF WriterInv
  <2>6. \A t : Output(t)' = Output(t) /\ Writes(t)' = Writes(t)
    BY <2>1, SameMode
  <2>7. DiskInv'
    BY <2>1, <2>6 DEF DiskInv
  <2> QED BY <1>1, <2>1, <2>4, <2>5, <2>7, WriterStep
<1>4. ASSUME RunEnds PROVE RuleFileInv' /\ WholeFileLoads'
  <2>1. UNCHANGED <<mode, disk, whole, installed, loads, crashes, runs>> /\ writer' = NoRun
    BY <1>4 DEF RunEnds, server
  <2>2. WriterInv'
    BY <2>1 DEF WriterInv, NoRun
  <2>3. \A s : Output(s)' = Output(s) /\ Writes(s)' = Writes(s)
    BY <2>1, SameMode
  <2>4. DiskInv'
    BY <2>1, <2>3 DEF DiskInv
  <2> QED BY <1>1, <2>1, <2>2, <2>4, WriterStep
<1>5. ASSUME BuildSnapshot PROVE RuleFileInv' /\ WholeFileLoads'
  <2>1. UNCHANGED <<mode, disk, whole, installed, loads, crashes, runs>>
        /\ writer.pc = "build" /\ writer' = [writer EXCEPT !.pc = "create"]
    BY <1>5 DEF BuildSnapshot, server
  <2>2. writer' \in Run /\ writer'.pc = "create"
    BY <1>2, <2>1
  <2>3. WriterInv'
    BY <2>2 DEF WriterInv
  <2>4. \A s : Output(s)' = Output(s) /\ Writes(s)' = Writes(s)
    BY <2>1, SameMode
  <2>5. DiskInv'
    BY <2>1, <2>4 DEF DiskInv
  <2> QED BY <1>1, <2>1, <2>2, <2>3, <2>5, WriterStep
<1>6. ASSUME Create PROVE RuleFileInv' /\ WholeFileLoads'
  <2>1. UNCHANGED <<mode, installed, crashes, runs>> /\ Disturb
        /\ disk' = <<>> /\ whole' = {}
        /\ writer.pc = "create" /\ writer' = [writer EXCEPT !.pc = "encode"]
    BY <1>6 DEF Create
  <2>2. writer' \in Run /\ writer'.pc = "encode"
    BY <1>2, <2>1
  <2>3. WriterInv'
    BY <2>1, <2>2 DEF WriterInv
  <2>4. \A s : Output(s)' = Output(s) /\ Writes(s)' = Writes(s)
    BY <2>1, SameMode
  <2>5. PICK s \in Sources : Writes(s)
    BY DEF DiskInv
  <2>6. Len(Output(s)) \in Nat /\ Len(Output(s)) >= 1
    BY <2>5, OutputType
  <2>7. Begins(<<>>, Output(s)) /\ Len(<<>>) # Len(Output(s))
    BY <2>6 DEF Begins
  <2>8. DiskInv'
    BY <2>1, <2>4, <2>5, <2>7 DEF DiskInv
  <2>9. disk' \in Seq(Pieces) /\ whole' \subseteq Sources /\ Cardinality(whole') <= 1
    BY <2>1, FS_EmptySet
  <2> QED BY <1>1, <2>1, <2>2, <2>3, <2>8, <2>9, WriterStep
<1>7. ASSUME Encode PROVE RuleFileInv' /\ WholeFileLoads'
  <2> DEFINE src == writer.src
  <2>1. UNCHANGED <<mode, disk, whole, installed, loads, crashes, runs>>
        /\ writer.pc = "encode" /\ Writes(src)
        /\ writer' = [writer EXCEPT !.pc = "write", !.todo = Output(src)]
    BY <1>7 DEF Encode, server
  <2>2. src \in Sources /\ writer \in Run
    BY <1>2, <2>1
  <2>3. Output(src) \in Seq(Pieces) /\ Len(Output(src)) >= 1
    BY <2>1, <2>2, OutputType
  <2>4. /\ writer' \in Run /\ writer'.pc = "write" /\ writer'.src = src
        /\ writer'.todo = Output(src)
    BY <2>1, <2>2, <2>3
  <2>5. disk = <<>> /\ whole = {}
    BY <2>1 DEF WriterInv
  <2>6. disk \o Output(src) = Output(src) /\ Output(src) # <<>>
    BY <2>3, <2>5
  <2>7. \A s : Output(s)' = Output(s) /\ Writes(s)' = Writes(s)
    BY <2>1, SameMode
  <2> HIDE DEF src
  <2>8. WriterInv'
    BY <2>1, <2>4, <2>5, <2>6, <2>7 DEF WriterInv
  <2>9. DiskInv'
    BY <2>1, <2>7 DEF DiskInv
  <2> QED BY <1>1, <2>1, <2>4, <2>8, <2>9, WriterStep
<1>8. ASSUME WritePiece PROVE RuleFileInv' /\ WholeFileLoads'
  <2> DEFINE src == writer.src
             todo == writer.todo
             rest == Tail(todo)
             more == Append(disk, Head(todo))
  <2>1. /\ UNCHANGED <<mode, installed, crashes, runs>> /\ Disturb
        /\ writer.pc = "write" /\ todo # <<>>
        /\ disk' = more /\ whole' = IF rest = <<>> THEN {src} ELSE {}
        /\ writer' = [writer EXCEPT !.todo = rest]
    BY <1>8 DEF WritePiece
  <2>2. writer \in Run /\ src \in Sources /\ todo \in Seq(Pieces)
    BY <1>2, <2>1
  <2>3. Writes(src) /\ Output(src) = disk \o todo
    BY <2>1 DEF WriterInv
  <2>4. /\ more \in Seq(Pieces) /\ rest \in Seq(Pieces) /\ more \o rest = Output(src)
        /\ Begins(more, Output(src)) /\ (rest = <<>> <=> Len(more) = Len(Output(src)))
    <3>1. Moves(Pieces, disk, todo, Output(src), more, rest)
      BY <1>1, <2>1, <2>2, <2>3 DEF Joins, Moves
    <3> HIDE DEF more, rest, todo, src
    <3> QED BY <3>1, MovePiece
  <2>5. \A s : Output(s)' = Output(s) /\ Writes(s)' = Writes(s)
    BY <2>1, SameMode
  <2> HIDE DEF rest, more
  <2>6. writer' \in Run /\ writer'.pc = "write" /\ writer'.src = src /\ writer'.todo = rest
    BY <2>1, <2>2, <2>4
  <2>7. whole' \subseteq Sources /\ Cardinality(whole') <= 1
    <3>1. Cardinality({src}) = 1 /\ Cardinality({}) = 0
      BY FS_EmptySet, FS_Singleton
    <3> QED BY <2>1, <2>2, <3>1
  <2> HIDE DEF src, todo
  <2>8. WriterInv'
    BY <2>1, <2>3, <2>4, <2>5, <2>6 DEF WriterInv
  <2>9. DiskInv'
    BY <2>1, <2>2, <2>3, <2>4, <2>5 DEF DiskInv
  <2> QED BY <1>1, <2>1, <2>4, <2>6, <2>7, <2>8, <2>9, WriterStep
<1> QED
  BY <1>3, <1>4, <1>5, <1>6, <1>7, <1>8
     DEF Writer, BuildFails, EncodeFails, RunFails, RunSucceeds


\* One more piece that a run put where it is read.
LEMMA PieceRead ==
  ASSUME TypeOK, DiskInv, NEW got \in Seq(Pieces), FromRuns(got), Len(got) < Len(disk)
  PROVE  FromRuns(Append(got, disk[Len(got) + 1]))
<1> DEFINE n == Len(got)
           p == disk[n + 1]
           more == Append(got, p)
<1>1. disk \in Seq(Pieces) /\ Len(disk) \in Nat /\ n \in Nat /\ n + 1 \in 1 .. Len(disk)
  BY DEF TypeOK
<1>2. p \in Pieces
  BY <1>1
<1> HIDE DEF p
<1>3. /\ DOMAIN more = 1 .. n + 1 /\ more[n + 1] = p
      /\ \A i \in 1 .. n : more[i] = got[i]
  BY <1>1, <1>2
<1>4. PICK s \in Sources : Writes(s) /\ Begins(disk, Output(s))
  BY DiskOfRun
<1>5. n + 1 \in DOMAIN Output(s) /\ p = Output(s)[n + 1] /\ Output(s) \in Outputs
  <2>1. Len(Output(s)) \in Nat /\ DOMAIN Output(s) = 1 .. Len(Output(s))
    BY <1>4, OutputType
  <2>2. p = Output(s)[n + 1]
    BY <1>1, <1>4 DEF Begins, p
  <2>3. Output(s) \in Outputs
    BY <1>4 DEF Outputs
  <2> QED BY <1>1, <1>4, <2>1, <2>2, <2>3 DEF Begins
<1> HIDE DEF more, n
<1>6. ASSUME NEW i \in DOMAIN more
      PROVE  \E out \in Outputs : i \in DOMAIN out /\ more[i] = out[i]
  <2>1. CASE i = n + 1
    BY <1>3, <1>5, <2>1
  <2>2. CASE i # n + 1
    <3>1. i \in 1 .. n /\ more[i] = got[i]
      BY <1>1, <1>3, <2>2
    <3>2. i \in DOMAIN got
      BY <3>1 DEF n
    <3> QED BY <3>1, <3>2 DEF FromRuns
  <2> QED BY <2>1, <2>2
<1>7. FromRuns(more)
  BY <1>6 DEF FromRuns
<1> QED BY <1>7 DEF more, n, p

\* Every step of one load.
LEMMA LoadKeeps ==
  ASSUME RuleFileInv, WholeFileLoads, NEW r \in Loads,
         \/ StartLoad(r) \/ ReadPiece(r) \/ GateFails(r) \/ GatePasses(r)
         \/ LoadFails(r) \/ Install(r)
  PROVE  RuleFileInv' /\ WholeFileLoads'
<1> USE DEF RuleFileInv
<1> DEFINE me == loads[r]
           load == loads'[r]
<1>1. loads \in [Loads -> Load] /\ me \in Load
  BY DEF TypeOK, Load
<1>2. LoadInv(r) /\ FromRuns(me.got) /\ me.got \in Seq(Pieces)
  BY <1>1 DEF LoadInv, Load
<1>e. FromRuns(<<>>) /\ <<>> \in Seq(Pieces) /\ Begins(<<>>, disk)
  <2>1. Len(disk) \in Nat
    BY DEF TypeOK
  <2> QED BY <2>1 DEF FromRuns, Begins
<1>3. ASSUME StartLoad(r) PROVE RuleFileInv' /\ WholeFileLoads'
  <2> DEFINE boot == installed = {}
             pc == IF GateWired /\ (installed = {} => DiagnoseOn) THEN "gate" ELSE "load"
  <2>1. /\ UNCHANGED <<mode, disk, whole, writer, runs, installed, crashes>>
        /\ loads' = [loads EXCEPT ![r] = [me EXCEPT !.boot = boot, !.pc = pc]]
        /\ me.pc = "idle"
    BY <1>1, <1>3 DEF StartLoad, Load
  <2>2. /\ load \in Load /\ load.got = <<>> /\ load.boot = boot /\ load.pc = pc
        /\ loads' = [loads EXCEPT ![r] = load]
    BY <1>1, <1>2, <2>1 DEF Load, LoadInv
  <2> HIDE DEF load
  <2>3. LoadFine(load)
    BY <1>e, <2>2 DEF LoadFine
  <2>4. Judged(load)
    BY <2>2 DEF Judged
  <2> QED BY <2>1, <2>2, <2>3, <2>4, LoadStep
<1>4. ASSUME ReadPiece(r) PROVE RuleFileInv' /\ WholeFileLoads'
  <2> DEFINE got == Append(me.got, disk[Len(me.got) + 1])
  <2>1. /\ UNCHANGED <<mode, disk, whole, writer, runs, installed, crashes>>
        /\ loads' = [loads EXCEPT ![r] = [me EXCEPT !.got = got]]
        /\ r \in Reading /\ ~(Len(me.got) >= Len(disk))
    BY <1>1, <1>4 DEF ReadPiece, AtEnd, Got, Load
  <2>2. disk \in Seq(Pieces) /\ Len(disk) \in Nat /\ Len(me.got) \in Nat
        /\ Len(me.got) < Len(disk)
    BY <1>2, <2>1 DEF TypeOK
  <2>3. /\ got \in Seq(Pieces) /\ Len(got) = Len(me.got) + 1
        /\ \A i \in 1 .. Len(me.got) : got[i] = me.got[i]
        /\ got[Len(me.got) + 1] = disk[Len(me.got) + 1]
    BY <1>2, <2>2
  <2>4. FromRuns(got)
    BY <1>2, <2>2, PieceRead
  <2> HIDE DEF got
  <2>5. /\ load \in Load /\ load.got = got /\ load.boot = me.boot /\ load.pc = me.pc
        /\ load.quiet = me.quiet /\ loads' = [loads EXCEPT ![r] = load]
    BY <1>1, <2>1, <2>3 DEF Load
  <2>6. Begins(me.got, disk) => Begins(got, disk)
    <3> SUFFICES ASSUME Begins(me.got, disk), NEW i \in DOMAIN got
                 PROVE  Len(got) <= Len(disk) /\ got[i] = disk[i]
      <4>1. Len(got) <= Len(disk)
        BY <2>2, <2>3
      <4> QED BY <4>1 DEF Begins
    <3>1. i \in 1 .. Len(me.got) \/ i = Len(me.got) + 1
      BY <2>2, <2>3
    <3>2. \A j \in 1 .. Len(me.got) : me.got[j] = disk[j]
      BY <1>2 DEF Begins
    <3> QED BY <2>2, <2>3, <3>1, <3>2
  <2>7. load.pc \in {"gate", "load"}
    BY <2>1, <2>5 DEF Reading
  <2> HIDE DEF load
  <2>8. LoadFine(load)
    BY <1>2, <2>1, <2>4, <2>5, <2>6, <2>7 DEF LoadFine, LoadInv
  <2>9. Judged(load)
    BY <2>7 DEF Judged
  <2> QED BY <2>1, <2>5, <2>8, <2>9, LoadStep
<1>5. ASSUME GatePasses(r) PROVE RuleFileInv' /\ WholeFileLoads'
  <2>1. /\ UNCHANGED <<mode, disk, whole, writer, runs, installed, crashes>>
        /\ loads' = [loads EXCEPT ![r] = [me EXCEPT !.pc = "load", !.got = <<>>]]
        /\ me.pc = "gate" /\ AtEnd(r) /\ Diagnosis(r) = "none"
    BY <1>1, <1>5 DEF GatePasses, Load
  <2>2. /\ load \in Load /\ load.got = <<>> /\ load.boot = me.boot /\ load.pc = "load"
        /\ load.quiet = me.quiet /\ loads' = [loads EXCEPT ![r] = load]
    BY <1>1, <1>e, <2>1 DEF Load
  <2>3. me.quiet => DiagnoseFile(ParseCsv(disk)) = "none"
    <3> SUFFICES ASSUME me.quiet PROVE DiagnoseFile(ParseCsv(disk)) = "none"
      OBVIOUS
    <3>1. Got(r) = disk
      BY <1>2, <2>1, QuietReadsAll DEF Reading
    <3> QED BY <2>1, <3>1 DEF Diagnosis
  <2> HIDE DEF load
  <2>4. LoadFine(load)
    BY <1>e, <2>2, <2>3 DEF LoadFine
  <2>5. Judged(load)
    BY <2>2 DEF Judged
  <2> QED BY <2>1, <2>2, <2>4, <2>5, LoadStep
<1>6. ASSUME NEW pc \in {"failed", "installed"}, NEW made \in SUBSET Deciders,
             LoadEnds(r, pc, made)
      PROVE  /\ load \in Load /\ load.pc = pc /\ load.held = whole /\ load.made = made
             /\ load.quiet = me.quiet /\ load.boot = me.boot
             /\ loads' = [loads EXCEPT ![r] = load] /\ LoadFine(load)
  <2>1. loads' = [loads EXCEPT ![r] = [me EXCEPT !.pc = pc, !.got = <<>>, !.held = whole,
                                                 !.made = made]]
    BY <1>1, <1>6 DEF LoadEnds, Load
  <2>2. whole \subseteq Sources
    BY DEF TypeOK
  <2>3. /\ load \in Load /\ load.pc = pc /\ load.held = whole /\ load.made = made
        /\ load.quiet = me.quiet /\ load.boot = me.boot /\ load.got = <<>>
    BY <1>1, <1>e, <2>1, <2>2 DEF Load
  <2>4. loads' = [loads EXCEPT ![r] = load]
    BY <1>1, <2>1
  <2> HIDE DEF load
  <2>5. LoadFine(load)
    BY <1>e, <2>3 DEF LoadFine
  <2> QED BY <2>3, <2>4, <2>5
<1>7. ASSUME GateFails(r) \/ LoadFails(r) PROVE RuleFileInv' /\ WholeFileLoads'
  <2>1. /\ UNCHANGED <<mode, disk, whole, writer, runs, installed, crashes>>
        /\ LoadEnds(r, "failed", {}) /\ AtEnd(r)
        /\ \/ me.pc = "gate" /\ Diagnosis(r) # "none"
           \/ me.pc = "load" /\ FileLoader(Got(r)).err # "none"
    BY <1>7 DEF GateFails, LoadFails, Refuse, AtLoader
  <2>2. /\ load \in Load /\ load.pc = "failed" /\ load.held = whole /\ load.made = {}
        /\ load.quiet = me.quiet /\ load.boot = me.boot
        /\ loads' = [loads EXCEPT ![r] = load] /\ LoadFine(load)
    BY <1>6, <2>1
  <2> HIDE DEF load
  <2>3. Judged(load)
    BY <1>2, <2>1, <2>2, RefusalJudged
  <2> QED BY <2>1, <2>2, <2>3, LoadStep
<1>8. ASSUME Install(r) PROVE RuleFileInv' /\ WholeFileLoads'
  <2> DEFINE d == FileLoader(Got(r)).decider
  <2>1. /\ UNCHANGED <<mode, disk, whole, writer, runs, crashes>>
        /\ LoadEnds(r, "installed", {d}) /\ AtEnd(r) /\ installed' = {d}
        /\ me.pc = "load" /\ FileLoader(Got(r)).err = "none"
    BY <1>8 DEF Install, AtLoader
  <2>2. d \in Deciders /\ FactorsWereWritten(d)
    BY <1>2, <2>1, FileLoaderOK DEF Got
  <2>3. /\ load \in Load /\ load.pc = "installed" /\ load.held = whole /\ load.made = {d}
        /\ load.quiet = me.quiet /\ load.boot = me.boot
        /\ loads' = [loads EXCEPT ![r] = load] /\ LoadFine(load)
    BY <1>6, <2>1, <2>2
  <2> HIDE DEF load
  <2>4. Judged(load)
    BY <1>2, <2>1, <2>3, InstallJudged
  <2> HIDE DEF d
  <2> QED BY <2>1, <2>2, <2>3, <2>4, LoadStep
<1> QED BY <1>3, <1>4, <1>5, <1>7, <1>8

\* A crash.
LEMMA CrashKeeps ==
  ASSUME RuleFileInv, WholeFileLoads, Crash
  PROVE  RuleFileInv' /\ WholeFileLoads'
<1> USE DEF RuleFileInv
<1>1. /\ UNCHANGED <<mode, disk, whole, writer, runs>> /\ installed' = {}
      /\ crashes' \in 0 .. MaxCrashes
      /\ loads' = [r \in Loads |-> IF r \in Reading THEN [Idle EXCEPT !.pc = "cut"]
                                                    ELSE loads[r]]
  BY RuleFileAssumption DEF Crash, TypeOK
<1>2. GateWired' = GateWired /\ Outputs' = Outputs
  BY <1>1, SameMode
<1>3. DiskInv' /\ WriterInv' /\ EveryFactorWasWritten'
  BY <1>1, FileKept, FactorsKept
<1> DEFINE cut == [Idle EXCEPT !.pc = "cut"]
<1>4. cut \in Load /\ cut.pc = "cut" /\ cut.got = <<>>
  <2>1. <<>> \in Seq(Pieces)
    OBVIOUS
  <2> QED BY <2>1 DEF Idle, Load
<1> HIDE DEF cut
<1>5. loads \in [Loads -> Load]
  BY DEF TypeOK, Load
<1>6. loads' \in [Loads -> Load]
  BY <1>1, <1>4, <1>5 DEF cut
<1>7. TypeOK'
  <2>1. installed' \subseteq Deciders /\ Cardinality(installed') <= 1
    BY <1>1, FS_EmptySet
  <2> QED BY <1>1, <1>6, <2>1 DEF TypeOK, Load
<1>8. ASSUME NEW r \in Loads PROVE LoadInv(r)' /\ Judged(loads[r])'
  <2>1. CASE r \in Reading
    <3>1. loads'[r] = cut
      BY <1>1, <2>1 DEF cut
    <3>2. LoadInv(r)'
      BY <1>4, <3>1 DEF LoadInv, FromRuns, Reading
    <3>3. Judged(loads[r])'
      BY <1>4, <3>1 DEF Judged
    <3> QED BY <3>2, <3>3
  <2>2. CASE r \notin Reading
    <3>1. loads'[r] = loads[r]
      BY <1>1, <2>2
    <3>2. Judged(loads[r])
      BY DEF WholeFileLoads, Undisturbed, Judged
    <3> QED BY <1>1, <3>1, <3>2, LoadKept, JudgedKept
  <2> QED BY <2>1, <2>2
<1>9. WholeFileLoads'
  BY <1>8 DEF WholeFileLoads, Undisturbed, Judged
<1> QED BY <1>3, <1>7, <1>8, <1>9

\* Nothing happens.
LEMMA StutterKeeps ==
  ASSUME RuleFileInv, WholeFileLoads, UNCHANGED vars
  PROVE  RuleFileInv' /\ WholeFileLoads'
<1> USE DEF RuleFileInv, vars
<1>1. TypeOK'
  BY DEF TypeOK
<1>2. DiskInv' /\ WriterInv' /\ EveryFactorWasWritten'
  BY FileKept, FactorsKept
<1>3. ASSUME NEW r \in Loads PROVE LoadInv(r)' /\ Judged(loads[r])'
  <2>1. Judged(loads[r])
    BY DEF WholeFileLoads, Undisturbed, Judged
  <2> QED BY <2>1, LoadKept, JudgedKept
<1>4. WholeFileLoads'
  BY <1>3 DEF WholeFileLoads, Undisturbed, Judged
<1> QED BY <1>1, <1>2, <1>3, <1>4

-----------------------------------------------------------------------------
LEMMA StepRuleFileInv ==
  ASSUME RuleFileInv, WholeFileLoads, [Next]_vars
  PROVE  RuleFileInv' /\ WholeFileLoads'
BY WriterKeeps, LoadKeeps, CrashKeeps, StutterKeeps DEF Next

\* However runs of the writer, loads and crashes fall together, the file is the
\* beginning of what one run writes, and no served rule has a factor that no run
\* wrote under its name: never the zero of a map without an entry
\* (LoadIntoIndexedDecider: ErrMissingFactor).
THEOREM RuleFileInvariance == Spec => []RuleFileInv
<1>1. Init => RuleFileInv /\ WholeFileLoads
  BY InitRuleFileInv
<1>2. RuleFileInv /\ WholeFileLoads /\ [Next]_vars => RuleFileInv' /\ WholeFileLoads'
  BY StepRuleFileInv
<1> QED BY <1>1, <1>2, PTL DEF Spec

\* ADR-0007 from end to end: a load of a whole file, boot or reload, installs
\* what the rule list behind it stands for, or fails because the gate or the
\* engine refuses that list; a snapshot that is not whole never loads.
THEOREM WholeFilesLoad == Spec => []WholeFileLoads
<1>1. Init => RuleFileInv /\ WholeFileLoads
  BY InitRuleFileInv
<1>2. RuleFileInv /\ WholeFileLoads /\ [Next]_vars => RuleFileInv' /\ WholeFileLoads'
  BY StepRuleFileInv
<1> QED BY <1>1, <1>2, PTL DEF Spec

=============================================================================
