------------------------------ MODULE RuleSets ------------------------------
(***************************************************************************)
(* What a rule set is, how it is read (CSV, snapshot), diagnosed, built    *)
(* into an engine, and what the engine answers.  Only constant operators:  *)
(* the state machines that install and serve rule sets extend this module. *)
(*                                                                         *)
(* A condition is the set of requests it accepts; whether the indexed      *)
(* engine can bucket it is a flag beside it.  A markup factor is an        *)
(* integer number of tenths (10 is "1.0"), or what else ParseFloat reads:  *)
(* an infinity, or NaN, which every Go comparison answers with false.      *)
(***************************************************************************)
EXTENDS Integers, Sequences, FiniteSets

CONSTANTS
  Requests,   \* the markup.Request values in play: records with the field
              \* country and the set present of the fields that are not ""
  RuleNames,  \* the strings a rule can be named, "" among them
  Models,     \* model version tags
  NaN,        \* the float that is no number
  Inf, NegInf \* and those beyond every number

ASSUME FloatsAssumption ==
  /\ NaN \notin Int /\ Inf \notin Int /\ NegInf \notin Int
  /\ NaN # Inf /\ NaN # NegInf /\ Inf # NegInf

Adapters == {"inmemory", "firstmatch", "priority", "indexed"}
NoName == ""

Factor == Int \cup {NaN, Inf, NegInf}

\* The < of Go's floats.
Less(x, y) ==
  /\ NaN \notin {x, y} /\ x # y
  /\ x = NegInf \/ y = Inf \/ (x \in Int /\ y \in Int /\ x < y)

Rule == [name: RuleNames, on: SUBSET Requests, indexable: BOOLEAN,
         factor: Factor, priority: Int]

-----------------------------------------------------------------------------
(* Diagnose (load/diagnose.go): the issues of severity error.  FromCSV     *)
(* never yields a nil condition, so that issue cannot arise here.          *)

DistinctNames(rules) ==
  \A i, j \in DOMAIN rules : i # j => rules[i].name # rules[j].name

\* Diagnosis.IsHealthy: a factor is an error when factor <= 0 holds in Go.
IsHealthy(rules) ==
  /\ rules # <<>>
  /\ DistinctNames(rules)
  /\ \A i \in DOMAIN rules : rules[i].factor = NaN \/ Less(0, rules[i].factor)

-----------------------------------------------------------------------------
(* Engines.  The four adapters wrap bre-go engines; the library is not in  *)
(* the repository, so which rules AddRule accepts and in which order the   *)
(* engine matches is taken from the adapters' comments, uses and tests.    *)

\* Every AddRule of the adapter's New succeeds.
Accepts(adapter, rules) ==
  /\ DistinctNames(rules)
  /\ \A i \in DOMAIN rules : rules[i].name # NoName
  /\ adapter = "indexed" => \A i \in DOMAIN rules : rules[i].indexable

Deciders == [adapter: Adapters, rules: Seq(Rule), model: Models]

Hits(rules, req) == {i \in DOMAIN rules : req \in rules[i].on}

\* The index of the rule that Decide reports, among the rules that match.
Winner(adapter, rules, hits) ==
  LET best == IF adapter = "priority"
              THEN {i \in hits : \A j \in hits : rules[j].priority <= rules[i].priority}
              ELSE hits
  IN CHOOSE i \in best :
       \A j \in best : IF adapter = "inmemory" THEN j <= i ELSE i <= j

Matched(decider, req) == Hits(decider.rules, req) # {}

\* Decision.MarkupFactor of a decider that matches the request.
FactorOf(decider, req) ==
  LET rules == decider.rules
  IN rules[Winner(decider.adapter, rules, Hits(rules, req))].factor

-----------------------------------------------------------------------------
(* Loading.  A CSV source that opens has, when it parses, a rule list; a   *)
(* snapshot source has, when it decodes, the fields of snapshot.Snapshot.  *)
(* A loader yields an error class ("none", "rejected" for a failed         *)
(* Diagnose, "invalid" for InvalidRuleSetError, "internal" for the rest)   *)
(* and, when there is none, the decider to install.                        *)

Csv == [opens: BOOLEAN, parses: BOOLEAN, rules: Seq(Rule)]

(* A snapshot source holds what snapshot.Snapshot holds: the engine's      *)
(* rules without their actions, and the factors in a map keyed by name     *)
(* (empty where the map has no entry).  JSON spells numbers alone.         *)

FormatVersion == 1
Indexed == [name: RuleNames, on: SUBSET Requests, indexable: BOOLEAN]
Names(rules) == {rules[i].name : i \in DOMAIN rules}

Snapshot == [opens: BOOLEAN, decodes: BOOLEAN, version: Nat, model: Models,
             factors: [RuleNames -> SUBSET Int],
             hasEngine: BOOLEAN, engine: Seq(Indexed)]

\* The error class and, on success, the decider a loader yields.
Failed(err) == [err |-> err]
Loaded(adapter, rules, model) ==
  [err     |-> "none",
   decider |-> [adapter |-> adapter, rules |-> rules, model |-> model]]

BuildDecider(adapter, rules, model) ==
  IF Accepts(adapter, rules) THEN Loaded(adapter, rules, model) ELSE Failed("internal")

RulesLoader(csv, adapter, model) ==
  CASE ~csv.opens               -> Failed("internal")
    [] csv.opens /\ ~csv.parses -> Failed("invalid")
    [] csv.opens /\ csv.parses  -> BuildDecider(adapter, csv.rules, model)

\* Faulty: an unhealthy rule set is only warned about.
DiagnoseFile_Warns(csv) ==
  CASE ~csv.opens -> "internal"
    [] csv.opens  -> IF csv.parses THEN "none" ELSE "invalid"

\* The gate of /admin/reload: what diagnoseFn makes of the rules file.
DiagnoseFile(csv) ==
  CASE ~csv.opens               -> "internal"
    [] csv.opens /\ ~csv.parses -> "invalid"
    [] csv.opens /\ csv.parses  -> IF IsHealthy(csv.rules) THEN "none" ELSE "rejected"

\* snapshot.Build, for rules the indexed engine accepts.
Build(rules, model) ==
  [opens |-> TRUE, decodes |-> TRUE, version |-> FormatVersion, model |-> model,
   factors |-> [n \in RuleNames |->
                  {rules[i].factor : i \in {j \in DOMAIN rules : rules[j].name = n}}],
   hasEngine |-> TRUE,
   engine |-> [i \in DOMAIN rules |->
                 [name |-> rules[i].name, on |-> rules[i].on,
                  indexable |-> rules[i].indexable]]]

\* snapshot.Read: the JSON decodes and carries this binary's version.
Reads(snap) == snap.decodes /\ snap.version = FormatVersion

\* Faulty: a rule without a factor silently gets zero.
LoadIntoIndexedDecider_Zero(snap) ==
  LET rules == [i \in DOMAIN snap.engine |->
                  [name |-> snap.engine[i].name, on |-> snap.engine[i].on,
                   indexable |-> snap.engine[i].indexable,
                   factor |-> IF snap.factors[snap.engine[i].name] = {} THEN 0
                              ELSE CHOOSE f \in snap.factors[snap.engine[i].name] : TRUE,
                   priority |-> 0]]
  IN IF snap.hasEngine THEN BuildDecider("indexed", rules, snap.model) ELSE Failed("internal")

\* LoadIntoIndexedDecider: no engine snapshot, a rule without a factor and a
\* rule the engine refuses are errors.  The priority column was not saved.
LoadIntoIndexedDecider(snap) ==
  LET rules == [i \in DOMAIN snap.engine |->
                  [name |-> snap.engine[i].name, on |-> snap.engine[i].on,
                   indexable |-> snap.engine[i].indexable,
                   factor |-> CHOOSE f \in snap.factors[snap.engine[i].name] : TRUE,
                   priority |-> 0]]
  IN IF snap.hasEngine /\ \A n \in Names(snap.engine) : snap.factors[n] # {}
     THEN BuildDecider("indexed", rules, snap.model)
     ELSE Failed("internal")

\* The --snapshot loader: none of its errors is an InvalidRuleSetError.
SnapshotLoader(snap) ==
  IF snap.opens /\ Reads(snap) THEN LoadIntoIndexedDecider(snap) ELSE Failed("internal")

\* bodyLoader.Load, by media type.
CsvBody(csv, adapter, model) ==
  CASE ~csv.parses -> Failed("invalid")
    [] csv.parses /\ ~IsHealthy(csv.rules) -> Failed("rejected")
    [] csv.parses /\ IsHealthy(csv.rules)  -> BuildDecider(adapter, csv.rules, model)

JsonBody(snap) ==
  IF Reads(snap) THEN LoadIntoIndexedDecider(snap) ELSE Failed("invalid")

=============================================================================
