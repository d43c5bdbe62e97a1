------------------------------ MODULE MCServing ------------------------------
(* Instances of Serving: two requests that differ in country and tier, rule *)
(* files of one or two rules of every class the loaders tell apart.         *)
EXTENDS Serving, TLC

MCFields == {"country", "customer_tier"}
BR == [country |-> "BR", present |-> {"country", "customer_tier"}]
DE == [country |-> "DE", present |-> {"country"}]
MCRequests == {BR, DE}

R(name, on, factor) ==
  [name |-> name, on |-> on, indexable |-> TRUE, factor |-> factor, priority |-> 0]
Parsed(rules) == [opens |-> TRUE, parses |-> TRUE, rules |-> rules]

Low       == <<R("a", {BR, DE}, 12)>>
High      == <<R("a", {BR}, 12), [R("b", {BR}, 30) EXCEPT !.priority = 1]>>
Raised    == <<R("a", {BR}, 30)>>
Twice     == <<R("a", {BR}, 12), R("a", {DE}, 12)>>
Negative  == <<R("a", {BR, DE}, 0)>>
Unnamed   == <<R("", {BR, DE}, 12)>>
NotANumber == <<R("a", {BR}, NaN)>>
Boundless  == <<R("a", {BR}, Inf)>>
Closure   == <<[R("a", {BR}, 12) EXCEPT !.indexable = FALSE]>>

Unreadable == [opens |-> FALSE, parses |-> FALSE, rules |-> <<>>]
Malformed  == [opens |-> TRUE, parses |-> FALSE, rules |-> <<>>]

FileBody == [media |-> "none"]
CsvOf(rules) == [media |-> "csv", content |-> Parsed(rules)]
JsonOf(snap) == [media |-> "json", content |-> snap]

\* Reload run: every outcome of the gate and of the loader.
ReloadFiles  == {Parsed(Low), Parsed(High), Parsed(Negative), Parsed(Unnamed),
                 Unreadable, Malformed}
ReloadBodies == {FileBody, CsvOf(High)}

Range(min, max) == [NoConfig EXCEPT !.factorRange = {[min |-> min, max |-> max]}]
Tight   == Range(5, 20)
Wide    == [Range(5, 40) EXCEPT !.fields = {{"customer_tier"}}]
Inverted == Range(20, 5)
Local   == [NoConfig EXCEPT !.countries = {{"BR"}}]
PostedConfigs == {Wide, Inverted, Local}

\* and every outcome of the body path, under the indexed adapter.
GoodSnap   == Build(High, "v2")
NoEngine   == [GoodSnap EXCEPT !.hasEngine = FALSE]
NoFactor   == [GoodSnap EXCEPT !.factors["b"] = {}]
OldVersion == [GoodSnap EXCEPT !.version = 0]
Garbled    == [GoodSnap EXCEPT !.decodes = FALSE]
EveryBody ==
  {[media |-> "oversize"], [media |-> "broken"], FileBody,
   CsvOf(High), CsvOf(Negative), CsvOf(<<>>), CsvOf(Twice), CsvOf(Unnamed), CsvOf(Closure),
   [media |-> "csv", content |-> Malformed],
   JsonOf(GoodSnap), JsonOf(NoEngine), JsonOf(NoFactor), JsonOf(OldVersion), JsonOf(Garbled)}

\* Guardrails run: a snapshot file without a gate, and a reload, from the
\* file or from a body, that raises the factor, lifts it beyond every bound or
\* makes it no number.
GuardrailsFiles  == {Build(Low, "v1")}
GuardrailsBodies == {FileBody, CsvOf(Raised), CsvOf(Boundless), CsvOf(NotANumber)}

\* Requests of a kind are interchangeable.
Alike == Permutations(Calls) \cup Permutations(Reloads) \cup Permutations(Posts)
=============================================================================
