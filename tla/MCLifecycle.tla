----------------------------- MODULE MCLifecycle -----------------------------
(* Instances of Lifecycle: command lines of every class run() tells apart,  *)
(* and files of every class its gate and loaders do.                        *)
EXTENDS Lifecycle

MCRequests == {[country |-> "BR", present |-> {}]}

R(name, factor) ==
  [name |-> name, on |-> MCRequests, indexable |-> TRUE, factor |-> factor, priority |-> 0]
Parsed(rules) == [opens |-> TRUE, parses |-> TRUE, rules |-> rules]

Good     == <<R("a", 12)>>
Negative == <<R("a", 0)>>
Unnamed  == <<R("", 12)>>

MCCsvFiles == {Parsed(Good), Parsed(Negative), Parsed(Unnamed),
               [opens |-> FALSE, parses |-> FALSE, rules |-> <<>>],
               [opens |-> TRUE, parses |-> FALSE, rules |-> <<>>]}
MCSnapshotFiles == {Build(Good, "v1"), [Build(Good, "v1") EXCEPT !.version = 0]}

Plain == [sources |-> {"rules"}, guardrails |-> TRUE, diagnose |-> "on",
          adapter |-> "inmemory", otel |-> TRUE, sink |-> "s3"]

\* One flag after the other departs from the plain command line.
BootFlags ==
  {[Plain EXCEPT !.sources = s] : s \in SUBSET {"rules", "snapshot", "route"}}
    \cup {[Plain EXCEPT !.diagnose = d] : d \in {"on", "warn", "off", "other"}}
    \cup {[Plain EXCEPT !.adapter = "unknown"], [Plain EXCEPT !.guardrails = FALSE],
          [Plain EXCEPT !.otel = FALSE], [Plain EXCEPT !.sink = ""],
          [Plain EXCEPT !.sink = "unknown"]}

=============================================================================
