---------------------------- MODULE FileFormats ----------------------------
(***************************************************************************)
(* The two formats of a rules file, as sequences of pieces that a write    *)
(* adds and a read takes one at a time.  A piece of a CSV is a row; a      *)
(* piece of a snapshot is a member of its JSON, in the order json.Encode   *)
(* gives them.  Only constant operators: what is written for a rule set,   *)
(* and what a loader makes of the pieces it got, whole or short.           *)
(***************************************************************************)
EXTENDS RuleSets

Pieces == [kind: {"header", "malformed", "engine", "end"}]
            \cup [kind: {"row"}, rule: Rule] \cup [kind: {"rule"}, rule: Indexed]
            \cup [kind: {"head"}, version: {FormatVersion}, model: Models]
            \cup [kind: {"factor"}, name: RuleNames, factor: Int]

CsvPieces(csv) ==
  <<[kind |-> "header"]>>
    \o [i \in DOMAIN csv.rules |-> [kind |-> "row", rule |-> csv.rules[i]]]
    \o IF csv.parses THEN <<>> ELSE <<[kind |-> "malformed"]>>

\* FromCSV: the first row is skipped; no row at all is a rule set as well.
ParseCsv(got) ==
  LET rows == SubSeq(got, 2, Len(got))
  IN IF \E i \in DOMAIN rows : rows[i].kind = "malformed"
     THEN [opens |-> TRUE, parses |-> FALSE, rules |-> <<>>]
     ELSE [opens |-> TRUE, parses |-> TRUE, rules |-> [i \in DOMAIN rows |-> rows[i].rule]]

FactorPiece(snap, name) ==
  [kind |-> "factor", name |-> name, factor |-> CHOOSE f \in snap.factors[name] : TRUE]

\* json has no literal for NaN and the infinities.
Encodable(snap) == \A n \in RuleNames : snap.factors[n] \subseteq Int

\* snapshot.Write: json.Encode writes all of a value or, when it fails, nothing.
SnapshotPieces(snap) ==
  IF ~Encodable(snap) THEN <<>>
  ELSE <<[kind |-> "head", version |-> snap.version, model |-> snap.model]>>
         \o [i \in DOMAIN snap.engine |-> FactorPiece(snap, snap.engine[i].name)]
         \o <<[kind |-> "engine"]>>
         \o [i \in DOMAIN snap.engine |-> [kind |-> "rule", rule |-> snap.engine[i]]]
         \o <<[kind |-> "end"]>>

\* JSON that closes what it opens: the factors, then the engine's rules.
WellFormed(got) ==
  /\ got # <<>> /\ got[1].kind = "head" /\ got[Len(got)].kind = "end"
  /\ \E k \in DOMAIN got :
       /\ got[k].kind = "engine"
       /\ \A i \in 2 .. k - 1 : got[i].kind = "factor"
       /\ \A i \in k + 1 .. Len(got) - 1 : got[i].kind = "rule"

\* Where the member that holds the engine begins.
EngineAt(got) == CHOOSE k \in DOMAIN got : got[k].kind = "engine"

\* Faulty: what a truncated file has is made the best of.
DecodeSnapshot_Lenient(got) ==
  LET kinds(kind) == SelectSeq(got, LAMBDA piece : piece.kind = kind)
      factors     == kinds("factor")
      engine      == kinds("rule")
  IN [opens |-> TRUE, decodes |-> got # <<>>, version |-> FormatVersion,
      model |-> IF got # <<>> /\ got[1].kind = "head" THEN got[1].model
                ELSE CHOOSE model \in Models : TRUE,
      factors |-> [n \in RuleNames |->
                     {factors[i].factor : i \in {j \in DOMAIN factors : factors[j].name = n}}],
      hasEngine |-> TRUE, engine |-> [i \in DOMAIN engine |-> engine[i].rule]]

\* What json.Decode of snapshot.Read makes of the bytes; a name that comes
\* twice keeps its last factor.
DecodeSnapshot(got) ==
  IF ~WellFormed(got) THEN [opens |-> TRUE, decodes |-> FALSE]
  ELSE LET k == EngineAt(got)
           Last(n) == {i \in 2 .. k - 1 :
                         /\ got[i].name = n
                         /\ \A j \in 2 .. k - 1 : got[j].name = n => j <= i}
       IN [opens |-> TRUE, decodes |-> TRUE, version |-> got[1].version,
           model |-> got[1].model,
           factors |-> [n \in RuleNames |-> {got[i].factor : i \in Last(n)}],
           hasEngine |-> TRUE,
           engine |-> [i \in 1 .. Len(got) - 1 - k |-> got[k + i].rule]]

\* The same decision, under the same model version, for every request.
Alike(d, e) ==
  /\ d.model = e.model
  /\ \A q \in Requests : /\ Matched(d, q) <=> Matched(e, q)
                         /\ Matched(d, q) => FactorOf(d, q) = FactorOf(e, q)

=============================================================================
