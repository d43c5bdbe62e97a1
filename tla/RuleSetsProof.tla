---------------------------- MODULE RuleSetsProof ----------------------------
(***************************************************************************)
(* About RuleSets and FileFormats, for every source: what the loaders and  *)
(* the gate return, which rule wins, and what a reader makes of a file     *)
(* that is whole, short or mixed.  The proofs about the state machines     *)
(* cite the first two.                                                     *)
(***************************************************************************)
EXTENDS FileFormats, WellFoundedInduction, TLAPS

-----------------------------------------------------------------------------
(* What the loaders return.                                                *)

\* A decider that BuildDecider yields is the one it was asked for.
LEMMA BuildDeciderType ==
  ASSUME NEW adapter \in Adapters, NEW rules \in Seq(Rule), NEW model \in Models,
         BuildDecider(adapter, rules, model).err = "none"
  PROVE  BuildDecider(adapter, rules, model).decider
           = [adapter |-> adapter, rules |-> rules, model |-> model]
<1>1. CASE Accepts(adapter, rules)
  BY <1>1 DEF BuildDecider, Loaded
<1>2. CASE ~Accepts(adapter, rules)
  BY <1>2 DEF BuildDecider, Failed
<1> QED BY <1>1, <1>2

\* A CSV file that loads was opened and parsed, and serves the rules it holds.
LEMMA RulesLoaderOK ==
  ASSUME NEW csv \in Csv, NEW adapter \in Adapters, NEW model \in Models,
         RulesLoader(csv, adapter, model).err = "none"
  PROVE  /\ RulesLoader(csv, adapter, model).decider
              = [adapter |-> adapter, rules |-> csv.rules, model |-> model]
         /\ csv.opens /\ csv.parses
<1>1. csv.opens \in BOOLEAN /\ csv.parses \in BOOLEAN /\ csv.rules \in Seq(Rule)
  BY DEF Csv
<1>2. csv.opens /\ csv.parses
  BY <1>1 DEF RulesLoader, Failed
<1>3. RulesLoader(csv, adapter, model) = BuildDecider(adapter, csv.rules, model)
  BY <1>2 DEF RulesLoader
<1> QED BY <1>1, <1>2, <1>3, BuildDeciderType

\* A CSV body that loads is healthy: the body loader diagnoses what it parsed.
LEMMA CsvBodyOK ==
  ASSUME NEW csv \in Csv, NEW adapter \in Adapters, NEW model \in Models,
         CsvBody(csv, adapter, model).err = "none"
  PROVE  /\ CsvBody(csv, adapter, model).decider
              = [adapter |-> adapter, rules |-> csv.rules, model |-> model]
         /\ IsHealthy(csv.rules)
<1>1. csv.parses \in BOOLEAN /\ csv.rules \in Seq(Rule)
  BY DEF Csv
<1>2. csv.parses /\ IsHealthy(csv.rules)
  BY <1>1 DEF CsvBody, Failed, IsHealthy
<1>3. CsvBody(csv, adapter, model) = BuildDecider(adapter, csv.rules, model)
  BY <1>2 DEF CsvBody
<1> QED BY <1>1, <1>2, <1>3, BuildDeciderType

\* A snapshot that loads has a factor, a real value, for each of its rules.
LEMMA SnapshotDeciderType ==
  ASSUME NEW snap \in Snapshot, LoadIntoIndexedDecider(snap).err = "none"
  PROVE  LoadIntoIndexedDecider(snap).decider \in Deciders
<1> DEFINE rules == [i \in DOMAIN snap.engine |->
                       [name |-> snap.engine[i].name, on |-> snap.engine[i].on,
                        indexable |-> snap.engine[i].indexable,
                        factor |-> CHOOSE f \in snap.factors[snap.engine[i].name] : TRUE,
                        priority |-> 0]]
<1>1. snap.hasEngine /\ \A n \in Names(snap.engine) : snap.factors[n] # {}
  BY DEF LoadIntoIndexedDecider, Failed
<1>2. LoadIntoIndexedDecider(snap) = BuildDecider("indexed", rules, snap.model)
  BY <1>1 DEF LoadIntoIndexedDecider
<1>3. snap.engine \in Seq(Indexed) /\ snap.factors \in [RuleNames -> SUBSET Factor]
      /\ snap.model \in Models
  BY DEF Snapshot, Factor
<1>4. \A i \in DOMAIN snap.engine : snap.engine[i] \in Indexed
  BY <1>3
<1>5. \A i \in DOMAIN snap.engine : rules[i] \in Rule
  <2> TAKE i \in DOMAIN snap.engine
  <2>1. snap.engine[i].name \in Names(snap.engine)
    BY DEF Names
  <2>2. snap.factors[snap.engine[i].name] # {}
        /\ snap.factors[snap.engine[i].name] \subseteq Factor
    BY <1>1, <1>3, <1>4, <2>1 DEF Indexed
  <2>3. (CHOOSE f \in snap.factors[snap.engine[i].name] : TRUE) \in Factor
    BY <2>2
  <2> QED BY <1>4, <2>3 DEF Indexed, Rule
<1>6. rules \in Seq(Rule)
  <2>1. DOMAIN snap.engine = 1 .. Len(snap.engine) /\ Len(snap.engine) \in Nat
    BY <1>3
  <2>2. rules \in [1 .. Len(snap.engine) -> Rule]
    BY <1>5, <2>1
  <2> QED BY <2>1, <2>2
<1>7. BuildDecider("indexed", rules, snap.model).err = "none" /\ "indexed" \in Adapters
  BY <1>2 DEF Adapters
<1> HIDE DEF rules
<1>8. LoadIntoIndexedDecider(snap).decider
        = [adapter |-> "indexed", rules |-> rules, model |-> snap.model]
  BY <1>2, <1>3, <1>6, <1>7, BuildDeciderType
<1> QED
  BY <1>3, <1>6, <1>7, <1>8 DEF Deciders

\* A snapshot that loads serves under its own tag.
LEMMA SnapshotLoaderOK ==
  ASSUME NEW snap \in Snapshot, SnapshotLoader(snap).err = "none"
  PROVE  /\ SnapshotLoader(snap).decider \in Deciders
         /\ SnapshotLoader(snap).decider.model = snap.model
<1>1. SnapshotLoader(snap) = LoadIntoIndexedDecider(snap)
  BY DEF SnapshotLoader, Failed
<1>2. LoadIntoIndexedDecider(snap).decider.model = snap.model
  BY <1>1 DEF LoadIntoIndexedDecider, BuildDecider, Failed, Loaded
<1> QED BY <1>1, <1>2, SnapshotDeciderType

\* The gate passes a file only when it opens, parses and is healthy.
LEMMA DiagnoseFileNone ==
  ASSUME NEW csv \in Csv
  PROVE  /\ DiagnoseFile(csv) \in {"none", "internal", "invalid", "rejected"}
         /\ DiagnoseFile(csv) = "none" <=> csv.opens /\ csv.parses /\ IsHealthy(csv.rules)
         /\ DiagnoseFile(csv) \in {"internal", "invalid"} <=> ~(csv.opens /\ csv.parses)
<1>1. csv.opens \in BOOLEAN /\ csv.parses \in BOOLEAN
  BY DEF Csv
<1> QED BY <1>1 DEF DiagnoseFile

-----------------------------------------------------------------------------
(* Which rule wins.  An engine looks for an extreme index or priority; that *)
(* there is one is induction over the numbers, which is drawn here from     *)
(* their well-foundedness.                                                 *)

\* A set of natural numbers has a least one,
LEMMA LeastNat ==
  ASSUME NEW T \in SUBSET Nat, T # {}
  PROVE  \E x \in T : \A y \in T : x <= y
<1>1. PICK x \in T : \A y \in T : ~(<<y, x>> \in OpToRel(<, Nat))
  BY NatLessThanWellFounded, WFMin
<1>2. \A y \in T : ~(y < x)
  BY <1>1 DEF OpToRel
<1> QED BY <1>2

\* a bounded one has a greatest,
LEMMA GreatestNat ==
  ASSUME NEW n \in Nat, NEW S \in SUBSET (1 .. n), S # {}
  PROVE  \E x \in S : \A y \in S : y <= x
<1> DEFINE bounds == {b \in Nat : \A y \in S : y <= b}
<1>1. bounds # {} /\ bounds \in SUBSET Nat
  <2>1. n \in bounds
    OBVIOUS
  <2> QED BY <2>1
<1>2. PICK b \in bounds : \A c \in bounds : b <= c
  BY <1>1, LeastNat
<1>3. b \in S
  <2> SUFFICES ASSUME b \notin S PROVE FALSE
    OBVIOUS
  <2>1. PICK y \in S : TRUE
    OBVIOUS
  <2>2. b - 1 \in Nat
    BY <2>1
  <2>3. \A z \in S : z <= b - 1
    OBVIOUS
  <2>4. b - 1 \in bounds
    BY <2>2, <2>3
  <2> QED BY <1>2, <2>4
<1> QED BY <1>2, <1>3

\* and so have the values of integers at its members.
LEMMA GreatestValue ==
  ASSUME NEW n \in Nat, NEW S \in SUBSET (1 .. n), S # {}, NEW p, \A i \in S : p[i] \in Int
  PROVE  \E x \in S : \A y \in S : p[y] <= p[x]
<1> DEFINE Without == {m \in Nat : /\ \E i \in S : i <= m
                                   /\ ~ \E x \in S : x <= m /\ \A y \in S : y <= m => p[y] <= p[x]}
<1>1. Without = {}
  <2> SUFFICES ASSUME Without # {} PROVE FALSE
    OBVIOUS
  <2>1. PICK m \in Without : \A k \in Without : m <= k
    BY LeastNat
  <2>2. \A i \in S : i \in Nat /\ i >= 1
    OBVIOUS
  <2>3. m \in Nat /\ (\E i \in S : i <= m)
        /\ \A x \in S : x <= m => \E y \in S : y <= m /\ ~(p[y] <= p[x])
    BY <2>1
  <2>4. m \in Nat /\ m - 1 \in Nat /\ m - 1 < m
    BY <2>2, <2>3
  <2> HIDE DEF Without
  <2>5. m - 1 \notin Without
    <3>1. ~(m <= m - 1)
      BY <2>4
    <3> QED BY <2>1, <3>1
  <2>6. \A i \in S : i <= m <=> (i = m \/ i <= m - 1)
    <3> TAKE i \in S
    <3>1. i \in Nat
      BY <2>2
    <3> QED BY <2>4, <3>1
  <2>7. m \in S
    <3> SUFFICES ASSUME m \notin S PROVE FALSE
      OBVIOUS
    <3>1. \A i \in S : i <= m <=> i <= m - 1
      BY <2>6
    <3> QED BY <2>3, <2>4, <2>5, <3>1 DEF Without
  <2>8. \E y \in S : y <= m /\ ~(p[y] <= p[m])
    BY <2>3, <2>7
  <2>9. PICK y \in S : y <= m - 1 /\ ~(p[y] <= p[m])
    BY <2>6, <2>7, <2>8
  <2>10. PICK x \in S : x <= m - 1 /\ \A z \in S : z <= m - 1 => p[z] <= p[x]
    BY <2>4, <2>5, <2>9 DEF Without
  <2>11. p[m] <= p[x]
    <3>1. p[y] <= p[x] /\ p[y] \in Int /\ p[m] \in Int /\ p[x] \in Int
      BY <2>7, <2>9, <2>10
    <3> QED BY <2>9, <3>1
  <2> QED BY <2>3, <2>6, <2>10, <2>11
<1>2. \A i \in S : i <= n
  OBVIOUS
<1>3. n \notin Without /\ n \in Nat
  BY <1>1
<1> QED BY <1>2, <1>3

\* The rule that an engine reports is one that matches.
LEMMA WinnerHits ==
  ASSUME NEW adapter, NEW rules \in Seq(Rule), NEW req, Hits(rules, req) # {}
  PROVE  Winner(adapter, rules, Hits(rules, req)) \in Hits(rules, req)
<1> DEFINE hits == Hits(rules, req)
           best == IF adapter = "priority"
                   THEN {i \in hits : \A j \in hits : rules[j].priority <= rules[i].priority}
                   ELSE hits
<1>1. Len(rules) \in Nat /\ hits \in SUBSET (1 .. Len(rules))
  BY DEF Hits
<1>2. best \subseteq hits /\ best # {}
  <2>1. CASE adapter = "priority"
    <3> DEFINE p == [i \in hits |-> rules[i].priority]
    <3>1. \A i \in hits : p[i] \in Int
      <4>1. \A i \in 1 .. Len(rules) : rules[i] \in Rule
        OBVIOUS
      <4> QED BY <1>1, <4>1 DEF Rule
    <3> HIDE DEF p
    <3>2. \E x \in hits : \A y \in hits : p[y] <= p[x]
      BY <1>1, <3>1, GreatestValue
    <3> QED BY <2>1, <3>2 DEF p
  <2> QED BY <2>1
<1>3. best \in SUBSET (1 .. Len(rules)) /\ best \in SUBSET Nat
  BY <1>1, <1>2
<1>4. Winner(adapter, rules, hits) = CHOOSE i \in best :
        \A j \in best : IF adapter = "inmemory" THEN j <= i ELSE i <= j
  BY DEF Winner
<1> HIDE DEF best
<1>5. \E i \in best : \A j \in best : IF adapter = "inmemory" THEN j <= i ELSE i <= j
  BY <1>1, <1>2, <1>3, LeastNat, GreatestNat
<1>6. Winner(adapter, rules, hits) \in best
  BY <1>4, <1>5
<1> QED BY <1>2, <1>6

\* The factor of a decision is a factor that some matching rule was given.
THEOREM FactorWritten ==
  ASSUME NEW decider \in Deciders, NEW req, Matched(decider, req)
  PROVE  /\ \E i \in Hits(decider.rules, req) : FactorOf(decider, req) = decider.rules[i].factor
         /\ FactorOf(decider, req) \in Factor
<1>1. decider.rules \in Seq(Rule) /\ Hits(decider.rules, req) # {}
  BY DEF Deciders, Matched
<1>2. Winner(decider.adapter, decider.rules, Hits(decider.rules, req)) \in Hits(decider.rules, req)
  BY <1>1, WinnerHits
<1>3. \A i \in Hits(decider.rules, req) : decider.rules[i].factor \in Factor
  <2>1. \A i \in 1 .. Len(decider.rules) : decider.rules[i] \in Rule
    BY <1>1
  <2>2. \A i \in Hits(decider.rules, req) : decider.rules[i] \in Rule
    BY <1>1, <2>1 DEF Hits
  <2> QED BY <2>2 DEF Rule
<1> QED BY <1>2, <1>3 DEF FactorOf

-----------------------------------------------------------------------------
(* Histories: the state machines append to them and do nothing else.       *)

Prefix(s, t) == Len(s) <= Len(t) /\ \A i \in 1 .. Len(s) : t[i] = s[i]

\* Appending one element leaves every earlier one where it was.
LEMMA AppendGrows ==
  ASSUME NEW S, NEW s \in Seq(S), NEW e \in S
  PROVE  /\ Append(s, e) \in Seq(S)
         /\ Len(Append(s, e)) = Len(s) + 1 /\ Append(s, e)[Len(s) + 1] = e
         /\ Prefix(s, Append(s, e))
  BY DEF Prefix

\* A sequence is a prefix of itself.
LEMMA PrefixSelf ==
  ASSUME NEW S, NEW s \in Seq(S)
  PROVE  Prefix(s, s)
  BY DEF Prefix

-----------------------------------------------------------------------------
(* Formats: what is written for a rule set and what is read back.          *)

IsSeq(p) == \E S : p \in Seq(S)

\* json encodes what Build makes exactly when every factor is a finite number.
LEMMA EncodableNumbers ==
  ASSUME NEW rules \in Seq(Rule), NEW model \in Models
  PROVE  Encodable(Build(rules, model)) <=> \A i \in DOMAIN rules : rules[i].factor \in Int
<1> DEFINE built == Build(rules, model)
<1>1. \A m \in RuleNames :
        built.factors[m] = {rules[i].factor : i \in {j \in DOMAIN rules : rules[j].name = m}}
  BY DEF Build
<1>0. \A i \in DOMAIN rules : rules[i] \in Rule
  OBVIOUS
<1>2. \A i \in DOMAIN rules : rules[i].name \in RuleNames
  BY <1>0 DEF Rule
<1> HIDE DEF built
<1>3. ASSUME Encodable(built), NEW i \in DOMAIN rules PROVE rules[i].factor \in Int
  <2>1. built.factors[rules[i].name] \subseteq Int
    BY <1>2, <1>3 DEF Encodable
  <2>2. rules[i].factor \in built.factors[rules[i].name]
    BY <1>1, <1>2
  <2> QED BY <2>1, <2>2
<1>4. ASSUME \A i \in DOMAIN rules : rules[i].factor \in Int PROVE Encodable(built)
  <2>1. \A m \in RuleNames : built.factors[m] \subseteq Int
    BY <1>1, <1>4
  <2> QED BY <2>1 DEF Encodable
<1> QED BY <1>3, <1>4 DEF built

\* A snapshot is its head, the factors, the engine and the rules, and an end.
LEMMA PiecesWritten ==
  ASSUME NEW snap, Encodable(snap), NEW n \in Nat, DOMAIN snap.engine = 1 .. n,
         NEW p, p = SnapshotPieces(snap)
  PROVE  /\ IsSeq(p) /\ Len(p) = 2 * n + 3 /\ DOMAIN p = 1 .. 2 * n + 3
         /\ p[1] = [kind |-> "head", version |-> snap.version, model |-> snap.model]
         /\ \A i \in 1 .. n : p[i + 1] = FactorPiece(snap, snap.engine[i].name)
         /\ p[n + 2] = [kind |-> "engine"]
         /\ \A i \in 1 .. n : p[n + 2 + i] = [kind |-> "rule", rule |-> snap.engine[i]]
         /\ p[2 * n + 3] = [kind |-> "end"]
<1> DEFINE h == [kind |-> "head", version |-> snap.version, model |-> snap.model]
           e == [kind |-> "engine"]
           z == [kind |-> "end"]
           f == [i \in 1 .. n |-> FactorPiece(snap, snap.engine[i].name)]
           r == [i \in 1 .. n |-> [kind |-> "rule", rule |-> snap.engine[i]]]
           S == {h, e, z} \cup {f[i] : i \in 1 .. n} \cup {r[i] : i \in 1 .. n}
<1>1. /\ p = <<h>> \o f \o <<e>> \o r \o <<z>>
      /\ \A i \in 1 .. n : f[i] = FactorPiece(snap, snap.engine[i].name)
                           /\ r[i] = [kind |-> "rule", rule |-> snap.engine[i]]
  BY DEF SnapshotPieces
<1>2. /\ f \in Seq(S) /\ Len(f) = n /\ r \in Seq(S) /\ Len(r) = n
  OBVIOUS
<1>3. h \in S /\ e \in S /\ z \in S
  OBVIOUS
<1> HIDE DEF h, e, z, f, r, S
<1> DEFINE p1 == <<h>> \o f
           p2 == p1 \o <<e>>
           p3 == p2 \o r
<1>4. p1 \in Seq(S) /\ Len(p1) = n + 1 /\ p1[1] = h /\ \A i \in 1 .. n : p1[i + 1] = f[i]
  BY <1>2, <1>3
<1>5. p = p3 \o <<z>>
  BY <1>1
<1> HIDE DEF p1
<1>6. /\ p2 \in Seq(S) /\ Len(p2) = n + 2 /\ p2[n + 2] = e
      /\ \A i \in 1 .. n + 1 : p2[i] = p1[i]
  BY <1>3, <1>4
<1> HIDE DEF p2
<1>7. /\ p3 \in Seq(S) /\ Len(p3) = 2 * n + 2
      /\ \A i \in 1 .. n + 2 : p3[i] = p2[i]
      /\ \A i \in 1 .. n : p3[n + 2 + i] = r[i]
  BY <1>2, <1>6
<1> HIDE DEF p3
<1>8. /\ p \in Seq(S) /\ Len(p) = 2 * n + 3 /\ p[2 * n + 3] = z
      /\ \A i \in 1 .. 2 * n + 2 : p[i] = p3[i]
  <2>1. PICK m \in Nat : m = 2 * n + 2
    OBVIOUS
  <2>2. /\ p3 \o <<z>> \in Seq(S) /\ Len(p3 \o <<z>>) = m + 1 /\ (p3 \o <<z>>)[m + 1] = z
        /\ \A i \in 1 .. m : (p3 \o <<z>>)[i] = p3[i]
    BY <1>3, <1>7, <2>1
  <2> QED BY <1>5, <2>1, <2>2
<1>9. p[1] = h /\ p[n + 2] = e
  BY <1>4, <1>6, <1>7, <1>8
<1>10. \A i \in 1 .. n : p[i + 1] = f[i] /\ p[n + 2 + i] = r[i]
  BY <1>4, <1>6, <1>7, <1>8
<1>11. Len(p) = 2 * n + 3 /\ DOMAIN p = 1 .. 2 * n + 3
  BY <1>8
<1>12. \A i \in 1 .. n : /\ p[i + 1] = FactorPiece(snap, snap.engine[i].name)
                         /\ p[n + 2 + i] = [kind |-> "rule", rule |-> snap.engine[i]]
  BY <1>1, <1>10
<1>13. p[1] = h /\ p[n + 2] = e /\ p[2 * n + 3] = z
  BY <1>8, <1>9
<1>14. IsSeq(p)
  BY <1>8 DEF IsSeq
<1> QED BY <1>11, <1>12, <1>13, <1>14 DEF h, e, z

\* The kinds of the pieces tell where in the file they stand.
LEMMA KindsWritten ==
  ASSUME NEW snap, Encodable(snap), NEW n \in Nat, DOMAIN snap.engine = 1 .. n,
         NEW p, p = SnapshotPieces(snap)
  PROVE  /\ p[1].kind = "head" /\ p[n + 2].kind = "engine" /\ p[2 * n + 3].kind = "end"
         /\ \A i \in 2 .. n + 1 : p[i].kind = "factor"
         /\ \A i \in n + 3 .. 2 * n + 2 : p[i].kind = "rule"
         /\ \A i \in DOMAIN p : /\ p[i].kind = "engine" => i = n + 2
                                /\ p[i].kind = "end" => i = 2 * n + 3
<1>0. /\ DOMAIN p = 1 .. 2 * n + 3
      /\ p[1] = [kind |-> "head", version |-> snap.version, model |-> snap.model]
      /\ \A i \in 1 .. n : p[i + 1] = FactorPiece(snap, snap.engine[i].name)
      /\ p[n + 2] = [kind |-> "engine"]
      /\ \A i \in 1 .. n : p[n + 2 + i] = [kind |-> "rule", rule |-> snap.engine[i]]
      /\ p[2 * n + 3] = [kind |-> "end"]
  BY PiecesWritten
<1>1. p[1].kind = "head" /\ p[n + 2].kind = "engine" /\ p[2 * n + 3].kind = "end"
  BY <1>0
<1>2. \A i \in 2 .. n + 1 : p[i].kind = "factor"
  <2> SUFFICES ASSUME NEW i \in 2 .. n + 1 PROVE p[i].kind = "factor"
    OBVIOUS
  <2>1. i - 1 \in 1 .. n /\ i = (i - 1) + 1
    OBVIOUS
  <2>2. p[i] = FactorPiece(snap, snap.engine[i - 1].name)
    BY <1>0, <2>1
  <2> QED BY <2>2 DEF FactorPiece
<1>3. \A i \in n + 3 .. 2 * n + 2 : p[i].kind = "rule"
  <2> SUFFICES ASSUME NEW i \in n + 3 .. 2 * n + 2 PROVE p[i].kind = "rule"
    OBVIOUS
  <2>1. i - (n + 2) \in 1 .. n /\ i = n + 2 + (i - (n + 2))
    OBVIOUS
  <2>2. p[i] = [kind |-> "rule", rule |-> snap.engine[i - (n + 2)]]
    BY <1>0, <2>1
  <2> QED BY <2>2
<1>4. ASSUME NEW i \in DOMAIN p
      PROVE  /\ p[i].kind = "engine" => i = n + 2
             /\ p[i].kind = "end" => i = 2 * n + 3
  <2>1. \/ i = 1 \/ i \in 2 .. n + 1 \/ i = n + 2 \/ i \in n + 3 .. 2 * n + 2 \/ i = 2 * n + 3
    <3>1. i \in 1 .. 2 * n + 3
      BY <1>4, PiecesWritten
    <3> QED BY <3>1
  <2> QED BY <1>1, <1>2, <1>3, <2>1
<1> QED BY <1>1, <1>2, <1>3, <1>4

\* A snapshot that was cut short anywhere, by a failed or killed build or by a
\* reader that came before the writer was done, is no JSON value and is refused
\* (snapshot.Read; snapshot-promotion.md: "A corrupted snapshot file fails
\* fast").
THEOREM ShortSnapshotRefused ==
  ASSUME NEW snap, Encodable(snap), NEW n \in Nat, DOMAIN snap.engine = 1 .. n,
         NEW m \in 0 .. 2 * n + 2, NEW got, got = SubSeq(SnapshotPieces(snap), 1, m)
  PROVE  SnapshotLoader(DecodeSnapshot(got)) = Failed("internal")
<1> DEFINE p == SnapshotPieces(snap)
<1>1. Len(got) = m /\ DOMAIN got = 1 .. m /\ \A i \in 1 .. m : got[i] = p[i]
  BY PiecesWritten
<1>2. ~WellFormed(got)
  <2>1. CASE m = 0
    BY <1>1, <2>1 DEF WellFormed
  <2>2. CASE m # 0
    <3>1. m \in DOMAIN p /\ m # 2 * n + 3 /\ got[Len(got)] = p[m]
      <4>1. DOMAIN p = 1 .. 2 * n + 3
        BY PiecesWritten
      <4> QED BY <1>1, <2>2, <4>1
    <3>2. p[m].kind # "end"
      BY <3>1, KindsWritten
    <3> QED BY <3>1, <3>2 DEF WellFormed
  <2> QED BY <2>1, <2>2
<1>3. DecodeSnapshot(got) = [opens |-> TRUE, decodes |-> FALSE]
  BY <1>2 DEF DecodeSnapshot
<1> QED BY <1>3 DEF SnapshotLoader, Reads

\* The pieces p are a header, n rows, and at the end what does not parse.
IsCsv(p, csv, n) ==
  /\ \E S : p \in Seq(S)
  /\ Len(p) = IF csv.parses THEN n + 1 ELSE n + 2
  /\ \A i \in 1 .. n : p[i + 1].kind = "row" /\ p[i + 1].rule = csv.rules[i]
  /\ ~csv.parses => p[n + 2].kind = "malformed"

\* A CSV is written as its header, its rows, and what cannot be parsed.
LEMMA CsvPiecesWritten ==
  ASSUME NEW csv \in Csv
  PROVE  IsCsv(CsvPieces(csv), csv, Len(csv.rules))
<1> DEFINE n == Len(csv.rules)
           p == CsvPieces(csv)
           h == [kind |-> "header"]
           z == [kind |-> "malformed"]
           r == [i \in 1 .. n |-> [kind |-> "row", rule |-> csv.rules[i]]]
           S == {h, z} \cup {r[i] : i \in 1 .. n}
           q == <<h>> \o r
<1>1. /\ csv.rules \in Seq(Rule) /\ n \in Nat /\ DOMAIN csv.rules = 1 .. n
      /\ csv.parses \in BOOLEAN
  BY DEF Csv
<1>2. /\ r \in Seq(S) /\ Len(r) = n /\ h \in S /\ z \in S
      /\ \A i \in 1 .. n : r[i].kind = "row" /\ r[i].rule = csv.rules[i]
  <2>1. h \in S /\ z \in S
    OBVIOUS
  <2>2. \A i \in 1 .. n : r[i].kind = "row" /\ r[i].rule = csv.rules[i]
    OBVIOUS
  <2>3. DOMAIN r = 1 .. n /\ \A i \in 1 .. n : r[i] \in S
    <3>1. DOMAIN r = 1 .. n
      OBVIOUS
    <3> HIDE DEF r
    <3> QED BY <3>1
  <2> HIDE DEF S, h, z
  <2>4. r = [i \in 1 .. n |-> r[i]]
    BY <2>3
  <2> HIDE DEF r
  <2>5. r \in Seq(S)
    BY <1>1, <2>3, <2>4
  <2>6. Len(r) = n
    BY <1>1, <2>3, <2>5
  <2> QED BY <2>1, <2>2, <2>5, <2>6
<1>3. p = q \o IF csv.parses THEN <<>> ELSE <<z>>
  BY <1>1 DEF CsvPieces
<1>4. z.kind = "malformed"
  OBVIOUS
<1> HIDE DEF h, z, r, S, n, p
<1>n. n \in Nat
  BY <1>1
<1>5. q \in Seq(S) /\ Len(q) = n + 1 /\ \A i \in 1 .. n : q[i + 1] = r[i]
  BY <1>n, <1>2
<1> HIDE DEF q
<1>q. q \in Seq(S) /\ Len(q) = n + 1
  BY <1>5
<1>6. ASSUME csv.parses PROVE IsCsv(p, csv, n)
  <2>1. p = q
    <3>1. q \o <<>> = q
      BY <1>q
    <3> QED BY <1>3, <1>6, <3>1
  <2>2. \A i \in 1 .. n : p[i + 1].kind = "row" /\ p[i + 1].rule = csv.rules[i]
    <3> TAKE i \in 1 .. n
    <3>1. p[i + 1] = r[i]
      BY <1>5, <2>1
    <3> QED BY <1>2, <3>1
  <2>3. p \in Seq(S) /\ Len(p) = n + 1
    BY <1>q, <2>1
  <2> QED BY <1>6, <2>2, <2>3 DEF IsCsv
<1>7. ASSUME ~csv.parses PROVE IsCsv(p, csv, n)
  <2> DEFINE zz == <<z>>
  <2>1. p = q \o zz
    BY <1>3, <1>7
  <2>2. zz \in Seq(S) /\ Len(zz) = 1 /\ zz[1] = z
    BY <1>2
  <2> HIDE DEF zz
  <2>3. p \in Seq(S) /\ Len(p) = Len(q) + Len(zz)
    <3>0. q \in Seq(S) /\ zz \in Seq(S)
      BY <1>q, <2>2
    <3>1. q \o zz \in Seq(S)
      BY <3>0
    <3>2. Len(q \o zz) = Len(q) + Len(zz)
      BY <3>0
    <3> QED BY <2>1, <3>1, <3>2
  <2>4. Len(p) = n + 2
    BY <1>n, <1>q, <2>2, <2>3
  <2>5. \A i \in 1 .. Len(q) : p[i] = q[i]
    BY <1>q, <2>1, <2>2
  <2>6. p[Len(q) + 1] = zz[1]
    <3>1. (q \o zz)[Len(q) + 1] = zz[1]
      BY <1>q, <2>2
    <3> QED BY <2>1, <3>1
  <2>7. p[n + 2] = z
    <3>1. Len(q) + 1 = n + 2
      BY <1>n, <1>q
    <3> QED BY <2>2, <2>6, <3>1
  <2>8. \A i \in 1 .. n : p[i + 1].kind = "row" /\ p[i + 1].rule = csv.rules[i]
    <3> TAKE i \in 1 .. n
    <3>1. i + 1 \in 1 .. Len(q)
      BY <1>n, <1>q
    <3>2. p[i + 1] = r[i]
      BY <1>5, <2>5, <3>1
    <3> QED BY <1>2, <3>2
  <2>9. p[n + 2].kind = "malformed"
    BY <1>4, <2>7
  <2> QED BY <1>7, <2>3, <2>4, <2>8, <2>9 DEF IsCsv
<1> QED BY <1>1, <1>6, <1>7 DEF n, p

\* A CSV that is read to its end says what the rule list it was written for
\* says, to the gate and to the loader (load.FromCSV).
THEOREM CsvReadsBack ==
  ASSUME NEW csv \in Csv, csv.opens
  PROVE  /\ DiagnoseFile(ParseCsv(CsvPieces(csv))) = DiagnoseFile(csv)
         /\ \A adapter, model : RulesLoader(ParseCsv(CsvPieces(csv)), adapter, model)
                                  = RulesLoader(csv, adapter, model)
<1> DEFINE n == Len(csv.rules)
           p == CsvPieces(csv)
           rows == SubSeq(p, 2, Len(p))
<1>0. csv.rules \in Seq(Rule) /\ n \in Nat /\ DOMAIN csv.rules = 1 .. n
  BY DEF Csv
<1>c. IsCsv(p, csv, n)
  BY CsvPiecesWritten
<1> HIDE DEF n, p
<1>1. /\ csv.rules \in Seq(Rule) /\ n \in Nat /\ DOMAIN csv.rules = 1 .. n
      /\ \E S : p \in Seq(S)
      /\ Len(p) = IF csv.parses THEN n + 1 ELSE n + 2
      /\ \A i \in 1 .. n : p[i + 1].kind = "row" /\ p[i + 1].rule = csv.rules[i]
      /\ ~csv.parses => p[n + 2].kind = "malformed"
  BY <1>0, <1>c DEF IsCsv
<1>2. PICK S : p \in Seq(S)
  BY <1>1
<1>3. csv.parses \in BOOLEAN
  BY DEF Csv
<1>4. Len(p) \in Nat /\ Len(p) >= 1
  BY <1>1
<1>5. DOMAIN rows = 1 .. Len(p) - 1 /\ \A i \in 1 .. Len(p) - 1 : rows[i] = p[i + 1]
  BY <1>2, <1>4
<1> HIDE DEF rows
<1>6. CASE csv.parses
  <2>1. DOMAIN rows = 1 .. n /\ \A i \in 1 .. n : rows[i] = p[i + 1]
    BY <1>1, <1>5, <1>6
  <2>2. \A i \in 1 .. n : rows[i].kind = "row" /\ rows[i].rule = csv.rules[i]
    <3> TAKE i \in 1 .. n
    <3> QED BY <1>1, <2>1
  <2>3. ~ \E i \in DOMAIN rows : rows[i].kind = "malformed"
    BY <2>1, <2>2
  <2>4. [i \in DOMAIN rows |-> rows[i].rule] = csv.rules
    <3>1. csv.rules = [i \in 1 .. n |-> csv.rules[i]]
      BY <1>0
    <3>2. [i \in DOMAIN rows |-> rows[i].rule] = [i \in 1 .. n |-> csv.rules[i]]
      BY <2>1, <2>2
    <3> QED BY <3>1, <3>2
  <2>5. ParseCsv(p) = [opens |-> TRUE, parses |-> TRUE, rules |-> csv.rules]
    BY <2>3, <2>4 DEF ParseCsv, rows
  <2> QED BY <1>6, <2>5 DEF RulesLoader, DiagnoseFile, p
<1>7. CASE ~csv.parses
  <2>1. n + 1 \in DOMAIN rows /\ rows[n + 1] = p[n + 2]
    BY <1>1, <1>5, <1>7
  <2>2. \E i \in DOMAIN rows : rows[i].kind = "malformed"
    BY <1>1, <1>7, <2>1
  <2>3. ParseCsv(p) = [opens |-> TRUE, parses |-> FALSE, rules |-> <<>>]
    BY <2>2 DEF ParseCsv, rows
  <2> QED BY <1>7, <2>3 DEF RulesLoader, DiagnoseFile, p
<1> QED BY <1>3, <1>6, <1>7

\* A CSV that was cut short after any row is read as the CSV of the rows before:
\* nothing tells the gate or the loader that there were more (load.FromCSV).
THEOREM ShortCsvIsShorterCsv ==
  ASSUME NEW csv \in Csv, NEW m \in 0 .. Len(csv.rules) + 1,
         NEW got, got = SubSeq(CsvPieces(csv), 1, m)
  PROVE  ParseCsv(got) = [opens |-> TRUE, parses |-> TRUE, rules |-> SubSeq(csv.rules, 1, m - 1)]
<1> DEFINE n == Len(csv.rules)
           p == CsvPieces(csv)
           rows == SubSeq(got, 2, Len(got))
<1>3. m \in 0 .. n + 1 /\ got = SubSeq(p, 1, m)
  OBVIOUS
<1>0. csv.rules \in Seq(Rule) /\ n \in Nat /\ DOMAIN csv.rules = 1 .. n
  BY DEF Csv
<1>c. IsCsv(p, csv, n)
  BY CsvPiecesWritten
<1> HIDE DEF n, p
<1>1. /\ csv.rules \in Seq(Rule) /\ n \in Nat /\ DOMAIN csv.rules = 1 .. n
      /\ \E S : p \in Seq(S)
      /\ Len(p) = IF csv.parses THEN n + 1 ELSE n + 2
      /\ \A i \in 1 .. n : p[i + 1].kind = "row" /\ p[i + 1].rule = csv.rules[i]
      /\ ~csv.parses => p[n + 2].kind = "malformed"
  BY <1>0, <1>c DEF IsCsv
<1>2. PICK S : p \in Seq(S)
  BY <1>1
<1>4. got \in Seq(S) /\ Len(got) = m /\ \A i \in 1 .. m : got[i] = p[i]
  BY <1>1, <1>2, <1>3
<1>5. DOMAIN rows = 1 .. m - 1 /\ \A i \in 1 .. m - 1 : rows[i] = got[i + 1]
  BY <1>1, <1>3, <1>4
<1> HIDE DEF rows
<1>6. \A i \in 1 .. m - 1 : rows[i].kind = "row" /\ rows[i].rule = csv.rules[i]
  <2> TAKE i \in 1 .. m - 1
  <2>1. i \in 1 .. n /\ i + 1 \in 1 .. m
    BY <1>1, <1>3
  <2>2. rows[i] = p[i + 1]
    BY <1>4, <1>5, <2>1
  <2> QED BY <1>1, <2>1, <2>2
<1>7. ~ \E i \in DOMAIN rows : rows[i].kind = "malformed"
  BY <1>5, <1>6
<1>8. [i \in DOMAIN rows |-> rows[i].rule] = SubSeq(csv.rules, 1, m - 1)
  <2>1. SubSeq(csv.rules, 1, m - 1) = [i \in 1 .. m - 1 |-> csv.rules[i]]
    BY <1>1, <1>3
  <2> QED BY <1>5, <1>6, <2>1
<1> QED BY <1>7, <1>8 DEF ParseCsv, rows

\* What snapshot.Read makes of a snapshot that is there in full.
LEMMA WholeSnapshotDecodes ==
  ASSUME NEW rules \in Seq(Rule), NEW model \in Models, DistinctNames(rules),
         Encodable(Build(rules, model)),
         NEW snap, snap = DecodeSnapshot(SnapshotPieces(Build(rules, model)))
  PROVE  /\ snap.opens /\ snap.decodes /\ snap.version = FormatVersion
         /\ snap.model = model /\ snap.hasEngine
         /\ DOMAIN snap.engine = DOMAIN rules
         /\ \A i \in DOMAIN rules : /\ snap.engine[i].name = rules[i].name
                                    /\ snap.engine[i].on = rules[i].on
                                    /\ snap.engine[i].indexable = rules[i].indexable
                                    /\ snap.factors[rules[i].name] = {rules[i].factor}
<1> DEFINE n == Len(rules)
           built == Build(rules, model)
           p == SnapshotPieces(built)
<1>1. n \in Nat /\ DOMAIN rules = 1 .. n /\ \A i \in 1 .. n : rules[i] \in Rule
  OBVIOUS
<1>e. Encodable(built)
  OBVIOUS
<1>2. /\ built.version = FormatVersion /\ built.model = model
      /\ DOMAIN built.engine = 1 .. n
      /\ \A i \in 1 .. n : /\ built.engine[i].name = rules[i].name
                           /\ built.engine[i].on = rules[i].on
                           /\ built.engine[i].indexable = rules[i].indexable
  BY <1>1 DEF Build
<1>3. \A i \in 1 .. n : built.factors[rules[i].name] = {rules[i].factor}
  <2> TAKE i \in 1 .. n
  <2>1. rules[i].name \in RuleNames
    BY <1>1 DEF Rule
  <2>2. {j \in DOMAIN rules : rules[j].name = rules[i].name} = {i}
    BY <1>1 DEF DistinctNames
  <2>3. built.factors[rules[i].name] =
          {rules[j].factor : j \in {j \in DOMAIN rules : rules[j].name = rules[i].name}}
    BY <2>1 DEF Build
  <2> QED BY <2>2, <2>3
<1> HIDE DEF n, built
<1>4. /\ Len(p) = 2 * n + 3 /\ DOMAIN p = 1 .. 2 * n + 3
      /\ p[1] = [kind |-> "head", version |-> built.version, model |-> built.model]
      /\ \A i \in 1 .. n : p[i + 1] = FactorPiece(built, built.engine[i].name)
      /\ p[n + 2] = [kind |-> "engine"]
      /\ \A i \in 1 .. n : p[n + 2 + i] = [kind |-> "rule", rule |-> built.engine[i]]
      /\ p[2 * n + 3] = [kind |-> "end"]
  <2> HIDE DEF p
  <2>1. p = SnapshotPieces(built)
    BY DEF p
  <2> QED BY <1>1, <1>2, <1>e, <2>1, PiecesWritten
<1>5. /\ p[1].kind = "head" /\ p[n + 2].kind = "engine" /\ p[2 * n + 3].kind = "end"
      /\ \A i \in 2 .. n + 1 : p[i].kind = "factor"
      /\ \A i \in n + 3 .. 2 * n + 2 : p[i].kind = "rule"
      /\ \A i \in DOMAIN p : p[i].kind = "engine" => i = n + 2
  BY <1>1, <1>2, <1>e, KindsWritten
<1> HIDE DEF p
<1>6. \A i \in 1 .. n : p[i + 1].name = rules[i].name /\ p[i + 1].factor = rules[i].factor
  <2> TAKE i \in 1 .. n
  <2>1. (CHOOSE f \in built.factors[rules[i].name] : TRUE) = rules[i].factor
    BY <1>3
  <2>2. p[i + 1] = FactorPiece(built, rules[i].name)
    BY <1>2, <1>4
  <2>3. /\ FactorPiece(built, rules[i].name).name = rules[i].name
        /\ FactorPiece(built, rules[i].name).factor = rules[i].factor
    BY <2>1 DEF FactorPiece
  <2> QED BY <2>2, <2>3
<1>7. WellFormed(p)
  <2>1. n + 2 \in DOMAIN p /\ (n + 2) - 1 = n + 1 /\ (n + 2) + 1 = n + 3
        /\ Len(p) - 1 = 2 * n + 2 /\ p # <<>>
    BY <1>1, <1>4
  <2> QED BY <1>4, <1>5, <2>1 DEF WellFormed
<1>8. EngineAt(p) = n + 2
  <2>1. n + 2 \in DOMAIN p
    BY <1>1, <1>4
  <2> QED BY <1>5, <2>1 DEF EngineAt
<1> DEFINE Last(m) == {i \in 2 .. n + 1 : /\ p[i].name = m
                                          /\ \A j \in 2 .. n + 1 : p[j].name = m => j <= i}
<1>9. snap = [opens |-> TRUE, decodes |-> TRUE, version |-> p[1].version,
              model |-> p[1].model,
              factors |-> [m \in RuleNames |-> {p[i].factor : i \in Last(m)}],
              hasEngine |-> TRUE,
              engine |-> [i \in 1 .. n |-> p[n + 2 + i].rule]]
  <2>1. (n + 2) - 1 = n + 1 /\ Len(p) - 1 - (n + 2) = n
    BY <1>1, <1>4
  <2>2. snap = DecodeSnapshot(p)
    BY DEF p, built
  <2> QED BY <1>7, <1>8, <2>1, <2>2 DEF DecodeSnapshot
<1>10. \A i \in 1 .. n : snap.factors[rules[i].name] = {rules[i].factor}
  <2> TAKE i \in 1 .. n
  <2>1. rules[i].name \in RuleNames
    BY <1>1 DEF Rule
  <2>2. \A j \in 2 .. n + 1 : p[j].name = rules[i].name => j = i + 1
    <3> SUFFICES ASSUME NEW j \in 2 .. n + 1, p[j].name = rules[i].name PROVE j = i + 1
      OBVIOUS
    <3>1. j - 1 \in 1 .. n /\ j = (j - 1) + 1
      BY <1>1
    <3>2. p[j].name = rules[j - 1].name
      BY <1>6, <3>1
    <3>3. j - 1 = i
      BY <1>1, <3>1, <3>2 DEF DistinctNames
    <3> QED BY <3>1, <3>3
  <2>3. i + 1 \in 2 .. n + 1 /\ p[i + 1].name = rules[i].name
    BY <1>1, <1>6
  <2>4. Last(rules[i].name) = {i + 1}
    BY <2>2, <2>3
  <2> HIDE DEF Last
  <2>5. snap.factors[rules[i].name] = {p[j].factor : j \in Last(rules[i].name)}
    BY <1>9, <2>1
  <2> QED BY <1>6, <2>4, <2>5
<1> HIDE DEF Last
<1>11. \A i \in 1 .. n : snap.engine[i] = built.engine[i]
  <2> TAKE i \in 1 .. n
  <2>1. snap.engine = [j \in 1 .. n |-> p[n + 2 + j].rule]
    BY <1>9
  <2>2. p[n + 2 + i].rule = built.engine[i]
    <3>1. \A j \in 1 .. n : p[n + 2 + j] = [kind |-> "rule", rule |-> built.engine[j]]
      BY <1>4
    <3>2. p[n + 2 + i] = [kind |-> "rule", rule |-> built.engine[i]]
      BY <3>1, Zenon
    <3> QED BY <3>2
  <2> QED BY <2>1, <2>2
<1>12. /\ snap.opens /\ snap.decodes /\ snap.version = FormatVersion
       /\ snap.model = model /\ snap.hasEngine /\ DOMAIN snap.engine = DOMAIN rules
  BY <1>1, <1>2, <1>4, <1>9
<1>13. \A i \in DOMAIN rules : /\ snap.engine[i].name = rules[i].name
                               /\ snap.engine[i].on = rules[i].on
                               /\ snap.engine[i].indexable = rules[i].indexable
                               /\ snap.factors[rules[i].name] = {rules[i].factor}
  <2> TAKE i \in DOMAIN rules
  <2>1. i \in 1 .. n
    BY <1>1
  <2>2. snap.engine[i] = built.engine[i]
    BY <1>11, <2>1
  <2>3. /\ snap.engine[i].name = rules[i].name
        /\ snap.engine[i].on = rules[i].on
        /\ snap.engine[i].indexable = rules[i].indexable
    BY <1>2, <2>1, <2>2
  <2>4. snap.factors[rules[i].name] = {rules[i].factor}
    BY <1>10, <2>1
  <2> QED BY <2>3, <2>4
<1> QED BY <1>12, <1>13

\* What was written whole decides as the rules it was written for.
LEMMA WrittenDecidesAlike ==
  ASSUME NEW rules \in Seq(Rule), NEW model \in Models, Accepts("indexed", rules),
         Encodable(Build(rules, model)),
         NEW load, load = SnapshotLoader(DecodeSnapshot(SnapshotPieces(Build(rules, model))))
  PROVE  /\ load.err = "none"
         /\ Alike(load.decider, BuildDecider("indexed", rules, model).decider)
<1> DEFINE snap == DecodeSnapshot(SnapshotPieces(Build(rules, model)))
           read == [i \in DOMAIN snap.engine |->
                      [name |-> snap.engine[i].name, on |-> snap.engine[i].on,
                       indexable |-> snap.engine[i].indexable,
                       factor |-> CHOOSE f \in snap.factors[snap.engine[i].name] : TRUE,
                       priority |-> 0]]
<1>1. /\ snap.opens /\ snap.decodes /\ snap.version = FormatVersion
      /\ snap.model = model /\ snap.hasEngine
      /\ DOMAIN snap.engine = DOMAIN rules
      /\ \A i \in DOMAIN rules : /\ snap.engine[i].name = rules[i].name
                                 /\ snap.engine[i].on = rules[i].on
                                 /\ snap.engine[i].indexable = rules[i].indexable
                                 /\ snap.factors[rules[i].name] = {rules[i].factor}
  BY WholeSnapshotDecodes DEF Accepts
<1> HIDE DEF snap
<1>2. /\ DOMAIN read = DOMAIN rules
      /\ \A i \in DOMAIN rules : /\ read[i].name = rules[i].name /\ read[i].on = rules[i].on
                                 /\ read[i].indexable = rules[i].indexable
                                 /\ read[i].factor = rules[i].factor
  <2>1. \A i \in DOMAIN rules :
          (CHOOSE f \in snap.factors[snap.engine[i].name] : TRUE) = rules[i].factor
    BY <1>1
  <2> QED BY <1>1, <2>1
<1>3. \A n \in Names(snap.engine) : snap.factors[n] # {}
  BY <1>1 DEF Names
<1>4. load = BuildDecider("indexed", read, model)
  BY <1>1, <1>3 DEF SnapshotLoader, Reads, LoadIntoIndexedDecider, snap
<1> HIDE DEF read
<1>5. Accepts("indexed", read)
  BY <1>2 DEF Accepts, DistinctNames
<1>6. load = Loaded("indexed", read, model)
      /\ BuildDecider("indexed", rules, model) = Loaded("indexed", rules, model)
  BY <1>4, <1>5 DEF BuildDecider
<1> DEFINE d == [adapter |-> "indexed", rules |-> read, model |-> model]
           e == [adapter |-> "indexed", rules |-> rules, model |-> model]
<1>7. ASSUME NEW q \in Requests
      PROVE  /\ Matched(d, q) <=> Matched(e, q)
             /\ Matched(d, q) => FactorOf(d, q) = FactorOf(e, q)
  <2>1. Hits(read, q) = Hits(rules, q)
    BY <1>2 DEF Hits
  <2>2. Winner("indexed", read, Hits(read, q)) = Winner("indexed", rules, Hits(rules, q))
    BY <2>1 DEF Winner
  <2>3. Matched(e, q) => Winner("indexed", rules, Hits(rules, q)) \in DOMAIN rules
    BY WinnerHits DEF Matched, Hits
  <2> QED BY <1>2, <2>1, <2>2, <2>3 DEF Matched, FactorOf
<1>8. Alike(d, e)
  BY <1>7 DEF Alike
<1> QED BY <1>6, <1>8 DEF Loaded

\* ADR-0007: "a Decider built from a snapshot produces identical Decisions to
\* one built directly from rules": snapshot.Build, Write, Read and
\* LoadIntoIndexedDecider in a row, for every rule set the indexed engine
\* accepts and whose factors are finite numbers, although the priorities are not
\* saved and the factors travel in a map keyed by name.  With a factor that is
\* NaN or an infinity, Write leaves the file empty, and the empty file is refused.
THEOREM SnapshotDecidesAlike ==
  ASSUME NEW rules \in Seq(Rule), NEW model \in Models, Accepts("indexed", rules),
         NEW written, written = SnapshotPieces(Build(rules, model)),
         NEW load, load = SnapshotLoader(DecodeSnapshot(written))
  PROVE  /\ (\A i \in DOMAIN rules : rules[i].factor \in Int) =>
              /\ load.err = "none"
              /\ Alike(load.decider, BuildDecider("indexed", rules, model).decider)
         /\ (\E i \in DOMAIN rules : rules[i].factor \notin Int) =>
              written = <<>> /\ load.err = "internal"
<1>a. CASE ~Encodable(Build(rules, model))
  <2>1. written = <<>>
    BY <1>a DEF SnapshotPieces
  <2>2. load = Failed("internal")
    BY <2>1 DEF DecodeSnapshot, WellFormed, SnapshotLoader, Reads
  <2> QED BY <1>a, <2>1, <2>2, EncodableNumbers DEF Failed
<1>b. CASE Encodable(Build(rules, model))
  <2>1. /\ load.err = "none"
        /\ Alike(load.decider, BuildDecider("indexed", rules, model).decider)
    BY <1>b, WrittenDecidesAlike
  <2> QED BY <1>b, <2>1, EncodableNumbers
<1> QED BY <1>a, <1>b

\* Whatever mixture of writes a snapshot was read from, a rule that loads has a
\* factor that was written under its name, and never a silent zero
\* (LoadIntoIndexedDecider: ErrMissingFactor).
THEOREM ReadFactorsWereWritten ==
  ASSUME NEW got \in Seq(Pieces), NEW Written,
         \A i \in DOMAIN got : got[i].kind = "factor"
                                 => <<got[i].name, got[i].factor>> \in Written,
         NEW load, load = SnapshotLoader(DecodeSnapshot(got)), load.err = "none"
  PROVE  \A i \in DOMAIN load.decider.rules :
           <<load.decider.rules[i].name, load.decider.rules[i].factor>> \in Written
<1> DEFINE snap == DecodeSnapshot(got)
           rules == [i \in DOMAIN snap.engine |->
                       [name |-> snap.engine[i].name, on |-> snap.engine[i].on,
                        indexable |-> snap.engine[i].indexable,
                        factor |-> CHOOSE f \in snap.factors[snap.engine[i].name] : TRUE,
                        priority |-> 0]]
<1>1. WellFormed(got)
  <2>1. CASE ~WellFormed(got)
    <3>1. snap = [opens |-> TRUE, decodes |-> FALSE]
      BY <2>1 DEF DecodeSnapshot
    <3> QED BY <3>1 DEF SnapshotLoader, Reads, Failed
  <2> QED BY <2>1
<1>2. PICK k \in DOMAIN got : /\ got[k].kind = "engine"
                              /\ \A i \in 2 .. k - 1 : got[i].kind = "factor"
                              /\ \A i \in k + 1 .. Len(got) - 1 : got[i].kind = "rule"
  BY <1>1 DEF WellFormed
<1>3. Len(got) \in Nat /\ DOMAIN got = 1 .. Len(got) /\ k \in 1 .. Len(got)
  BY <1>2
<1>4. EngineAt(got) = k
  <2>1. got[1].kind = "head" /\ got[Len(got)].kind = "end"
    BY <1>1 DEF WellFormed
  <2>2. \A i \in DOMAIN got : got[i].kind = "engine" => i = k
    <3> SUFFICES ASSUME NEW i \in DOMAIN got, got[i].kind = "engine", i # k PROVE FALSE
      OBVIOUS
    <3>1. i # 1 /\ i # Len(got)
      BY <2>1
    <3>2. i \in 2 .. k - 1 \/ i \in k + 1 .. Len(got) - 1
      BY <1>3, <3>1
    <3> QED BY <1>2, <3>2
  <2> QED BY <1>2, <2>2 DEF EngineAt
<1> DEFINE Last(m) == {i \in 2 .. k - 1 : /\ got[i].name = m
                                          /\ \A j \in 2 .. k - 1 : got[j].name = m => j <= i}
           len == Len(got) - 1 - k
<1>5. snap = [opens |-> TRUE, decodes |-> TRUE, version |-> got[1].version,
              model |-> got[1].model,
              factors |-> [m \in RuleNames |-> {got[i].factor : i \in Last(m)}],
              hasEngine |-> TRUE, engine |-> [i \in 1 .. len |-> got[k + i].rule]]
  BY <1>1, <1>4 DEF DecodeSnapshot
<1>6. /\ load = LoadIntoIndexedDecider(snap)
      /\ \A m \in Names(snap.engine) : snap.factors[m] # {}
      /\ load = BuildDecider("indexed", rules, snap.model)
  <2>1. load = LoadIntoIndexedDecider(snap)
    BY DEF SnapshotLoader, Failed
  <2>2. \A m \in Names(snap.engine) : snap.factors[m] # {}
    BY <2>1 DEF LoadIntoIndexedDecider, Failed
  <2>3. snap.hasEngine
    BY <1>5
  <2> HIDE DEF snap
  <2>4. load = BuildDecider("indexed", rules, snap.model)
    BY <2>1, <2>2, <2>3 DEF LoadIntoIndexedDecider
  <2> QED BY <2>1, <2>2, <2>4
<1>7. load.decider.rules = rules
  BY <1>6 DEF BuildDecider, Loaded, Failed
<1>8. DOMAIN snap.engine = 1 .. len /\ \A i \in 1 .. len : snap.engine[i] = got[k + i].rule
  BY <1>5
<1>9. \A m \in RuleNames : snap.factors[m] = {got[i].factor : i \in Last(m)}
  BY <1>5
<1> HIDE DEF snap
<1> SUFFICES ASSUME NEW i \in 1 .. len
             PROVE  <<rules[i].name, rules[i].factor>> \in Written
  BY <1>7, <1>8
<1>10. rules[i].name = snap.engine[i].name
       /\ rules[i].factor = CHOOSE f \in snap.factors[snap.engine[i].name] : TRUE
  BY <1>8
<1> DEFINE name == snap.engine[i].name
<1>11. name \in RuleNames /\ name \in Names(snap.engine)
  <2>1. k + i \in k + 1 .. Len(got) - 1 /\ k + i \in DOMAIN got
    BY <1>3
  <2>2. got[k + i].kind = "rule" /\ got[k + i] \in Pieces
    BY <1>2, <2>1
  <2>3. got[k + i].rule \in Indexed
    BY <2>2 DEF Pieces
  <2>4. snap.engine[i] \in Indexed
    BY <1>8, <2>3
  <2> QED BY <1>8, <2>4 DEF Indexed, Names
<1>12. (CHOOSE f \in snap.factors[name] : TRUE) \in snap.factors[name]
  BY <1>6, <1>11
<1> HIDE DEF name, Last
<1>13. PICK j \in Last(name) : got[j].factor = CHOOSE f \in snap.factors[name] : TRUE
  BY <1>9, <1>11, <1>12
<1>14. j \in 2 .. k - 1 /\ got[j].name = name
  BY <1>13 DEF Last
<1>15. got[j].kind = "factor" /\ j \in DOMAIN got
  BY <1>2, <1>3, <1>14
<1>16. <<got[j].name, got[j].factor>> \in Written
  BY <1>15
<1> QED BY <1>10, <1>13, <1>14, <1>16 DEF name


\* A row of a CSV that reads as one is a rule of the list it was written for.
LEMMA CsvPieceKinds ==
  ASSUME NEW csv \in Csv, NEW i \in DOMAIN CsvPieces(csv), i >= 2
  PROVE  \/ CsvPieces(csv)[i].kind = "malformed"
         \/ /\ CsvPieces(csv)[i].kind = "row"
            /\ \E j \in DOMAIN csv.rules : CsvPieces(csv)[i].rule = csv.rules[j]
<1> DEFINE n == Len(csv.rules)
           p == CsvPieces(csv)
<1>0. n \in Nat /\ DOMAIN csv.rules = 1 .. n /\ csv.parses \in BOOLEAN
  BY DEF Csv
<1>1. IsCsv(p, csv, n)
  BY CsvPiecesWritten
<1> HIDE DEF n, p
<1>2. /\ \E S : p \in Seq(S)
      /\ Len(p) = IF csv.parses THEN n + 1 ELSE n + 2
      /\ \A j \in 1 .. n : p[j + 1].kind = "row" /\ p[j + 1].rule = csv.rules[j]
      /\ ~csv.parses => p[n + 2].kind = "malformed"
  BY <1>1 DEF IsCsv
<1>3. i \in 1 .. Len(p)
  BY <1>2 DEF p
<1>4. CASE i <= n + 1
  <2>1. i - 1 \in 1 .. n /\ (i - 1) + 1 = i
    BY <1>0, <1>3, <1>4
  <2>2. p[(i - 1) + 1].kind = "row" /\ p[(i - 1) + 1].rule = csv.rules[i - 1]
    BY <1>2, <2>1
  <2> QED BY <1>0, <2>1, <2>2 DEF p
<1>5. CASE i > n + 1
  <2>1. i = n + 2 /\ ~csv.parses
    BY <1>0, <1>2, <1>3, <1>5
  <2> QED BY <1>2, <2>1 DEF p
<1> QED BY <1>0, <1>3, <1>4, <1>5

\* What is written for a rule list is pieces, a header first, and never the
\* brace that ends a snapshot.
LEMMA CsvPiecesType ==
  ASSUME NEW csv \in Csv
  PROVE  /\ CsvPieces(csv) \in Seq(Pieces) /\ Len(CsvPieces(csv)) >= 1
         /\ \A i \in DOMAIN CsvPieces(csv) : CsvPieces(csv)[i].kind # "end"
<1> DEFINE n == Len(csv.rules)
           h == [kind |-> "header"]
           z == [kind |-> "malformed"]
           r == [i \in 1 .. n |-> [kind |-> "row", rule |-> csv.rules[i]]]
           S == {piece \in Pieces : piece.kind # "end"}
           q == <<h>> \o r
           t == IF csv.parses THEN <<>> ELSE <<z>>
<1>1. n \in Nat /\ DOMAIN csv.rules = 1 .. n /\ \A i \in 1 .. n : csv.rules[i] \in Rule
  <2>1. csv.rules \in Seq(Rule)
    BY DEF Csv
  <2> QED BY <2>1
<1>2. h \in S /\ z \in S
  BY DEF Pieces
<1>3. r \in Seq(S)
  <2>1. \A i \in 1 .. n : [kind |-> "row", rule |-> csv.rules[i]] \in S
    BY <1>1 DEF Pieces
  <2> HIDE DEF S, n
  <2>2. r \in [1 .. n -> S]
    BY <2>1
  <2> QED BY <1>1, <2>2
<1>4. CsvPieces(csv) = q \o t
  BY <1>1 DEF CsvPieces
<1>5. Len(r) = n
  BY <1>1
<1> HIDE DEF h, z, r, S, n
<1>6. q \in Seq(S) /\ Len(q) >= 1
  <2>1. <<h>> \in Seq(S) /\ Len(<<h>>) = 1
    BY <1>2
  <2>2. Len(q) = 1 + n /\ q \in Seq(S)
    BY <1>3, <1>5, <2>1
  <2> QED BY <1>1, <2>2
<1>7. t \in Seq(S)
  BY <1>2
<1> HIDE DEF q, t
<1>8. q \o t \in Seq(S) /\ Len(q \o t) = Len(q) + Len(t) /\ Len(t) \in Nat
  BY <1>6, <1>7
<1>9. \A i \in DOMAIN CsvPieces(csv) : CsvPieces(csv)[i] \in S
  BY <1>4, <1>8
<1>10. CsvPieces(csv) \in Seq(Pieces)
  <2>1. S \subseteq Pieces
    BY DEF S
  <2> QED BY <1>4, <1>8, <2>1
<1> QED BY <1>4, <1>6, <1>8, <1>9, <1>10 DEF S

\* Every piece of a snapshot is one; a factor in it is the number of a rule, and
\* its end comes last.
LEMMA SnapshotPiecesType ==
  ASSUME NEW rules \in Seq(Rule), NEW model \in Models, DistinctNames(rules),
         Encodable(Build(rules, model)),
         NEW p, p = SnapshotPieces(Build(rules, model))
  PROVE  /\ p \in Seq(Pieces) /\ Len(p) = 2 * Len(rules) + 3
         /\ \A i \in DOMAIN p : p[i].kind = "end" => i = Len(p)
         /\ \A i \in DOMAIN p : p[i].kind = "factor" =>
              \E j \in DOMAIN rules : /\ p[i].name = rules[j].name
                                      /\ p[i].factor = rules[j].factor
<1> DEFINE n == Len(rules)
           built == Build(rules, model)
<1>1. n \in Nat /\ DOMAIN rules = 1 .. n /\ \A i \in 1 .. n : rules[i] \in Rule
  OBVIOUS
<1>2. /\ built.version = FormatVersion /\ built.model = model
      /\ DOMAIN built.engine = 1 .. n
      /\ \A i \in 1 .. n : built.engine[i].name = rules[i].name /\ built.engine[i] \in Indexed
  <2>1. /\ built.version = FormatVersion /\ built.model = model
        /\ built.engine = [i \in DOMAIN rules |->
                 [name |-> rules[i].name, on |-> rules[i].on,
                  indexable |-> rules[i].indexable]]
    BY DEF Build
  <2> HIDE DEF built
  <2> QED BY <1>1, <2>1 DEF Rule, Indexed
<1>3. \A i \in 1 .. n : built.factors[rules[i].name] = {rules[i].factor}
  <2> TAKE i \in 1 .. n
  <2>1. rules[i].name \in RuleNames
    BY <1>1 DEF Rule
  <2>2. {j \in DOMAIN rules : rules[j].name = rules[i].name} = {i}
    BY <1>1 DEF DistinctNames
  <2>3. built.factors[rules[i].name] =
          {rules[j].factor : j \in {j \in DOMAIN rules : rules[j].name = rules[i].name}}
    BY <2>1 DEF Build
  <2> QED BY <2>2, <2>3
<1>p. p = SnapshotPieces(built)
  OBVIOUS
<1>m. \A i \in 1 .. n : rules[i].factor \in Int /\ rules[i].name \in RuleNames
  BY <1>1, EncodableNumbers DEF Rule
<1>e. Encodable(built)
  OBVIOUS
<1> HIDE DEF n, built
<1>4. /\ Len(p) = 2 * n + 3 /\ DOMAIN p = 1 .. 2 * n + 3
      /\ p[1] = [kind |-> "head", version |-> built.version, model |-> built.model]
      /\ \A i \in 1 .. n : p[i + 1] = FactorPiece(built, built.engine[i].name)
      /\ p[n + 2] = [kind |-> "engine"]
      /\ \A i \in 1 .. n : p[n + 2 + i] = [kind |-> "rule", rule |-> built.engine[i]]
      /\ p[2 * n + 3] = [kind |-> "end"]
  BY <1>1, <1>2, <1>e, <1>p, PiecesWritten
<1>5. /\ p[1].kind = "head" /\ p[n + 2].kind = "engine" /\ p[2 * n + 3].kind = "end"
      /\ \A i \in n + 3 .. 2 * n + 2 : p[i].kind = "rule"
      /\ \A i \in DOMAIN p : p[i].kind = "end" => i = 2 * n + 3
  BY <1>1, <1>2, <1>e, <1>p, KindsWritten
<1>6. ASSUME NEW i \in 2 .. n + 1
      PROVE  \E j \in 1 .. n : p[i] = [kind |-> "factor", name |-> rules[j].name,
                                       factor |-> rules[j].factor]
  <2>1. i - 1 \in 1 .. n /\ (i - 1) + 1 = i
    BY <1>1
  <2>2. p[i] = FactorPiece(built, rules[i - 1].name)
    BY <1>2, <1>4, <2>1
  <2>3. (CHOOSE f \in built.factors[rules[i - 1].name] : TRUE) = rules[i - 1].factor
    BY <1>3, <2>1
  <2> QED BY <2>1, <2>2, <2>3 DEF FactorPiece
<1>7. \A i \in 1 .. 2 * n + 3 :
        i = 1 \/ i \in 2 .. n + 1 \/ i = n + 2 \/ i \in n + 3 .. 2 * n + 2 \/ i = 2 * n + 3
  BY <1>1
<1>8. ASSUME NEW i \in 1 .. 2 * n + 3 PROVE p[i] \in Pieces
  <2>1. CASE i = 1
    BY <1>2, <1>4, <2>1 DEF Pieces
  <2>2. CASE i \in 2 .. n + 1
    <3>1. PICK j \in 1 .. n : p[i] = [kind |-> "factor", name |-> rules[j].name,
                                      factor |-> rules[j].factor]
      BY <1>6, <2>2
    <3>2. p[i] \in [kind: {"factor"}, name: RuleNames, factor: Int]
      BY <1>m, <3>1
    <3> QED BY <3>2 DEF Pieces
  <2>3. CASE i = n + 2
    BY <1>4, <2>3 DEF Pieces
  <2>4. CASE i \in n + 3 .. 2 * n + 2
    <3>1. i - (n + 2) \in 1 .. n /\ n + 2 + (i - (n + 2)) = i
      BY <1>1, <2>4
    <3>2. p[i] = [kind |-> "rule", rule |-> built.engine[i - (n + 2)]]
      BY <1>4, <3>1
    <3> QED BY <1>2, <3>1, <3>2 DEF Pieces
  <2>5. CASE i = 2 * n + 3
    BY <1>4, <2>5 DEF Pieces
  <2> QED BY <1>7, <2>1, <2>2, <2>3, <2>4, <2>5
<1>9. p \in Seq(Pieces)
  <2>1. PICK S : p \in Seq(S)
    BY <1>1, <1>2, <1>e, <1>p, PiecesWritten DEF IsSeq
  <2>2. \A i \in 1 .. Len(p) : p[i] \in Pieces
    BY <1>4, <1>8
  <2> QED BY <2>1, <2>2
<1>10. ASSUME NEW i \in DOMAIN p, p[i].kind = "factor"
       PROVE  \E j \in DOMAIN rules : /\ p[i].name = rules[j].name
                                      /\ p[i].factor = rules[j].factor
  <2>1. i \in 2 .. n + 1
    BY <1>4, <1>5, <1>7, <1>10
  <2>2. PICK j \in 1 .. n : p[i] = [kind |-> "factor", name |-> rules[j].name,
                                    factor |-> rules[j].factor]
    BY <1>6, <2>1
  <2> QED BY <1>1, <2>2
<1> QED BY <1>4, <1>5, <1>9, <1>10 DEF n


\* Whatever rows were read make a CSV source, and each rule in it is a row.
LEMMA ParseCsvType ==
  ASSUME NEW got \in Seq(Pieces),
         \A i \in DOMAIN got : i >= 2 => got[i].kind \in {"row", "malformed"}
  PROVE  /\ ParseCsv(got) \in Csv
         /\ \A i \in DOMAIN ParseCsv(got).rules :
              /\ i + 1 \in DOMAIN got /\ i + 1 >= 2 /\ got[i + 1].kind = "row"
              /\ ParseCsv(got).rules[i] = got[i + 1].rule
<1> DEFINE rows == SubSeq(got, 2, Len(got))
<1>1. /\ rows \in Seq(Pieces)
      /\ \A i \in DOMAIN rows : i \in Nat /\ i + 1 \in DOMAIN got /\ i + 1 >= 2 /\ rows[i] = got[i + 1]
  <2>1. CASE got = <<>>
    <3>1. rows = <<>>
      BY <2>1
    <3> QED BY <3>1
  <2>2. CASE got # <<>>
    <3>0. Len(got) \in Nat /\ Len(got) >= 1 /\ DOMAIN got = 1 .. Len(got)
      BY <2>2
    <3>1. DOMAIN rows = 1 .. Len(got) - 1 /\ \A i \in 1 .. Len(got) - 1 : rows[i] = got[i + 1]
      BY <3>0
    <3>2. rows \in Seq(Pieces)
      BY <3>0
    <3> HIDE DEF rows
    <3> QED BY <3>0, <3>1, <3>2
  <2> QED BY <2>1, <2>2
<1> HIDE DEF rows
<1>2. CASE \E i \in DOMAIN rows : rows[i].kind = "malformed"
  <2>1. ParseCsv(got) = [opens |-> TRUE, parses |-> FALSE, rules |-> <<>>]
    BY <1>2 DEF ParseCsv, rows
  <2> QED BY <2>1 DEF Csv
<1>3. CASE ~ \E i \in DOMAIN rows : rows[i].kind = "malformed"
  <2> DEFINE rules == [i \in DOMAIN rows |-> rows[i].rule]
  <2>1. ParseCsv(got) = [opens |-> TRUE, parses |-> TRUE, rules |-> rules]
    BY <1>3 DEF ParseCsv, rows
  <2>2. ASSUME NEW i \in DOMAIN rows
        PROVE  got[i + 1].kind = "row" /\ rows[i].rule \in Rule
    <3>1. i + 1 \in DOMAIN got /\ i + 1 >= 2 /\ rows[i] = got[i + 1] /\ rows[i] \in Pieces
      BY <1>1
    <3>2. rows[i].kind = "row"
      BY <1>3, <3>1
    <3> QED BY <3>1, <3>2 DEF Pieces
  <2>3. rules \in Seq(Rule)
    <3>1. DOMAIN rows = 1 .. Len(rows) /\ Len(rows) \in Nat
      BY <1>1
    <3>2. rules \in [1 .. Len(rows) -> Rule]
      BY <2>2, <3>1
    <3> QED BY <3>1, <3>2
  <2>4. ParseCsv(got) \in Csv
    <3> HIDE DEF rules
    <3> QED BY <2>1, <2>3 DEF Csv
  <2>5. ASSUME NEW i \in DOMAIN ParseCsv(got).rules
        PROVE  /\ i + 1 \in DOMAIN got /\ i + 1 >= 2 /\ got[i + 1].kind = "row"
               /\ ParseCsv(got).rules[i] = got[i + 1].rule
    <3>1. ParseCsv(got).rules = rules
      BY <2>1
    <3>2. i \in DOMAIN rows /\ rules[i] = rows[i].rule
      BY <3>1
    <3> QED BY <1>1, <2>2, <3>1, <3>2
  <2> QED BY <2>4, <2>5
<1> QED BY <1>2, <1>3

\* What loads was a JSON value, and holds what a snapshot holds.
LEMMA DecodeSnapshotType ==
  ASSUME NEW got \in Seq(Pieces), SnapshotLoader(DecodeSnapshot(got)).err = "none"
  PROVE  DecodeSnapshot(got) \in Snapshot
<1> DEFINE snap == DecodeSnapshot(got)
<1>1. WellFormed(got)
  <2>1. CASE ~WellFormed(got)
    <3>1. snap = [opens |-> TRUE, decodes |-> FALSE]
      BY <2>1 DEF DecodeSnapshot
    <3> QED BY <3>1 DEF SnapshotLoader, Reads, Failed
  <2> QED BY <2>1
<1>2. PICK k \in DOMAIN got : /\ got[k].kind = "engine"
                              /\ \A i \in 2 .. k - 1 : got[i].kind = "factor"
                              /\ \A i \in k + 1 .. Len(got) - 1 : got[i].kind = "rule"
  BY <1>1 DEF WellFormed
<1>3. Len(got) \in Nat /\ DOMAIN got = 1 .. Len(got) /\ k \in 1 .. Len(got)
  BY <1>2
<1>4. got[1].kind = "head" /\ got[Len(got)].kind = "end" /\ 1 \in DOMAIN got
  BY <1>1, <1>3 DEF WellFormed
<1>5. EngineAt(got) = k
  <2>1. \A i \in DOMAIN got : got[i].kind = "engine" => i = k
    <3> SUFFICES ASSUME NEW i \in DOMAIN got, got[i].kind = "engine", i # k PROVE FALSE
      OBVIOUS
    <3>1. i # 1 /\ i # Len(got)
      BY <1>4
    <3>2. i \in 2 .. k - 1 \/ i \in k + 1 .. Len(got) - 1
      BY <1>3, <3>1
    <3> QED BY <1>2, <3>2
  <2> QED BY <1>2, <2>1 DEF EngineAt
<1> DEFINE Last(m) == {i \in 2 .. k - 1 : /\ got[i].name = m
                                          /\ \A j \in 2 .. k - 1 : got[j].name = m => j <= i}
           len == Len(got) - 1 - k
           factors == [m \in RuleNames |-> {got[i].factor : i \in Last(m)}]
           engine == [i \in 1 .. len |-> got[k + i].rule]
<1>6. snap = [opens |-> TRUE, decodes |-> TRUE, version |-> got[1].version,
              model |-> got[1].model, factors |-> factors,
              hasEngine |-> TRUE, engine |-> engine]
  BY <1>1, <1>5 DEF DecodeSnapshot
<1>7. got[1].version = FormatVersion /\ got[1].model \in Models
  <2>1. got[1] \in Pieces
    BY <1>4
  <2> QED BY <1>4, <2>1 DEF Pieces
<1>8. factors \in [RuleNames -> SUBSET Int]
  <2>1. \A i \in 2 .. k - 1 : got[i].factor \in Int
    <3> TAKE i \in 2 .. k - 1
    <3>1. i \in DOMAIN got /\ got[i] \in Pieces /\ got[i].kind = "factor"
      BY <1>2, <1>3
    <3> QED BY <3>1 DEF Pieces
  <2>2. \A m \in RuleNames : {got[i].factor : i \in Last(m)} \subseteq Int
    BY <2>1
  <2> QED BY <2>2
<1>9. engine \in Seq(Indexed)
  <2>1. \A i \in 1 .. len : got[k + i].rule \in Indexed
    <3> TAKE i \in 1 .. len
    <3>1. k + i \in k + 1 .. Len(got) - 1 /\ k + i \in DOMAIN got
      BY <1>3
    <3>2. got[k + i].kind = "rule" /\ got[k + i] \in Pieces
      BY <1>2, <3>1
    <3> QED BY <3>2 DEF Pieces
  <2>2. len \in Nat
    <3>1. k # Len(got)
      BY <1>2, <1>4
    <3> QED BY <1>3, <3>1
  <2> HIDE DEF len
  <2>3. engine \in [1 .. len -> Indexed]
    BY <2>1
  <2> QED BY <2>2, <2>3
<1> HIDE DEF factors, engine, snap
<1>10. snap \in Snapshot
  BY <1>6, <1>7, <1>8, <1>9 DEF Snapshot, FormatVersion
<1> QED BY <1>10 DEF snap

=============================================================================
