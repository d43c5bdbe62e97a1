----------------------------- MODULE Guardrails -----------------------------
(***************************************************************************)
(* The guardrail rules: how a configuration becomes a rule list, which     *)
(* decisions a rule list lets out, and how a rule list is turned back into *)
(* the configuration GET and POST /admin/guardrails answer with.           *)
(*                                                                         *)
(* An axis of a configuration is a set of at most one value: empty when    *)
(* the axis is absent (a nil pointer or slice).  A list of countries or of *)
(* field names is the set of its members: their order shows only in the    *)
(* text of a veto.                                                         *)
(***************************************************************************)
EXTENDS RuleSets

CONSTANTS
  Countries,  \* values of Request.Country
  Fields      \* the seven string fields of Request that Check knows by name

ASSUME RequestsAssumption ==
  Requests \subseteq [country: Countries, present: SUBSET Fields]

FactorRange(min, max)  == [type |-> "FactorRange", min |-> min, max |-> max]
AllowedCountries(set)  == [type |-> "AllowedCountries", countries |-> set]
RequiredFields(set)    == [type |-> "RequiredFields", fields |-> set]

GuardrailRule == [type: {"FactorRange"}, min: Factor, max: Factor]
                   \cup [type: {"AllowedCountries"}, countries: SUBSET Countries]
                   \cup [type: {"RequiredFields"}, fields: SUBSET STRING]

\* Rule.Check of the three shipped rules.
InRange_NoMax(rule, factor) == ~Less(factor, rule.min)  \* faulty
InRange(rule, factor)  == ~Less(factor, rule.min) /\ ~Less(rule.max, factor)
InList(rule, req)      == req.country \in rule.countries
HasFields(rule, req)   == rule.fields \subseteq req.present

Check(rule, factor, req) ==
  CASE rule.type = "FactorRange"      -> InRange(rule, factor)
    [] rule.type = "AllowedCountries" -> InList(rule, req)
    [] rule.type = "RequiredFields"   -> HasFields(rule, req)

\* No rule vetoes: the decision leaves the service.
Allows(rules, factor, req) == \A i \in DOMAIN rules : Check(rules[i], factor, req)

-----------------------------------------------------------------------------
\* RuleSpec and GuardrailsConfig: the three optional axes.
NoConfig == [factorRange |-> {}, countries |-> {}, fields |-> {}]

\* BuildRules succeeds: no inverted range, no axis that is set but empty.
Buildable(cfg) ==
  /\ \A r \in cfg.factorRange : ~Less(r.max, r.min)
  /\ {} \notin cfg.countries
  /\ {} \notin cfg.fields

\* The rule list, in BuildRules' fixed order.
BuildRules(cfg) ==
  LET axis(set, Make(_)) == IF set = {} THEN <<>> ELSE <<Make(CHOOSE v \in set : TRUE)>>
      range(r) == FactorRange(r.min, r.max)
  IN axis(cfg.factorRange, range)
       \o axis(cfg.countries, AllowedCountries)
       \o axis(cfg.fields, RequiredFields)

\* snapshotToConfig: the configuration a rule list is reported as.
SnapshotToConfig(rules) ==
  LET of(type) == {i \in DOMAIN rules : rules[i].type = type}
  IN [factorRange |-> {[min |-> rules[i].min, max |-> rules[i].max] : i \in of("FactorRange")},
      countries   |-> {rules[i].countries : i \in of("AllowedCountries")},
      fields      |-> {rules[i].fields : i \in of("RequiredFields")}]

=============================================================================
