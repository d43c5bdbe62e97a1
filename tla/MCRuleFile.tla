----------------------------- MODULE MCRuleFile -----------------------------
(* Instances of RuleFile: rule sets of one and two rules that share names   *)
(* or do not, so that a torn file can have the layout of a whole one, and   *)
(* one source of every kind the tool refuses.                               *)
EXTENDS RuleFile, TLC

MCRequests == {[country |-> "BR", present |-> {}], [country |-> "DE", present |-> {}]}
On(country) == {q \in MCRequests : q.country = country}

R(name, country, factor) ==
  [name |-> name, on |-> On(country), indexable |-> TRUE, factor |-> factor, priority |-> 1]
Given(rules, model) == [csv |-> [opens |-> TRUE, parses |-> TRUE, rules |-> rules],
                        model |-> model]

Old      == Given(<<R("a", "BR", 12), R("b", "DE", 11)>>, "v1")
New      == Given(<<R("a", "DE", 13), R("b", "BR", 14)>>, "v2")
Other    == Given(<<R("c", "BR", 15), R("b", "DE", 12)>>, "v2")
Single   == Given(<<R("a", "BR", 16)>>, "v2")
Free     == Given(<<R("a", "BR", 0)>>, "v2")
NoNumber == Given(<<R("a", "BR", NaN)>>, "v2")
Endless  == Given(<<R("b", "BR", Inf)>>, "v2")
Twice    == Given(<<R("a", "BR", 12), R("a", "DE", 13)>>, "v2")
Broken   == [Old EXCEPT !.csv.parses = FALSE]
Missing  == [csv |-> [opens |-> FALSE, parses |-> FALSE, rules |-> <<>>], model |-> "v2"]

MCSources == {Old, New, Other, Single, Free, NoNumber, Endless, Twice, Broken, Missing}

Symmetry == Permutations(Loads)

=============================================================================
