------------------------------- MODULE MCRouter -------------------------------
(* Three routes.  The first and the last share a model version; the last is *)
(* served from a snapshot whose own tag is not the route's model.           *)
EXTENDS Router, TLC

CONSTANTS c1, c2, r1, r2, x, drawn

BR == [country |-> "BR", present |-> {"country", "customer_tier"}]
MCRequests == {BR}

R(on, factor) ==
  [name |-> "a", on |-> on, indexable |-> TRUE, factor |-> factor, priority |-> 0]
Parsed(rules) == [opens |-> TRUE, parses |-> TRUE, rules |-> rules]
Low  == <<R({BR}, 12)>>
High == <<R({BR}, 30)>>
Off  == <<R({}, 12)>>
Garbled == [opens |-> TRUE, parses |-> FALSE, rules |-> <<>>]

MCRoutes ==
  <<[model |-> "v2", variant |-> "shadowed",  type |-> "rules",    path |-> "one"],
    [model |-> "v1", variant |-> "control",   type |-> "rules",    path |-> "one"],
    [model |-> "v2", variant |-> "treatment", type |-> "snapshot", path |-> "two"]>>
MCContents == [one |-> {Parsed(Low), Garbled},
               two |-> {Build(High, "v0"), Build(Off, "v0")}]

\* x is sent by callers and lands on the second route, the drawn one on the third.
MCCids == {x, drawn}
MCHash == (x :> 7) @@ (drawn :> 5)
MCGenerated == {drawn}
Alike == Permutations({c1, c2}) \cup Permutations({r1, r2})
=============================================================================
