------------------------------- MODULE MCShadow -------------------------------
(* Two calls, a challenger that is loaded and cleared, and a champion that *)
(* is replaced by rules that do not match, that the guardrails veto or      *)
(* whose factor is infinite: the boot envelope is unbounded                 *)
(* (--max-factor=+Inf).                                                     *)
EXTENDS Shadow

BR == [country |-> "BR", present |-> {"customer_tier"}]
MCRequests == {BR}

R(on, factor) ==
  [name |-> "a", on |-> on, indexable |-> TRUE, factor |-> factor, priority |-> 0]
DeciderOf(rules) == [adapter |-> "inmemory", rules |-> rules, model |-> "v1"]
CsvOf(rules) == [media |-> "csv", content |-> [opens |-> TRUE, parses |-> TRUE, rules |-> rules]]

Low  == <<R({BR}, 12)>>
Tiny == <<R({BR}, 3)>>
Huge == <<R({BR}, Inf)>>
Off  == <<R({}, 12)>>

MCBoot      == DeciderOf(Low)
MCChampions == {DeciderOf(Huge), DeciderOf(Tiny), DeciderOf(Off)}
MCBodies == {CsvOf(Low), CsvOf(Off), CsvOf(<<>>), [media |-> "empty"]}
MCEnvelope == [NoConfig EXCEPT !.factorRange = {[min |-> 5, max |-> Inf]}]

=============================================================================
