---------------------------- MODULE AtomicHolder ----------------------------
(***************************************************************************)
(* What swap.Decider, guardrails.Holder and shadow.Holder promise of the   *)
(* value they hold: each call that reads it captures, at one instant after *)
(* it was made, the whole value in force; each call that replaces it does  *)
(* so at one instant before it returns.                                    *)
(***************************************************************************)
CONSTANTS Readers, Writers, Values

VARIABLES
  current,    \* the value in force
  asked,      \* the readers with a call under way
  got,        \* what each has captured: no value or one
  put,        \* the value each writer is installing, if it is
  installed   \* the writers whose value has come into force
holder == <<current, asked, got, put, installed>>

\* No call is under way but those that wait to replace the first value.
Init == /\ current \in Values
        /\ asked = {} /\ got = [r \in Readers |-> {}]
        /\ put \in [Writers -> {{}} \cup {{v} : v \in Values}] /\ installed = {}

Ask(r) == /\ r \notin asked
          /\ asked' = asked \cup {r}
          /\ UNCHANGED <<current, got, put, installed>>

Capture(r) == /\ r \in asked /\ got[r] = {}
              /\ got' = [got EXCEPT ![r] = {current}]
              /\ UNCHANGED <<current, asked, put, installed>>

Return(r) == /\ got[r] # {}
             /\ asked' = asked \ {r}
             /\ got' = [got EXCEPT ![r] = {}]
             /\ UNCHANGED <<current, put, installed>>

Want(w, v) == /\ put[w] = {}
              /\ put' = [put EXCEPT ![w] = {v}]
              /\ UNCHANGED <<current, asked, got, installed>>

Install(w) == /\ put[w] # {} /\ w \notin installed
              /\ current' \in put[w]
              /\ installed' = installed \cup {w}
              /\ UNCHANGED <<asked, got, put>>

Finish(w) == /\ w \in installed
             /\ put' = [put EXCEPT ![w] = {}]
             /\ installed' = installed \ {w}
             /\ UNCHANGED <<current, asked, got>>

Next == \/ \E r \in Readers : Ask(r) \/ Capture(r) \/ Return(r)
        \/ \E w \in Writers : Install(w) \/ Finish(w) \/ \E v \in Values : Want(w, v)

Spec == Init /\ [][Next]_holder

=============================================================================
