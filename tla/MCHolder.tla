------------------------------ MODULE MCHolder ------------------------------
(* Two readers and two writers of a value that is two words wide.           *)
EXTENDS Holder

CONSTANTS r1, r2, w1, w2, v1, v2, type, data
MCReaders == {r1, r2}
MCWriters == {w1, w2}
MCValues == {v1, v2}
Interface == {type, data}
=============================================================================
