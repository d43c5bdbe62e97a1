----------------------------- MODULE MCTelemetry -----------------------------
(***************************************************************************)
(* Instances of Telemetry: calls that interleave, a factor that can be     *)
(* encoded and one that cannot, calls with and without the caller's span.  *)
(***************************************************************************)
EXTENDS Telemetry

CONSTANTS c1, c2

MCFactors == {12, NaN}

=============================================================================
