------------------------ MODULE MCPLSpectrumRuntime ------------------------
(* Small instances of PLSpectrumRuntime for TLC. *)
EXTENDS PLSpectrumRuntime, TLC

CONSTANTS slow, fast, lo1, lo2

\* The rate ceiling of FFTConfig makes the averaging depth grow with the rate.
MCFramesPerUpdate == (slow :> 1) @@ (fast :> 2)

MCSymmetry == Permutations({lo1, lo2})
=============================================================================
