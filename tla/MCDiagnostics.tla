--------------------------- MODULE MCDiagnostics ---------------------------
\* Diagnostics with its goroutine slots interchangeable.
EXTENDS Diagnostics, TLC

Interchangeable == Permutations(Slots)
=============================================================================
