----------------------------- MODULE MCRenderer -----------------------------
EXTENDS Renderer, TLC

\* no command treats one id, or one subresource, differently from another
IdSymmetry == Permutations(Id) \cup Permutations(Sub)
=============================================================================
