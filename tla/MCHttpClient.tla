---------------------------- MODULE MCHttpClient ----------------------------
EXTENDS HttpClient, TLC

CONSTANTS r1, r2
Symmetry == Permutations(Requests)
=============================================================================
