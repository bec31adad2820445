----------------------------- MODULE MCFtpVita -----------------------------
EXTENDS FtpVita, TLC

\* Client addresses are interchangeable.
Symmetry == Permutations(Clients)
=============================================================================
