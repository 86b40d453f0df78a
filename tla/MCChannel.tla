----------------------------- MODULE MCChannel -----------------------------
EXTENDS Channel, TLC

\* User processes are interchangeable.
UserSymmetry == Permutations(Users)

=============================================================================
