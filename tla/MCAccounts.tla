------------------------------ MODULE MCAccounts ------------------------------
EXTENDS Accounts, TLC

\* SomeTenant and Founder are fixed names: only the links and the request
\* slots are interchangeable.
Symmetry == Permutations(Links) \cup Permutations(Slots)
=============================================================================
