--------------------------- MODULE MCInstallation ---------------------------
EXTENDS InstallationSafety, TLC

\* Users, and secrets, are told apart by nothing but their names.
Symmetry == Permutations(Users) \cup Permutations(Names)

=============================================================================
