----------------------------- MODULE MCBootLoad -----------------------------
EXTENDS BootLoad
MCLoads == {4, 6, 8, 12, 16}
MCLens == {1, 3, 4, 6, 8, 9, 12}
\* below, inside and above okboot, aligned or not; with 60 the sums wrap
MCWords == {0, 5, 8, 12, 20, 44, 60}
=============================================================================
