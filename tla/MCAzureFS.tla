------------------------------ MODULE MCAzureFS ------------------------------
\* Small instances of AzureFS for TLC.
EXTENDS AzureFS, Workload

\* Paths with /2 in them have "404" in their names.
Names404 == {2}
=============================================================================
