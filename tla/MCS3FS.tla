------------------------------- MODULE MCS3FS -------------------------------
\* Small instances of S3FS for TLC.
EXTENDS S3FS, Workload

\* The name 7 is one S3 cannot decode, every other one stands for itself.
Plain == [n \in Names |-> IF n = 7 THEN 70 ELSE n]

\* The name 2 is "a%20b", and 1 is "a b".
Spaced == [Plain EXCEPT ![2] = 1]

\* The same folder once more, with a file whose CopySource S3 rejects.
Undecodable ==
    (<<9, 1, 2, 1>> :> f) @@ (<<9, 1, 2, 7>> :> g) @@ (<<9, 1, Empty>> :> Marker)

S3Seeds == DeepSeeds \cup {Undecodable @@ Tenant}

\* A file beside another one is renamed.
FileRequests == {Move(<<1, 2>>, <<1, 3>>, FALSE)}
=============================================================================
