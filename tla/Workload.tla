------------------------------ MODULE Workload ------------------------------
(***************************************************************************)
(* Requests, buckets and prefixes for the small instances of the storage   *)
(* backends.  Names are numbers: /1, /2 and /3 are paths at the top, /1/1  *)
(* and /1/2 are below /1; "9/" is the configured prefix and 8 the folder   *)
(* of another tenant of the bucket.                                        *)
(***************************************************************************)
EXTENDS CloudFS, TLC

Names == {1, 2, 3, 7, 8, 9}

Team == <<9>>

Put(p) == [op |-> "PUT", path |-> p, dst |-> <<>>, over |-> FALSE]

Delete(p) == [op |-> "DELETE", path |-> p, dst |-> <<>>, over |-> FALSE]

Mkcol(p) == [op |-> "MKCOL", path |-> p, dst |-> <<>>, over |-> FALSE]

Move(p, q, o) == [op |-> "MOVE", path |-> p, dst |-> q, over |-> o]

----------------------------------------------------------------------------
\* Contents no PUT of a run uploads.
f == 11
g == 12
h == 13

Tenant == <<8, 1>> :> h

\* The folder /1 with a marker and two files.
Tree == (<<9, 1, Empty>> :> Marker) @@ (<<9, 1, 1>> :> f) @@ (<<9, 1, 2>> :> g)

\* The folder /1/2 with two files, with and without markers, beside a file /2.
Deep ==
    (<<9, 1, 2, Empty>> :> Marker) @@ (<<9, 1, 2, 1>> :> f)
        @@ (<<9, 1, 2, 3>> :> g) @@ (<<9, 1, Empty>> :> Marker) @@ (<<9, 2>> :> f)

DeepVirtual ==
    (<<9, 1, 2, 1>> :> f) @@ (<<9, 1, 2, 3>> :> g)
        @@ (<<9, 1, 1>> :> h) @@ (<<9, 2>> :> f)

TreeSeed == {Tree @@ Tenant}

DeepSeeds == {Deep @@ Tenant, DeepVirtual @@ Tenant}

----------------------------------------------------------------------------
\* /1 and /2 are moved, overwritten, deleted and uploaded to by name.
FlatRequests ==
    {Move(<<1>>, <<2>>, TRUE), Move(<<2>>, <<1>>, FALSE),
     Put(<<1>>), Put(<<2>>), Delete(<<1>>), Mkcol(<<2>>)}

\* The same inside a folder that nobody names, with a new folder below a path
\* that is no folder.
InsideRequests ==
    {Move(<<1, 2>>, <<1, 3>>, FALSE), Move(<<1, 3>>, <<1, 2>>, TRUE),
     Put(<<1, 3>>), Delete(<<1, 2>>), Mkcol(<<1, 3>>), Mkcol(<<1, 2>>),
     Mkcol(<<2, 1>>)}

\* Uploads into a folder that is moved.
NestedRequests ==
    {Move(<<1>>, <<2>>, TRUE), Put(<<1, 1>>)}

\* A folder is moved into itself, onto its parent, and uploaded to.
SelfRequests ==
    {Move(<<1>>, <<1, 2>>, TRUE), Move(<<1, 2>>, <<1>>, TRUE), Put(<<1, 2, 1>>)}

Symmetry == Permutations(Client)
=============================================================================
