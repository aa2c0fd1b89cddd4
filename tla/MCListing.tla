------------------------------ MODULE MCListing ------------------------------
\* Small instances of Listing for TLC.  Names are numbers; 9 is the prefix.
EXTENDS Listing

Names == {1, 2, 3, 9}

Team == <<9>>

NoPrefix == <<>>

Backends == {"s3", "gcs", "azure"}

Get(p, s) == [path |-> p, slash |-> s]

\* The root, a folder, a file, and nothing.
Requests == {Get(p, s) : p \in {<<1>>, <<2>>, <<1, 3>>}, s \in BOOLEAN}
                \cup {Get(<<>>, TRUE)}

\* The folder /1, with and without a marker, with a file, a folder and both
\* of one name; a file /2; the marker of the root.
Seeds ==
    {{<<9, Empty>>, <<9, 1, Empty>>, <<9, 1, 1>>, <<9, 1, 2, 1>>, <<9, 1, 2>>, <<9, 1, 3>>, <<9, 2>>},
     {<<9, 1, 1, 2>>, <<9, 1, 2>>, <<9, 1, 3, Empty>>, <<9, 2>>, <<9, 2, 1>>}}

Others == {<<9, 1, Empty>>, <<9, 1, 1>>, <<9, 1, 2, 1>>, <<9, 1, 3>>, <<9, 1>>, <<9, 2>>}

\* A bucket without a prefix.
RootRequest == {Get(<<>>, TRUE)}

RootSeeds == {{<<1>>, <<2, 1>>}}

NoOthers == {}
=============================================================================
