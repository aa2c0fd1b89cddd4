-------------------------------- MODULE Keys --------------------------------
(***************************************************************************)
(* How the storage backends turn WebDAV paths into object keys.            *)
(*                                                                         *)
(* A key is the sequence of parts of the string between its slashes, and   *)
(* the empty part is Empty: "t/d/x" is <<t, d, x>>, the directory marker   *)
(* "t/d/" is <<t, d, Empty>>, the empty string is <<Empty>> and "/" is     *)
(* <<Empty, Empty>>.  A path is the sequence of names path.Clean leaves;   *)
(* the root "/" is <<>>.                                                   *)
(***************************************************************************)
EXTENDS Integers, Sequences

CONSTANTS
    Name,       \* what may stand between two slashes of a path
    Prefix      \* the configured key prefix: its names, <<>> when unset

Empty == 0

ASSUME NameAssumption == Name \subseteq Nat \ {Empty}

ASSUME PrefixAssumption == Prefix \in Seq(Name)

Path == Seq(Name)

Key == Seq(Name \cup {Empty}) \ {<<>>}

----------------------------------------------------------------------------
\* fs.prefix: "" or the names of the prefix, each followed by a slash.
RootKey == Append(Prefix, Empty)

\* Mutant: the prefix is left out.
KeyForBare(p) == IF p = <<>> THEN RootKey ELSE p

\* keyFor.
KeyFor(p) == IF p = <<>> THEN RootKey ELSE Prefix \o p

EndsInSlash(k) == Len(k) > 1 /\ k[Len(k)] = Empty

\* key + "/", whatever key is: Stat and Rename.
AddSlash(k) == Append(k, Empty)

\* The guarded form of OpenFile, RemoveAll and Readdir.
WithSlash(k) == IF EndsInSlash(k) THEN k ELSE AddSlash(k)

\* dirKeyFor: like WithSlash, but "" stays "".
DirKeyFor(p) == IF KeyFor(p) = <<Empty>> THEN RootKey ELSE WithSlash(KeyFor(p))

\* Key k starts with d, which ends in a slash.
Under(k, d) ==
    /\ Len(d) <= Len(k)
    /\ \A i \in 1..(Len(d) - 1) : k[i] = d[i]

\* newDirKey + strings.TrimPrefix(k, oldDirKey).
Rebase(k, od, nd) == SubSeq(nd, 1, Len(nd) - 1) \o SubSeq(k, Len(od), Len(k))

\* The key of the file at p, or of anything below it.
Covers(p, k) == k = KeyFor(p) \/ Under(k, WithSlash(KeyFor(p)))

ParentDir(p) == SubSeq(p, 1, Len(p) - 1)

----------------------------------------------------------------------------
\* The order a bucket lists its keys in.  A key sorts after its prefixes.
Before(j, k) ==
    \E i \in 1..Len(k) :
        /\ i - 1 <= Len(j)
        /\ \A m \in 1..(i - 1) : j[m] = k[m]
        /\ i <= Len(j) => j[i] < k[i]

\* p is q or one of the folders q is in.
Above(p, q) == Len(p) <= Len(q) /\ SubSeq(q, 1, Len(p)) = p

Apart(p, q) == ~Above(p, q) /\ ~Above(q, p)
=============================================================================
