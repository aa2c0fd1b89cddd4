----------------------------- MODULE Permissions -----------------------------
(***************************************************************************)
(* FOLDER_PERMISSIONS: how config.Load reads it, and how the permission    *)
(* manager decides about a request.                                        *)
(*                                                                         *)
(* A path is the sequence of its names, the root is <<>>.  Rules name      *)
(* folders as the documentation writes them, with a leading slash and      *)
(* without a trailing one.  The path of a request is as raw as it comes:   *)
(* what stands between its slashes may be a name, nothing, or two dots.    *)
(***************************************************************************)
EXTENDS Integers, Sequences, Functions

CONSTANTS
    Folder,        \* the paths that rules may name
    Void, Up,      \* the parts of a raw path that are no names: "" (or "."), ".."
    Bytes,         \* Bytes[f]: the length of the string of f
    User,          \* user names; Fold[u] is u in lower case
    Fold,
    Anyone, Public,    \* the words "*" and "public"
    NoUser,            \* the empty user name
    ROMethods, RWMethods   \* RO_METHODS and RW_METHODS

\* p is q or one of the folders q is in.
Above(p, q) == Len(p) <= Len(q) /\ \A i \in 1..Len(p) : p[i] = q[i]

ASSUME FolderAssumption ==
    /\ Void \in Nat /\ Up \in Nat /\ Void # Up
    /\ \A f \in Folder : f \in Seq(Nat \ {Void, Up})
    /\ Bytes \in [Folder -> Nat]
    /\ \A f, g \in Folder : Above(f, g) /\ f # g => Bytes[f] < Bytes[g]

ASSUME UserAssumption ==
    /\ Fold \in [User -> User]
    /\ Anyone \notin User /\ Public \notin User /\ NoUser \notin User
    /\ Anyone # Public

Word == User \cup {Anyone, Public}

\* An entry of FOLDER_PERMISSIONS: a path, words, some behind a "!", a mode.
Entry == [path : Folder, users : SUBSET Word, excluded : SUBSET Word,
          mode : {"ro", "rw", "other"}]

Rule == [path : Folder, users : SUBSET Word, excluded : SUBSET Word,
         mode : {"ro", "rw"}]

----------------------------------------------------------------------------
\* config.Load rejects an entry without users, or of another mode.
Loads(entries) ==
    \A i \in DOMAIN entries :
        entries[i].users # {} /\ entries[i].mode \in {"ro", "rw"}

\* Mutant: the shortest path comes first.
ShortestFirst(entries) ==
    {perms \in {[i \in DOMAIN entries |-> entries[f[i]]] :
                    f \in Bijection(DOMAIN entries, DOMAIN entries)} :
        \A i, j \in DOMAIN perms :
            i < j => Bytes[perms[i].path] <= Bytes[perms[j].path]}

\* Mutant: the rules are kept by path, so one of two with the same path is lost.
SortedByPath(entries) ==
    {perms \in {[i \in DOMAIN entries |-> entries[f[i]]] :
                    f \in [DOMAIN entries -> DOMAIN entries]} :
        /\ \A i, j \in DOMAIN perms :
              i < j => Bytes[perms[i].path] >= Bytes[perms[j].path]
        /\ {perms[i].path : i \in DOMAIN perms} = {entries[i].path : i \in DOMAIN entries}}

\* permissions.New sorts the rules by the length of their paths; sort.Slice
\* leaves rules of one length in any order.
Sorted(entries) ==
    {perms \in {[i \in DOMAIN entries |-> entries[f[i]]] :
                    f \in Bijection(DOMAIN entries, DOMAIN entries)} :
        \A i, j \in DOMAIN perms :
            i < j => Bytes[perms[i].path] >= Bytes[perms[j].path]}

Matching(perms, path) == {i \in DOMAIN perms : Above(perms[i].path, path)}

\* findPermission: no rule, or the first that matches.
FindPermission(perms, path) ==
    LET I == Matching(perms, path) IN
    {perms[i] : i \in {k \in I : \A j \in I : k <= j}}

Known(method) == method \in ROMethods \cup RWMethods

Writable(perm, method) == method \in ROMethods \/ perm.mode = "rw"

IsPublic(perm) == Public \in perm.users

EqualFold(u, v) == u \in User /\ v \in User /\ Fold[u] = Fold[v]

Excluded(perm, user) == \E u \in perm.excluded : EqualFold(u, user)

Listed(perm, user) ==
    Anyone \in perm.users \/ \E u \in perm.users : EqualFold(u, user)

\* Check, once a rule is found.
Decide(perm, method, user) ==
    IF Known(method) /\ ~IsPublic(perm) /\ user = NoUser THEN "unauthorized"
    ELSE IF /\ Known(method) /\ Writable(perm, method)
            /\ IsPublic(perm) \/ (~Excluded(perm, user) /\ Listed(perm, user))
         THEN "allow" ELSE "forbidden"

\* A path without a rule is never a reason to ask for a password.
Check(perms, path, method, user) ==
    IF FindPermission(perms, path) = {} THEN "forbidden"
    ELSE LET perm == CHOOSE r \in FindPermission(perms, path) : TRUE IN
         Decide(perm, method, user)

----------------------------------------------------------------------------
(***************************************************************************)
(* What the documentation promises of a set of rules: the one with the     *)
(* longest path wins (two rules may name the same folder); it lets a       *)
(* public folder to everyone, any other to its users except those it       *)
(* excludes; a read-only folder is not written to.                         *)
(***************************************************************************)
Wins(R, g, path) ==
    /\ g \in R /\ Above(g.path, path)
    /\ \A h \in R : Above(h.path, path) => Above(h.path, g.path)

Grants(g, method, user) ==
    /\ method \in ROMethods \/ (method \in RWMethods /\ g.mode = "rw")
    /\ \/ Public \in g.users
       \/ /\ user # NoUser
          /\ Anyone \in g.users \/ \E u \in g.users : EqualFold(u, user)
          /\ ~\E u \in g.excluded : EqualFold(u, user)

Permitted(R, path, method, user) ==
    \E g \in R : Wins(R, g, path) /\ Grants(g, method, user)

\* The same rules hold for both paths.
Alike(R, p, q) == \A g \in R : Above(g.path, p) <=> Above(g.path, q)

\* path.Clean: the path of what the storage backends work on.
Clean(raw) ==
    LET walk[n \in 0..Len(raw)] ==
          IF n = 0 THEN <<>>
          ELSE CASE raw[n] = Void -> walk[n - 1]
                 [] raw[n] = Up -> SubSeq(walk[n - 1], 1, Len(walk[n - 1]) - 1)
                 [] OTHER -> Append(walk[n - 1], raw[n])
    IN  walk[Len(raw)]
=============================================================================
