----------------------------- MODULE Keys_proofs -----------------------------
(***************************************************************************)
(* Facts about the keys of the storage backends, for every prefix.         *)
(***************************************************************************)
EXTENDS Keys, SequenceTheorems, FiniteSetTheorems, WellFoundedInduction, TLAPS

\* A part of a key.
Part == Name \cup {Empty}

\* Keys are the non-empty sequences of parts.
LEMMA KeyIsSeq == \A k : k \in Key <=> k \in Seq(Part) /\ Len(k) > 0
  BY EmptySeq DEF Key, Part

LEMMA KeyParts ==
    ASSUME NEW k \in Key
    PROVE  Len(k) \in Nat \ {0} /\ \A i \in 1..Len(k) : k[i] \in Nat
<1>1. k \in Seq(Part) /\ Len(k) > 0
  BY KeyIsSeq
<1>2. Len(k) \in Nat /\ \A i \in 1..Len(k) : k[i] \in Part
  BY <1>1, LenProperties, ElementOfSeq
<1>3. Part \subseteq Nat
  BY NameAssumption DEF Part, Empty
<1>4. Len(k) # 0
  BY <1>1, <1>2
<1> QED
  BY <1>2, <1>3, <1>4, Zenon

LEMMA PathIsSeq ==
    ASSUME NEW p \in Path
    PROVE  p \in Seq(Part) /\ Len(p) \in Nat /\ \A i \in 1..Len(p) : p[i] \in Name
<1>1. p \in Seq(Part)
  BY SeqMonotonic DEF Path, Part
<1>2. Len(p) \in Nat /\ \A i \in 1..Len(p) : p[i] \in Name
  BY ElementOfSeq, LenProperties DEF Path
<1> QED
  BY <1>1, <1>2

LEMMA PrefixIsSeq == Prefix \in Seq(Part) /\ Len(Prefix) \in Nat
  BY PrefixAssumption, PathIsSeq DEF Path

LEMMA AddSlashKey ==
    ASSUME NEW k \in Key
    PROVE  /\ AddSlash(k) \in Key
           /\ Len(AddSlash(k)) = Len(k) + 1
           /\ \A i \in 1..Len(k) : AddSlash(k)[i] = k[i]
           /\ AddSlash(k)[Len(k) + 1] = Empty
<1>1. k \in Seq(Part) /\ Empty \in Part /\ Len(k) \in Nat
  BY KeyIsSeq, KeyParts DEF Part
<1>2. /\ AddSlash(k) \in Seq(Part)
      /\ Len(AddSlash(k)) = Len(k) + 1
      /\ \A i \in 1..Len(k) : AddSlash(k)[i] = k[i]
      /\ AddSlash(k)[Len(k) + 1] = Empty
  BY <1>1, AppendProperties DEF AddSlash
<1>3. Len(AddSlash(k)) > 0
  BY <1>1, <1>2
<1> QED
  BY <1>2, <1>3, KeyIsSeq

LEMMA RootKeyKey ==
    /\ RootKey \in Key
    /\ Len(RootKey) = Len(Prefix) + 1
    /\ \A i \in 1..Len(Prefix) : RootKey[i] = Prefix[i]
    /\ RootKey[Len(Prefix) + 1] = Empty
<1>1. Prefix \in Seq(Part) /\ Empty \in Part /\ Len(Prefix) \in Nat
  BY PrefixIsSeq DEF Part
<1>2. /\ RootKey \in Seq(Part)
      /\ Len(RootKey) = Len(Prefix) + 1
      /\ \A i \in 1..Len(Prefix) : RootKey[i] = Prefix[i]
      /\ RootKey[Len(Prefix) + 1] = Empty
  BY <1>1, AppendProperties DEF RootKey
<1>3. Len(RootKey) > 0
  BY <1>1, <1>2
<1> QED
  BY <1>2, <1>3, KeyIsSeq

LEMMA KeyForKey ==
    ASSUME NEW p \in Path, p # <<>>
    PROVE  /\ KeyFor(p) \in Key
           /\ Len(KeyFor(p)) = Len(Prefix) + Len(p)
           /\ \A i \in 1..Len(Prefix) : KeyFor(p)[i] = Prefix[i]
           /\ \A i \in 1..Len(p) : KeyFor(p)[Len(Prefix) + i] = p[i]
<1>1. p \in Seq(Part) /\ Len(p) \in Nat /\ Len(p) > 0
  BY PathIsSeq, EmptySeq DEF Path
<1>2. KeyFor(p) = Prefix \o p
  BY DEF KeyFor
<1>3. Prefix \in Seq(Part) /\ Len(Prefix) \in Nat
  BY PrefixIsSeq
<1>4. /\ Prefix \o p \in Seq(Part)
      /\ Len(Prefix \o p) = Len(Prefix) + Len(p)
      /\ \A i \in 1..(Len(Prefix) + Len(p)) : (Prefix \o p)[i] =
            IF i <= Len(Prefix) THEN Prefix[i] ELSE p[i - Len(Prefix)]
  BY <1>1, <1>3, ConcatProperties
<1>5. Len(Prefix \o p) > 0
  BY <1>1, <1>3, <1>4
<1>6. Prefix \o p \in Key
  BY <1>4, <1>5, KeyIsSeq
<1>7. \A i \in 1..Len(Prefix) : (Prefix \o p)[i] = Prefix[i]
  BY <1>1, <1>3, <1>4
<1>8. ASSUME NEW i \in 1..Len(p) PROVE (Prefix \o p)[Len(Prefix) + i] = p[i]
  <2>1. /\ Len(Prefix) + i \in 1..(Len(Prefix) + Len(p))
        /\ ~(Len(Prefix) + i <= Len(Prefix))
        /\ Len(Prefix) + i - Len(Prefix) = i
    BY <1>1, <1>3
  <2> QED
    BY <1>4, <2>1
<1> QED
  BY <1>2, <1>4, <1>6, <1>7, <1>8

LEMMA KeyForType == ASSUME NEW p \in Path PROVE KeyFor(p) \in Key
  BY KeyForKey, RootKeyKey DEF KeyFor

LEMMA WithSlashType == ASSUME NEW k \in Key PROVE WithSlash(k) \in Key
  BY AddSlashKey DEF WithSlash

LEMMA DirKeyForType == ASSUME NEW p \in Path PROVE DirKeyFor(p) \in Key
  BY KeyForType, WithSlashType, RootKeyKey DEF DirKeyFor

LEMMA ParentDirType ==
    ASSUME NEW p \in Path
    PROVE  ParentDir(p) \in Path
<1>1. Len(p) \in Nat /\ \A i \in 1..(Len(p) - 1) : p[i] \in Name
  BY PathIsSeq
<1> QED
  BY <1>1, SubSeqProperties DEF ParentDir, Path

\* Rename never writes an empty key: its folders are keys with a slash more.
LEMMA RebaseType ==
    ASSUME NEW k \in Key, NEW od \in Key, NEW nd \in Key, Len(nd) > 1
    PROVE  Rebase(k, od, nd) \in Key
<1> DEFINE front == SubSeq(nd, 1, Len(nd) - 1)
           rest == SubSeq(k, Len(od), Len(k))
<1>1. /\ Len(k) \in Nat \ {0} /\ Len(od) \in Nat \ {0} /\ Len(nd) \in Nat \ {0}
      /\ \A i \in 1..Len(k) : k[i] \in Part
      /\ \A i \in 1..Len(nd) : nd[i] \in Part
  BY KeyParts, KeyIsSeq, ElementOfSeq
<1>2. front \in Seq(Part) /\ Len(front) \in Nat /\ Len(front) > 0
  <2>1. \A i \in 1..(Len(nd) - 1) : nd[i] \in Part
    BY <1>1
  <2>2. /\ front \in Seq(Part)
        /\ Len(front) = IF 1 <= Len(nd) - 1 THEN (Len(nd) - 1) - 1 + 1 ELSE 0
    BY <1>1, <2>1, SubSeqProperties
  <2> QED
    BY <1>1, <2>2
<1>3. rest \in Seq(Part) /\ Len(rest) \in Nat
  <2>1. \A i \in Len(od)..Len(k) : k[i] \in Part
    BY <1>1
  <2>2. rest \in Seq(Part)
    BY <1>1, <2>1, SubSeqProperties
  <2> QED
    BY <2>2, LenProperties
<1> HIDE DEF front, rest
<1>4. front \o rest \in Seq(Part) /\ Len(front \o rest) = Len(front) + Len(rest)
  BY <1>2, <1>3, ConcatProperties
<1>5. Len(front \o rest) > 0
  BY <1>2, <1>3, <1>4
<1> QED
  BY <1>4, <1>5, KeyIsSeq DEF Rebase, front, rest

\* Rename's destination key: the new folder, then what followed the old one.
LEMMA RebaseKey ==
    ASSUME NEW k \in Key, NEW od \in Key, NEW nd \in Key, Len(od) <= Len(k)
    PROVE  /\ Rebase(k, od, nd) \in Key
           /\ Len(Rebase(k, od, nd)) = Len(nd) + Len(k) - Len(od)
           /\ \A i \in 1..(Len(nd) - 1) : Rebase(k, od, nd)[i] = nd[i]
           /\ \A i \in Len(od)..Len(k) :
                Rebase(k, od, nd)[Len(nd) - Len(od) + i] = k[i]
<1> DEFINE front == SubSeq(nd, 1, Len(nd) - 1)
           rest == SubSeq(k, Len(od), Len(k))
<1>1. /\ Len(k) \in Nat \ {0} /\ Len(od) \in Nat \ {0} /\ Len(nd) \in Nat \ {0}
      /\ \A i \in 1..Len(k) : k[i] \in Part
      /\ \A i \in 1..Len(nd) : nd[i] \in Part
  BY KeyParts, KeyIsSeq, ElementOfSeq
<1>2. /\ front \in Seq(Part) /\ Len(front) = Len(nd) - 1
      /\ \A i \in 1..(Len(nd) - 1) : front[i] = nd[i]
  <2>1. \A i \in 1..(Len(nd) - 1) : nd[i] \in Part
    BY <1>1
  <2>2. /\ front \in Seq(Part)
        /\ Len(front) = IF 1 <= Len(nd) - 1 THEN (Len(nd) - 1) - 1 + 1 ELSE 0
        /\ \A i \in 1..((Len(nd) - 1) - 1 + 1) : front[i] = nd[1 + i - 1]
    BY <1>1, <2>1, SubSeqProperties
  <2>3. CASE 1 <= Len(nd) - 1
    BY <1>1, <2>2, <2>3
  <2>4. CASE Len(nd) = 1
    BY <1>1, <2>2, <2>4
  <2>5. 1 <= Len(nd) - 1 \/ Len(nd) = 1
    BY <1>1
  <2> QED
    BY <2>3, <2>4, <2>5, Zenon
<1>3. /\ rest \in Seq(Part) /\ Len(rest) = Len(k) - Len(od) + 1
      /\ \A i \in 1..(Len(k) - Len(od) + 1) : rest[i] = k[Len(od) + i - 1]
  <2>1. \A i \in Len(od)..Len(k) : k[i] \in Part
    BY <1>1
  <2> QED
    BY <1>1, <2>1, SubSeqProperties
<1> HIDE DEF front, rest
<1>4. /\ front \o rest \in Seq(Part)
      /\ Len(front \o rest) = Len(nd) + Len(k) - Len(od)
      /\ \A i \in 1..(Len(nd) + Len(k) - Len(od)) : (front \o rest)[i] =
            IF i <= Len(nd) - 1 THEN nd[i] ELSE k[Len(od) + i - Len(nd)]
  <2>1. /\ front \o rest \in Seq(Part)
        /\ Len(front \o rest) = Len(front) + Len(rest)
        /\ \A i \in 1..(Len(front) + Len(rest)) : (front \o rest)[i] =
              IF i <= Len(front) THEN front[i] ELSE rest[i - Len(front)]
    BY <1>2, <1>3, ConcatProperties
  <2>2. Len(front) + Len(rest) = Len(nd) + Len(k) - Len(od)
    BY <1>1, <1>2, <1>3
  <2>3. ASSUME NEW i \in 1..(Len(nd) + Len(k) - Len(od))
        PROVE  (front \o rest)[i] =
                 IF i <= Len(nd) - 1 THEN nd[i] ELSE k[Len(od) + i - Len(nd)]
    <3>1. CASE i <= Len(nd) - 1
      BY <1>1, <1>2, <2>1, <2>2, <3>1
    <3>2. CASE ~(i <= Len(nd) - 1)
      <4>1. i - Len(front) \in 1..(Len(k) - Len(od) + 1)
        BY <1>1, <1>2, <3>2
      <4>2. (front \o rest)[i] = rest[i - Len(front)]
        BY <1>1, <1>2, <2>1, <2>2, <3>2
      <4>3. rest[i - Len(front)] = k[Len(od) + (i - Len(front)) - 1]
        BY <1>3, <4>1
      <4>4. Len(od) + (i - Len(front)) - 1 = Len(od) + i - Len(nd)
        BY <1>1, <1>2
      <4> QED
        BY <3>2, <4>2, <4>3, <4>4
    <3> QED
      BY <3>1, <3>2
  <2> QED
    BY <2>1, <2>2, <2>3
<1>5. Rebase(k, od, nd) = front \o rest
  BY DEF Rebase, front, rest
<1>6. Len(nd) + Len(k) - Len(od) > 0
  BY <1>1
<1>7. ASSUME NEW i \in Len(od)..Len(k)
      PROVE  (front \o rest)[Len(nd) - Len(od) + i] = k[i]
  <2>1. Len(nd) - Len(od) + i \in 1..(Len(nd) + Len(k) - Len(od))
    BY <1>1
  <2>2. ~(Len(nd) - Len(od) + i <= Len(nd) - 1)
    BY <1>1
  <2>3. Len(od) + (Len(nd) - Len(od) + i) - Len(nd) = i
    BY <1>1
  <2> QED
    BY <1>4, <2>1, <2>2, <2>3
<1>8. front \o rest \in Key
  BY <1>4, <1>6, KeyIsSeq
<1>9. \A i \in 1..(Len(nd) - 1) : (front \o rest)[i] = nd[i]
  BY <1>1, <1>4
<1> QED
  BY <1>4, <1>5, <1>7, <1>8, <1>9
----------------------------------------------------------------------------
\* Below a folder.

LEMMA UnderSelf == ASSUME NEW k \in Key PROVE Under(k, k)
  BY KeyParts DEF Under

LEMMA UnderTransitive ==
    ASSUME NEW k \in Key, NEW d \in Key, NEW e \in Key, Under(k, d), Under(d, e)
    PROVE  Under(k, e)
  BY KeyParts DEF Under

LEMMA AddSlashUnder ==
    ASSUME NEW k \in Key, NEW d \in Key, Under(k, d)
    PROVE  Under(AddSlash(k), d)
<1>1. Len(k) \in Nat /\ Len(d) \in Nat
  BY KeyParts
<1> QED
  BY <1>1, AddSlashKey DEF Under

LEMMA WithSlashUnder ==
    ASSUME NEW k \in Key, NEW d \in Key, Under(k, d)
    PROVE  Under(WithSlash(k), d)
  BY AddSlashUnder DEF WithSlash

\* Every key made from a path starts with the configured prefix.
LEMMA KeyForUnderRoot ==
    ASSUME NEW p \in Path
    PROVE  Under(KeyFor(p), RootKey)
<1>1. CASE p = <<>>
  BY <1>1, RootKeyKey, UnderSelf DEF KeyFor
<1>2. CASE p # <<>>
  <2>1. Len(Prefix) \in Nat /\ Len(p) \in Nat /\ Len(p) > 0
    BY <1>2, PrefixIsSeq, PathIsSeq, EmptySeq DEF Path
  <2> QED
    BY <1>2, <2>1, KeyForKey, RootKeyKey DEF Under
<1> QED
  BY <1>1, <1>2

LEMMA DirKeyForUnderRoot ==
    ASSUME NEW p \in Path
    PROVE  Under(DirKeyFor(p), RootKey)
  BY KeyForUnderRoot, KeyForType, RootKeyKey, UnderSelf, WithSlashUnder DEF DirKeyFor

\* Rename puts whatever it moves below its destination.
LEMMA RebaseUnder ==
    ASSUME NEW k \in Key, NEW od \in Key, NEW nd \in Key, Under(k, od)
    PROVE  Under(Rebase(k, od, nd), nd)
<1>1. Len(k) \in Nat /\ Len(od) \in Nat /\ Len(nd) \in Nat /\ Len(od) <= Len(k)
  BY KeyParts DEF Under
<1>2. /\ Len(Rebase(k, od, nd)) = Len(nd) + Len(k) - Len(od)
      /\ \A i \in 1..(Len(nd) - 1) : Rebase(k, od, nd)[i] = nd[i]
  BY <1>1, RebaseKey
<1> QED
  BY <1>1, <1>2 DEF Under
----------------------------------------------------------------------------
\* Paths that are apart have no key in common.

LEMMA NamedKey ==
    ASSUME NEW p \in Path, p # <<>>
    PROVE  ~EndsInSlash(KeyFor(p))
<1>1. /\ Len(p) \in Nat /\ Len(p) > 0 /\ p[Len(p)] \in Name
      /\ Len(Prefix) \in Nat
  BY PathIsSeq, PrefixIsSeq, EmptySeq DEF Path
<1>2. Len(KeyFor(p)) = Len(Prefix) + Len(p)
      /\ KeyFor(p)[Len(Prefix) + Len(p)] = p[Len(p)]
  BY <1>1, KeyForKey
<1>3. p[Len(p)] # Empty
  BY <1>1, NameAssumption
<1> QED
  BY <1>2, <1>3 DEF EndsInSlash

LEMMA CoversPath ==
    ASSUME NEW p \in Path, p # <<>>, NEW k \in Key, Covers(p, k)
    PROVE  /\ Len(Prefix) + Len(p) <= Len(k)
           /\ \A i \in 1..Len(p) : k[Len(Prefix) + i] = p[i]
<1>1. Len(p) \in Nat /\ Len(Prefix) \in Nat /\ Len(k) \in Nat
  BY PathIsSeq, PrefixIsSeq, KeyParts
<1>2. /\ KeyFor(p) \in Key /\ Len(KeyFor(p)) = Len(Prefix) + Len(p)
      /\ \A i \in 1..Len(p) : KeyFor(p)[Len(Prefix) + i] = p[i]
  BY KeyForKey
<1>3. CASE k = KeyFor(p)
  BY <1>1, <1>2, <1>3
<1>4. CASE Under(k, WithSlash(KeyFor(p)))
  <2>1. Under(k, AddSlash(KeyFor(p)))
    BY <1>4, NamedKey DEF WithSlash
  <2>2. /\ Len(AddSlash(KeyFor(p))) = Len(Prefix) + Len(p) + 1
        /\ \A i \in 1..(Len(Prefix) + Len(p)) : AddSlash(KeyFor(p))[i] = KeyFor(p)[i]
    BY <1>2, AddSlashKey
  <2>3. /\ Len(Prefix) + Len(p) + 1 <= Len(k)
        /\ \A i \in 1..(Len(Prefix) + Len(p)) : k[i] = KeyFor(p)[i]
    BY <1>1, <2>1, <2>2 DEF Under
  <2>4. \A i \in 1..Len(p) : Len(Prefix) + i \in 1..(Len(Prefix) + Len(p))
    BY <1>1
  <2> QED
    BY <1>1, <1>2, <2>3, <2>4
<1> QED
  BY <1>3, <1>4 DEF Covers

LEMMA ApartNotRoot ==
    ASSUME NEW p \in Path, NEW q \in Path, Apart(p, q)
    PROVE  p # <<>> /\ q # <<>>
<1>1. \A t \in Path : Above(<<>>, t)
  BY PathIsSeq, SubSeqProperties, EmptySeq DEF Above, Path
<1> QED
  BY <1>1 DEF Apart

\* Of two paths that share a key, the shorter one is above the other.
LEMMA ShorterAbove ==
    ASSUME NEW p \in Path, NEW q \in Path, p # <<>>, q # <<>>,
           NEW k \in Key, Covers(p, k), Covers(q, k), Len(p) <= Len(q)
    PROVE  Above(p, q)
<1>1. Len(p) \in Nat /\ Len(q) \in Nat /\ p \in Seq(Part) /\ q \in Seq(Part)
  BY PathIsSeq
<1>2. \A i \in 1..Len(p) : p[i] = q[i]
  BY <1>1, CoversPath
<1>3. /\ SubSeq(q, 1, Len(p)) \in Seq(Part) /\ Len(SubSeq(q, 1, Len(p))) = Len(p)
      /\ \A i \in 1..Len(p) : SubSeq(q, 1, Len(p))[i] = q[i]
  BY <1>1, SubSeqProperties, ElementOfSeq
<1>4. SubSeq(q, 1, Len(p)) = p
  BY <1>1, <1>2, <1>3, SeqEqual
<1> QED
  BY <1>4 DEF Above

LEMMA ApartCovers ==
    ASSUME NEW p \in Path, NEW q \in Path, Apart(p, q), NEW k \in Key, Covers(p, k)
    PROVE  ~Covers(q, k)
<1>1. p # <<>> /\ q # <<>> /\ Len(p) \in Nat /\ Len(q) \in Nat
  BY ApartNotRoot, PathIsSeq
<1> QED
  BY <1>1, ShorterAbove DEF Apart

\* What Rename lists is covered by the path it renames.
LEMMA BelowCovered ==
    ASSUME NEW p \in Path, NEW k \in Key, Under(k, AddSlash(KeyFor(p)))
    PROVE  Covers(p, k)
<1>1. KeyFor(p) \in Key /\ AddSlash(KeyFor(p)) \in Key
  BY KeyForType, AddSlashKey
<1>2. Under(AddSlash(KeyFor(p)), KeyFor(p))
  BY <1>1, UnderSelf, AddSlashUnder
<1> QED
  BY <1>1, <1>2, UnderTransitive DEF Covers, WithSlash

\* Rename never maps two keys to one, and keeps the last part of a key.
LEMMA RebaseInjective ==
    ASSUME NEW j \in Key, NEW k \in Key, NEW od \in Key, NEW nd \in Key,
           Under(j, od), Under(k, od), Rebase(j, od, nd) = Rebase(k, od, nd)
    PROVE  j = k
<1>1. /\ Len(j) \in Nat /\ Len(k) \in Nat /\ Len(od) \in Nat \ {0}
      /\ Len(nd) \in Nat \ {0} /\ Len(od) <= Len(j) /\ Len(od) <= Len(k)
      /\ j \in Seq(Part) /\ k \in Seq(Part)
  BY KeyParts, KeyIsSeq DEF Under
<1>2. ASSUME NEW m \in Key, Len(od) <= Len(m)
      PROVE  /\ Len(Rebase(m, od, nd)) = Len(nd) + Len(m) - Len(od)
             /\ \A i \in Len(od)..Len(m) :
                   Rebase(m, od, nd)[Len(nd) - Len(od) + i] = m[i]
  BY <1>2, RebaseKey, ZenonT(60)
<1>3. /\ Len(Rebase(j, od, nd)) = Len(nd) + Len(j) - Len(od)
      /\ Len(Rebase(k, od, nd)) = Len(nd) + Len(k) - Len(od)
  BY <1>1, <1>2
<1>4. Len(j) = Len(k)
  BY <1>1, <1>3
<1>5. \A i \in 1..(Len(od) - 1) : j[i] = k[i]
  BY DEF Under
<1>6. \A i \in Len(od)..Len(j) : j[i] = k[i]
  BY <1>1, <1>2, <1>4
<1>7. \A i \in 1..Len(j) : j[i] = k[i]
  BY <1>1, <1>5, <1>6
<1> QED
  BY <1>1, <1>4, <1>7, SeqEqual

LEMMA RebaseLast ==
    ASSUME NEW k \in Key, NEW od \in Key, NEW nd \in Key, Under(k, od)
    PROVE  Rebase(k, od, nd)[Len(Rebase(k, od, nd))] = k[Len(k)]
<1>1. /\ Len(k) \in Nat /\ Len(od) \in Nat \ {0} /\ Len(nd) \in Nat
      /\ Len(od) <= Len(k)
  BY KeyParts DEF Under
<1>2. /\ Len(Rebase(k, od, nd)) = Len(nd) + Len(k) - Len(od)
      /\ \A i \in Len(od)..Len(k) : Rebase(k, od, nd)[Len(nd) - Len(od) + i] = k[i]
  BY <1>1, RebaseKey
<1>3. Len(nd) - Len(od) + Len(k) = Len(nd) + Len(k) - Len(od)
      /\ Len(k) \in Len(od)..Len(k)
  BY <1>1
<1> QED
  BY <1>2, <1>3
----------------------------------------------------------------------------
\* The order of keys is a total order, so that a finite set has a first key.

LEMMA BeforeIrreflexive == ASSUME NEW k \in Key PROVE ~Before(k, k)
  BY KeyParts DEF Before

LEMMA BeforeTransitive ==
    ASSUME NEW j \in Key, NEW k \in Key, NEW l \in Key, Before(j, k), Before(k, l)
    PROVE  Before(j, l)
<1>1. /\ Len(j) \in Nat /\ Len(k) \in Nat /\ Len(l) \in Nat
      /\ \A i \in 1..Len(j) : j[i] \in Nat
      /\ \A i \in 1..Len(k) : k[i] \in Nat
      /\ \A i \in 1..Len(l) : l[i] \in Nat
  BY KeyParts
<1>2. PICK a \in 1..Len(k) :
        /\ a - 1 <= Len(j)
        /\ \A m \in 1..(a - 1) : j[m] = k[m]
        /\ a <= Len(j) => j[a] < k[a]
  BY DEF Before
<1>3. PICK b \in 1..Len(l) :
        /\ b - 1 <= Len(k)
        /\ \A m \in 1..(b - 1) : k[m] = l[m]
        /\ b <= Len(k) => k[b] < l[b]
  BY DEF Before
<1>4. CASE a < b
  <2>1. a \in 1..Len(l) /\ k[a] = l[a] /\ \A m \in 1..(a - 1) : j[m] = l[m]
    BY <1>1, <1>2, <1>3, <1>4
  <2> QED
    BY <1>2, <2>1 DEF Before
<1>5. CASE b < a
  <2>1. /\ b <= Len(j) /\ b <= Len(k) /\ j[b] = k[b]
        /\ \A m \in 1..(b - 1) : j[m] = l[m]
    BY <1>1, <1>2, <1>3, <1>5
  <2>2. j[b] < l[b] /\ b - 1 <= Len(j)
    BY <1>1, <1>3, <2>1
  <2> QED
    BY <1>3, <2>1, <2>2 DEF Before
<1>6. CASE a = b
  <2>1. /\ a \in 1..Len(l) /\ \A m \in 1..(a - 1) : j[m] = l[m]
        /\ k[a] < l[a]
    BY <1>1, <1>2, <1>3, <1>6
  <2>2. a <= Len(j) => j[a] < l[a]
    <3>1. SUFFICES ASSUME a <= Len(j) PROVE j[a] < l[a]
      OBVIOUS
    <3>2. j[a] \in Nat /\ k[a] \in Nat /\ l[a] \in Nat /\ j[a] < k[a]
      BY <1>1, <1>2, <2>1, <3>1
    <3> QED
      BY <2>1, <3>2
  <2> QED
    BY <1>2, <2>1, <2>2 DEF Before
<1> QED
  BY <1>1, <1>2, <1>3, <1>4, <1>5, <1>6

LEMMA BeforeTotal ==
    ASSUME NEW j \in Key, NEW k \in Key, j # k
    PROVE  Before(j, k) \/ Before(k, j)
<1>1. /\ Len(j) \in Nat /\ Len(k) \in Nat
      /\ \A i \in 1..Len(j) : j[i] \in Nat
      /\ \A i \in 1..Len(k) : k[i] \in Nat
      /\ j \in Seq(Part) /\ k \in Seq(Part)
  BY KeyParts, KeyIsSeq
<1> DEFINE Differ == {i \in Nat : i \in 1..Len(j) /\ i \in 1..Len(k) /\ j[i] # k[i]}
<1>2. CASE Differ = {}
  <2>1. \A i \in Nat : i \in 1..Len(j) /\ i \in 1..Len(k) => j[i] = k[i]
    BY <1>2
  <2>2. Len(j) # Len(k)
    <3>1. SUFFICES ASSUME Len(j) = Len(k) PROVE FALSE
      OBVIOUS
    <3>2. \A i \in 1..Len(j) : j[i] = k[i]
      BY <1>1, <2>1, <3>1
    <3> QED
      BY <1>1, <3>1, <3>2, SeqEqual
  <2>3. CASE Len(j) < Len(k)
    <3>1. /\ Len(j) + 1 \in 1..Len(k) /\ Len(j) + 1 - 1 <= Len(j)
          /\ \A m \in 1..(Len(j) + 1 - 1) : j[m] = k[m]
          /\ ~(Len(j) + 1 <= Len(j))
      BY <1>1, <2>1, <2>3
    <3> QED
      BY <3>1 DEF Before
  <2>4. CASE Len(k) < Len(j)
    <3>1. /\ Len(k) + 1 \in 1..Len(j) /\ Len(k) + 1 - 1 <= Len(k)
          /\ \A m \in 1..(Len(k) + 1 - 1) : k[m] = j[m]
          /\ ~(Len(k) + 1 <= Len(k))
      BY <1>1, <2>1, <2>4
    <3> QED
      BY <3>1 DEF Before
  <2> QED
    BY <1>1, <2>2, <2>3, <2>4
<1>3. CASE Differ # {}
  <2>1. PICK i \in Differ : \A m \in Differ : ~(<<m, i>> \in OpToRel(<, Nat))
    <3>1. Differ \subseteq Nat
      OBVIOUS
    <3> HIDE DEF Differ
    <3> QED
      BY <1>3, <3>1, NatLessThanWellFounded, WFMin
  <2>2. \A m \in Differ : ~(m < i)
    BY <2>1 DEF OpToRel
  <2>3. \A m \in 1..(i - 1) : j[m] = k[m]
    BY <1>1, <2>2
  <2>4. j[i] < k[i] \/ k[i] < j[i]
    BY <1>1
  <2>5. i \in 1..Len(j) /\ i \in 1..Len(k) /\ i - 1 <= Len(j) /\ i - 1 <= Len(k)
    BY <1>1
  <2> QED
    BY <2>3, <2>4, <2>5 DEF Before
<1> QED
  BY <1>2, <1>3

\* Of a finite set of keys, one comes before all others: the key with the
\* smallest set of keys before it.
LEMMA FirstKey ==
    ASSUME NEW K, K \subseteq Key, IsFiniteSet(K), K # {}
    PROVE  \E k \in K : \A j \in K \ {k} : Before(k, j)
<1> DEFINE Earlier(k) == {j \in K : Before(j, k)}
           T == {Earlier(k) : k \in K}
<1>1. T \subseteq FiniteSubsetsOf(K) /\ T # {}
  <2>1. \A k \in K : Earlier(k) \in SUBSET K /\ IsFiniteSet(Earlier(k))
    BY FS_Subset
  <2> QED
    BY <2>1 DEF FiniteSubsetsOf
<1>2. PICK A \in T : \A B \in T : ~(<<B, A>> \in StrictSubsetOrdering(K))
  <2> HIDE DEF T
  <2> QED
    BY <1>1, FS_StrictSubsetOrderingWellFounded, WFMin
<1>3. PICK k \in K : A = Earlier(k)
  OBVIOUS
<1>4. ASSUME NEW j \in K, Before(j, k)
      PROVE  FALSE
  <2>1. Earlier(j) \subseteq Earlier(k)
    BY <1>4, BeforeTransitive
  <2>2. j \in Earlier(k) /\ j \notin Earlier(j)
    BY <1>4, BeforeIrreflexive
  <2>3. <<Earlier(j), Earlier(k)>> \in StrictSubsetOrdering(K)
    BY <2>1, <2>2 DEF StrictSubsetOrdering
  <2> QED
    BY <1>2, <1>3, <2>3
<1> QED
  BY <1>4, BeforeTotal
=============================================================================
