--------------------------- MODULE Listing_proofs ---------------------------
(***************************************************************************)
(* A listing of a folder of any size, in pages of any size, while any      *)
(* number of keys is written and deleted around it: it shows what was      *)
(* there, once, and overlooks nothing that stayed.  The argument is that   *)
(* whatever has been in the folder from the beginning is either behind the *)
(* cursor and collected, or still ahead of the cursor.                     *)
(***************************************************************************)
EXTENDS Listing, Keys_proofs

\* The folder as Readdir asks for it.
Reader == WithSlash(KeyFor(get.req.path))

Now == Named(EntriesOf(objects, Folder))

----------------------------------------------------------------------------
\* Readdir asks for the folder the user sees, unless the prefix is empty.
LEMMA SameFolder ==
    ASSUME Prefix # <<>>, get.req.path \in Path
    PROVE  Reader = Folder
<1> DEFINE p == get.req.path
<1>1. CASE p = <<>>
  <2>1. Len(Prefix) > 0 /\ Len(Prefix) \in Nat
    BY PrefixIsSeq, EmptySeq
  <2>2. EndsInSlash(RootKey)
    BY <2>1, RootKeyKey DEF EndsInSlash
  <2> QED BY <1>1, <2>2 DEF Reader, Folder, WithSlash, KeyFor
<1>2. CASE p # <<>>
  BY <1>2, NamedKey DEF Reader, Folder, WithSlash
<1> QED BY <1>1, <1>2

\* The entries of a folder are entries.
LEMMA EntriesType ==
    ASSUME NEW K \in SUBSET Key, NEW d \in Key
    PROVE  EntriesOf(K, d) \subseteq Entry
<1> SUFFICES ASSUME NEW k \in K, Under(k, d)
             PROVE  <<k[Len(d)], Len(k) > Len(d)>> \in Entry
  BY DEF EntriesOf
<1>1. Len(d) \in Nat \ {0} /\ Len(k) \in Nat /\ Len(d) <= Len(k)
  BY KeyParts DEF Under
<1>2. k \in Key
  OBVIOUS
<1>3. k \in Seq(Part)
  BY <1>2, KeyIsSeq
<1>4. Len(d) \in 1..Len(k)
  BY <1>1
<1>5. k[Len(d)] \in Part
  BY <1>3, <1>4, ElementOfSeq
<1>6. (Len(k) > Len(d)) \in BOOLEAN
  BY <1>1
<1> QED BY <1>5, <1>6 DEF Entry, Part

\* Names are numbers, so a listing has an order.
LEMMA EntryNumber == \A e \in Entry : e[1] \in Nat
<1>1. Name \cup {Empty} \subseteq Nat
  BY NameAssumption DEF Empty
<1> QED BY <1>1 DEF Entry

\* The entries that have a name are of names.
LEMMA NamedType ==
    ASSUME NEW E \in SUBSET Entry
    PROVE  Named(E) \subseteq Name \X BOOLEAN
  BY DEF Named, Entry

LEMMA FolderType ==
    ASSUME get.req.path \in Path
    PROVE  Folder \in Key /\ Reader \in Key
  BY KeyForType, AddSlashKey, RootKeyKey, WithSlashType DEF Folder, Reader

\* Adding entries of one kind to a listing.
LEMMA AddKeeps ==
    ASSUME NEW infos \in SUBSET Entry, NEW E \in SUBSET Entry,
           \A e, f \in infos : e[1] = f[1] => e = f,
           \A e, f \in E : e[2] = f[2]
    PROVE  /\ infos \subseteq Add(infos, E)
           /\ Add(infos, E) \subseteq infos \cup Named(E)
           /\ Seen(Named(E)) \subseteq Seen(Add(infos, E))
           /\ \A e, f \in Add(infos, E) : e[1] = f[1] => e = f
<1>1. \A e \in infos \cup E : e = <<e[1], e[2]>>
  BY DEF Entry
<1>2. /\ infos \subseteq Add(infos, E)
      /\ Add(infos, E) \subseteq infos \cup Named(E)
      /\ Seen(Named(E)) \subseteq Seen(Add(infos, E))
  BY DEF Add, Seen, Named
<1>3. ASSUME NEW e \in Add(infos, E), NEW f \in Add(infos, E), e[1] = f[1]
      PROVE  e = f
  <2>1. CASE e \in infos /\ f \in infos
    BY <2>1, <1>3
  <2>2. CASE e \notin infos /\ f \notin infos
    BY <2>2, <1>1, <1>3 DEF Add, Named
  <2>3. CASE e \in infos <=> f \notin infos
    BY <2>3, <1>3 DEF Add, Named, Seen
  <2> QED BY <2>1, <2>2, <2>3
<1> QED BY <1>2, <1>3

\* A page is added as a whole, folders first or files first.
LEMMA CollectKeeps ==
    ASSUME NEW infos \in SUBSET Entry, NEW page \in SUBSET Entry,
           \A e, f \in infos : e[1] = f[1] => e = f
    PROVE  /\ infos \subseteq Collect(infos, page)
           /\ Collect(infos, page) \subseteq infos \cup Named(page)
           /\ Seen(Named(page)) \subseteq Seen(Collect(infos, page))
           /\ \A e, f \in Collect(infos, page) : e[1] = f[1] => e = f
<1> DEFINE Kept(l) ==
             /\ infos \subseteq l /\ l \subseteq infos \cup Named(page)
             /\ Seen(Named(page)) \subseteq Seen(l)
             /\ \A e, f \in l : e[1] = f[1] => e = f
<1>1. ASSUME NEW E \in SUBSET page, NEW F \in SUBSET page, page = E \cup F,
             \A e, f \in E : e[2] = f[2], \A e, f \in F : e[2] = f[2]
      PROVE  Kept(Add(Add(infos, E), F))
  <2> DEFINE m == Add(infos, E)
             l == Add(m, F)
  <2>1. /\ infos \subseteq m /\ m \subseteq infos \cup Named(E)
        /\ Seen(Named(E)) \subseteq Seen(m)
        /\ \A e, f \in m : e[1] = f[1] => e = f
    BY <1>1, AddKeeps
  <2>2. m \in SUBSET Entry /\ F \in SUBSET Entry
    BY <2>1, <1>1 DEF Named
  <2> HIDE DEF m
  <2>3. /\ m \subseteq l /\ l \subseteq m \cup Named(F)
        /\ Seen(Named(F)) \subseteq Seen(l)
        /\ \A e, f \in l : e[1] = f[1] => e = f
    BY <1>1, <2>1, <2>2, AddKeeps
  <2> HIDE DEF l
  <2>4. /\ Named(page) = Named(E) \cup Named(F)
        /\ Seen(Named(page)) = Seen(Named(E)) \cup Seen(Named(F))
        /\ Seen(m) \subseteq Seen(l)
    BY <1>1, <2>3 DEF Named, Seen
  <2>5. /\ infos \subseteq l /\ l \subseteq infos \cup Named(page)
        /\ Seen(Named(page)) \subseteq Seen(l)
    BY <2>1, <2>3, <2>4
  <2>6. Kept(l)
    BY <2>3, <2>5
  <2> QED BY <2>6 DEF l, m
<1> DEFINE D == {e \in page : e[2]}
           N == {e \in page : ~e[2]}
<1>2. /\ D \in SUBSET page /\ N \in SUBSET page /\ page = D \cup N /\ page = N \cup D
      /\ \A e, f \in D : e[2] = f[2]
      /\ \A e, f \in N : e[2] = f[2]
  BY DEF Entry
<1>3. Collect(infos, page) = Add(Add(infos, D), N) \/ Collect(infos, page) = Add(Add(infos, N), D)
  BY DEF Collect, FoldersFirst, FilesFirst
<1> HIDE DEF D, N, Kept
<1>4. Kept(Add(Add(infos, D), N)) /\ Kept(Add(Add(infos, N), D))
  BY <1>1, <1>2
<1>5. Kept(Collect(infos, page))
  BY <1>3, <1>4
<1> QED BY <1>5 DEF Kept

----------------------------------------------------------------------------
\* What is known of a GET between its calls.  The folder as it is now was at
\* least as large at some moment, and has kept what always was there; and an
\* entry that always was there is collected, or Readdir has yet to reach it.
\* Without a prefix Readdir asks for another folder than the root, so what
\* is said of the listing does not hold there.
IInv ==
    /\ TypeOK
    /\ get.pc # "idle" => Now \subseteq ever /\ always \subseteq Now
    /\ Prefix # <<>> => get.infos \subseteq ever
    /\ NamesOnce
    /\ get.pc = "Readdir" /\ Prefix # <<>> =>
          \A e \in always : Precedes(get.cursor, e) \/ e[1] \in Seen(get.infos)
    /\ get.pc \notin {"Readdir", "done"} =>
          get.infos = {} /\ get.cursor = <<-1, TRUE>>
    /\ get.answer = "listing" => get.pc = "done"
    /\ get.answer = "listing" /\ Prefix # <<>> =>
          Seen(always) \subseteq Seen(get.infos)

\* What a Stat or an OpenFile may do to the GET: it collects nothing and lists
\* nothing.
Looks ==
    /\ get' \in GetType /\ get'.pc # "idle"
    /\ get'.req = get.req /\ get'.infos = get.infos /\ get'.cursor = get.cursor
    /\ get'.answer # "listing"

LEMMA MovesLook ==
    ASSUME get \in GetType, get.answer # "listing"
    PROVE  /\ \A pc \in {"StatMarker", "StatList", "OpenMarker", "OpenList",
                          "Download", "Readdir"} : Goto(pc) => Looks
           /\ \A kind \in {"dir", "file", "none"} :
                 (Statted(kind) => Looks) /\ (Opened(kind) => Looks)
<1>1. ASSUME NEW pc \in {"StatMarker", "StatList", "OpenMarker", "OpenList",
                         "Download", "Readdir"}, Goto(pc)
      PROVE  Looks
  BY <1>1 DEF Goto, Looks, GetType
<1>2. ASSUME NEW a \in Answer \ {"listing"}, Reply(a)
      PROVE  Looks
  BY <1>2 DEF Reply, Looks, GetType
<1>3. ASSUME NEW kind \in {"dir", "file", "none"}, Statted(kind)
      PROVE  Looks
  <2>1. CASE Reply("redirect")
    BY <1>2, <2>1 DEF Answer
  <2>2. CASE get' = [get EXCEPT !.pc = "StatFile", !.again = TRUE]
    BY <2>2 DEF Looks, GetType
  <2>3. CASE get' = [get EXCEPT !.pc = "OpenMarker", !.dav = kind # "dir"]
    <3> DEFINE b == kind # "dir"
    <3>1. b \in BOOLEAN
      OBVIOUS
    <3> HIDE DEF b
    <3>2. get' = [get EXCEPT !.pc = "OpenMarker", !.dav = b]
      BY <2>3 DEF b
    <3> QED BY <3>1, <3>2 DEF Looks, GetType
  <2> QED BY <1>3, <2>1, <2>2, <2>3 DEF Statted
<1>4. ASSUME NEW kind \in {"dir", "file", "none"}, Opened(kind)
      PROVE  Looks
  <2>1. \/ Goto("Readdir") \/ Reply("failed") \/ Reply("notAllowed")
        \/ Reply("content") \/ Reply("notFound")
    BY <1>4 DEF Opened
  <2> QED BY <1>1, <1>2, <2>1 DEF Answer
<1> QED BY <1>1, <1>3, <1>4

----------------------------------------------------------------------------
LEMMA InvInit == Init => IInv
<1> SUFFICES ASSUME Init
             PROVE  IInv
  OBVIOUS
<1> USE ListingAssumption DEF Init
<1>1. <<>> \in Path
  BY EmptySeq DEF Path
<1>2. get \in GetType
  BY <1>1 DEF GetType, Answer
<1>3. TypeOK
  BY <1>2 DEF TypeOK
<1>4. NamesOnce
  BY DEF NamesOnce
<1> QED BY <1>3, <1>4 DEF IInv

\* The folder as it is now consists of entries.
LEMMA NowType ==
    ASSUME TypeOK
    PROVE  Folder \in Key /\ Now \subseteq Entry
<1>1. get.req.path \in Path
  BY DEF TypeOK, GetType
<1>2. Folder \in Key
  BY <1>1, FolderType
<1>3. EntriesOf(objects, Folder) \subseteq Entry
  BY <1>2, EntriesType DEF TypeOK
<1> QED BY <1>2, <1>3 DEF Now, Named

LEMMA InvBegin ==
    ASSUME IInv, NEW r \in Request, Begin(r)
    PROVE  IInv'
<1> USE ListingAssumption DEF IInv, Begin, At
<1>1. r \in [path : Path, slash : BOOLEAN]
  OBVIOUS
<1>2. get' \in GetType
  BY <1>1 DEF TypeOK, GetType
<1>3. /\ get'.pc = "StatFile" /\ get'.infos = {} /\ get'.cursor = <<-1, TRUE>>
      /\ get'.answer # "listing" /\ get'.req = r
  BY DEF TypeOK, GetType
<1>4. /\ ever' = Now' /\ always' = Now'
  BY DEF Now
<1>5. Folder' \in Key
  <2>1. get'.req.path \in Path
    BY <1>3, <1>1
  <2> QED BY <2>1, KeyForType, AddSlashKey, RootKeyKey DEF Folder
<1>6. Now' \subseteq Entry
  <2>1. EntriesOf(objects, Folder') \subseteq Entry
    BY <1>5, EntriesType DEF TypeOK
  <2> QED BY <2>1 DEF Now, Named
<1>7. TypeOK'
  BY <1>2, <1>4, <1>6 DEF TypeOK
<1>8. NamesOnce'
  BY <1>3 DEF NamesOnce
<1> QED BY <1>3, <1>4, <1>7, <1>8

\* A write or a deletion moves the folder, and the histories with it.
LEMMA InvChange ==
    ASSUME IInv, Change
    PROVE  IInv'
<1> USE ListingAssumption DEF IInv, Change, Running
<1>1. objects' \subseteq Key
  BY DEF TypeOK
<1>2. Folder' = Folder
  BY DEF Folder
<1>3. Folder \in Key
  BY NowType
<1>4. Now' \subseteq Entry
  <2>1. EntriesOf(objects', Folder) \subseteq Entry
    BY <1>1, <1>3, EntriesType
  <2> QED BY <2>1, <1>2 DEF Now, Named
<1>5. ever' = ever \cup Now' /\ always' = always \cap Now'
  BY <1>2 DEF Now
<1>6. TypeOK'
  BY <1>1, <1>4, <1>5 DEF TypeOK
<1>7. NamesOnce'
  BY DEF NamesOnce
<1>8. Seen(always') \subseteq Seen(always)
  BY <1>5 DEF Seen
<1>9. /\ get'.pc # "idle" => Now' \subseteq ever' /\ always' \subseteq Now'
      /\ Prefix # <<>> => get'.infos \subseteq ever'
  BY <1>5
<1>10. get'.pc = "Readdir" /\ Prefix # <<>> =>
         \A e \in always' : Precedes(get'.cursor, e) \/ e[1] \in Seen(get'.infos)
  BY <1>5 DEF Precedes
<1>11. /\ get'.answer = "listing" => get'.pc = "done"
       /\ get'.answer = "listing" /\ Prefix # <<>> =>
             Seen(always') \subseteq Seen(get'.infos)
  BY <1>8
<1> QED BY <1>6, <1>7, <1>9, <1>10, <1>11

\* While Stat and OpenFile look around, nothing is collected: everything is
\* still ahead of the cursor.
LEMMA InvLooks ==
    ASSUME IInv, Looks, get.pc \notin {"idle", "Readdir", "done"},
           UNCHANGED <<backend, objects, ever, always, changes>>,
           faults' \in 0..MaxFaults
    PROVE  IInv'
<1> USE DEF IInv, Looks
<1>1. TypeOK'
  BY DEF TypeOK
<1>2. Now' = Now
  BY DEF Now, Folder
<1>3. \A e \in always : Precedes(get'.cursor, e)
  <2>1. \A e \in always : e[1] \in Nat
    BY EntryNumber DEF TypeOK
  <2>2. get'.cursor = <<-1, TRUE>>
    OBVIOUS
  <2> QED BY <2>1, <2>2 DEF Precedes
<1>4. NamesOnce'
  BY DEF NamesOnce
<1> QED BY <1>1, <1>2, <1>3, <1>4

\* A failed call is counted up to the bound.
LEMMA FaultsBounded ==
    ASSUME TypeOK, Works \/ Breaks
    PROVE  faults' \in 0..MaxFaults
  BY ListingAssumption DEF TypeOK, Works, Breaks

LEMMA InvStatOpen ==
    ASSUME IInv, \/ StatFile \/ StatMarker \/ StatList
                 \/ OpenMarker \/ OpenList \/ Download
    PROVE  IInv'
<1>1. \/ Works \/ Breaks
  BY DEF StatFile, StatMarker, StatList, OpenMarker, OpenList, Download, Found, Missed
<1>2. UNCHANGED <<backend, objects, ever, always, changes>>
  BY <1>1 DEF Works, Breaks
<1>3. faults' \in 0..MaxFaults
  BY <1>1, FaultsBounded DEF IInv
<1>4. get.pc \notin {"idle", "Readdir", "done"}
  BY DEF StatFile, StatMarker, StatList, OpenMarker, OpenList, Download, At
<1>5. get \in GetType /\ get.answer # "listing"
  BY <1>4 DEF IInv, TypeOK
<1>6. \/ \E pc \in {"StatMarker", "StatList", "OpenList", "Download"} : Goto(pc)
      \/ \E kind \in {"dir", "file", "none"} : Statted(kind) \/ Opened(kind)
  BY DEF StatFile, StatMarker, StatList, OpenMarker, OpenList, Download
<1>7. Looks
  BY <1>5, <1>6, MovesLook
<1> QED BY <1>2, <1>3, <1>4, <1>7, InvLooks

\* A page of the folder: what is on it is in the folder now, and what always
\* was there is seen already, on the page, or behind it.
LEMMA InvReadPage ==
    ASSUME IInv, At("Readdir"), ReadPage
    PROVE  IInv'
<1> DEFINE rest == {e \in EntriesOf(objects, Reader) : Precedes(get.cursor, e)}
<1> USE DEF At
<1>1. get.req.path \in Path /\ get \in GetType
  BY DEF IInv, TypeOK, GetType
<1>2. /\ Prefix # <<>> => Reader = Folder
      /\ Now \subseteq Entry
      /\ EntriesOf(objects, Reader) \subseteq Entry
  BY <1>1, SameFolder, FolderType, NowType, EntriesType DEF IInv, TypeOK
<1>3. rest \subseteq Entry /\ (Prefix # <<>> => Named(rest) \subseteq Now)
  BY <1>2 DEF Now, Named
<1>4. Prefix # <<>> =>
          \A e \in always : e \in Named(rest) \/ e[1] \in Seen(get.infos)
  BY <1>2 DEF IInv, Now, Named
<1>5. CASE Breaks /\ Reply("failed")
  <2>1. get' \in GetType /\ get'.pc = "done" /\ get'.answer # "listing"
        /\ get'.req = get.req /\ get'.infos = get.infos
    BY <1>1, <1>5 DEF Reply, GetType, Answer
  <2>2. UNCHANGED <<backend, objects, ever, always, changes>>
    BY <1>5 DEF Breaks
  <2>3. TypeOK'
    BY <1>5, <2>1, <2>2, FaultsBounded DEF IInv, TypeOK
  <2>4. Now' = Now /\ (NamesOnce => NamesOnce')
    BY <2>1, <2>2 DEF Now, Folder, NamesOnce
  <2> QED BY <2>1, <2>2, <2>3, <2>4 DEF IInv
<1>6. ASSUME Works, NEW page \in SUBSET rest,
             \A e \in page, f \in rest \ page : Precedes(e, f),
             NEW l, l = [get EXCEPT !.infos = Collect(@, page)],
             \/ page = rest /\ get' = [l EXCEPT !.pc = "done", !.answer = "listing"]
             \/ \E e \in page : get' = [l EXCEPT !.cursor = e]
      PROVE  IInv'
  <2> DEFINE c == Collect(get.infos, page)
  <2>1. /\ get.infos \subseteq c /\ c \subseteq get.infos \cup Named(page)
        /\ Seen(Named(page)) \subseteq Seen(c)
        /\ \A e, f \in c : e[1] = f[1] => e = f
    <3>1. get.infos \in SUBSET Entry /\ page \in SUBSET Entry
      BY <1>1, <1>3, <1>6 DEF GetType, Entry
    <3> QED BY <3>1, CollectKeeps DEF IInv, NamesOnce
  <2>2. c \subseteq Name \X BOOLEAN /\ (Prefix # <<>> => c \subseteq ever)
    <3>1. Named(page) \subseteq Name \X BOOLEAN
      BY <1>3, <1>6, NamedType
    <3>2. Prefix # <<>> => Named(page) \subseteq Now
      BY <1>3, <1>6 DEF Named
    <3>3. get.pc # "idle"
      BY DEF At
    <3> QED BY <1>1, <2>1, <3>1, <3>2, <3>3 DEF IInv, GetType
  <2>3. Prefix # <<>> =>
            \A e \in always : e[1] \in Seen(c) \/ e \in rest \ page
    BY <1>4, <2>1 DEF Seen, Named
  <2>4. l = [get EXCEPT !.infos = c]
    BY <1>6
  <2> HIDE DEF c
  <2>5. UNCHANGED <<backend, objects, ever, always, changes, faults>>
    BY <1>6 DEF Works
  <2>6. CASE page = rest /\ get' = [l EXCEPT !.pc = "done", !.answer = "listing"]
    <3>1. /\ get' \in GetType /\ get'.pc = "done" /\ get'.infos = c
          /\ get'.req = get.req
      BY <1>1, <2>2, <2>4, <2>6 DEF GetType, Answer
    <3>2. Prefix # <<>> => Seen(always) \subseteq Seen(c)
      BY <2>3, <2>6 DEF Seen
    <3>3. TypeOK' /\ Now' = Now /\ NamesOnce'
      BY <2>1, <2>5, <3>1 DEF IInv, TypeOK, Now, Folder, NamesOnce
    <3> QED BY <2>2, <2>5, <3>1, <3>2, <3>3 DEF IInv
  <2>7. ASSUME NEW e \in page, get' = [l EXCEPT !.cursor = e]
        PROVE  IInv'
    <3>1. /\ get' \in GetType /\ get'.pc = "Readdir" /\ get'.infos = c
          /\ get'.req = get.req /\ get'.cursor = e /\ get'.answer = get.answer
      BY <1>1, <1>3, <2>2, <2>4, <2>7 DEF GetType
    <3>2. Prefix # <<>> =>
              \A f \in always : Precedes(e, f) \/ f[1] \in Seen(c)
      BY <1>6, <2>3
    <3>3. TypeOK' /\ Now' = Now /\ NamesOnce'
      BY <2>1, <2>5, <3>1 DEF IInv, TypeOK, Now, Folder, NamesOnce
    <3> QED BY <2>2, <2>5, <3>1, <3>2, <3>3 DEF IInv
  <2> QED BY <1>6, <2>6, <2>7
<1>7. CASE ~(Breaks /\ Reply("failed"))
  <2> DEFINE l(page) == [get EXCEPT !.infos = Collect(@, page)]
  <2>1. Works /\ \E page \in SUBSET rest :
          /\ \A e \in page, f \in rest \ page : Precedes(e, f)
          /\ \/ page = rest /\ get' = [l(page) EXCEPT !.pc = "done", !.answer = "listing"]
             \/ \E e \in page : get' = [l(page) EXCEPT !.cursor = e]
    BY <1>7 DEF ReadPage, NoMorePages, Reader
  <2> QED BY <1>6, <2>1
<1> QED BY <1>5, <1>7

LEMMA InvNext ==
    ASSUME IInv, [Next]_vars
    PROVE  IInv'
<1>1. ASSUME NEW r \in Request, Begin(r)
      PROVE  IInv'
  BY <1>1, InvBegin
<1>2. CASE Step
  BY <1>2, InvStatOpen, InvReadPage DEF Step, ReaddirS3, ReaddirGCS, ReaddirAzure
<1>3. CASE Change
  BY <1>3, InvChange
<1>4. CASE UNCHANGED vars
  BY <1>4 DEF vars, IInv, TypeOK, Now, Folder, NamesOnce
<1> QED BY <1>1, <1>2, <1>3, <1>4 DEF Next, Done

----------------------------------------------------------------------------
LEMMA Invariance == Spec => []IInv
<1>1. Init => IInv
  BY InvInit
<1>2. IInv /\ [Next]_vars => IInv'
  BY InvNext
<1> QED BY <1>1, <1>2, PTL DEF Spec

\* The variables of a GET keep their types.
THEOREM TypeCorrect == Spec => []TypeOK
<1>1. IInv => TypeOK
  BY DEF IInv
<1>2. Spec => []IInv
  BY Invariance
<1> QED BY <1>1, <1>2, PTL

\* A listing shows only what was in the folder at some moment of the request,
\* however many pages it took and whatever changed between them.
THEOREM ShowsNoPhantom ==
    ASSUME Prefix # <<>>
    PROVE  Spec => []NoPhantom
<1>1. IInv => NoPhantom
  BY DEF IInv, NoPhantom
<1>2. Spec => []IInv
  BY Invariance
<1> QED BY <1>1, <1>2, PTL

\* A listing leaves out no name that was there from beginning to end of the
\* request, on all three backends.
THEOREM OverlooksNothing ==
    ASSUME Prefix # <<>>
    PROVE  Spec => []NothingOverlooked
<1>1. IInv => NothingOverlooked
  BY DEF IInv, NothingOverlooked
<1>2. Spec => []IInv
  BY Invariance
<1> QED BY <1>1, <1>2, PTL

\* No name stands twice in a listing, although a file and a folder, or two
\* pages, may share one.
THEOREM ListsNamesOnce == Spec => []NamesOnce
<1>1. IInv => NamesOnce
  BY DEF IInv
<1>2. Spec => []IInv
  BY Invariance
<1> QED BY <1>1, <1>2, PTL

----------------------------------------------------------------------------
(***************************************************************************)
(* Why the calls of Stat and OpenFile agree.  While nothing changes and    *)
(* nothing fails, each call that missed says what is not in the bucket,    *)
(* and dav says whether there is something to list.                        *)
(***************************************************************************)
File == get.req.path # <<>> /\ KeyFor(get.req.path) \in objects

Held == get.req.path = <<>> \/ Below(Folder) # {}

Lists == Held /\ ~File

Opens == {"OpenMarker", "OpenList", "Download", "Readdir"}

Knows ==
    /\ get.again => get.req.slash \/ ~Lists
    /\ get.req.slash => get.again
    /\ get.pc \in {"StatMarker", "StatList", "OpenList"} => get.req.path # <<>>
    /\ get.pc \in {"StatMarker", "StatList"} => ~File
    /\ get.pc \in Opens => get.again /\ (get.dav <=> ~Lists)
    /\ get.pc = "Download" => ~Held
    /\ get.pc = "Readdir" => Lists
    /\ SteadyAnswer

Calm == Steady /\ get.pc # "idle" => Knows

\* The key of the root, and only that, is the root key.
LEMMA RootOnly ==
    ASSUME NEW p \in Path
    PROVE  /\ KeyFor(p) = RootKey <=> p = <<>>
           /\ p # <<>> => WithSlash(KeyFor(p)) = AddSlash(KeyFor(p))
<1>1. CASE p # <<>>
  <2>1. /\ Len(p) \in Nat /\ Len(p) > 0 /\ p[Len(p)] \in Name /\ Len(Prefix) \in Nat
    BY <1>1, PathIsSeq, PrefixIsSeq, EmptySeq DEF Path
  <2>2. /\ Len(KeyFor(p)) = Len(Prefix) + Len(p)
        /\ KeyFor(p)[Len(Prefix) + Len(p)] = p[Len(p)]
    BY <1>1, <2>1, KeyForKey
  <2>3. Len(KeyFor(p)) = Len(RootKey) => KeyFor(p)[Len(RootKey)] # Empty
    BY <2>1, <2>2, NameAssumption
  <2> QED BY <1>1, <2>3, RootKeyKey, NamedKey DEF WithSlash
<1>2. CASE p = <<>>
  BY <1>2 DEF KeyFor
<1> QED BY <1>1, <1>2

\* A step that leaves the bucket and the request alone finds the same there.
LEMMA SameFound ==
    ASSUME UNCHANGED objects, get'.req = get.req
    PROVE  File' = File /\ Held' = Held /\ Lists' = Lists
<1>1. Folder' = Folder
  BY DEF Folder
<1> QED BY <1>1 DEF File, Held, Lists, Below

\* What a step does to the record of the GET.
LEMMA GetEffects ==
    ASSUME get \in GetType
    PROVE  /\ \A pc : Goto(pc) =>
                 /\ get'.pc = pc /\ get'.req = get.req /\ get'.again = get.again
                 /\ get'.dav = get.dav
           /\ \A a : Reply(a) =>
                 /\ get'.pc = "done" /\ get'.req = get.req
                 /\ get'.again = get.again /\ get'.answer = a
<1>1. ASSUME NEW pc, Goto(pc)
      PROVE  /\ get'.pc = pc /\ get'.req = get.req /\ get'.again = get.again
             /\ get'.dav = get.dav
  BY <1>1 DEF Goto, GetType
<1>2. ASSUME NEW a, Reply(a)
      PROVE  /\ get'.pc = "done" /\ get'.req = get.req
             /\ get'.again = get.again /\ get'.answer = a
  BY <1>2 DEF Reply, GetType
<1> QED BY <1>1, <1>2

\* A Stat that says what is there.
LEMMA StattedKnows ==
    ASSUME get \in GetType, Knows, UNCHANGED objects,
           get.pc \in {"StatFile", "StatMarker", "StatList"},
           NEW kind \in {"dir", "file", "none"}, kind = "dir" <=> Lists,
           Statted(kind)
    PROVE  Knows'
<1>1. CASE ~get.again /\ kind = "dir"
  <2>1. /\ get'.pc = "done" /\ get'.req = get.req /\ get'.again = get.again
        /\ get'.answer = "redirect"
    BY <1>1, GetEffects DEF Statted
  <2>2. /\ File' = File /\ Held' = Held /\ Lists' = Lists
    BY <2>1, SameFound
  <2>3. SteadyAnswer'
    BY <1>1, <2>1, <2>2 DEF SteadyAnswer, Knows, Lists, File, Held, Below
  <2> QED BY <1>1, <2>1, <2>2, <2>3 DEF Knows, Opens
<1>2. CASE ~get.again /\ kind # "dir"
  <2>1. /\ get'.pc = "StatFile" /\ get'.req = get.req /\ get'.again
    BY <1>2 DEF Statted, GetType
  <2>2. /\ File' = File /\ Held' = Held /\ Lists' = Lists
    BY <2>1, SameFound
  <2> QED BY <1>2, <2>1, <2>2 DEF Knows, Opens, SteadyAnswer, At
<1>3. CASE get.again
  <2> DEFINE b == kind # "dir"
  <2>1. get' = [get EXCEPT !.pc = "OpenMarker", !.dav = b]
    BY <1>3 DEF Statted
  <2>2. b <=> ~Lists
    OBVIOUS
  <2> HIDE DEF b
  <2>3. /\ get'.pc = "OpenMarker" /\ get'.req = get.req /\ get'.again = get.again
        /\ get'.dav = b
    BY <2>1 DEF GetType
  <2>4. /\ File' = File /\ Held' = Held /\ Lists' = Lists
    BY <2>3, SameFound
  <2> QED BY <1>3, <2>2, <2>3, <2>4 DEF Knows, Opens, SteadyAnswer, At
<1> QED BY <1>1, <1>2, <1>3

\* An OpenFile that says what is there.
LEMMA OpenedKnows ==
    ASSUME get \in GetType, Knows, UNCHANGED objects,
           get.pc \in {"OpenMarker", "OpenList", "Download"},
           NEW kind \in {"dir", "file", "none"},
           kind = "dir" => Held, kind = "file" => File /\ ~Held,
           kind = "none" => ~File /\ ~Held, Opened(kind)
    PROVE  Knows'
<1>1. get.again /\ (get.dav <=> ~Lists)
  BY DEF Knows, Opens
<1>2. CASE get.dav
  <2> DEFINE a == CASE kind = "dir" -> "notAllowed"
                    [] kind = "file" -> "content"
                    [] kind = "none" -> "notFound"
  <2>1. /\ get'.pc = "done" /\ get'.req = get.req /\ get'.again = get.again
        /\ get'.answer = a
    BY <1>2, GetEffects DEF Opened
  <2>2. /\ File' = File /\ Held' = Held /\ Lists' = Lists
    BY <2>1, SameFound
  <2>3. a = IF File THEN (IF Held THEN "notAllowed" ELSE "content")
            ELSE "notFound"
    BY <1>1, <1>2 DEF Lists
  <2>4. ~Lists
    BY <1>1, <1>2
  <2> HIDE DEF a
  <2>5. SteadyAnswer'
    BY <2>1, <2>2, <2>3, <2>4 DEF SteadyAnswer, Lists, File, Held, Below
  <2> QED BY <2>1, <2>2, <2>5 DEF Knows, Opens
<1>3. CASE ~get.dav
  <2>1. Lists /\ kind = "dir"
    BY <1>1, <1>3 DEF Lists
  <2>2. /\ get'.pc = "Readdir" /\ get'.req = get.req /\ get'.again = get.again
        /\ get'.dav = get.dav
    BY <1>3, <2>1, GetEffects DEF Opened
  <2>3. /\ File' = File /\ Held' = Held /\ Lists' = Lists
    BY <2>2, SameFound
  <2> QED BY <1>1, <2>1, <2>2, <2>3 DEF Knows, Opens, SteadyAnswer, At
<1> QED BY <1>2, <1>3

\* What the calls look for is the file, the marker and what is below.
LEMMA StatOpenKnows ==
    ASSUME IInv, Knows, Works,
           \/ StatFile \/ StatMarker \/ StatList
           \/ OpenMarker \/ OpenList \/ Download
    PROVE  Knows'
<1> DEFINE p == get.req.path
           k == KeyFor(p)
<1>1. /\ get \in GetType /\ p \in Path /\ UNCHANGED objects /\ objects \subseteq Key
  BY DEF IInv, TypeOK, GetType, Works
<1>2. ~Breaks
  BY DEF IInv, TypeOK, Works, Breaks
<1>3. k = RootKey <=> p = <<>>
  BY <1>1, RootOnly
<1>4. p # <<>> => AddSlash(k) = Folder /\ WithSlash(k) = Folder
  BY <1>1, RootOnly DEF Folder
<1>5. Folder \in Key /\ (Folder \in objects => Folder \in Below(Folder))
  BY <1>1, FolderType, UnderSelf DEF Below
<1>6. ASSUME NEW pc \in {"StatMarker", "StatList", "OpenList", "Download"}, Goto(pc),
             get.pc \in {"StatFile", "StatMarker", "OpenMarker", "OpenList"},
             p # <<>>, get.pc \in {"OpenMarker", "OpenList"} <=> pc \in Opens,
             pc \in {"StatMarker", "StatList"} => ~File, pc = "Download" => ~Held
      PROVE  Knows'
  <2>1. /\ get'.pc = pc /\ get'.req = get.req /\ get'.again = get.again
        /\ get'.dav = get.dav
    BY <1>1, <1>6, GetEffects
  <2>2. /\ File' = File /\ Held' = Held /\ Lists' = Lists
    BY <1>1, <2>1, SameFound
  <2> QED BY <1>6, <2>1, <2>2 DEF Knows, Opens, SteadyAnswer, At
<1>7. CASE StatFile
  <2>1. CASE p = <<>>
    BY <1>1, <1>3, <1>7, <2>1, StattedKnows DEF StatFile, At, Lists, Held, File
  <2>2. CASE p # <<>> /\ Found({k}) /\ Statted("file")
    <3>1. File
      BY <2>2 DEF Found, File
    <3> QED BY <1>1, <1>7, <2>2, <3>1, StattedKnows DEF StatFile, At, Lists
  <2>3. CASE p # <<>> /\ Missed({k}) /\ Goto("StatMarker")
    <3>1. ~File
      BY <1>2, <2>3 DEF Missed, File
    <3> QED BY <1>6, <1>7, <2>3, <3>1 DEF StatFile, At, Opens
  <2> QED BY <1>3, <1>7, <2>1, <2>2, <2>3 DEF StatFile
<1>8. CASE StatMarker
  <2>1. p # <<>> /\ ~File /\ get.pc = "StatMarker"
    BY <1>8 DEF StatMarker, At, Knows
  <2>2. CASE Found({Folder}) /\ Statted("dir")
    <3>1. Held
      BY <1>5, <2>2 DEF Found, Held
    <3> QED BY <1>1, <2>1, <2>2, <3>1, StattedKnows DEF Lists
  <2>3. CASE Goto("StatList")
    BY <1>6, <2>1, <2>3 DEF Opens
  <2> QED BY <1>4, <1>8, <2>1, <2>2, <2>3 DEF StatMarker
<1>9. CASE StatList
  <2>1. p # <<>> /\ ~File /\ get.pc = "StatList"
    BY <1>9 DEF StatList, At, Knows
  <2>2. CASE Found(Below(Folder)) /\ Statted("dir")
    <3>1. Held
      BY <2>2 DEF Found, Held
    <3> QED BY <1>1, <2>1, <2>2, <3>1, StattedKnows DEF Lists
  <2>3. CASE Missed(Below(Folder)) /\ Statted("none")
    <3>1. ~Held
      BY <1>2, <2>1, <2>3 DEF Missed, Held, Below
    <3> QED BY <1>1, <2>1, <2>3, <3>1, StattedKnows DEF Lists
  <2> QED BY <1>4, <1>9, <2>1, <2>2, <2>3 DEF StatList
<1>10. CASE OpenMarker
  <2>1. get.pc = "OpenMarker"
    BY <1>10 DEF OpenMarker, At
  <2>2. CASE p = <<>>
    BY <1>1, <1>3, <1>10, <2>1, <2>2, OpenedKnows DEF OpenMarker, Held
  <2>3. CASE p # <<>> /\ Found({Folder}) /\ Opened("dir")
    <3>1. Held
      BY <1>5, <2>3 DEF Found, Held
    <3> QED BY <1>1, <2>1, <2>3, <3>1, OpenedKnows
  <2>4. CASE p # <<>> /\ Goto("OpenList")
    BY <1>6, <2>1, <2>4 DEF Opens
  <2> QED BY <1>3, <1>4, <1>10, <2>2, <2>3, <2>4 DEF OpenMarker
<1>11. CASE OpenList
  <2>1. p # <<>> /\ get.pc = "OpenList"
    BY <1>11 DEF OpenList, At, Knows
  <2>2. CASE Found(Below(Folder)) /\ Opened("dir")
    <3>1. Held
      BY <2>2 DEF Found, Held
    <3> QED BY <1>1, <2>1, <2>2, <3>1, OpenedKnows
  <2>3. CASE Missed(Below(Folder)) /\ Goto("Download")
    <3>1. ~Held
      BY <1>2, <2>1, <2>3 DEF Missed, Held, Below
    <3> QED BY <1>6, <2>1, <2>3, <3>1 DEF Opens
  <2> QED BY <1>4, <1>11, <2>1, <2>2, <2>3 DEF OpenList
<1>12. CASE Download
  <2>1. ~Held /\ p # <<>> /\ get.pc = "Download"
    BY <1>12 DEF Download, At, Knows, Held
  <2>2. CASE Found({k}) /\ Opened("file")
    <3>1. File
      BY <2>1, <2>2 DEF Found, File
    <3> QED BY <1>1, <2>1, <2>2, <3>1, OpenedKnows
  <2>3. CASE Missed({k}) /\ Opened("none")
    <3>1. ~File
      BY <1>2, <2>3 DEF Missed, File
    <3> QED BY <1>1, <2>1, <2>3, <3>1, OpenedKnows
  <2> QED BY <1>12, <2>2, <2>3 DEF Download
<1> QED BY <1>7, <1>8, <1>9, <1>10, <1>11, <1>12

\* A page leaves the request alone, and the last one is the answer.
LEMMA ReadPageKnows ==
    ASSUME IInv, Knows, Works, At("Readdir"), ReadPage
    PROVE  Knows'
<1>1. get \in GetType /\ UNCHANGED objects /\ ~Breaks
  BY DEF IInv, TypeOK, Works, Breaks
<1>2. /\ get'.req = get.req /\ get'.again = get.again /\ get'.dav = get.dav
      /\ get'.pc = "Readdir" \/ (get'.pc = "done" /\ get'.answer = "listing")
  <2>1. PICK c :
          \/ get' = [[get EXCEPT !.infos = c] EXCEPT !.pc = "done", !.answer = "listing"]
          \/ \E e : get' = [[get EXCEPT !.infos = c] EXCEPT !.cursor = e]
    BY <1>1 DEF ReadPage
  <2> QED BY <1>1, <2>1 DEF GetType, At
<1>3. File' = File /\ Held' = Held /\ Lists' = Lists
  BY <1>1, <1>2, SameFound
<1>4. Lists /\ get.again /\ get.req.slash /\ (get.dav <=> ~Lists)
  BY DEF Knows, Opens, At
<1>5. SteadyAnswer'
  BY <1>2, <1>3, <1>4 DEF SteadyAnswer, Lists, File, Held, Below, At
<1> QED BY <1>2, <1>3, <1>4, <1>5 DEF Knows, Opens

LEMMA CalmBegin ==
    ASSUME IInv, NEW r \in Request, Begin(r)
    PROVE  Knows'
<1>1. get'.pc = "StatFile" /\ get'.req = r /\ get'.again = r.slash
  BY DEF Begin, IInv, TypeOK, GetType
<1> QED BY <1>1 DEF Knows, Opens, SteadyAnswer, At

LEMMA CalmNext ==
    ASSUME IInv, Calm, [Next]_vars
    PROVE  Calm'
<1> SUFFICES ASSUME Steady', get'.pc # "idle"
             PROVE  Knows'
  BY DEF Calm
<1>1. ASSUME NEW r \in Request, Begin(r)
      PROVE  Knows'
  BY <1>1, CalmBegin
<1>2. CASE Step
  <2>1. Works
    <3>1. Works \/ Breaks
      BY <1>2 DEF Step, StatFile, StatMarker, StatList, OpenMarker, OpenList, Download,
                  Found, Missed, ReaddirS3, ReaddirGCS, ReaddirAzure, ReadPage
    <3>2. ~Breaks
      BY DEF Breaks, Steady, IInv, TypeOK
    <3> QED BY <3>1, <3>2
  <2>2. Knows
    BY <1>2, <2>1
    DEF Calm, Steady, Works, Step, StatFile, StatMarker, StatList, OpenMarker, OpenList,
        Download, ReaddirS3, ReaddirGCS, ReaddirAzure, At
  <2> QED
    BY <1>2, <2>1, <2>2, StatOpenKnows, ReadPageKnows
    DEF Step, ReaddirS3, ReaddirGCS, ReaddirAzure
<1>3. CASE Change
  BY <1>3 DEF Change, Steady, IInv, TypeOK
<1>4. CASE UNCHANGED vars
  <2>1. Knows /\ get' = get /\ UNCHANGED objects
    BY <1>4 DEF Calm, Steady, vars
  <2>2. File' = File /\ Held' = Held /\ Lists' = Lists
    BY <2>1, SameFound
  <2>3. SteadyAnswer'
    BY <1>4, <2>1 DEF Knows, SteadyAnswer, At, Steady, Below, Folder, vars
  <2> QED BY <2>1, <2>2, <2>3 DEF Knows
<1> QED BY <1>1, <1>2, <1>3, <1>4 DEF Next, Done

\* When nothing changes and nothing fails while a GET runs, the up to nine
\* calls of Stat and OpenFile agree, on each backend, for every path that does
\* not name both an object and a folder: a folder is redirected to or listed,
\* a file is sent (dirlist.go:72-102, s3.go:117-150, 308-350).
THEOREM AnswersAgree == Spec => []SteadyAnswer
<1>1. Init => Calm
  BY DEF Init, Calm
<1>2. IInv /\ Calm /\ [Next]_vars => Calm'
  BY CalmNext
<1>3. Calm => SteadyAnswer
  BY DEF Calm, Knows, SteadyAnswer, At
<1>4. Spec => []IInv
  BY Invariance
<1> QED BY <1>1, <1>2, <1>3, <1>4, PTL DEF Spec
=============================================================================
