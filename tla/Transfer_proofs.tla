--------------------------- MODULE Transfer_proofs ---------------------------
(***************************************************************************)
(* Uploads and downloads implement an atomic file, for any number of them, *)
(* bodies of any size, any failures and crashes, and every backend.  The   *)
(* invariant says what each goroutine knows of the other end of its pipe;  *)
(* each step then replaces the file, ends an upload, reads the file, or    *)
(* leaves the abstract state alone.                                        *)
(***************************************************************************)
EXTENDS Transfer, TLAPS

\* A download that has not begun has nothing; one that waits for Attrs holds
\* content no newer than the object.
Held(r) ==
    /\ r.pc = "idle" => r.body = {}
    /\ r.at <= time
    /\ r.pc = "attrs" => ~Piped /\ r.time = 0
    /\ r.pc = "done" /\ r.body # {} =>
          IF Piped THEN r.time = r.at ELSE r.time = 0 \/ r.time >= r.at

IInv ==
    /\ TypeOK
    /\ \A p \in Put : Consistent(put[p])
    /\ \A g \in Get : Held(get[g])

----------------------------------------------------------------------------
\* How a step moves upload p from record o to record r, seen as the abstract
\* upload: nothing happens, it begins, replaces the file, or ends.
Moves(p, o, r) ==
    \/ Keep /\ Phase(r) = Phase(o)
    \/ Keep /\ Phase(o) = "idle" /\ Phase(r) = "open"
    \/ /\ Store(p) /\ Phase(o) = "open"
       /\ Phase(r) = IF o.sent = Size THEN "whole" ELSE "part"
    \/ Keep /\ Phase(o) = "whole" /\ Phase(r) = "created"
    \/ Keep /\ Phase(o) \in {"open", "part", "whole"} /\ Phase(r) = "refused"

\* A step that gives upload p a consistent record keeps the invariant of all
\* uploads.
LEMMA BecomeKeeps ==
    ASSUME put \in [Put -> PutType], \A q \in Put : Consistent(put[q]),
           NEW p \in Put, NEW r \in PutType, Consistent(r), Become(p, r)
    PROVE  put' \in [Put -> PutType] /\ \A q \in Put : Consistent(put'[q])
  BY DEF Become

\* What an upload's step does to the upload: a record for each action.
LEMMA UploadMoves ==
    ASSUME TypeOK, \A q \in Put : Consistent(put[q]), NEW p \in Put,
           Open(p) \/ Request(p) \/ Upload(p) \/ Crash(p)
    PROVE  \E r \in PutType : Consistent(r) /\ Become(p, r) /\ Moves(p, put[p], r)
<1> DEFINE o == put[p]
<1>1. o \in PutType /\ Consistent(o) /\ put \in [Put -> PutType]
  BY DEF TypeOK
<1>2. Size \in Nat
  BY TransferAssumption
<1> DEFINE next == o.sent + 1
<1>20. At(p, "write") => next \in 0..Size
  BY <1>1, <1>2 DEF At, PutType, Consistent
<1>4. CASE Open(p)
  <2> DEFINE r == [o EXCEPT !.pc = "copy", !.up = IF Piped THEN "read" ELSE "none"]
  <2>1. r \in PutType /\ Consistent(r)
    BY <1>1, <1>4 DEF Open, At, PutType, Consistent
  <2>3. Moves(p, o, r)
    BY <1>1, <2>1, <1>4 DEF Open, At, Consistent, Phase, Moves
  <2> QED BY <2>3, <2>1, <1>4 DEF Open
<1>5. CASE NextChunk(p)
  <2> DEFINE r == [o EXCEPT !.pc = "write"]
  <2>1. r \in PutType /\ Consistent(r)
    BY <1>1, <1>5 DEF NextChunk, At, PutType, Consistent
  <2>3. Moves(p, o, r)
    BY <1>1, <2>1, <1>5 DEF NextChunk, At, Consistent, Phase, Moves
  <2> QED BY <2>3, <2>1, <1>5 DEF NextChunk
<1>6. CASE BodyEnds(p)
  <2> DEFINE r == [o EXCEPT !.pc = "close"]
  <2>1. r \in PutType /\ Consistent(r)
    BY <1>1, <1>6 DEF BodyEnds, At, PutType, Consistent
  <2>3. Moves(p, o, r)
    BY <1>1, <2>1, <1>6 DEF BodyEnds, At, Consistent, Phase, Moves
  <2> QED BY <2>3, <2>1, <1>6 DEF BodyEnds
<1>7. CASE BodyBreaks(p) \/ WriteFails(p)
  <2> DEFINE r == [o EXCEPT !.pc = "close", !.copyErr = TRUE]
  <2>1. r \in PutType /\ Consistent(r)
    BY <1>1, <1>7 DEF BodyBreaks, WriteFails, At, PutType, Consistent
  <2>3. Moves(p, o, r)
    BY <1>1, <2>1, <1>7 DEF BodyBreaks, WriteFails, At, Consistent, Phase, Moves
  <2> QED BY <2>3, <2>1, <1>7 DEF BodyBreaks, WriteFails
<1>8. CASE ClosePipe(p)
  <2> DEFINE r == [o EXCEPT !.pc = "wait", !.eof = TRUE]
  <2>1. r \in PutType /\ Consistent(r)
    BY <1>1, <1>8 DEF ClosePipe, At, PutType, Consistent
  <2>3. Moves(p, o, r)
    BY <1>1, <2>1, <1>8 DEF ClosePipe, At, Consistent, Phase, Moves
  <2> QED BY <2>3, <2>1, <1>8 DEF ClosePipe
<1>9. CASE Finish(p)
  <2> DEFINE r == [o EXCEPT !.pc = "done", !.answer = Outcome(p)]
  <2>1. r \in PutType /\ Consistent(r)
    BY <1>1, <1>9 DEF Finish, At, PutType, Consistent, Outcome
  <2>3. Moves(p, o, r)
    BY <1>1, <2>1, <1>9 DEF Finish, At, Consistent, Phase, Moves, Outcome
  <2> QED BY <2>3, <2>1, <1>9 DEF Finish
<1>10. CASE Take(p)
  <2> DEFINE r == [o EXCEPT !.pc = "copy", !.sent = next]
  <2>1. r \in PutType /\ Consistent(r)
    <3>1. next \in 0..Size
      BY <1>20, <1>10 DEF Take
    <3> HIDE DEF next
    <3> QED BY <3>1, <1>1, <1>10 DEF Take, At, PutType, Consistent
  <2>3. Moves(p, o, r)
    BY <1>1, <2>1, <1>10 DEF Take, At, Consistent, Phase, Moves
  <2> QED BY <2>3, <2>1, <1>10 DEF Take
<1>11. CASE Complete(p)
  <2>1. PICK err \in BOOLEAN :
            Become(p, [o EXCEPT !.up = "shut", !.err = err, !.stored = TRUE])
    BY <1>11 DEF Complete
  <2> DEFINE r == [o EXCEPT !.up = "shut", !.err = err, !.stored = TRUE]
  <2>2. r \in PutType /\ Consistent(r)
    BY <1>1, <1>11 DEF Complete, At, PutType, Consistent
  <2>3. Moves(p, o, r)
    BY <1>1, <2>1, <1>11 DEF Complete, At, Consistent, Phase, Moves
  <2> QED BY <2>3, <2>1, <2>2
<1>12. CASE Abort(p)
  <2> DEFINE r == [o EXCEPT !.up = "shut", !.err = TRUE]
  <2>1. r \in PutType /\ Consistent(r)
    BY <1>1, <1>12 DEF Abort, At, PutType, Consistent
  <2>3. Moves(p, o, r)
    BY <1>1, <2>1, <1>12 DEF Abort, At, Consistent, Phase, Moves
  <2> QED BY <2>3, <2>1, <1>12 DEF Abort
<1>13. CASE Send(p)
  <2> DEFINE r == [o EXCEPT !.up = "sent"]
  <2>1. r \in PutType /\ Consistent(r)
    BY <1>1, <1>13 DEF Send, At, PutType, Consistent
  <2>3. Moves(p, o, r)
    BY <1>1, <2>1, <1>13 DEF Send, At, Consistent, Phase, Moves
  <2> QED BY <2>3, <2>1, <1>13 DEF Send
<1>14. CASE WriteGCS(p)
  <2>1. CASE Become(p, [o EXCEPT !.pc = "copy", !.sent = @ + 1])
    <3> DEFINE r == [o EXCEPT !.pc = "copy", !.sent = next]
    <3>1. r \in PutType /\ Consistent(r)
      <4>1. next \in 0..Size
        BY <1>20, <1>14 DEF WriteGCS
      <4> HIDE DEF next
      <4> QED BY <4>1, <1>1, <1>14 DEF WriteGCS, At, PutType, Consistent
    <3>2. Moves(p, o, r)
      BY <1>1, <3>1, <1>14 DEF WriteGCS, At, Consistent, Phase, Moves
    <3> QED BY <3>2, <3>1, <2>1
  <2>2. CASE Become(p, [o EXCEPT !.pc = "close", !.copyErr = TRUE, !.err = TRUE])
    <3> DEFINE r == [o EXCEPT !.pc = "close", !.copyErr = TRUE, !.err = TRUE]
    <3>1. r \in PutType /\ Consistent(r)
      BY <1>1, <1>14 DEF WriteGCS, At, PutType, Consistent
    <3>2. Moves(p, o, r)
      BY <1>1, <3>1, <1>14 DEF WriteGCS, At, Consistent, Phase, Moves
    <3> QED BY <3>2, <3>1, <2>2
  <2> QED BY <2>1, <2>2, <1>14 DEF WriteGCS
<1>15. CASE CloseGCS(p)
  <2>1. PICK err, stored \in BOOLEAN :
            /\ IF o.err THEN err /\ ~stored ELSE err \/ stored
            /\ IF stored THEN Store(p) ELSE Keep
            /\ Become(p, [o EXCEPT !.pc = "wait", !.up = "sent",
                                   !.err = err, !.stored = stored])
    BY <1>15 DEF CloseGCS
  <2> DEFINE r == [o EXCEPT !.pc = "wait", !.up = "sent", !.err = err,
                            !.stored = stored]
  <2>2. r \in PutType /\ Consistent(r)
    BY <1>1, <1>15, <2>1 DEF CloseGCS, At, PutType, Consistent
  <2>3. Moves(p, o, r)
    BY <1>1, <2>2, <1>15, <2>1 DEF CloseGCS, At, Consistent, Phase, Moves
  <2> QED BY <2>1, <2>2, <2>3
<1>16. CASE Crash(p)
  <2> DEFINE r == [o EXCEPT !.pc = "done", !.answer = "refused", !.up = "none"]
  <2>1. r \in PutType /\ Consistent(r)
    BY <1>1, <1>16 DEF Crash, At, PutType, Consistent
  <2>3. Moves(p, o, r)
    BY <1>1, <2>1, <1>16 DEF Crash, At, Consistent, Phase, Moves
  <2> QED BY <2>3, <2>1, <1>16 DEF Crash
<1> QED
  BY <1>4, <1>5, <1>6, <1>7, <1>8, <1>9, <1>10, <1>11, <1>12, <1>13, <1>14,
     <1>15, <1>16 DEF Request, Upload

\* What an upload's step leaves alone, and that the time never goes back.
LEMMA UploadFrame ==
    ASSUME IInv, NEW p \in Put, Open(p) \/ Request(p) \/ Upload(p) \/ Crash(p)
    PROVE  /\ get' = get /\ backend' = backend /\ faults' \in 0..MaxFaults
           /\ body' \in Body /\ time' \in Nat /\ time' >= time
<1>1. /\ get' = get /\ backend' = backend
      /\ faults' = faults \/ (faults < MaxFaults /\ faults' = faults + 1)
  BY DEF Request, Upload, Open, NextChunk, BodyEnds, BodyBreaks, WriteFails,
         ClosePipe, Finish, Take, Complete, Abort, Send, WriteGCS, CloseGCS,
         Crash, Works, Breaks
<1>2. Keep \/ Store(p)
  BY DEF Request, Upload, Open, NextChunk, BodyEnds, BodyBreaks, WriteFails,
         ClosePipe, Finish, Take, Complete, Abort, Send, WriteGCS, CloseGCS, Crash
<1>3. put[p].sent \in 0..Size /\ faults \in 0..MaxFaults /\ time \in Nat /\ body \in Body
  BY DEF IInv, TypeOK, PutType
<1>4. faults' \in 0..MaxFaults
  BY <1>1, <1>3, TransferAssumption
<1>5. body' \in Body /\ time' \in Nat /\ time' >= time
  BY <1>2, <1>3 DEF Keep, Store, Body
<1> QED BY <1>1, <1>4, <1>5

LEMMA UploadKeeps ==
    ASSUME IInv, NEW p \in Put, Open(p) \/ Request(p) \/ Upload(p) \/ Crash(p)
    PROVE  IInv'
<1>1. /\ get' = get /\ backend' = backend /\ faults' \in 0..MaxFaults
      /\ body' \in Body /\ time' \in Nat /\ time' >= time
  BY UploadFrame
<1>2. put' \in [Put -> PutType] /\ \A q \in Put : Consistent(put'[q])
  BY UploadMoves, BecomeKeeps DEF IInv, TypeOK
<1>3. TypeOK'
  BY <1>1, <1>2 DEF IInv, TypeOK
<1>4. ASSUME NEW g \in Get PROVE Held(get[g])'
  <2>1. get[g] \in GetType /\ Held(get[g]) /\ time \in Nat
    BY DEF IInv, TypeOK
  <2>2. get[g].at \in Nat
    BY <2>1 DEF GetType
  <2> QED BY <1>1, <2>1, <2>2 DEF Held, Piped
<1> QED BY <1>2, <1>3, <1>4 DEF IInv

\* The same for the steps of a download: the record it becomes.
LEMMA ReaderMoves ==
    ASSUME IInv, NEW g \in Get, Reader(g)
    PROVE  /\ UNCHANGED <<backend, put, body, time>> /\ faults' \in 0..MaxFaults
           /\ \E r \in GetType :
                 /\ get' = [get EXCEPT ![g] = r] /\ Held(r)
                 /\ r.body = get[g].body \/ (get[g].body = {} /\ r.body = {body})
<1> DEFINE o == get[g]
<1>1. /\ o \in GetType /\ Held(o) /\ get \in [Get -> GetType]
      /\ body \in Body /\ time \in Nat /\ faults \in 0..MaxFaults
  BY DEF IInv, TypeOK
<1>2. o.at \in Nat /\ o.body \in SUBSET Body
  BY <1>1 DEF GetType
<1>3. UNCHANGED <<backend, put, body, time>>
  BY DEF Reader, Download, DownloadFails, Attrs, Keep, Breaks
<1>4. faults' \in 0..MaxFaults
  BY <1>1, TransferAssumption DEF Reader, Download, DownloadFails, Attrs, Breaks
<1>5. CASE Download(g)
  <2> DEFINE r == [pc |-> IF Piped THEN "done" ELSE "attrs", body |-> {body},
                   time |-> IF Piped THEN time ELSE 0, at |-> time]
  <2>1. r \in GetType
    BY <1>1 DEF GetType
  <2>2. Held(r) /\ o.body = {}
    BY <1>1, <1>5 DEF Held, Download
  <2> QED BY <2>1, <2>2, <1>3, <1>4, <1>5 DEF Download
<1>6. CASE DownloadFails(g)
  <2> DEFINE r == [o EXCEPT !.pc = "done"]
  <2>1. r \in GetType
    BY <1>1 DEF GetType
  <2>2. /\ r.pc = "done" /\ r.body = o.body /\ r.at = o.at /\ o.body = {}
        /\ get' = [get EXCEPT ![g] = r]
    BY <1>1, <1>6 DEF Held, DownloadFails, GetType
  <2>3. Held(r)
    BY <2>2, <1>1 DEF Held
  <2> QED BY <2>1, <2>2, <2>3, <1>3, <1>4
<1>7. ASSUME Attrs(g), NEW t \in {time, 0},
             get' = [get EXCEPT ![g] = [o EXCEPT !.pc = "done", !.time = t]]
      PROVE  \E r \in GetType :
                 /\ get' = [get EXCEPT ![g] = r] /\ Held(r) /\ r.body = o.body
  <2> DEFINE r == [o EXCEPT !.pc = "done", !.time = t]
  <2>4. t \in Nat
    BY <1>1, <1>7
  <2>1. r \in GetType
    BY <2>4, <1>1 DEF GetType
  <2>2. /\ r.pc = "done" /\ r.body = o.body /\ r.at = o.at /\ r.time = t
        /\ ~Piped /\ o.at <= time
    BY <1>1, <1>7 DEF Held, Attrs, GetType
  <2>3. Held(r)
    BY <2>2, <1>1, <1>2 DEF Held
  <2> QED BY <2>1, <2>2, <2>3, <1>7
<1>8. CASE Attrs(g)
  <2>1. get' = [get EXCEPT ![g] = [o EXCEPT !.pc = "done", !.time = time]]
        \/ get' = [get EXCEPT ![g] = [o EXCEPT !.pc = "done", !.time = 0]]
    <3>1. CASE get' = [get EXCEPT ![g].pc = "done", ![g].time = time]
      BY <3>1, <1>1 DEF GetType
    <3>2. CASE get' = [get EXCEPT ![g].pc = "done"]
      <4>1. o.pc = "attrs" /\ o.time = 0
        BY <1>1, <1>8 DEF Attrs, Held
      <4>2. [o EXCEPT !.pc = "done"] = [o EXCEPT !.pc = "done", !.time = 0]
        BY <4>1, <1>1 DEF GetType
      <4> QED BY <3>2, <4>2
    <3> QED BY <3>1, <3>2, <1>8 DEF Attrs
  <2> QED BY <2>1, <1>7, <1>8, <1>3, <1>4
<1> QED BY <1>5, <1>6, <1>8 DEF Reader

LEMMA ReaderKeeps ==
    ASSUME IInv, NEW g \in Get, Reader(g)
    PROVE  IInv'
<1>1. PICK r \in GetType : get' = [get EXCEPT ![g] = r] /\ Held(r)
  BY ReaderMoves
<1>2. UNCHANGED <<backend, put, body, time>> /\ faults' \in 0..MaxFaults
  BY ReaderMoves
<1>3. get \in [Get -> GetType]
  BY DEF IInv, TypeOK
<1>4. TypeOK'
  BY <1>1, <1>2, <1>3 DEF IInv, TypeOK
<1>5. ASSUME NEW h \in Get PROVE Held(get[h])'
  <2>1. get'[h] = IF h = g THEN r ELSE get[h]
    BY <1>1, <1>3
  <2>2. Held(get'[h])
    BY <2>1, <1>1 DEF IInv
  <2> QED BY <2>2, <1>2 DEF Held, Piped
<1> QED BY <1>2, <1>4, <1>5 DEF IInv

LEMMA Start == Init => IInv
<1> SUFFICES ASSUME Init PROVE IInv
  OBVIOUS
<1> DEFINE p0 == [pc |-> "idle", sent |-> 0, copyErr |-> FALSE, up |-> "none",
                  eof |-> FALSE, err |-> FALSE, stored |-> FALSE, answer |-> "none"]
           g0 == [pc |-> "idle", body |-> {}, time |-> 0, at |-> 0]
<1>1. p0 \in PutType /\ Consistent(p0)
  BY TransferAssumption DEF PutType, Consistent
<1>2. g0 \in GetType
  BY DEF GetType
<1>3. TypeOK
  BY <1>1, <1>2, TransferAssumption DEF Init, TypeOK, Body
<1>4. \A p \in Put : Consistent(put[p])
  BY <1>1 DEF Init
<1>5. \A g \in Get : Held(get[g])
  BY DEF Init, Held
<1> QED BY <1>3, <1>4, <1>5 DEF IInv

\* The inductive invariant: the types, what the goroutines of an upload know
\* of each other, and that a download holds nothing newer than the object.
THEOREM Invariance == Spec => []IInv
<1>1. IInv /\ [Next]_vars => IInv'
  <2> SUFFICES ASSUME IInv, [Next]_vars PROVE IInv'
    OBVIOUS
  <2>1. CASE UNCHANGED vars
    <3>1. /\ backend' = backend /\ body' = body /\ time' = time
          /\ put' = put /\ get' = get /\ faults' = faults
      BY <2>1 DEF vars
    <3>2. TypeOK'
      BY <3>1 DEF IInv, TypeOK
    <3>3. \A g \in Get : Held(get[g])'
      BY <3>1 DEF IInv, Held, Piped
    <3> QED BY <3>1, <3>2, <3>3 DEF IInv
  <2>2. CASE Next
    BY <2>2, UploadKeeps, ReaderKeeps DEF Next
  <2> QED BY <2>1, <2>2
<1> QED BY Start, <1>1, PTL DEF Spec

\* Every record of an upload or a download keeps its type.
THEOREM TypeCorrect == Spec => []TypeOK
<1>1. IInv => TypeOK
  BY DEF IInv
<1> QED BY <1>1, Invariance, PTL

\* The time of a download is that of its content, or on GCS a newer one or
\* none.
THEOREM TimesAgree == Spec => []TimeOfContent
<1>1. IInv => TimeOfContent
  BY DEF IInv, Held, TimeOfContent
<1> QED BY <1>1, Invariance, PTL

----------------------------------------------------------------------------
\* The abstract state of an upload follows its record.
LEMMA PhaseFollows ==
    ASSUME TypeOK, NEW p \in Put, NEW r, Become(p, r)
    PROVE  [q \in Put |-> Phase(put'[q])] =
             [[q \in Put |-> Phase(put[q])] EXCEPT ![p] = Phase(r)]
  BY DEF TypeOK, Become

LEMMA UploadRefines ==
    ASSUME IInv, NEW p \in Put, Open(p) \/ Request(p) \/ Upload(p) \/ Crash(p)
    PROVE  [File!Next]_(File!vars)
<1>1. PICK r \in PutType : Become(p, r) /\ Moves(p, put[p], r)
  BY UploadMoves DEF IInv
<1> DEFINE s == [q \in Put |-> Phase(put[q])]
           t == [q \in Put |-> Phase(put'[q])]
<1>2. t = [s EXCEPT ![p] = Phase(r)] /\ s[p] = Phase(put[p])
  BY <1>1, PhaseFollows DEF IInv
<1>3. get' = get /\ put[p].sent \in 0..Size
  BY UploadFrame DEF IInv, TypeOK, PutType
<1>4. CASE Keep /\ Phase(r) = Phase(put[p])
  <2>1. t = s
    BY <1>2, <1>4
  <2> QED BY <2>1, <1>3, <1>4 DEF File!vars, Keep
<1>5. CASE Keep /\ Phase(put[p]) = "idle" /\ Phase(r) = "open"
  <2>1. File!Open(p)
    BY <1>2, <1>3, <1>5 DEF File!Open, File!Become, Keep
  <2> QED BY <2>1 DEF File!Next
<1>6. CASE /\ Store(p) /\ Phase(put[p]) = "open"
           /\ Phase(r) = IF put[p].sent = Size THEN "whole" ELSE "part"
  <2>1. File!Replace(p, put[p].sent)
    BY <1>2, <1>3, <1>6 DEF File!Replace, File!Become, Store
  <2> QED BY <2>1, <1>3 DEF File!Next
<1>7. CASE Keep /\ Phase(put[p]) = "whole" /\ Phase(r) = "created"
  <2>1. File!Create(p)
    BY <1>2, <1>3, <1>7 DEF File!Create, File!Become, Keep
  <2> QED BY <2>1 DEF File!Next
<1>8. CASE Keep /\ Phase(put[p]) \in {"open", "part", "whole"} /\ Phase(r) = "refused"
  <2>1. File!Refuse(p)
    BY <1>2, <1>3, <1>8 DEF File!Refuse, File!Become, Keep
  <2> QED BY <2>1 DEF File!Next
<1> QED BY <1>1, <1>4, <1>5, <1>6, <1>7, <1>8 DEF Moves

LEMMA ReaderRefines ==
    ASSUME IInv, NEW g \in Get, Reader(g)
    PROVE  [File!Next]_(File!vars)
<1>1. PICK r \in GetType :
          /\ get' = [get EXCEPT ![g] = r]
          /\ r.body = get[g].body \/ (get[g].body = {} /\ r.body = {body})
  BY ReaderMoves
<1>2. UNCHANGED <<put, body>> /\ get \in [Get -> GetType]
  BY ReaderMoves DEF IInv, TypeOK
<1> DEFINE s == [h \in Get |-> get[h].body]
           t == [h \in Get |-> get'[h].body]
<1>3. t = [s EXCEPT ![g] = r.body] /\ s[g] = get[g].body
  BY <1>1, <1>2
<1>4. CASE r.body = get[g].body
  <2>1. t = s
    BY <1>3, <1>4
  <2> QED BY <2>1, <1>2 DEF File!vars
<1>5. CASE get[g].body = {} /\ r.body = {body}
  <2>1. File!Read(g)
    BY <1>2, <1>3, <1>5 DEF File!Read
  <2> QED BY <2>1 DEF File!Next
<1> QED BY <1>1, <1>4, <1>5

\* Uploads and downloads implement the atomic file, for any number of them:
\* the object is replaced at once, by at most one step of each upload, 201
\* means all of the body, and a download returns one moment's content.
THEOREM Implements == Spec => ImplementsFile
<1>1. Init => File!Init
  BY DEF Init, File!Init, Phase
<1>2. IInv /\ [Next]_vars => [File!Next]_(File!vars)
  <2> SUFFICES ASSUME IInv, [Next]_vars PROVE [File!Next]_(File!vars)
    OBVIOUS
  <2>1. CASE UNCHANGED vars
    BY <2>1 DEF vars, File!vars
  <2>2. CASE Next
    BY <2>2, UploadRefines, ReaderRefines DEF Next
  <2> QED BY <2>1, <2>2
<1> QED BY <1>1, <1>2, Invariance, PTL DEF Spec, ImplementsFile, File!Spec
=============================================================================
