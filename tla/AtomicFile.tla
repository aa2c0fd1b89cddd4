----------------------------- MODULE AtomicFile -----------------------------
(***************************************************************************)
(* What uploads and downloads of one file promise.  The content of the     *)
(* file is replaced at once, at most once by each upload, and by nothing   *)
(* but a beginning of what the upload was sent; the upload is reported as  *)
(* a success only when all of it was stored.  A download returns what the  *)
(* file held at one moment.                                                *)
(***************************************************************************)
EXTENDS Integers

CONSTANTS Put, Get,    \* the uploads and the downloads
          Size,        \* chunks in the body of an upload
          Old          \* the content at the start

VARIABLES content,     \* what the file holds: the first n chunks of an upload
          state,       \* state[p]: how far upload p is
          got          \* got[g]: what download g has returned, or {}

vars == <<content, state, got>>

State == {"idle", "open", "part", "whole", "created", "refused"}

Init ==
    /\ content = Old
    /\ state = [p \in Put |-> "idle"] /\ got = [g \in Get |-> {}]

Become(p, s) == state' = [state EXCEPT ![p] = s]

Open(p) ==
    state[p] = "idle" /\ Become(p, "open") /\ UNCHANGED <<content, got>>

Replace(p, n) ==
    /\ state[p] = "open"
    /\ content' = <<p, n>> /\ Become(p, IF n = Size THEN "whole" ELSE "part")
    /\ UNCHANGED got

Create(p) ==
    state[p] = "whole" /\ Become(p, "created") /\ UNCHANGED <<content, got>>

Refuse(p) ==
    /\ state[p] \in {"open", "part", "whole"}
    /\ Become(p, "refused") /\ UNCHANGED <<content, got>>

Read(g) ==
    /\ got[g] = {} /\ got' = [got EXCEPT ![g] = {content}]
    /\ UNCHANGED <<content, state>>

Next ==
    \/ \E p \in Put : \/ Open(p) \/ Create(p) \/ Refuse(p)
                      \/ \E n \in 0..Size : Replace(p, n)
    \/ \E g \in Get : Read(g)

Spec == Init /\ [][Next]_vars
=============================================================================
