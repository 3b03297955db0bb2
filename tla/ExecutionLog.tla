----------------------------- MODULE ExecutionLog -----------------------------
(***************************************************************************)
(* What a cell's published catalog promises to whoever reads it (a Server, *)
(* a downstream cell, an analyst, the next Builder): an archive of         *)
(* immutable executions and one pointer into it (ADR 0004 s2, s4). Which   *)
(* of its snapshots an execution still knows is not of this log: a catalog *)
(* keeps the place of an expired snapshot.                                 *)
(***************************************************************************)
EXTENDS Naturals, Sequences

VARIABLES
    archive,  \* execution number -> lineage, for every execution that exists
    pointer   \* the served execution, 0 before there is one

vars == <<archive, pointer>>

Init ==
    /\ archive = [n \in {} |-> <<>>]
    /\ pointer = 0

\* The lineages a new execution may build on: an archived one, or nothing.
Parents == {<<>>} \cup {archive[n] : n \in DOMAIN archive}

\* An execution adds exactly one snapshot to its parent, under a number that
\* is free, and disturbs no other execution.
Publish ==
    /\ \E n \in DOMAIN archive' \ DOMAIN archive :
          /\ DOMAIN archive' = DOMAIN archive \cup {n}
          /\ \E parent \in Parents :
                /\ Len(archive'[n]) = Len(parent) + 1
                /\ SubSeq(archive'[n], 1, Len(parent)) = parent
    /\ \A m \in DOMAIN archive : archive'[m] = archive[m]
    /\ UNCHANGED pointer

\* The pointer moves, forwards or backwards, to an execution that exists.
Serve ==
    /\ pointer' \in DOMAIN archive
    /\ UNCHANGED archive

\* A superseded execution is forgotten, never the served one.
Collect ==
    /\ \E n \in DOMAIN archive \ {pointer} :
          archive' = [m \in DOMAIN archive \ {n} |-> archive[m]]
    /\ UNCHANGED pointer

Next == Publish \/ Serve \/ Collect

Spec == Init /\ [][Next]_vars
=============================================================================
