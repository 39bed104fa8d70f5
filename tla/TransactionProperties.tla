------------------------ MODULE TransactionProperties ------------------------
(* What must hold of a repository transaction.                             *)
EXTENDS RepositoryTransaction

(* The content the repository has to its users: what recover() would put   *)
(* back takes precedence over what lies there now.                         *)
Effective ==
    [path \in Paths |->
        IF Pending /\ path \in DOMAIN journal.before
        THEN journal.before[path] ELSE files[path]]

(* The change an invocation is still about to make. *)
ReviewedBy(p) ==
    IF pc[p] = "idle" \/ loc[p].undo
    THEN [before |-> Empty, after |-> Empty]
    ELSE [before |-> loc[p].before, after |-> loc[p].after]

Update == INSTANCE ReviewedUpdate WITH
    content <- Effective,
    reviewed <- [p \in Procs |-> ReviewedBy(p)]

(* A transaction changes all of its files from exactly what was reviewed,  *)
(* or none of them, over failures, crashes and recoveries; the moment it   *)
(* takes effect is the removal of the journal.                             *)
ImplementsReviewedUpdateStep == [Update!Next]_(Update!vars)

ImplementsReviewedUpdate == Update!Init /\ [][ImplementsReviewedUpdateStep]_vars

(* An unfinished transaction does not stay for ever, unless invocations    *)
(* crash over and over: it is finished or undone, by the invocation itself *)
(* or, after a crash, by a recovery.                                       *)
UnfinishedIsResolved ==
    \/ []<><<\E p \in Procs : Crash(p)>>_vars
    \/ Pending ~> ~Pending
=============================================================================
