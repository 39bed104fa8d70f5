------------------------ MODULE RepositoryTransaction ------------------------
(***************************************************************************)
(* RepositoryTransaction (init/transaction.py): a reviewed set of file     *)
(* changes is validated, journalled, staged, moved into place one file     *)
(* after the other, and cleaned up; a failure on the way restores the      *)
(* content before from the journal, a crash leaves the journal for         *)
(* recover().  The initializer, the configuration, integration, module,    *)
(* template, feedback and upgrade managers all write through it.           *)
(*                                                                         *)
(* Nothing locks the repository: every read, every replacement and every   *)
(* removal is a step, and invocations interleave.  The loops of the code   *)
(* go through the changes in the order of the plan; here any order.        *)
(***************************************************************************)
EXTENDS Integers, FiniteSets, Functions

CONSTANTS
    Procs,          \* invocations of the command line
    Paths,          \* files the managers own or share with the user
    Contents,       \* contents of a file
    Missing,        \* the content of a file that does not exist
    NoJournal,
    Initial,        \* contents the repository starts with
    Plans,          \* what a manager wants: contents by path
    Recovers,       \* TRUE if somebody calls recover(), as the tests do
    Disturbances,   \* bound: what else happens, of the kinds below
    MaxApplies      \* bound: transactions ever begun

Contents0 == Contents \cup {Missing}

PartialContents == UNION {[D -> Contents0] : D \in SUBSET Paths}

TransactionAssumption ==
    /\ Missing \notin Contents
    /\ NoJournal \notin [id : Nat, before : PartialContents, after : PartialContents]
    /\ Initial \subseteq [Paths -> Contents0]
    /\ Plans \subseteq UNION {[D -> Contents] : D \in (SUBSET Paths) \ {{}}}
    /\ Disturbances \subseteq {"crash", "recrash", "fail", "edit", "meddle"}
    /\ Recovers \in BOOLEAN
    /\ MaxApplies \in Nat

VARIABLES
    files,      \* content of every path
    journal,    \* .harness/.transaction.json
    staged,     \* files under .harness/.staging/<transaction id>
    pc,         \* where each invocation is
    loc,        \* what each invocation knows
    begun       \* transactions begun so far (a source of fresh ids)

vars == <<files, journal, staged, pc, loc, begun>>

Points == {"idle", "planned", "validate", "stage", "commit", "restore",
           "sweep", "unlink"}

Empty == [path \in {} |-> Missing]

(* id names the staging directory; undo tells a cleanup that ends restore  *)
(* from one that ends apply.  todo is what is left of the current loop.    *)
NoLocals == [id |-> 0, before |-> Empty, after |-> Empty, todo |-> {},
             undo |-> FALSE]

Locals == [id : Nat, before : PartialContents, after : PartialContents,
           todo : SUBSET Paths, undo : BOOLEAN]

Init ==
    /\ files \in Initial
    /\ journal = NoJournal
    /\ staged = {}
    /\ pc = [p \in Procs |-> "idle"]
    /\ loc = [p \in Procs |-> NoLocals]
    /\ begun = 0

Targets(p) == DOMAIN loc[p].before

Goto(p, point) == pc' = [pc EXCEPT ![p] = point]

End(p) ==
    /\ Goto(p, "idle")
    /\ loc' = [loc EXCEPT ![p] = NoLocals]

----------------------------------------------------------------------------
(* A manager reads the files and shows the user what would change.         *)
(* PlannedChange refuses a change that changes nothing.                    *)

Plan(p, wanted) ==
    LET changed == {path \in DOMAIN wanted : wanted[path] # files[path]}
    IN  /\ pc[p] = "idle"
        /\ changed # {}
        /\ Goto(p, "planned")
        /\ loc' = [loc EXCEPT ![p] =
                      [NoLocals EXCEPT !.before = Restrict(files, changed),
                                       !.after = Restrict(wanted, changed)]]
        /\ UNCHANGED <<files, journal, staged, begun>>

Decline(p) ==
    /\ pc[p] = "planned"
    /\ End(p)
    /\ UNCHANGED <<files, journal, staged, begun>>

----------------------------------------------------------------------------
(* apply *)

Pending == journal # NoJournal

CheckPending(p) ==
    /\ pc[p] = "planned"
    /\ ~Pending
    /\ begun < MaxApplies
    /\ Goto(p, "validate")
    /\ loc' = [loc EXCEPT ![p].todo = Targets(p)]
    /\ UNCHANGED <<files, journal, staged, begun>>

RefusePending(p) ==
    /\ pc[p] = "planned"
    /\ Pending
    /\ End(p)
    /\ UNCHANGED <<files, journal, staged, begun>>

Done(p, path) == loc' = [loc EXCEPT ![p].todo = @ \ {path}]

Validate(p, path) ==
    /\ pc[p] = "validate"
    /\ path \in loc[p].todo
    /\ files[path] = loc[p].before[path]
    /\ Done(p, path)
    /\ UNCHANGED <<files, journal, staged, pc, begun>>

(* PlanDriftError *)
Drifted(p, path) ==
    /\ pc[p] = "validate"
    /\ path \in loc[p].todo
    /\ files[path] # loc[p].before[path]
    /\ End(p)
    /\ UNCHANGED <<files, journal, staged, begun>>

(* Mutant: files that did not exist are not recorded. *)
BackupOfExisting(before) ==
    Restrict(before, {path \in DOMAIN before : before[path] # Missing})

Backup(before) == before

JournalOf(p, id) ==
    [id |-> id, before |-> Backup(loc[p].before), after |-> loc[p].after]

(* The journal is replaced without looking whether there is one by now. *)
Prepare(p) ==
    /\ pc[p] = "validate"
    /\ loc[p].todo = {}
    /\ begun' = begun + 1
    /\ journal' = JournalOf(p, begun + 1)
    /\ Goto(p, "stage")
    /\ loc' = [loc EXCEPT ![p].id = begun + 1, ![p].todo = Targets(p)]
    /\ UNCHANGED <<files, staged>>

Stage(p, path) ==
    /\ pc[p] = "stage"
    /\ path \in loc[p].todo
    /\ staged' = staged \cup {<<loc[p].id, path>>}
    /\ Done(p, path)
    /\ UNCHANGED <<files, journal, pc, begun>>

(* The journal is written again, with the status "staged". *)
MarkStaged(p) ==
    /\ pc[p] = "stage"
    /\ loc[p].todo = {}
    /\ journal' = JournalOf(p, loc[p].id)
    /\ Goto(p, "commit")
    /\ loc' = [loc EXCEPT ![p].todo = Targets(p)]
    /\ UNCHANGED <<files, staged, begun>>

Commit(p, path) ==
    /\ pc[p] = "commit"
    /\ path \in loc[p].todo
    /\ <<loc[p].id, path>> \in staged
    /\ files' = [files EXCEPT ![path] = loc[p].after[path]]
    /\ staged' = staged \ {<<loc[p].id, path>>}
    /\ Done(p, path)
    /\ UNCHANGED <<journal, pc, begun>>

AllCommitted(p) ==
    /\ pc[p] = "commit"
    /\ loc[p].todo = {}
    /\ Goto(p, "sweep")
    /\ UNCHANGED <<files, journal, staged, loc, begun>>

(* Mutant: a failure while the files are restored starts that over. *)
FailOverAndOver(p) ==
    /\ "fail" \in Disturbances
    /\ pc[p] \in {"stage", "commit", "sweep", "unlink"}
    /\ Goto(p, "restore")
    /\ loc' = [loc EXCEPT ![p].todo = DOMAIN Backup(loc[p].before),
                          ![p].undo = TRUE]
    /\ UNCHANGED <<files, journal, staged, begun>>

(* An exception inside the try of apply: a write fails, or the staged file *)
(* is gone because somebody recovered this transaction meanwhile.          *)
Fail(p) ==
    /\ \/ /\ "fail" \in Disturbances
          /\ pc[p] \in {"stage", "commit", "sweep", "unlink"}
       \/ /\ pc[p] = "commit"
          /\ \E path \in loc[p].todo : <<loc[p].id, path>> \notin staged
    /\ ~loc[p].undo
    /\ Goto(p, "restore")
    /\ loc' = [loc EXCEPT ![p].todo = DOMAIN Backup(loc[p].before),
                          ![p].undo = TRUE]
    /\ UNCHANGED <<files, journal, staged, begun>>

----------------------------------------------------------------------------
(* _restore and _cleanup *)

(* No comparison with what apply would have written: the file is replaced  *)
(* whatever it holds by now.                                               *)
Restore(p, path) ==
    /\ pc[p] = "restore"
    /\ path \in loc[p].todo
    /\ files' = [files EXCEPT ![path] = loc[p].before[path]]
    /\ Done(p, path)
    /\ UNCHANGED <<journal, staged, pc, begun>>

Restored(p) ==
    /\ pc[p] = "restore"
    /\ loc[p].todo = {}
    /\ Goto(p, "sweep")
    /\ UNCHANGED <<files, journal, staged, loc, begun>>

Sweep(p) ==
    /\ pc[p] = "sweep"
    /\ staged' = {file \in staged : file[1] # loc[p].id}
    /\ Goto(p, "unlink")
    /\ UNCHANGED <<files, journal, loc, begun>>

(* Whoever the journal belongs to. *)
Unlink(p) ==
    /\ pc[p] = "unlink"
    /\ journal' = NoJournal
    /\ End(p)
    /\ UNCHANGED <<files, staged, begun>>

----------------------------------------------------------------------------
(* recover, which no command of the command line calls *)

Recover(p) ==
    /\ Recovers
    /\ pc[p] = "idle"
    /\ Pending
    /\ Goto(p, "restore")
    /\ loc' = [loc EXCEPT ![p] =
                  [id |-> journal.id, before |-> journal.before,
                   after |-> journal.after, todo |-> DOMAIN journal.before,
                   undo |-> TRUE]]
    /\ UNCHANGED <<files, journal, staged, begun>>

----------------------------------------------------------------------------
(* What else happens *)

(* The process is killed, Ctrl-C (which is not an Exception) leaves apply, *)
(* or restoring fails: the journal stays where it is.                      *)
Crash(p) ==
    /\ \/ "crash" \in Disturbances /\ ~loc[p].undo
       \/ "recrash" \in Disturbances /\ loc[p].undo
    /\ pc[p] \notin {"idle", "planned"}
    /\ End(p)
    /\ UNCHANGED <<files, journal, staged, begun>>

(* Paths a transaction is at work on, or left in the middle of. *)
InTransaction ==
    (UNION {Targets(p) : p \in {q \in Procs : pc[q] \notin {"idle", "planned"}}})
    \cup (IF Pending THEN DOMAIN journal.before ELSE {})

(* "edit" is a user who keeps off the files of a transaction until it is   *)
(* over or recovered, "meddle" one who does not.                           *)
Edit(path, content) ==
    /\ \/ "meddle" \in Disturbances
       \/ "edit" \in Disturbances /\ path \notin InTransaction
    /\ content # files[path]
    /\ files' = [files EXCEPT ![path] = content]
    /\ UNCHANGED <<journal, staged, pc, loc, begun>>

Advance(p) ==
    \/ CheckPending(p) \/ RefusePending(p) \/ Prepare(p) \/ MarkStaged(p)
    \/ AllCommitted(p) \/ Fail(p) \/ Restored(p) \/ Sweep(p) \/ Unlink(p)
    \/ \E path \in Paths :
           \/ Validate(p, path) \/ Drifted(p, path) \/ Stage(p, path)
           \/ Commit(p, path) \/ Restore(p, path)

Next ==
    \/ \E p \in Procs :
           \/ \E wanted \in Plans : Plan(p, wanted)
           \/ Decline(p) \/ Advance(p) \/ Recover(p) \/ Crash(p)
    \/ \E path \in Paths, content \in Contents0 : Edit(path, content)

Spec == Init /\ [][Next]_vars

(* A running invocation is scheduled.  A user who is refused again and     *)
(* again because of an unfinished transaction recovers it some day.        *)
FairSpec == Spec /\ \A p \in Procs : WF_vars(Advance(p)) /\ SF_vars(Recover(p))
=============================================================================
