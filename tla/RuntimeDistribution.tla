------------------------- MODULE RuntimeDistribution -------------------------
(***************************************************************************)
(* SelfManager (distribution/manager.py): update, rollback and uninstall   *)
(* of the standalone runtime.  Versions live in slots; the symbolic links  *)
(* runtime/current and runtime/previous name two of them, and the          *)
(* installation manifest is the one inside the current slot.               *)
(*                                                                         *)
(* Operations exclude each other by a lock FILE: unlike a flock it stays   *)
(* when its owner is killed, and the user has to remove it.                *)
(***************************************************************************)
EXTENDS Integers, FiniteSets

CONSTANTS
    Procs, NoProc,
    Stale,          \* the lock file of an owner that is gone
    Versions, None,
    NoSlot,
    Operations,     \* bound: what users do
    Disturbances,   \* bound: what else happens
    MaxSlots        \* bound: slots ever created

DistributionAssumption ==
    /\ NoProc \notin Procs /\ Stale \notin Procs /\ NoProc # Stale
    /\ None \notin Versions
    /\ MaxSlots \in Nat \ {0}
    /\ NoSlot \notin 1..MaxSlots
    /\ Operations \subseteq {"update", "rollback", "uninstall"}
    /\ Disturbances \subseteq {"fail", "stuck", "crash"}

Slots == 1..MaxSlots

VARIABLES
    slots,      \* "none", "partial" or "complete", by slot
    version,    \* version of every slot
    current, previous,
    moved,      \* parts of the installation that an uninstall moved aside
    lock, pc, loc,
    hurt        \* history: a crash, or a failure while one was undone

pointers == <<current, previous>>
vars == <<slots, version, current, previous, moved, lock, pc, loc, hurt>>

(* In the order uninstall moves them: the launcher, the runtime and the     *)
(* manifest; the shell profile is rewritten last.                          *)
Parts == 1..4

NoLocals == [op |-> "update", want |-> None, was |-> None, staged |-> NoSlot,
             current |-> NoSlot, previous |-> NoSlot, back |-> {}]

Init ==
    /\ \E v \in Versions : version = [s \in Slots |-> IF s = 1 THEN v ELSE None]
    /\ slots = [s \in Slots |-> IF s = 1 THEN "complete" ELSE "none"]
    /\ current = 1
    /\ previous = NoSlot
    /\ moved = {}
    /\ lock = NoProc
    /\ pc = [p \in Procs |-> "idle"]
    /\ loc = [p \in Procs |-> NoLocals]
    /\ hurt = FALSE

Goto(p, point) == pc' = [pc EXCEPT ![p] = point]

End(p) ==
    /\ Goto(p, "idle")
    /\ loc' = [loc EXCEPT ![p] = NoLocals]
    /\ lock' = IF lock = p THEN NoProc ELSE lock

(* _verified_manifest: the launcher, the manifest and the current slot are *)
(* there and match.                                                        *)
Whole(slot) == slot # NoSlot /\ slots[slot] = "complete"

Verified == moved = {} /\ Whole(current)

----------------------------------------------------------------------------
(* The beginning of every operation: verify, lock, verify again.  Only an  *)
(* update is asked for a version.                                          *)

Begin(p, op, want) ==
    /\ op \in Operations
    /\ op = "update" \/ want = version[current]
    /\ pc[p] = "idle"
    /\ Verified
    /\ Goto(p, "checked")
    /\ loc' = [loc EXCEPT ![p] = [NoLocals EXCEPT !.op = op, !.want = want,
                                                  !.was = version[current]]]
    /\ UNCHANGED <<slots, version, pointers, moved, hurt, lock>>

Acquire(p) ==
    /\ pc[p] = "checked"
    /\ lock = NoProc
    /\ lock' = p
    /\ Goto(p, "locked")
    /\ UNCHANGED <<slots, version, pointers, moved, hurt, loc>>

InProgress(p) ==
    /\ pc[p] = "checked"
    /\ lock # NoProc
    /\ End(p)
    /\ UNCHANGED <<slots, version, pointers, moved, hurt>>

(* The installation is the one it was, there is another version to update *)
(* to, or a verified previous runtime to roll back to.                     *)
Possible(p) ==
    /\ Verified
    /\ version[current] = loc[p].was
    /\ loc[p].op = "update" => loc[p].want # version[current]
    /\ loc[p].op = "rollback" => previous # current /\ Whole(previous)

Start == [update |-> "download", rollback |-> "back", uninstall |-> "move"]

Recheck(p) ==
    /\ pc[p] = "locked"
    /\ Possible(p)
    /\ Goto(p, Start[loc[p].op])
    /\ loc' = [loc EXCEPT ![p].current = current, ![p].previous = previous]
    /\ UNCHANGED <<slots, version, pointers, moved, hurt, lock>>

Refuse(p) ==
    /\ pc[p] = "locked"
    /\ ~Possible(p)
    /\ End(p)
    /\ UNCHANGED <<slots, version, pointers, moved, hurt>>

----------------------------------------------------------------------------
(* update: _replace *)

(* The archive matches its checksum; a slot of its own is made for it. *)
MakeSlot(p) ==
    /\ pc[p] = "download"
    /\ \E s \in Slots :
           /\ version[s] = None
           /\ \A r \in Slots : r < s => version[r] # None
           /\ slots' = [slots EXCEPT ![s] = "partial"]
           /\ version' = [version EXCEPT ![s] = loc[p].want]
           /\ loc' = [loc EXCEPT ![p].staged = s]
    /\ Goto(p, "extract")
    /\ UNCHANGED <<pointers, moved, hurt, lock>>

(* Extracted, checked by running it, and given its manifest. *)
Extract(p) ==
    /\ pc[p] = "extract"
    /\ slots' = [slots EXCEPT ![loc[p].staged] = "complete"]
    /\ Goto(p, "keep")
    /\ UNCHANGED <<version, pointers, moved, hurt, lock, loc>>

KeepPrevious(p) ==
    /\ pc[p] = "keep"
    /\ previous' = loc[p].current
    /\ Goto(p, "switch")
    /\ UNCHANGED <<slots, version, current, moved, hurt, lock, loc>>

Switch(p) ==
    /\ pc[p] = "switch"
    /\ current' = loc[p].staged
    /\ Goto(p, "verify")
    /\ UNCHANGED <<slots, version, previous, moved, hurt, lock, loc>>

Verify(p) ==
    /\ pc[p] = "verify"
    /\ Verified
    /\ Goto(p, "clean")
    /\ UNCHANGED <<slots, version, pointers, moved, hurt, lock, loc>>

Superseded(p) == {loc[p].previous} \ {NoSlot, loc[p].current}

(* Removing a directory may fail half-way; it is reported, not repeated. *)
Clean(p) ==
    /\ pc[p] = "clean"
    /\ \E left \in {"none", "partial"} :
           slots' = [s \in Slots |-> IF s \in Superseded(p) THEN left ELSE slots[s]]
    /\ End(p)
    /\ UNCHANGED <<version, pointers, moved, hurt>>

(* The except branch: current, then previous, then the staged slot. *)
Fail(p) ==
    /\ "fail" \in Disturbances
    /\ pc[p] \in {"extract", "keep", "switch", "verify"}
    /\ Goto(p, CASE pc[p] = "verify" -> "undo_current"
                 [] pc[p] = "switch" -> "undo_previous"
                 [] OTHER -> "undo_staged")
    /\ UNCHANGED <<slots, version, pointers, moved, hurt, lock, loc>>

(* An undo step that fails as well is reported, and the next one is tried. *)
UndoCurrent(p) ==
    /\ pc[p] = "undo_current"
    /\ \/ current' = loc[p].current /\ hurt' = hurt
       \/ "stuck" \in Disturbances /\ current' = current /\ hurt' = TRUE
    /\ Goto(p, "undo_previous")
    /\ UNCHANGED <<slots, version, previous, moved, lock, loc>>

(* Mutant: the pointer is removed, whatever was there. *)
RemovePrevious(p) ==
    /\ pc[p] = "undo_previous"
    /\ previous' = NoSlot
    /\ Goto(p, "undo_staged")
    /\ UNCHANGED <<slots, version, current, moved, hurt, lock, loc>>

UndoPrevious(p) ==
    /\ pc[p] = "undo_previous"
    /\ \/ previous' = loc[p].previous /\ hurt' = hurt
       \/ "stuck" \in Disturbances /\ previous' = previous /\ hurt' = TRUE
    /\ Goto(p, "undo_staged")
    /\ UNCHANGED <<slots, version, current, moved, lock, loc>>

(* Mutant: the staged slot is removed without looking at current. *)
UndoStagedBlindly(p) ==
    /\ pc[p] = "undo_staged"
    /\ slots' = [slots EXCEPT ![loc[p].staged] = "none"]
    /\ End(p)
    /\ UNCHANGED <<version, pointers, moved, hurt>>

(* Unless it is still the active one. *)
UndoStaged(p) ==
    /\ pc[p] = "undo_staged"
    /\ slots' = IF current = loc[p].staged THEN slots
                ELSE [slots EXCEPT ![loc[p].staged] = "none"]
    /\ End(p)
    /\ UNCHANGED <<version, pointers, moved, hurt>>

----------------------------------------------------------------------------
(* rollback *)

SwitchBack(p) ==
    /\ pc[p] = "back"
    /\ current' = loc[p].previous
    /\ Goto(p, "verify_back")
    /\ UNCHANGED <<slots, version, previous, moved, hurt, lock, loc>>

VerifyBack(p) ==
    /\ pc[p] = "verify_back"
    /\ Verified
    /\ Goto(p, "consume")
    /\ UNCHANGED <<slots, version, pointers, moved, hurt, lock, loc>>

Consume(p) ==
    /\ pc[p] = "consume"
    /\ previous' = NoSlot
    /\ Goto(p, "clean_back")
    /\ UNCHANGED <<slots, version, current, moved, hurt, lock, loc>>

CleanBack(p) ==
    /\ pc[p] = "clean_back"
    /\ \E left \in {"none", "partial"} :
           slots' = [slots EXCEPT ![loc[p].current] = left]
    /\ End(p)
    /\ UNCHANGED <<version, pointers, moved, hurt>>

(* Before the pointer is moved there is nothing to undo.                   *)
FailBack(p) ==
    /\ "fail" \in Disturbances
    /\ \/ pc[p] = "back" /\ UNCHANGED <<current, hurt>>
       \/ /\ pc[p] \in {"verify_back", "consume"}
          /\ \/ current' = loc[p].current /\ hurt' = hurt
             \/ "stuck" \in Disturbances /\ current' = current /\ hurt' = TRUE
    /\ End(p)
    /\ UNCHANGED <<slots, version, previous, moved>>

----------------------------------------------------------------------------
(* uninstall: every part is moved aside, then all of them are removed.     *)

Move(p) ==
    /\ pc[p] = "move"
    /\ \E part \in Parts \ moved :
           /\ \A other \in Parts \ moved : part <= other
           /\ moved' = moved \cup {part}
    /\ UNCHANGED <<slots, version, pointers, hurt, lock, pc, loc>>

FailMove(p) ==
    /\ "fail" \in Disturbances
    /\ pc[p] = "move"
    /\ moved # Parts
    /\ Goto(p, "move_back")
    /\ loc' = [loc EXCEPT ![p].back = moved]
    /\ UNCHANGED <<slots, version, pointers, moved, hurt, lock>>

(* In the opposite order.  A part that cannot be moved back stays aside,    *)
(* and the next one is tried.                                              *)
MoveBack(p) ==
    /\ pc[p] = "move_back"
    /\ \E part \in loc[p].back :
           /\ \A other \in loc[p].back : other <= part
           /\ loc' = [loc EXCEPT ![p].back = @ \ {part}]
           /\ \/ moved' = moved \ {part} /\ hurt' = hurt
              \/ "stuck" \in Disturbances /\ moved' = moved /\ hurt' = TRUE
    /\ UNCHANGED <<slots, version, pointers, lock, pc>>

(* With what could not be moved back it reports an incomplete recovery.    *)
MovedBack(p) ==
    /\ pc[p] = "move_back"
    /\ loc[p].back = {}
    /\ End(p)
    /\ UNCHANGED <<slots, version, pointers, moved, hurt>>

Uninstalled(p) ==
    /\ pc[p] = "move"
    /\ moved = Parts
    /\ End(p)
    /\ UNCHANGED <<slots, version, pointers, moved, hurt>>

----------------------------------------------------------------------------

(* Parts an uninstall had moved aside stay there: nothing reads them again. *)
Crash(p) ==
    /\ pc[p] # "idle"
    /\ "crash" \in Disturbances
    /\ Goto(p, "idle")
    /\ loc' = [loc EXCEPT ![p] = NoLocals]
    /\ lock' = IF lock = p THEN Stale ELSE lock
    /\ hurt' = TRUE
    /\ UNCHANGED <<slots, version, pointers, moved>>

(* A download fails, before anything was touched. *)
DownloadFails(p) ==
    /\ pc[p] = "download"
    /\ End(p)
    /\ UNCHANGED <<slots, version, pointers, moved, hurt>>

(* The user follows the message of InProgress. *)
RemoveLock ==
    /\ lock = Stale
    /\ lock' = NoProc
    /\ UNCHANGED <<slots, version, pointers, moved, hurt, pc, loc>>

Next ==
    \/ \E p \in Procs :
           \/ \E op \in Operations, want \in Versions : Begin(p, op, want)
           \/ Acquire(p) \/ InProgress(p) \/ Recheck(p) \/ Refuse(p)
           \/ DownloadFails(p) \/ MakeSlot(p) \/ Extract(p)
           \/ KeepPrevious(p) \/ Switch(p) \/ Verify(p) \/ Clean(p)
           \/ Fail(p) \/ UndoCurrent(p) \/ UndoPrevious(p) \/ UndoStaged(p)
           \/ SwitchBack(p) \/ VerifyBack(p) \/ Consume(p) \/ CleanBack(p)
           \/ FailBack(p)
           \/ Move(p) \/ FailMove(p) \/ MoveBack(p) \/ MovedBack(p)
           \/ Uninstalled(p)
           \/ Crash(p)
    \/ RemoveLock

Spec == Init /\ [][Next]_vars
=============================================================================
