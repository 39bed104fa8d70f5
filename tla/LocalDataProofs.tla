--------------------------- MODULE LocalDataProofs ----------------------------
(*****************************************************************************)
(* What moves data of the host. The placement of local data, proved for any  *)
(* number of clones, tasks and invocations: no record is lost or set back    *)
(* for the clone that works on it, only finished tasks move, what is written *)
(* is seen, and nobody waits in a circle. The standalone runtime, proved for *)
(* any number of invocations, versions and slots, over failures, failures of *)
(* the undo and crashes: both pointers always name a whole slot, and update, *)
(* rollback and uninstall implement the installed runtime.                   *)
(*****************************************************************************)
EXTENDS PlacementProperties, DistributionProperties, TLAPS

Points == {"idle", "bound", "planned", "bound_locked", "lock_roots", "switch"}

Plan ==
    [clone : Clones \cup {UserData}, root : Roots, task : Tasks \cup {NoTask},
     target : Roots, items : Records, reuse : BOOLEAN, conflict : BOOLEAN,
     need : SUBSET Roots]

TypeOK ==
    /\ mode \in [Clones -> Modes]
    /\ data \in [Roots -> Records \cup {NoRoot}]
    /\ opLock \in [Clones -> Invocations \cup {Nobody}]
    /\ rootLock \in [Roots -> Invocations \cup {Nobody}]
    /\ at \in [Invocations -> Points]
    /\ plan \in [Invocations -> Plan]

----------------------------------------------------------------------------
(* What an invocation has planned, or is bound to                          *)

IsWriter(l) ==
    /\ l.task \in Tasks /\ l.clone = OwnerOf[l.task]
    /\ l.target = l.root /\ l.root \in {l.clone, UserData}

IsMigration(l) ==
    /\ l.clone \in Clones
    /\ l.root # l.target /\ {l.root, l.target} = {l.clone, UserData}

PlansSound ==
    \A p \in Invocations : at[p] # "idle" =>
        /\ plan[p].need \subseteq {plan[p].root, plan[p].target}
        /\ at[p] \notin {"lock_roots", "switch"} =>
               plan[p].need = {plan[p].root, plan[p].target}
        /\ IsWriter(plan[p]) \/ IsMigration(plan[p])
        /\ at[p] \in {"bound", "bound_locked"} => IsWriter(plan[p])
        /\ at[p] \in {"planned", "switch"} => IsMigration(plan[p])

----------------------------------------------------------------------------
(* Who holds which lock                                                    *)

Inside == {"bound_locked", "lock_roots", "switch"}

HasClone(p) == IF at[p] \in Inside THEN {plan[p].clone} ELSE {}

HasRoots(p) ==
    IF at[p] = "lock_roots" THEN {plan[p].root, plan[p].target} \ plan[p].need
    ELSE IF at[p] = "switch" THEN {plan[p].root, plan[p].target} ELSE {}

LocksHeld ==
    \A p \in Invocations :
        /\ \A c \in Clones : opLock[c] = p <=> c \in HasClone(p)
        /\ \A root \in Roots : rootLock[root] = p <=> root \in HasRoots(p)

----------------------------------------------------------------------------
(* What the locks keep true                                                *)

(* A writer past its check is bound to where its clone looks.              *)
BoundHolds ==
    \A p \in Invocations :
        at[p] = "lock_roots" /\ IsWriter(plan[p]) => BindingHolds(p)

(* Before the switch both roots have the same records, none of them        *)
(* unfinished; and whoever looks at the target already has none in it that *)
(* an undone installation could take away.                                 *)
ReadyToSwitch(p) ==
    /\ BindingHolds(p)
    /\ Manifest(plan[p].target) = Manifest(plan[p].root)
    /\ ~Unfinished(plan[p].root)
    /\ ~plan[p].reuse =>
           \A t \in Tasks : RootOf(OwnerOf[t]) = plan[p].target =>
               Manifest(plan[p].target)[t] = "absent"

SwitchesReady == \A p \in Invocations : at[p] = "switch" => ReadyToSwitch(p)

(* No copy anywhere is ahead of what the clone of a task sees.             *)
NoCopyAhead ==
    \A root \in Roots, t \in Tasks : Rank[Manifest(root)[t]] <= Rank[Visible(t)]

PlacementInv ==
    /\ TypeOK
    /\ PlansSound
    /\ LocksHeld
    /\ BoundHolds
    /\ SwitchesReady
    /\ NoCopyAhead

----------------------------------------------------------------------------
(* Types *)

LEMMA RootsTyped ==
    ASSUME TypeOK
    PROVE  /\ \A c \in Clones : RootOf(c) \in {c, UserData} /\ RootOf(c) \in Roots
           /\ \A root \in Roots : Manifest(root) \in Records
           /\ NoRecords \in Records
  <1>1. NoRecords \in Records
    BY DEF NoRecords, Records, States
  <1>2. QED
    BY <1>1 DEF TypeOK, RootOf, RootFor, Roots, Manifest

LEMMA TypesStart ==
    ASSUME PlacementInit
    PROVE  TypeOK
  <1>1. NoPlan \in Plan
    BY DEF NoPlan, Locals, Plan, Roots, NoRecords, Records, States
  <1>2. QED
    BY <1>1 DEF PlacementInit, TypeOK, Modes, Points

LEMMA LeaveTyped ==
    ASSUME TypeOK, NEW p \in Invocations, Leave(p)
    PROVE  /\ opLock' \in [Clones -> Invocations \cup {Nobody}]
           /\ rootLock' \in [Roots -> Invocations \cup {Nobody}]
           /\ at' \in [Invocations -> Points]
           /\ plan' \in [Invocations -> Plan]
  <1>1. NoPlan \in Plan
    BY DEF NoPlan, Locals, Plan, Roots, NoRecords, Records, States
  <1>2. QED
    BY <1>1 DEF TypeOK, Leave, Reach, Points

LEMMA BindTyped ==
    ASSUME PlacementAssumption, TypeOK, NEW p \in Invocations, NEW task \in Tasks, Bind(p, task)
    PROVE  TypeOK'
  <1> DEFINE l == Locals(OwnerOf[task], RootOf(OwnerOf[task]), task,
                         RootOf(OwnerOf[task]), NoRecords, FALSE, FALSE)
  <1>1. OwnerOf[task] \in Clones
    BY DEF PlacementAssumption
  <1>2. l \in Plan
    BY <1>1, RootsTyped DEF Locals, Plan
  <1>3. plan' = [plan EXCEPT ![p] = l]
    BY DEF Bind
  <1> HIDE DEF l
  <1>4. QED
    BY <1>2, <1>3 DEF TypeOK, Bind, Reach, Points

LEMMA PlanTyped ==
    ASSUME PlacementAssumption, TypeOK, NEW p \in Invocations, NEW c \in Clones,
           NEW rollback \in BOOLEAN, PlanMigration(p, c, rollback)
    PROVE  TypeOK'
  <1> DEFINE source == RootOf(c)
             target == RootFor(c, Other(mode[c]))
             l == Locals(c, source, NoTask, target, Manifest(source),
                         rollback, ~rollback /\ data[target] # NoRoot)
  <1>1. source \in Roots /\ target \in Roots /\ Manifest(source) \in Records
    BY RootsTyped DEF RootFor, Roots
  <1>2. plan' = [plan EXCEPT ![p] = l]
    BY DEF PlanMigration
  <1> HIDE DEF source, target
  <1>3. l \in Plan
    BY <1>1 DEF Locals, Plan
  <1> HIDE DEF l
  <1>4. QED
    BY <1>2, <1>3 DEF TypeOK, PlanMigration, Reach, Points

LEMMA AdvanceTyped ==
    ASSUME PlacementAssumption, TypeOK, PlansSound, NEW p \in Invocations,
           Decline(p) \/ Advance(p) \/ Killed(p)
    PROVE  TypeOK'
  <1>1. plan[p] \in Plan
    BY DEF TypeOK
  <1>2. CASE LockClone(p) \/ CheckBinding(p) \/ Reuse(p)
    BY <1>2 DEF TypeOK, LockClone, CheckBinding, Reuse, Reach, Points
  <1>3. CASE \E root \in Roots : LockRoot(p, root)
    <2>1. PICK root \in Roots : LockRoot(p, root)
      BY <1>3
    <2>2. plan' \in [Invocations -> Plan]
      BY <2>1, <1>1 DEF LockRoot, TypeOK, Plan
    <2>3. QED
      BY <2>1, <2>2 DEF TypeOK, LockRoot
  <1>4. CASE \/ BindingInvalid(p) \/ WriteNothing(p) \/ RefuseMigration(p)
             \/ Decline(p) \/ Killed(p)
    BY <1>4, LeaveTyped
    DEF TypeOK, BindingInvalid, WriteNothing, RefuseMigration, Decline, Killed
  <1>5. CASE Write(p)
    <2>1. PICK state \in {"draft", "done"} :
              data' = [data EXCEPT ![plan[p].root] =
                          [Manifest(plan[p].root) EXCEPT ![plan[p].task] = state]]
      BY <1>5 DEF Write
    <2>2. Manifest(plan[p].root) \in Records
      BY <1>1, RootsTyped DEF Plan
    <2>3. [Manifest(plan[p].root) EXCEPT ![plan[p].task] = state] \in Records
      BY <2>2 DEF Records, States
    <2>4. data' \in [Roots -> Records \cup {NoRoot}]
      BY <2>1, <2>3 DEF TypeOK
    <2>5. Leave(p) /\ mode' = mode
      BY <1>5 DEF Write
    <2>6. QED
      BY <2>4, <2>5, LeaveTyped DEF TypeOK
  <1>6. CASE Install(p)
    <2>1. Manifest(plan[p].root) \in Records
      BY <1>1, RootsTyped DEF Plan
    <2>2. QED
      BY <1>6, <2>1 DEF Install, TypeOK, Reach, Points
  <1>7. CASE SwitchMode(p)
    <2>1. mode' \in [Clones -> Modes]
      BY <1>7 DEF SwitchMode, TypeOK, Other, Modes
    <2>2. QED
      BY <1>7, <2>1, LeaveTyped DEF SwitchMode, TypeOK
  <1>8. CASE SwitchModeFails(p)
    <2>1. data' \in [Roots -> Records \cup {NoRoot}]
      BY <1>8 DEF SwitchModeFails, TypeOK
    <2>2. QED
      BY <1>8, <2>1, LeaveTyped DEF SwitchModeFails, TypeOK
  <1>9. QED
    BY <1>2, <1>3, <1>4, <1>5, <1>6, <1>7, <1>8 DEF Advance

----------------------------------------------------------------------------
(* Plans and locks                                                         *)

Alone(p) == \A q \in Invocations \ {p} : at'[q] = at[q] /\ plan'[q] = plan[q]

PlanSound(p) ==
    at[p] # "idle" =>
        /\ plan[p].need \subseteq {plan[p].root, plan[p].target}
        /\ at[p] \notin {"lock_roots", "switch"} =>
               plan[p].need = {plan[p].root, plan[p].target}
        /\ IsWriter(plan[p]) \/ IsMigration(plan[p])
        /\ at[p] \in {"bound", "bound_locked"} => IsWriter(plan[p])
        /\ at[p] \in {"planned", "switch"} => IsMigration(plan[p])

LEMMA PlansStay ==
    ASSUME PlansSound, NEW p \in Invocations, Alone(p), PlanSound(p)'
    PROVE  PlansSound'
  BY DEF PlansSound, PlanSound, Alone, IsWriter, IsMigration

LEMMA PlansTyped ==
    ASSUME PlacementAssumption, TypeOK, PlansSound, NEW p \in Invocations, at[p] # "idle"
    PROVE  /\ plan[p].clone \in Clones /\ plan[p].root \in Roots /\ plan[p].target \in Roots
           /\ plan[p].root \in {plan[p].clone, UserData}
           /\ plan[p].target \in {plan[p].clone, UserData}
  <1>1. plan[p] \in Plan
    BY DEF TypeOK
  <1>2. \/ IsWriter(plan[p])
        \/ IsMigration(plan[p])
    BY DEF PlansSound
  <1>3. CASE IsWriter(plan[p])
    BY <1>1, <1>3 DEF IsWriter, Plan, PlacementAssumption
  <1>4. CASE IsMigration(plan[p])
    BY <1>1, <1>4 DEF IsMigration, Plan
  <1>5. QED
    BY <1>2, <1>3, <1>4

LEMMA LeaveKeeps ==
    ASSUME PlacementAssumption, TypeOK, PlansSound, LocksHeld,
           NEW p \in Invocations, Leave(p)
    PROVE  PlansSound' /\ LocksHeld' /\ Alone(p) /\ at'[p] = "idle"
  <1>1. /\ at' = [at EXCEPT ![p] = "idle"] /\ plan' = [plan EXCEPT ![p] = NoPlan]
        /\ at'[p] = "idle" /\ Alone(p)
    BY DEF Leave, Reach, TypeOK, Alone
  <1>2. PlansSound'
    BY <1>1, PlansStay DEF PlanSound
  <1>3. \A c \in Clones : opLock'[c] = IF opLock[c] = p THEN Nobody ELSE opLock[c]
    BY DEF Leave
  <1>4. \A root \in Roots :
            rootLock'[root] = IF rootLock[root] = p THEN Nobody ELSE rootLock[root]
    BY DEF Leave
  <1>5. ASSUME NEW q \in Invocations \ {p}
        PROVE  HasClone(q)' = HasClone(q) /\ HasRoots(q)' = HasRoots(q)
    BY <1>1 DEF Alone, HasClone, HasRoots
  <1>6. HasClone(p)' = {} /\ HasRoots(p)' = {}
    BY <1>1 DEF HasClone, HasRoots, Inside
  <1>7. Nobody \notin Invocations
    BY DEF PlacementAssumption
  <1>8. ASSUME NEW q \in Invocations
        PROVE  /\ \A c \in Clones : opLock'[c] = q <=> c \in HasClone(q)'
               /\ \A root \in Roots : rootLock'[root] = q <=> root \in HasRoots(q)'
    <2>1. CASE q = p
      BY <2>1, <1>3, <1>4, <1>6, <1>7
    <2>2. CASE q # p
      <3>1. /\ \A c \in Clones : opLock[c] = q <=> c \in HasClone(q)
            /\ \A root \in Roots : rootLock[root] = q <=> root \in HasRoots(q)
        BY DEF LocksHeld
      <3>2. QED
        BY <2>2, <3>1, <1>3, <1>4, <1>5, <1>7
    <2>3. QED
      BY <2>1, <2>2
  <1>9. LocksHeld'
    BY <1>8 DEF LocksHeld
  <1>10. QED
    BY <1>1, <1>2, <1>9

(* Locks stay where they are when an invocation moves on with what it has. *)
LEMMA LocksStay ==
    ASSUME LocksHeld, NEW p \in Invocations, Alone(p),
           UNCHANGED <<opLock, rootLock>>,
           HasClone(p)' = HasClone(p), HasRoots(p)' = HasRoots(p)
    PROVE  LocksHeld'
  <1>1. ASSUME NEW q \in Invocations
        PROVE  HasClone(q)' = HasClone(q) /\ HasRoots(q)' = HasRoots(q)
    BY DEF Alone, HasClone, HasRoots
  <1>2. QED
    BY <1>1 DEF LocksHeld

LEMMA BindKeeps ==
    ASSUME PlacementAssumption, TypeOK, PlansSound, LocksHeld,
           NEW p \in Invocations, NEW task \in Tasks, Bind(p, task)
    PROVE  PlansSound' /\ LocksHeld' /\ Alone(p) /\ at'[p] = "bound"
  <1> DEFINE c == OwnerOf[task]
             l == Locals(c, RootOf(c), task, RootOf(c), NoRecords, FALSE, FALSE)
  <1>1. /\ at' = [at EXCEPT ![p] = "bound"] /\ plan' = [plan EXCEPT ![p] = l]
        /\ at[p] = "idle" /\ at'[p] = "bound" /\ plan'[p] = l /\ Alone(p)
    BY DEF Bind, Reach, TypeOK, Alone
  <1>2. c \in Clones /\ RootOf(c) \in {c, UserData}
    BY RootsTyped DEF PlacementAssumption
  <1>3. /\ l.need = {l.root, l.target} /\ l.task = task /\ l.clone = OwnerOf[task]
        /\ l.target = l.root /\ l.root \in {l.clone, UserData}
    BY <1>2 DEF Locals
  <1> HIDE DEF l
  <1>4. IsWriter(plan'[p])
    BY <1>1, <1>3 DEF IsWriter
  <1>5. PlanSound(p)'
    BY <1>1, <1>3, <1>4 DEF PlanSound
  <1>6. HasClone(p)' = HasClone(p) /\ HasRoots(p)' = HasRoots(p)
    BY <1>1 DEF HasClone, HasRoots, Inside
  <1>7. QED
    BY <1>1, <1>5, <1>6, PlansStay, LocksStay DEF Bind

LEMMA PlanKeeps ==
    ASSUME PlacementAssumption, TypeOK, PlansSound, LocksHeld,
           NEW p \in Invocations, NEW c \in Clones, NEW rollback \in BOOLEAN,
           PlanMigration(p, c, rollback)
    PROVE  PlansSound' /\ LocksHeld' /\ Alone(p) /\ at'[p] = "planned"
  <1> DEFINE source == RootOf(c)
             target == RootFor(c, Other(mode[c]))
             l == Locals(c, source, NoTask, target, Manifest(source),
                         rollback, ~rollback /\ data[target] # NoRoot)
  <1>1. plan' = [plan EXCEPT ![p] = l] /\ at' = [at EXCEPT ![p] = "planned"] /\ at[p] = "idle"
    BY DEF PlanMigration, Reach
  <1>2. source # target /\ {source, target} = {c, UserData}
    BY DEF RootOf, RootFor, Other, TypeOK, Modes, PlacementAssumption
  <1> HIDE DEF source, target
  <1>3. /\ l.need = {l.root, l.target} /\ l.clone \in Clones
        /\ l.root # l.target /\ {l.root, l.target} = {l.clone, UserData}
    BY <1>2 DEF Locals
  <1> HIDE DEF l
  <1>4. at'[p] = "planned" /\ plan'[p] = l /\ Alone(p)
    BY <1>1 DEF TypeOK, Alone
  <1>5. IsMigration(plan'[p])
    BY <1>3, <1>4 DEF IsMigration
  <1>6. PlanSound(p)'
    BY <1>3, <1>4, <1>5 DEF PlanSound
  <1>7. HasClone(p)' = HasClone(p) /\ HasRoots(p)' = HasRoots(p)
    BY <1>1, <1>4 DEF HasClone, HasRoots, Inside
  <1>8. QED
    BY <1>4, <1>6, <1>7, PlansStay, LocksStay DEF PlanMigration

LEMMA LockCloneKeeps ==
    ASSUME PlacementAssumption, TypeOK, PlansSound, LocksHeld,
           NEW p \in Invocations, LockClone(p)
    PROVE  /\ PlansSound' /\ LocksHeld' /\ Alone(p)
           /\ plan' = plan
           /\ at'[p] = "lock_roots" => IsMigration(plan[p])
  <1>1. /\ at[p] \in {"bound", "planned"} /\ opLock[plan[p].clone] = Nobody
        /\ opLock' = [opLock EXCEPT ![plan[p].clone] = p]
        /\ plan' = plan /\ rootLock' = rootLock /\ Alone(p)
        /\ at'[p] = IF at[p] = "bound" THEN "bound_locked" ELSE "lock_roots"
    BY DEF LockClone, Reach, TypeOK, Alone
  <1>2. /\ plan[p].clone \in Clones /\ plan[p].need = {plan[p].root, plan[p].target}
        /\ IsWriter(plan[p]) \/ IsMigration(plan[p])
        /\ at[p] = "bound" => IsWriter(plan[p])
        /\ at[p] = "planned" => IsMigration(plan[p])
    BY <1>1, PlansTyped DEF PlansSound
  <1>3. PlanSound(p)'
    BY <1>1, <1>2 DEF PlanSound
  <1>4. /\ HasClone(p) = {} /\ HasClone(p)' = {plan[p].clone}
        /\ HasRoots(p) = {} /\ HasRoots(p)' = {}
    BY <1>1, <1>2 DEF HasClone, HasRoots, Inside
  <1>5. ASSUME NEW q \in Invocations
        PROVE  /\ \A c \in Clones : opLock'[c] = q <=> c \in HasClone(q)'
               /\ \A root \in Roots : rootLock'[root] = q <=> root \in HasRoots(q)'
    <2>1. /\ \A c \in Clones : opLock[c] = q <=> c \in HasClone(q)
          /\ \A root \in Roots : rootLock[root] = q <=> root \in HasRoots(q)
      BY DEF LocksHeld
    <2>2. CASE q = p
      BY <2>1, <2>2, <1>1, <1>2, <1>4 DEF TypeOK
    <2>3. CASE q # p
      <3>1. HasClone(q)' = HasClone(q) /\ HasRoots(q)' = HasRoots(q)
        BY <2>3, <1>1 DEF Alone, HasClone, HasRoots
      <3>2. q # Nobody
        BY DEF PlacementAssumption
      <3>3. QED
        BY <2>1, <2>3, <3>1, <3>2, <1>1, <1>2 DEF TypeOK
    <2>4. QED
      BY <2>2, <2>3
  <1>6. QED
    BY <1>1, <1>2, <1>3, <1>5, PlansStay DEF LocksHeld

LEMMA LockRootKeeps ==
    ASSUME PlacementAssumption, TypeOK, PlansSound, LocksHeld,
           NEW p \in Invocations, NEW root \in Roots, LockRoot(p, root)
    PROVE  /\ PlansSound' /\ LocksHeld' /\ Alone(p)
           /\ at[p] = "lock_roots" /\ at'[p] = "lock_roots"
           /\ plan'[p].clone = plan[p].clone /\ plan'[p].root = plan[p].root
           /\ plan'[p].task = plan[p].task /\ plan'[p].target = plan[p].target
  <1>1. plan[p] \in Plan
    BY DEF TypeOK
  <1>2. /\ at[p] = "lock_roots" /\ at' = at /\ opLock' = opLock
        /\ root \in plan[p].need /\ rootLock[root] = Nobody
        /\ rootLock' = [rootLock EXCEPT ![root] = p]
        /\ plan' = [plan EXCEPT ![p].need = plan[p].need \ {root}]
    BY DEF LockRoot
  <1>3. /\ plan'[p].clone = plan[p].clone /\ plan'[p].root = plan[p].root
        /\ plan'[p].task = plan[p].task /\ plan'[p].target = plan[p].target
        /\ plan'[p].need = plan[p].need \ {root}
        /\ Alone(p)
    BY <1>1, <1>2 DEF TypeOK, Plan, Alone
  <1>4. /\ plan[p].need \subseteq {plan[p].root, plan[p].target}
        /\ IsWriter(plan[p]) \/ IsMigration(plan[p])
    BY <1>2 DEF PlansSound
  <1>5. IsWriter(plan'[p]) \/ IsMigration(plan'[p])
    BY <1>3, <1>4 DEF IsWriter, IsMigration
  <1>6. PlanSound(p)'
    BY <1>2, <1>3, <1>4, <1>5 DEF PlanSound
  <1>7. HasClone(p)' = HasClone(p) /\ HasRoots(p)' = HasRoots(p) \cup {root}
    BY <1>2, <1>3, <1>4 DEF HasClone, HasRoots
  <1>8. ASSUME NEW q \in Invocations
        PROVE  /\ \A c \in Clones : opLock'[c] = q <=> c \in HasClone(q)'
               /\ \A r \in Roots : rootLock'[r] = q <=> r \in HasRoots(q)'
    <2>1. /\ \A c \in Clones : opLock[c] = q <=> c \in HasClone(q)
          /\ \A r \in Roots : rootLock[r] = q <=> r \in HasRoots(q)
      BY DEF LocksHeld
    <2>2. CASE q = p
      BY <2>1, <2>2, <1>2, <1>7 DEF TypeOK
    <2>3. CASE q # p
      <3>1. HasClone(q)' = HasClone(q) /\ HasRoots(q)' = HasRoots(q)
        BY <2>3, <1>2, <1>3 DEF Alone, HasClone, HasRoots
      <3>2. q # Nobody
        BY DEF PlacementAssumption
      <3>3. QED
        BY <2>1, <2>3, <3>1, <3>2, <1>2 DEF TypeOK
    <2>4. QED
      BY <2>2, <2>3
  <1>9. QED
    BY <1>2, <1>3, <1>6, <1>8, PlansStay DEF LocksHeld

(* The check of the binding, and the two ways to be ready to switch.       *)
LEMMA MoveOnKeeps ==
    ASSUME TypeOK, PlansSound, LocksHeld, NEW p \in Invocations,
           CheckBinding(p) \/ Reuse(p) \/ Install(p)
    PROVE  /\ PlansSound' /\ LocksHeld' /\ Alone(p)
           /\ plan' = plan /\ at'[p] \in {"lock_roots", "switch"}
  <1>1. CASE CheckBinding(p)
    <2>1. /\ at[p] = "bound_locked" /\ at'[p] = "lock_roots" /\ Alone(p)
          /\ plan' = plan /\ opLock' = opLock /\ rootLock' = rootLock
      BY <1>1 DEF CheckBinding, Reach, TypeOK, Alone
    <2>2. PlanSound(p)'
      BY <2>1 DEF PlansSound, PlanSound
    <2>3. plan[p].need = {plan[p].root, plan[p].target}
      BY <2>1 DEF PlansSound
    <2>4. HasClone(p)' = HasClone(p) /\ HasRoots(p)' = HasRoots(p)
      BY <2>1, <2>3 DEF HasClone, HasRoots, Inside
    <2>5. QED
      BY <2>1, <2>2, <2>4, PlansStay, LocksStay
  <1>2. CASE Reuse(p) \/ Install(p)
    <2>1. /\ at[p] = "lock_roots" /\ at'[p] = "switch" /\ Alone(p)
          /\ plan' = plan /\ opLock' = opLock /\ rootLock' = rootLock
          /\ plan[p].need = {} /\ plan[p].target # plan[p].root
      BY <1>2 DEF Reuse, Install, Migrating, Locked, Reach, TypeOK, Alone
    <2>2. IsMigration(plan[p])
      BY <2>1 DEF PlansSound, IsWriter
    <2>3. PlanSound(p)'
      BY <2>1, <2>2 DEF PlanSound
    <2>4. HasClone(p)' = HasClone(p) /\ HasRoots(p)' = HasRoots(p)
      BY <2>1 DEF HasClone, HasRoots, Inside
    <2>5. QED
      BY <2>1, <2>3, <2>4, PlansStay, LocksStay
  <1>3. QED
    BY <1>1, <1>2

----------------------------------------------------------------------------
(* Every step stays within the locks of its invocation                     *)

Footprint(p) ==
    /\ \A c \in Clones \ HasClone(p) : mode'[c] = mode[c]
    /\ \A root \in Roots \ HasRoots(p) :
           /\ data'[root] = data[root]
           /\ \A c \in Clones : RootFor(c, mode'[c]) = root => RootOf(c) = root

(* What an invocation may rely on while others take their steps.           *)
Undisturbed(q) ==
    /\ \A c \in HasClone(q) : mode'[c] = mode[c]
    /\ \A root \in HasRoots(q) :
           /\ data'[root] = data[root]
           /\ \A c \in Clones : RootFor(c, mode'[c]) = root => RootOf(c) = root

LEMMA LocksTyped ==
    ASSUME PlacementAssumption, TypeOK, PlansSound, NEW p \in Invocations
    PROVE  HasClone(p) \subseteq Clones /\ HasRoots(p) \subseteq Roots
  <1>1. CASE at[p] = "idle"
    BY <1>1 DEF HasClone, HasRoots, Inside
  <1>2. CASE at[p] # "idle"
    BY <1>2, PlansTyped DEF HasClone, HasRoots
  <1>3. QED
    BY <1>1, <1>2

LEMMA OthersUndisturbed ==
    ASSUME PlacementAssumption, TypeOK, PlansSound, LocksHeld,
           NEW p \in Invocations, NEW q \in Invocations \ {p}, Footprint(p)
    PROVE  Undisturbed(q)
  <1>1. HasClone(q) \subseteq Clones /\ HasRoots(q) \subseteq Roots
    BY LocksTyped
  <1>2. /\ \A c \in HasClone(q) : c \notin HasClone(p)
        /\ \A root \in HasRoots(q) : root \notin HasRoots(p)
    BY <1>1 DEF LocksHeld
  <1>3. QED
    BY <1>1, <1>2 DEF Footprint, Undisturbed

(* A writer, or a migration, past its last lock.                           *)
LEMMA LockedHas ==
    ASSUME NEW p \in Invocations, Locked(p) \/ at[p] = "switch"
    PROVE  /\ HasRoots(p) = {plan[p].root, plan[p].target}
           /\ HasClone(p) = {plan[p].clone} /\ at[p] # "idle"
  BY DEF Locked, HasRoots, HasClone, Inside

(* The switch turns the clone from the old root to the new one.            *)
LEMMA SwitchTurns ==
    ASSUME PlacementAssumption, TypeOK, PlansSound, SwitchesReady,
           NEW p \in Invocations, SwitchMode(p)
    PROVE  /\ plan[p].clone \in Clones
           /\ mode' = [mode EXCEPT ![plan[p].clone] = Other(mode[plan[p].clone])]
           /\ RootOf(plan[p].clone) = plan[p].root
           /\ RootFor(plan[p].clone, mode'[plan[p].clone]) = plan[p].target
  <1>1. at[p] = "switch" /\ IsMigration(plan[p])
    BY DEF SwitchMode, PlansSound
  <1>2. RootOf(plan[p].clone) = plan[p].root
    BY <1>1 DEF SwitchesReady, ReadyToSwitch, BindingHolds
  <1>3. /\ plan[p].clone \in Clones /\ plan[p].root # plan[p].target
        /\ {plan[p].root, plan[p].target} = {plan[p].clone, UserData}
    BY <1>1 DEF IsMigration
  <1>4. /\ mode' = [mode EXCEPT ![plan[p].clone] = Other(mode[plan[p].clone])]
        /\ mode'[plan[p].clone] = Other(mode[plan[p].clone])
        /\ mode[plan[p].clone] \in Modes
    BY <1>3 DEF SwitchMode, TypeOK
  <1>5. RootFor(plan[p].clone, mode'[plan[p].clone]) = plan[p].target
    BY <1>2, <1>3, <1>4 DEF RootOf, RootFor, Other, Modes, PlacementAssumption
  <1>6. QED
    BY <1>2, <1>3, <1>4, <1>5

LEMMA StepsWithinLocks ==
    ASSUME PlacementAssumption, TypeOK, PlansSound, SwitchesReady, NEW p \in Invocations,
           \/ UNCHANGED <<mode, data>>
           \/ Write(p) \/ Install(p) \/ SwitchMode(p) \/ SwitchModeFails(p)
    PROVE  Footprint(p)
  <1>1. CASE UNCHANGED <<mode, data>>
    BY <1>1 DEF Footprint, RootOf
  <1>2. CASE Write(p) \/ Install(p) \/ SwitchModeFails(p)
    <2>1. HasRoots(p) = {plan[p].root, plan[p].target}
      BY <1>2, LockedHas DEF Write, Writing, Install, Migrating, SwitchModeFails
    <2>2. mode' = mode
      BY <1>2 DEF Write, Install, SwitchModeFails
    <2>3. \A root \in Roots \ {plan[p].root, plan[p].target} : data'[root] = data[root]
      BY <1>2 DEF Write, Install, SwitchModeFails, TypeOK
    <2>4. QED
      BY <2>1, <2>2, <2>3 DEF Footprint, RootOf
  <1>3. CASE SwitchMode(p)
    <2>1. at[p] = "switch" /\ data' = data
      BY <1>3 DEF SwitchMode
    <2>2. HasRoots(p) = {plan[p].root, plan[p].target} /\ HasClone(p) = {plan[p].clone}
      BY <2>1, LockedHas
    <2>3. \A c \in Clones \ HasClone(p) : mode'[c] = mode[c]
      BY <1>3, <2>2, SwitchTurns DEF TypeOK
    <2>4. ASSUME NEW root \in Roots \ HasRoots(p), NEW c \in Clones,
                 RootFor(c, mode'[c]) = root
          PROVE  RootOf(c) = root
      <3>1. c # plan[p].clone
        BY <1>3, <2>2, <2>4, SwitchTurns
      <3>2. QED
        BY <2>2, <2>3, <2>4, <3>1 DEF RootOf
    <2>5. QED
      BY <2>1, <2>3, <2>4 DEF Footprint
  <1>4. QED
    BY <1>1, <1>2, <1>3

(* Archiving disturbs nobody: the root it takes away is locked by nobody.  *)
LEMMA ArchiveDisturbsNobody ==
    ASSUME PlacementAssumption, TypeOK, PlansSound, LocksHeld,
           NEW q \in Invocations, NEW root \in Roots, Archive(root)
    PROVE  Undisturbed(q)
  <1>1. HasRoots(q) \subseteq Roots
    BY LocksTyped
  <1>2. root \notin HasRoots(q)
    BY DEF Archive, LocksHeld, PlacementAssumption
  <1>3. QED
    BY <1>1, <1>2 DEF Archive, TypeOK, Undisturbed, RootOf

----------------------------------------------------------------------------
(* Bindings and switches stay good                                         *)

LEMMA BoundStays ==
    ASSUME BoundHolds, NEW p \in Invocations, Alone(p),
           \A q \in Invocations \ {p} : Undisturbed(q),
           at'[p] = "lock_roots" /\ IsWriter(plan'[p]) =>
               RootFor(plan'[p].clone, mode'[plan'[p].clone]) = plan'[p].root
    PROVE  BoundHolds'
  <1>1. ASSUME NEW q \in Invocations, at'[q] = "lock_roots", IsWriter(plan'[q])
        PROVE  RootFor(plan'[q].clone, mode'[plan'[q].clone]) = plan'[q].root
    <2>1. CASE q = p
      BY <1>1, <2>1
    <2>2. CASE q # p
      <3>1. at[q] = "lock_roots" /\ plan'[q] = plan[q] /\ plan[q].clone \in HasClone(q)
        BY <1>1, <2>2 DEF Alone, HasClone, Inside
      <3>2. mode'[plan[q].clone] = mode[plan[q].clone]
        BY <2>2, <3>1 DEF Undisturbed
      <3>3. RootFor(plan[q].clone, mode[plan[q].clone]) = plan[q].root
        BY <1>1, <3>1 DEF BoundHolds, BindingHolds, RootOf
      <3>4. QED
        BY <3>1, <3>2, <3>3
    <2>3. QED
      BY <2>1, <2>2
  <1>2. QED
    BY <1>1 DEF BoundHolds, BindingHolds, RootOf, IsWriter

LEMMA SameManifest ==
    ASSUME NEW root \in Roots, data'[root] = data[root]
    PROVE  Manifest(root)' = Manifest(root) /\ Unfinished(root)' = Unfinished(root)
  BY DEF Manifest, Unfinished, NoRecords

LEMMA ReadyStays ==
    ASSUME PlacementAssumption, TypeOK, PlansSound, NEW q \in Invocations,
           at[q] = "switch", plan'[q] = plan[q], ReadyToSwitch(q), Undisturbed(q)
    PROVE  ReadyToSwitch(q)'
  <1>1. HasRoots(q) = {plan[q].root, plan[q].target} /\ HasClone(q) = {plan[q].clone}
    BY LockedHas
  <1> DEFINE root == plan[q].root
             target == plan[q].target
             c == plan[q].clone
  <1>2. root \in Roots /\ target \in Roots /\ c \in Clones
    BY PlansTyped
  <1>3. data'[root] = data[root] /\ data'[target] = data[target] /\ mode'[c] = mode[c]
    BY <1>1 DEF Undisturbed
  <1>4. (IF data'[root] = NoRoot THEN NoRecords ELSE data'[root]) = Manifest(root)
    BY <1>3 DEF Manifest
  <1>5. (IF data'[target] = NoRoot THEN NoRecords ELSE data'[target]) = Manifest(target)
    BY <1>3 DEF Manifest
  <1>6. BindingHolds(q)'
    BY <1>3 DEF ReadyToSwitch, BindingHolds, RootOf
  <1>7. (Manifest(plan[q].target) = Manifest(plan[q].root))'
    BY <1>4, <1>5 DEF ReadyToSwitch, Manifest, NoRecords
  <1>8. (~Unfinished(plan[q].root))'
    BY <1>4 DEF ReadyToSwitch, Unfinished, Manifest, NoRecords
  <1>9. ASSUME ~plan[q].reuse, NEW t \in Tasks,
               RootFor(OwnerOf[t], mode'[OwnerOf[t]]) = target
        PROVE  Manifest(target)[t] = "absent"
    <2>1. OwnerOf[t] \in Clones
      BY DEF PlacementAssumption
    <2>2. RootOf(OwnerOf[t]) = target
      BY <1>1, <1>9, <2>1 DEF Undisturbed
    <2>3. QED
      BY <1>9, <2>2 DEF ReadyToSwitch
  <1>10. (~plan[q].reuse =>
             \A t \in Tasks : RootOf(OwnerOf[t]) = plan[q].target =>
                 Manifest(plan[q].target)[t] = "absent")'
    BY <1>5, <1>9 DEF RootOf, Manifest, NoRecords
  <1>11. QED
    BY <1>6, <1>7, <1>8, <1>10 DEF ReadyToSwitch

LEMMA SwitchesStay ==
    ASSUME PlacementAssumption, TypeOK, PlansSound, SwitchesReady,
           NEW p \in Invocations, Alone(p),
           \A q \in Invocations \ {p} : Undisturbed(q),
           at'[p] = "switch" => ReadyToSwitch(p)'
    PROVE  SwitchesReady'
  <1>1. ASSUME NEW q \in Invocations, at'[q] = "switch"
        PROVE  ReadyToSwitch(q)'
    <2>1. CASE q = p
      BY <1>1, <2>1 DEF ReadyToSwitch, BindingHolds, Unfinished, Manifest, RootOf
    <2>2. CASE q # p
      BY <1>1, <2>2, ReadyStays DEF Alone, SwitchesReady
    <2>3. QED
      BY <2>1, <2>2
  <1>2. QED
    BY <1>1 DEF SwitchesReady

(* A target that does not exist shows no record to whoever looks at it, so *)
(* none of the copies made of them there is ahead of what its clone sees.  *)
LEMMA NothingToShow ==
    ASSUME PlacementAssumption, TypeOK, NoCopyAhead, NEW target \in Roots,
           data[target] = NoRoot, NEW root \in Roots, NEW t \in Tasks,
           RootOf(OwnerOf[t]) = target
    PROVE  Manifest(root)[t] = "absent" /\ Manifest(target)[t] = "absent"
  <1>1. Manifest(target)[t] = "absent" /\ Visible(t) = "absent"
    BY DEF Manifest, NoRecords, Visible
  <1>2. Rank[Manifest(root)[t]] <= 0
    BY <1>1 DEF NoCopyAhead, Rank
  <1>3. Manifest(root)[t] \in States
    BY RootsTyped DEF Records
  <1>4. QED
    BY <1>1, <1>2, <1>3 DEF States, Rank

LEMMA BecomesReady ==
    ASSUME PlacementAssumption, TypeOK, PlansSound, NoCopyAhead,
           NEW p \in Invocations, Reuse(p) \/ Install(p)
    PROVE  ReadyToSwitch(p)'
  <1> DEFINE root == plan[p].root
             target == plan[p].target
  <1>1. /\ Migrating(p) /\ Migratable(p) /\ plan' = plan /\ mode' = mode
        /\ at[p] # "idle" /\ root # target
    BY DEF Reuse, Install, Migrating, Locked
  <1>2. root \in Roots /\ target \in Roots /\ Manifest(root) \in Records
    BY <1>1, PlansTyped, RootsTyped
  <1>3. RootOf(plan[p].clone) = root /\ ~Unfinished(root)
    BY <1>1 DEF Migratable
  <1>4. data'[root] = data[root]
    BY <1>1, <1>2 DEF Reuse, Install, TypeOK
  <1>5. (IF data'[root] = NoRoot THEN NoRecords ELSE data'[root]) = Manifest(root)
    BY <1>4 DEF Manifest
  <1>6. (IF data'[target] = NoRoot THEN NoRecords ELSE data'[target]) = Manifest(root)
    <2>1. CASE Reuse(p)
      <3>1. Manifest(target) = Manifest(root) /\ data' = data
        BY <1>1, <2>1 DEF Reuse, Migratable, AsPlanned
      <3>2. QED
        BY <3>1 DEF Manifest
    <2>2. CASE Install(p)
      <3>1. data'[target] = Manifest(root)
        BY <1>2, <2>2 DEF Install, TypeOK
      <3>2. QED
        BY <1>2, <3>1 DEF PlacementAssumption
    <2>3. QED
      BY <2>1, <2>2
  <1>7. ASSUME ~plan[p].reuse, NEW t \in Tasks, RootOf(OwnerOf[t]) = target
        PROVE  Manifest(root)[t] = "absent"
    <2>1. data[target] = NoRoot
      BY <1>1, <1>7 DEF Migratable
    <2>2. QED
      BY <1>2, <1>7, <2>1, NothingToShow
  <1>8. BindingHolds(p)'
    BY <1>1, <1>3 DEF BindingHolds, RootOf
  <1>9. (Manifest(plan[p].target) = Manifest(plan[p].root))'
    BY <1>1, <1>5, <1>6 DEF Manifest, NoRecords
  <1>10. (~Unfinished(plan[p].root))'
    BY <1>1, <1>3, <1>5 DEF Unfinished, Manifest, NoRecords
  <1>11. (~plan[p].reuse =>
             \A t \in Tasks : RootOf(OwnerOf[t]) = plan[p].target =>
                 Manifest(plan[p].target)[t] = "absent")'
    BY <1>1, <1>6, <1>7 DEF RootOf, Manifest, NoRecords
  <1>12. QED
    BY <1>8, <1>9, <1>10, <1>11 DEF ReadyToSwitch

----------------------------------------------------------------------------
(* What a clone sees of its tasks                                          *)

SeesTheSame == \A t \in Tasks : Visible(t)' = Visible(t)

LEMMA OwnersLook ==
    ASSUME PlacementAssumption, TypeOK, NEW t \in Tasks
    PROVE  /\ OwnerOf[t] \in Clones /\ RootOf(OwnerOf[t]) \in Roots
           /\ Visible(t) \in States
           /\ \A root \in Roots : Manifest(root)[t] \in States
  <1>1. OwnerOf[t] \in Clones
    BY DEF PlacementAssumption
  <1>2. RootOf(OwnerOf[t]) \in Roots /\ \A root \in Roots : Manifest(root) \in Records
    BY <1>1, RootsTyped
  <1>3. QED
    BY <1>1, <1>2 DEF Visible, Records

LEMMA SameView ==
    ASSUME NEW t \in Tasks, NEW root,
           RootFor(OwnerOf[t], mode'[OwnerOf[t]]) = root,
           (IF data'[root] = NoRoot THEN NoRecords ELSE data'[root])[t] = Visible(t)
    PROVE  Visible(t)' = Visible(t)
  BY DEF Visible, RootOf, Manifest, NoRecords

(* Only a write changes what a clone sees.                                 *)
LEMMA InstallShowsNothingNew ==
    ASSUME PlacementAssumption, TypeOK, PlansSound, NoCopyAhead,
           NEW p \in Invocations, Install(p)
    PROVE  SeesTheSame
  <1> DEFINE root == plan[p].root
             target == plan[p].target
  <1>1. /\ mode' = mode /\ data[target] = NoRoot /\ at[p] # "idle"
        /\ data' = [data EXCEPT ![target] = Manifest(root)]
    BY DEF Install, Migrating, Migratable, Locked
  <1>2. root \in Roots /\ target \in Roots /\ Manifest(root) \in Records
    BY <1>1, PlansTyped, RootsTyped
  <1>3. data'[target] = Manifest(root) /\ Manifest(root) # NoRoot
    BY <1>1, <1>2 DEF TypeOK, PlacementAssumption
  <1> HIDE DEF root, target
  <1>4. ASSUME NEW t \in Tasks
        PROVE  Visible(t)' = Visible(t)
    <2>1. /\ OwnerOf[t] \in Clones /\ RootOf(OwnerOf[t]) \in Roots
          /\ RootFor(OwnerOf[t], mode'[OwnerOf[t]]) = RootOf(OwnerOf[t])
      BY <1>1, OwnersLook DEF RootOf
    <2>2. CASE RootOf(OwnerOf[t]) = target
      <3>1. Manifest(root)[t] = Manifest(target)[t]
        BY <1>1, <1>2, <2>2, NothingToShow
      <3>2. QED
        BY <1>3, <2>1, <2>2, <3>1, SameView DEF Visible
    <2>3. CASE RootOf(OwnerOf[t]) # target
      <3>1. data'[RootOf(OwnerOf[t])] = data[RootOf(OwnerOf[t])]
        BY <1>1, <1>2, <2>1, <2>3 DEF TypeOK
      <3>2. QED
        BY <2>1, <3>1, SameView DEF Visible, Manifest
    <2>4. QED
      BY <2>2, <2>3
  <1>5. QED
    BY <1>4 DEF SeesTheSame

LEMMA SwitchShowsTheSame ==
    ASSUME PlacementAssumption, TypeOK, PlansSound, SwitchesReady,
           NEW p \in Invocations, SwitchMode(p)
    PROVE  SeesTheSame
  <1>1. at[p] = "switch" /\ data' = data
    BY DEF SwitchMode
  <1>2. ReadyToSwitch(p)
    BY <1>1 DEF SwitchesReady
  <1>3. ASSUME NEW t \in Tasks
        PROVE  Visible(t)' = Visible(t)
    <2>1. OwnerOf[t] \in Clones
      BY OwnersLook
    <2>2. CASE OwnerOf[t] = plan[p].clone
      <3>1. /\ RootFor(OwnerOf[t], mode'[OwnerOf[t]]) = plan[p].target
            /\ RootOf(OwnerOf[t]) = plan[p].root
        BY <2>2, SwitchTurns
      <3>2. Manifest(plan[p].target)[t] = Visible(t)
        BY <1>2, <3>1 DEF ReadyToSwitch, Visible
      <3>3. QED
        BY <1>1, <3>1, <3>2, SameView DEF Manifest
    <2>3. CASE OwnerOf[t] # plan[p].clone
      <3>1. mode'[OwnerOf[t]] = mode[OwnerOf[t]]
        BY <2>1, <2>3, SwitchTurns DEF TypeOK
      <3>2. QED
        BY <1>1, <3>1, SameView DEF Visible, RootOf, Manifest
    <2>4. QED
      BY <2>2, <2>3
  <1>4. QED
    BY <1>3 DEF SeesTheSame

(* Taking away a root whose records nobody sees: an undone installation,   *)
(* or one that the user puts away.                                         *)
LEMMA RemovalShowsTheSame ==
    ASSUME PlacementAssumption, TypeOK, NEW root \in Roots, mode' = mode,
           data' = [data EXCEPT ![root] = NoRoot],
           \A t \in Tasks : RootOf(OwnerOf[t]) = root => Manifest(root)[t] = "absent"
    PROVE  SeesTheSame
  <1>1. ASSUME NEW t \in Tasks
        PROVE  Visible(t)' = Visible(t)
    <2>1. /\ RootOf(OwnerOf[t]) \in Roots
          /\ RootFor(OwnerOf[t], mode'[OwnerOf[t]]) = RootOf(OwnerOf[t])
      BY OwnersLook DEF RootOf
    <2>2. CASE RootOf(OwnerOf[t]) = root
      <3>1. data'[root] = NoRoot /\ NoRecords[t] = Visible(t)
        BY <2>2 DEF TypeOK, NoRecords, Visible
      <3>2. QED
        BY <2>1, <2>2, <3>1, SameView
    <2>3. CASE RootOf(OwnerOf[t]) # root
      <3>1. data'[RootOf(OwnerOf[t])] = data[RootOf(OwnerOf[t])]
        BY <2>1, <2>3 DEF TypeOK
      <3>2. QED
        BY <2>1, <3>1, SameView DEF Visible, Manifest
    <2>4. QED
      BY <2>2, <2>3
  <1>2. QED
    BY <1>1 DEF SeesTheSame

LEMMA UndoShowsTheSame ==
    ASSUME PlacementAssumption, TypeOK, PlansSound, SwitchesReady,
           NEW p \in Invocations, SwitchModeFails(p)
    PROVE  SeesTheSame
  <1>1. at[p] = "switch" /\ mode' = mode
    BY DEF SwitchModeFails
  <1>2. ReadyToSwitch(p) /\ plan[p].target \in Roots
    BY <1>1, PlansTyped DEF SwitchesReady
  <1>3. CASE plan[p].reuse
    BY <1>1, <1>3 DEF SwitchModeFails, SeesTheSame, Visible, RootOf, Manifest, NoRecords
  <1>4. CASE ~plan[p].reuse
    <2>1. data' = [data EXCEPT ![plan[p].target] = NoRoot]
      BY <1>4 DEF SwitchModeFails
    <2>2. \A t \in Tasks : RootOf(OwnerOf[t]) = plan[p].target =>
              Manifest(plan[p].target)[t] = "absent"
      BY <1>2, <1>4 DEF ReadyToSwitch
    <2>3. QED
      BY <1>1, <1>2, <2>1, <2>2, RemovalShowsTheSame
  <1>5. QED
    BY <1>3, <1>4

(* A write of a bound writer: its task goes one state on, for the clone    *)
(* that works on it, and nothing else does.                                *)
LEMMA WriteShows ==
    ASSUME PlacementAssumption, TypeOK, PlansSound, BoundHolds,
           NEW p \in Invocations, Write(p)
    PROVE  LET root == plan[p].root
               task == plan[p].task
           IN  /\ root \in Roots /\ task \in Tasks /\ RootOf(OwnerOf[task]) = root
               /\ mode' = mode
               /\ \E state \in {"draft", "done"} :
                      /\ data' = [data EXCEPT ![root] = [Manifest(root) EXCEPT ![task] = state]]
                      /\ Visible(task) = IF state = "draft" THEN "absent" ELSE "draft"
                      /\ \A t \in Tasks :
                             Visible(t)' = IF t = task THEN state ELSE Visible(t)
  <1> DEFINE root == plan[p].root
             task == plan[p].task
  <1>1. /\ at[p] = "lock_roots" /\ at[p] # "idle" /\ plan[p].target = root /\ mode' = mode
    BY DEF Write, Writing, Locked
  <1>2. IsWriter(plan[p])
    BY <1>1 DEF PlansSound, IsMigration
  <1>3. root \in Roots /\ task \in Tasks /\ RootOf(OwnerOf[task]) = root
    BY <1>1, <1>2, PlansTyped DEF BoundHolds, BindingHolds, IsWriter
  <1>4. PICK state \in {"draft", "done"} :
            /\ Manifest(root)[task] = IF state = "draft" THEN "absent" ELSE "draft"
            /\ data' = [data EXCEPT ![root] = [Manifest(root) EXCEPT ![task] = state]]
    BY DEF Write
  <1> HIDE DEF root, task
  <1>5. Manifest(root) \in Records
    BY <1>3, RootsTyped
  <1>6. /\ data'[root] = [Manifest(root) EXCEPT ![task] = state]
        /\ data'[root] \in Records
    BY <1>3, <1>4, <1>5 DEF TypeOK, Records, States
  <1>7. data'[root] # NoRoot
    BY <1>6 DEF PlacementAssumption
  <1>8. ASSUME NEW t \in Tasks
        PROVE  Visible(t)' = IF t = task THEN state ELSE Visible(t)
    <2>1. /\ RootOf(OwnerOf[t]) \in Roots
          /\ RootFor(OwnerOf[t], mode'[OwnerOf[t]]) = RootOf(OwnerOf[t])
      BY <1>1, OwnersLook DEF RootOf
    <2>2. CASE RootOf(OwnerOf[t]) = root
      <3>1. data'[root][t] = IF t = task THEN state ELSE Manifest(root)[t]
        BY <1>5, <1>6 DEF Records
      <3>2. Visible(t)' = data'[root][t]
        BY <1>7, <2>1, <2>2 DEF Visible, RootOf, Manifest, NoRecords
      <3>3. QED
        BY <2>2, <3>1, <3>2 DEF Visible
    <2>3. CASE RootOf(OwnerOf[t]) # root
      <3>1. data'[RootOf(OwnerOf[t])] = data[RootOf(OwnerOf[t])] /\ t # task
        BY <1>3, <1>4, <2>1, <2>3 DEF TypeOK
      <3>2. QED
        BY <2>1, <3>1, SameView DEF Visible, Manifest
    <2>4. QED
      BY <2>2, <2>3
  <1>9. Visible(task) = Manifest(root)[task]
    BY <1>3 DEF Visible
  <1>10. QED
    BY <1>1, <1>3, <1>4, <1>8, <1>9 DEF root, task

----------------------------------------------------------------------------
(* No copy gets ahead                                                      *)

LEMMA CopiesStayBehind ==
    ASSUME PlacementAssumption, TypeOK, NoCopyAhead, SeesTheSame,
           \A root \in Roots :
               \/ data'[root] \in {data[root], NoRoot}
               \/ \E other \in Roots : data'[root] = Manifest(other)
    PROVE  NoCopyAhead'
  <1>1. ASSUME NEW root \in Roots, NEW t \in Tasks
        PROVE  (Rank[Manifest(root)[t]] <= Rank[Visible(t)])'
    <2>1. Visible(t)' = Visible(t) /\ Visible(t) \in States
      BY OwnersLook DEF SeesTheSame
    <2>2. CASE data'[root] = NoRoot
      <3>1. Manifest(root)'[t] = "absent"
        BY <2>2 DEF Manifest, NoRecords
      <3>2. QED
        BY <2>1, <3>1 DEF Rank, States
    <2>3. CASE data'[root] # NoRoot
      <3>1. PICK other \in Roots : Manifest(root)' = Manifest(other)
        BY <1>1, <2>3 DEF Manifest
      <3>2. Rank[Manifest(other)[t]] <= Rank[Visible(t)]
        BY DEF NoCopyAhead
      <3>3. QED
        BY <2>1, <3>1, <3>2 DEF Rank
    <2>4. QED
      BY <2>2, <2>3
  <1>2. QED
    BY <1>1 DEF NoCopyAhead

LEMMA WriteStaysAhead ==
    ASSUME PlacementAssumption, TypeOK, PlansSound, BoundHolds, NoCopyAhead,
           NEW p \in Invocations, Write(p)
    PROVE  NoCopyAhead'
  <1>1. PICK root \in Roots, task \in Tasks, state \in {"draft", "done"} :
            /\ data' = [data EXCEPT ![root] = [Manifest(root) EXCEPT ![task] = state]]
            /\ Visible(task) = IF state = "draft" THEN "absent" ELSE "draft"
            /\ \A t \in Tasks : Visible(t)' = IF t = task THEN state ELSE Visible(t)
    BY WriteShows
  <1>2. Manifest(root) \in Records
    BY RootsTyped
  <1>3. ASSUME NEW t \in Tasks
        PROVE  /\ Visible(t) \in States
               /\ Visible(t)' \in States
               /\ Rank[Visible(t)] <= Rank[Visible(t)']
    <2>1. Visible(t) \in States
      BY OwnersLook
    <2>2. QED
      BY <1>1, <2>1 DEF Rank, States
  <1>4. ASSUME NEW r \in Roots, NEW t \in Tasks
        PROVE  (Rank[Manifest(r)[t]] <= Rank[Visible(t)])'
    <2>1. Rank[Manifest(r)[t]] <= Rank[Visible(t)] /\ Manifest(r)[t] \in States
      BY OwnersLook DEF NoCopyAhead
    <2>2. Rank[Visible(t)] <= Rank[Visible(t)'] /\ Visible(t) \in States /\ Visible(t)' \in States
      BY <1>3
    <2>3. CASE r = root
      <3>1. data'[r] = [Manifest(root) EXCEPT ![task] = state] /\ data'[r] \in Records
        BY <1>1, <1>2, <2>3 DEF TypeOK, Records, States
      <3>2. Manifest(r)' = data'[r]
        BY <3>1 DEF Manifest, PlacementAssumption
      <3>3. Manifest(r)'[t] = IF t = task THEN state ELSE Manifest(r)[t]
        BY <1>2, <2>3, <3>1, <3>2 DEF Records
      <3>4. CASE t = task
        BY <1>1, <3>3, <3>4 DEF Rank
      <3>5. CASE t # task
        BY <1>1, <2>1, <3>3, <3>5 DEF Rank
      <3>6. QED
        BY <3>4, <3>5
    <2>4. CASE r # root
      <3>1. Manifest(r)' = Manifest(r)
        BY <1>1, <2>4, SameManifest DEF TypeOK
      <3>2. QED
        BY <2>1, <2>2, <3>1 DEF Rank, States
    <2>5. QED
      BY <2>3, <2>4
  <1>5. QED
    BY <1>4 DEF NoCopyAhead

----------------------------------------------------------------------------
(* The invariant is kept                                                   *)

(* Quiet steps: where the data lies and what it is stay as they are.       *)
LEMMA QuietStep ==
    ASSUME PlacementAssumption, PlacementInv, UNCHANGED <<mode, data>>
    PROVE  NoCopyAhead' /\ SeesTheSame /\ \A p \in Invocations : Footprint(p)
  <1>1. SeesTheSame
    BY DEF SeesTheSame, Visible, RootOf, Manifest, NoRecords
  <1>2. NoCopyAhead'
    BY <1>1, CopiesStayBehind DEF PlacementInv
  <1>3. QED
    BY <1>1, <1>2, StepsWithinLocks DEF PlacementInv

LEMMA LeaveStep ==
    ASSUME PlacementAssumption, PlacementInv, NEW p \in Invocations,
           Leave(p), Footprint(p)
    PROVE  PlansSound' /\ LocksHeld' /\ BoundHolds' /\ SwitchesReady'
  <1>1. PlansSound' /\ LocksHeld' /\ Alone(p) /\ at'[p] = "idle"
    BY LeaveKeeps DEF PlacementInv
  <1>2. \A q \in Invocations \ {p} : Undisturbed(q)
    BY OthersUndisturbed DEF PlacementInv
  <1>3. BoundHolds'
    BY <1>1, <1>2, BoundStays DEF PlacementInv
  <1>4. SwitchesReady'
    BY <1>1, <1>2, SwitchesStay DEF PlacementInv
  <1>5. QED
    BY <1>1, <1>3, <1>4

LEMMA BindStep ==
    ASSUME PlacementAssumption, PlacementInv, NEW p \in Invocations,
           \/ \E task \in Tasks : Bind(p, task)
           \/ \E c \in Clones, rollback \in BOOLEAN : PlanMigration(p, c, rollback)
    PROVE  PlacementInv'
  <1>1. UNCHANGED <<mode, data>>
    BY DEF Bind, PlanMigration
  <1>2. TypeOK'
    BY BindTyped, PlanTyped DEF PlacementInv
  <1>3. PlansSound' /\ LocksHeld' /\ Alone(p) /\ at'[p] \in {"bound", "planned"}
    BY BindKeeps, PlanKeeps DEF PlacementInv
  <1>4. \A q \in Invocations \ {p} : Undisturbed(q)
    BY <1>1, QuietStep, OthersUndisturbed DEF PlacementInv
  <1>5. BoundHolds'
    BY <1>3, <1>4, BoundStays DEF PlacementInv
  <1>6. SwitchesReady'
    BY <1>3, <1>4, SwitchesStay DEF PlacementInv
  <1>7. QED
    BY <1>1, <1>2, <1>3, <1>5, <1>6, QuietStep DEF PlacementInv

LEMMA LockStep ==
    ASSUME PlacementAssumption, PlacementInv, NEW p \in Invocations,
           \/ LockClone(p) \/ CheckBinding(p) \/ \E root \in Roots : LockRoot(p, root)
    PROVE  PlacementInv'
  <1>1. UNCHANGED <<mode, data>>
    BY DEF LockClone, CheckBinding, LockRoot
  <1>2. TypeOK'
    BY AdvanceTyped DEF PlacementInv, Advance
  <1>3. PlansSound' /\ LocksHeld' /\ Alone(p)
    BY LockCloneKeeps, MoveOnKeeps, LockRootKeeps DEF PlacementInv
  <1>4. at'[p] # "switch"
    BY DEF LockClone, CheckBinding, LockRoot, Reach, PlacementInv, TypeOK
  <1>5. ASSUME at'[p] = "lock_roots", IsWriter(plan'[p])
        PROVE  RootFor(plan'[p].clone, mode'[plan'[p].clone]) = plan'[p].root
    <2>1. CASE LockClone(p)
      BY <1>5, <2>1, LockCloneKeeps DEF PlacementInv, IsWriter, IsMigration
    <2>2. CASE CheckBinding(p)
      BY <1>1, <2>2 DEF CheckBinding, BindingHolds, RootOf
    <2>3. CASE \E root \in Roots : LockRoot(p, root)
      <3>1. /\ at[p] = "lock_roots"
            /\ plan'[p].clone = plan[p].clone /\ plan'[p].root = plan[p].root
            /\ plan'[p].task = plan[p].task /\ plan'[p].target = plan[p].target
        BY <2>3, LockRootKeeps DEF PlacementInv
      <3>2. IsWriter(plan[p])
        BY <1>5, <3>1 DEF IsWriter
      <3>3. QED
        BY <1>1, <3>1, <3>2 DEF PlacementInv, BoundHolds, BindingHolds, RootOf
    <2>4. QED
      BY <2>1, <2>2, <2>3
  <1>6. \A q \in Invocations \ {p} : Undisturbed(q)
    BY <1>1, QuietStep, OthersUndisturbed DEF PlacementInv
  <1>7. BoundHolds'
    BY <1>3, <1>5, <1>6, BoundStays DEF PlacementInv
  <1>8. SwitchesReady'
    BY <1>3, <1>4, <1>6, SwitchesStay DEF PlacementInv
  <1>9. QED
    BY <1>1, <1>2, <1>3, <1>7, <1>8, QuietStep DEF PlacementInv

LEMMA LeavingStep ==
    ASSUME PlacementAssumption, PlacementInv, NEW p \in Invocations,
           \/ BindingInvalid(p) \/ WriteNothing(p) \/ RefuseMigration(p)
           \/ Decline(p) \/ Killed(p)
    PROVE  PlacementInv'
  <1>1. UNCHANGED <<mode, data>> /\ Leave(p)
    BY DEF BindingInvalid, WriteNothing, RefuseMigration, Decline, Killed
  <1>2. TypeOK'
    BY AdvanceTyped DEF PlacementInv, Advance
  <1>3. QED
    BY <1>1, <1>2, QuietStep, LeaveStep DEF PlacementInv

LEMMA WriteStep ==
    ASSUME PlacementAssumption, PlacementInv, NEW p \in Invocations, Write(p)
    PROVE  PlacementInv'
  <1>1. TypeOK' /\ Footprint(p)
    BY AdvanceTyped, StepsWithinLocks DEF PlacementInv, Advance
  <1>2. Leave(p)
    BY DEF Write
  <1>3. QED
    BY <1>1, <1>2, LeaveStep, WriteStaysAhead DEF PlacementInv

LEMMA InstallStep ==
    ASSUME PlacementAssumption, PlacementInv, NEW p \in Invocations, Reuse(p) \/ Install(p)
    PROVE  PlacementInv' /\ SeesTheSame
  <1>1. TypeOK' /\ Footprint(p)
    BY AdvanceTyped, StepsWithinLocks DEF PlacementInv, Advance, Reuse
  <1>2. PlansSound' /\ LocksHeld' /\ Alone(p) /\ plan' = plan
    BY MoveOnKeeps DEF PlacementInv
  <1>3. at'[p] = "switch"
    BY DEF Reuse, Install, Reach, PlacementInv, TypeOK
  <1>4. \A q \in Invocations \ {p} : Undisturbed(q)
    BY <1>1, OthersUndisturbed DEF PlacementInv
  <1>5. BoundHolds'
    BY <1>2, <1>3, <1>4, BoundStays DEF PlacementInv
  <1>6. SwitchesReady'
    BY <1>2, <1>4, BecomesReady, SwitchesStay DEF PlacementInv
  <1>7. CASE Reuse(p)
    BY <1>1, <1>2, <1>5, <1>6, <1>7, QuietStep DEF PlacementInv, Reuse
  <1>8. CASE Install(p)
    <2>1. SeesTheSame
      BY <1>8, InstallShowsNothingNew DEF PlacementInv
    <2>2. plan[p].root \in Roots
      BY <1>8, PlansTyped DEF PlacementInv, Install, Migrating, Locked
    <2>3. \A root \in Roots : data'[root] \in {data[root], Manifest(plan[p].root)}
      BY <1>8 DEF Install, PlacementInv, TypeOK
    <2>4. NoCopyAhead'
      BY <2>1, <2>2, <2>3, CopiesStayBehind DEF PlacementInv
    <2>5. QED
      BY <1>1, <1>2, <1>5, <1>6, <2>1, <2>4 DEF PlacementInv
  <1>9. QED
    BY <1>7, <1>8

LEMMA SwitchStep ==
    ASSUME PlacementAssumption, PlacementInv, NEW p \in Invocations,
           SwitchMode(p) \/ SwitchModeFails(p)
    PROVE  PlacementInv' /\ SeesTheSame
  <1>1. TypeOK' /\ Footprint(p)
    BY AdvanceTyped, StepsWithinLocks DEF PlacementInv, Advance
  <1>2. Leave(p)
    BY DEF SwitchMode, SwitchModeFails
  <1>3. SeesTheSame
    BY SwitchShowsTheSame, UndoShowsTheSame DEF PlacementInv
  <1>4. \A root \in Roots : data'[root] \in {data[root], NoRoot}
    BY DEF SwitchMode, SwitchModeFails, PlacementInv, TypeOK
  <1>5. NoCopyAhead'
    BY <1>3, <1>4, CopiesStayBehind DEF PlacementInv
  <1>6. QED
    BY <1>1, <1>2, <1>3, <1>5, LeaveStep DEF PlacementInv

LEMMA ArchiveStep ==
    ASSUME PlacementAssumption, PlacementInv, NEW root \in Roots, Archive(root)
    PROVE  PlacementInv' /\ SeesTheSame
  <1>1. /\ mode' = mode /\ data' = [data EXCEPT ![root] = NoRoot]
        /\ UNCHANGED <<opLock, rootLock, at, plan>>
        /\ \A c \in Clones : RootOf(c) # root
    BY DEF Archive
  <1>2. TypeOK'
    BY <1>1 DEF PlacementInv, TypeOK
  <1>3. PlansSound' /\ LocksHeld'
    BY <1>1 DEF PlacementInv, PlansSound, LocksHeld, IsWriter, IsMigration,
                HasClone, HasRoots
  <1>4. \A q \in Invocations : Undisturbed(q)
    BY ArchiveDisturbsNobody DEF PlacementInv
  <1>5. BoundHolds'
    BY <1>1 DEF PlacementInv, BoundHolds, BindingHolds, RootOf, IsWriter
  <1>6. SwitchesReady'
    BY <1>1, <1>4, ReadyStays DEF PlacementInv, SwitchesReady
  <1>7. SeesTheSame
    BY <1>1, OwnersLook, RemovalShowsTheSame DEF PlacementInv
  <1>8. \A r \in Roots : data'[r] \in {data[r], NoRoot}
    BY <1>1 DEF PlacementInv, TypeOK
  <1>9. NoCopyAhead'
    BY <1>7, <1>8, CopiesStayBehind DEF PlacementInv
  <1>10. QED
    BY <1>2, <1>3, <1>5, <1>6, <1>7, <1>9 DEF PlacementInv

LEMMA StutterStep ==
    ASSUME PlacementAssumption, PlacementInv, UNCHANGED placementVars
    PROVE  PlacementInv' /\ SeesTheSame
  <1>1. /\ mode' = mode /\ data' = data /\ opLock' = opLock
        /\ rootLock' = rootLock /\ at' = at /\ plan' = plan
    BY DEF placementVars
  <1>2. TypeOK' /\ PlansSound'
    BY <1>1 DEF PlacementInv, TypeOK, PlansSound, IsWriter, IsMigration
  <1>3. LocksHeld' /\ BoundHolds'
    BY <1>1 DEF PlacementInv, LocksHeld, BoundHolds, HasClone, HasRoots,
                IsWriter, BindingHolds, RootOf
  <1>4. ASSUME NEW p \in Invocations
        PROVE  ReadyToSwitch(p)' = ReadyToSwitch(p)
    BY <1>1 DEF ReadyToSwitch, BindingHolds, RootOf, Unfinished, Manifest, NoRecords
  <1>5. SwitchesReady'
    BY <1>1, <1>4 DEF PlacementInv, SwitchesReady
  <1>6. QED
    BY <1>1, <1>2, <1>3, <1>5, QuietStep DEF PlacementInv

(* The invariant is kept, and a step that is no write changes nothing that *)
(* a clone sees.                                                           *)
LEMMA PlacementStep ==
    ASSUME PlacementAssumption, PlacementInv, [PlacementNext]_placementVars
    PROVE  PlacementInv' /\ (SeesTheSame \/ \E p \in Invocations : Write(p))
  <1>1. CASE UNCHANGED placementVars
    BY <1>1, StutterStep
  <1>2. CASE \E root \in Roots : Archive(root)
    BY <1>2, ArchiveStep
  <1>3. ASSUME NEW p \in Invocations,
               \/ \E task \in Tasks : Bind(p, task)
               \/ \E c \in Clones, rollback \in BOOLEAN : PlanMigration(p, c, rollback)
        PROVE  PlacementInv' /\ SeesTheSame
    <2>1. UNCHANGED <<mode, data>>
      BY <1>3 DEF Bind, PlanMigration
    <2>2. QED
      BY <1>3, <2>1, BindStep, QuietStep
  <1>4. ASSUME NEW p \in Invocations, Decline(p) \/ Advance(p) \/ Killed(p)
        PROVE  PlacementInv' /\ (SeesTheSame \/ Write(p))
    <2>1. CASE LockClone(p) \/ CheckBinding(p) \/ \E root \in Roots : LockRoot(p, root)
      <3>1. UNCHANGED <<mode, data>>
        BY <2>1 DEF LockClone, CheckBinding, LockRoot
      <3>2. QED
        BY <2>1, <3>1, LockStep, QuietStep
    <2>2. CASE \/ BindingInvalid(p) \/ WriteNothing(p) \/ RefuseMigration(p)
               \/ Decline(p) \/ Killed(p)
      <3>1. UNCHANGED <<mode, data>>
        BY <2>2 DEF BindingInvalid, WriteNothing, RefuseMigration, Decline, Killed
      <3>2. QED
        BY <2>2, <3>1, LeavingStep, QuietStep
    <2>3. CASE Write(p)
      BY <2>3, WriteStep
    <2>4. CASE Reuse(p) \/ Install(p)
      BY <2>4, InstallStep
    <2>5. CASE SwitchMode(p) \/ SwitchModeFails(p)
      BY <2>5, SwitchStep
    <2>6. QED
      BY <1>4, <2>1, <2>2, <2>3, <2>4, <2>5 DEF Advance
  <1>5. QED
    BY <1>1, <1>2, <1>3, <1>4 DEF PlacementNext

LEMMA PlacementStart ==
    ASSUME PlacementAssumption, PlacementInit
    PROVE  PlacementInv
  <1>1. TypeOK /\ \A p \in Invocations : at[p] = "idle"
    BY TypesStart DEF PlacementInit
  <1>2. LocksHeld
    BY <1>1 DEF PlacementInit, LocksHeld, HasClone, HasRoots, Inside, PlacementAssumption
  <1>3. \A root \in Roots : Manifest(root) = NoRecords
    BY DEF PlacementInit, Manifest
  <1>4. ASSUME NEW root \in Roots, NEW t \in Tasks
        PROVE  Rank[Manifest(root)[t]] <= Rank[Visible(t)]
    <2>1. RootOf(OwnerOf[t]) \in Roots
      BY <1>1, OwnersLook
    <2>2. QED
      BY <1>3, <2>1 DEF Visible, NoRecords, Rank
  <1>5. QED
    BY <1>1, <1>2, <1>4
    DEF PlacementInv, PlansSound, BoundHolds, SwitchesReady, NoCopyAhead

----------------------------------------------------------------------------
(* The results *)

LEMMA PlacementInvariant ==
    ASSUME PlacementAssumption
    PROVE  PlacementSpec => []PlacementInv
  <1>1. PlacementInit => PlacementInv
    BY PlacementStart
  <1>2. PlacementInv /\ [PlacementNext]_placementVars => PlacementInv'
    BY PlacementStep
  <1>3. QED
    BY <1>1, <1>2, PTL DEF PlacementSpec

(* Two invocations never wait for each other: who waits for the lock of a  *)
(* clone holds nothing yet, and two that wait for a root share no clone,   *)
(* so that the only root both can want is the shared one.                  *)
THEOREM NobodyWaitsInACircle ==
    ASSUME PlacementAssumption
    PROVE  PlacementSpec => []NoCircularWait
  <1>1. ASSUME PlacementInv, NEW p \in Invocations, NEW q \in Invocations, WaitsFor(p, q)
        PROVE  ~WaitsFor(q, p)
    <2>2. CASE at[p] \in {"bound", "planned"} \/ at[q] \in {"bound", "planned"}
      <3>1. ASSUME NEW a \in Invocations, NEW b \in Invocations,
                   at[a] \in {"bound", "planned"}
            PROVE  ~WaitsFor(b, a)
        <4>1. HasRoots(a) = {} /\ HasClone(a) = {}
          BY <3>1 DEF HasRoots, HasClone, Inside
        <4>2. /\ \A c \in Clones : opLock[c] # a
              /\ \A root \in Roots : rootLock[root] # a
          BY <1>1, <4>1 DEF PlacementInv, LocksHeld
        <4>3. WaitsFor(b, a) => plan[b].clone \in Clones /\ plan[b].need \subseteq Roots
          BY <1>1, PlansTyped DEF WaitsFor, PlacementInv, PlansSound
        <4>4. QED
          BY <4>2, <4>3 DEF WaitsFor
      <3>2. QED
        BY <1>1, <2>2, <3>1
    <2>3. CASE at[p] = "lock_roots" /\ at[q] = "lock_roots"
      <3>1. SUFFICES ASSUME WaitsFor(q, p) PROVE FALSE
        OBVIOUS
      <3>2. PICK wanted \in plan[p].need : rootLock[wanted] = q
        BY <1>1, <2>3 DEF WaitsFor
      <3>3. PICK wantedBack \in plan[q].need : rootLock[wantedBack] = p
        BY <2>3, <3>1 DEF WaitsFor
      <3>4. /\ plan[p].need \subseteq {plan[p].root, plan[p].target}
            /\ plan[q].need \subseteq {plan[q].root, plan[q].target}
            /\ {plan[p].root, plan[p].target} \subseteq {plan[p].clone, UserData}
            /\ {plan[q].root, plan[q].target} \subseteq {plan[q].clone, UserData}
            /\ plan[p].root \in Roots /\ plan[p].target \in Roots
            /\ plan[q].root \in Roots /\ plan[q].target \in Roots
            /\ plan[p].clone \in Clones /\ plan[q].clone \in Clones
        BY <1>1, <2>3, PlansTyped DEF PlacementInv, PlansSound
      <3>5. /\ wanted \in HasRoots(q) /\ wantedBack \in HasRoots(p)
            /\ wanted \in plan[p].need /\ wantedBack \in plan[q].need
        BY <1>1, <3>2, <3>3, <3>4 DEF PlacementInv, LocksHeld
      <3>6. /\ HasRoots(p) = {plan[p].root, plan[p].target} \ plan[p].need
            /\ HasRoots(q) = {plan[q].root, plan[q].target} \ plan[q].need
            /\ HasClone(p) = {plan[p].clone} /\ HasClone(q) = {plan[q].clone}
        BY <2>3 DEF HasRoots, HasClone, Inside
      <3>7. CASE plan[p].clone = plan[q].clone
        <4>1. opLock[plan[p].clone] = p /\ opLock[plan[p].clone] = q
          BY <1>1, <3>4, <3>6, <3>7 DEF PlacementInv, LocksHeld
        <4>2. QED
          BY <3>5, <3>6, <4>1
      <3>8. CASE plan[p].clone # plan[q].clone
        <4>1. wanted = UserData /\ wantedBack = UserData
          BY <3>4, <3>5, <3>6, <3>8 DEF PlacementAssumption
        <4>2. QED
          BY <3>5, <3>6, <4>1
      <3>9. QED
        BY <3>7, <3>8
    <2>4. QED
      BY <1>1, <2>2, <2>3 DEF WaitsFor
  <1>2. PlacementInv => NoCircularWait
    BY <1>1 DEF NoCircularWait
  <1>3. QED
    BY <1>2, PlacementInvariant, PTL

(* No record is lost or set back for the clone that works on it.           *)
THEOREM RecordsAreKept ==
    ASSUME PlacementAssumption
    PROVE  PlacementSpec => RecordsSurvive
  <1>1. ASSUME PlacementInv, [PlacementNext]_placementVars, NEW t \in Tasks
        PROVE  Rank[Visible(t)] <= Rank[Visible(t)']
    <2>1. Visible(t) \in States
      BY <1>1, OwnersLook DEF PlacementInv
    <2>2. CASE SeesTheSame
      BY <2>1, <2>2 DEF SeesTheSame, Rank, States
    <2>3. CASE \E p \in Invocations : Write(p)
      <3>1. PICK task \in Tasks, state \in {"draft", "done"} :
                /\ Visible(task) = IF state = "draft" THEN "absent" ELSE "draft"
                /\ Visible(t)' = IF t = task THEN state ELSE Visible(t)
        BY <1>1, <2>3, WriteShows DEF PlacementInv
      <3>2. QED
        BY <2>1, <3>1 DEF Rank, States
    <2>4. QED
      BY <1>1, <2>2, <2>3, PlacementStep
  <1>2. PlacementInv /\ [PlacementNext]_placementVars =>
            [\A t \in Tasks : Rank[Visible(t)] <= Rank[Visible(t)']]_placementVars
    BY <1>1
  <1>3. QED
    BY <1>2, PlacementInvariant, PTL DEF PlacementSpec, RecordsSurvive

LEMMA OnlySwitchesTurn ==
    ASSUME PlacementAssumption, [PlacementNext]_placementVars, mode' # mode
    PROVE  \E p \in Invocations : SwitchMode(p)
  BY DEF placementVars, PlacementNext, Advance, Bind, PlanMigration, Decline, Killed,
         LockClone, CheckBinding, BindingInvalid, LockRoot, Write, WriteNothing,
         RefuseMigration, Reuse, Install, SwitchModeFails, Archive

(* A clone moves only while none of its tasks is unfinished, and finds the *)
(* records it had.                                                         *)
THEOREM OnlyFinishedMove ==
    ASSUME PlacementAssumption
    PROVE  PlacementSpec => OnlyFinishedTasksMove
  <1>1. ASSUME PlacementInv, [PlacementNext]_placementVars, NEW t \in Tasks,
               mode'[OwnerOf[t]] # mode[OwnerOf[t]]
        PROVE  Visible(t) # "draft" /\ Visible(t)' = Visible(t)
    <2>1. PICK p \in Invocations : SwitchMode(p)
      BY <1>1, OnlySwitchesTurn
    <2>2. SeesTheSame /\ at[p] = "switch"
      BY <1>1, <2>1, SwitchStep DEF SwitchMode
    <2>3. /\ mode' = [mode EXCEPT ![plan[p].clone] = Other(mode[plan[p].clone])]
          /\ plan[p].clone \in Clones /\ RootOf(plan[p].clone) = plan[p].root
      BY <1>1, <2>1, SwitchTurns DEF PlacementInv
    <2>4. OwnerOf[t] \in Clones
      BY <1>1, OwnersLook DEF PlacementInv
    <2>5. OwnerOf[t] = plan[p].clone
      BY <1>1, <2>3, <2>4 DEF PlacementInv, TypeOK
    <2>6. ~Unfinished(plan[p].root)
      BY <1>1, <2>2 DEF PlacementInv, SwitchesReady, ReadyToSwitch
    <2>7. QED
      BY <2>2, <2>3, <2>5, <2>6 DEF Unfinished, Visible, SeesTheSame
  <1>2. PlacementInv /\ [PlacementNext]_placementVars =>
            [\A t \in Tasks : mode'[OwnerOf[t]] # mode[OwnerOf[t]] =>
                Visible(t) # "draft" /\ Visible(t)' = Visible(t)]_placementVars
    BY <1>1
  <1>3. QED
    BY <1>2, PlacementInvariant, PTL DEF PlacementSpec, OnlyFinishedTasksMove

(* What a writer writes is what its clone sees from then on.               *)
THEOREM WritesAreVisible ==
    ASSUME PlacementAssumption
    PROVE  PlacementSpec => WritesAreSeen
  <1>1. ASSUME PlacementInv, NEW p \in Invocations, NEW t \in Tasks,
               Write(p), t = plan[p].task
        PROVE  Visible(t)' # Visible(t)
    BY <1>1, WriteShows DEF PlacementInv
  <1>2. PlacementInv /\ [PlacementNext]_placementVars =>
            [\A p \in Invocations, t \in Tasks :
                Write(p) /\ t = plan[p].task => Visible(t)' # Visible(t)]_placementVars
    BY <1>1
  <1>3. QED
    BY <1>2, PlacementInvariant, PTL DEF PlacementSpec, WritesAreSeen

----------------------------------------------------------------------------
RuntimePoints ==
    {"idle", "checked", "locked", "download", "extract", "keep", "switch",
     "verify", "clean", "undo_current", "undo_previous", "undo_staged", "back",
     "verify_back", "consume", "clean_back", "move", "move_back"}

Local ==
    [op : {"update", "rollback", "uninstall"}, want : Versions \cup {None},
     was : Versions \cup {None}, staged : Slots \cup {NoSlot},
     current : Slots \cup {NoSlot}, previous : Slots \cup {NoSlot},
     back : SUBSET Parts]

SharedTypes ==
    /\ slots \in [Slots -> {"none", "partial", "complete"}]
    /\ version \in [Slots -> Versions \cup {None}]
    /\ current \in Slots
    /\ previous \in Slots \cup {NoSlot}
    /\ moved \in SUBSET Parts
    /\ lock \in Procs \cup {NoProc, Stale}
    /\ hurt \in BOOLEAN

RuntimeTypeOK ==
    /\ SharedTypes
    /\ pc \in [Procs -> RuntimePoints]
    /\ loc \in [Procs -> Local]

(* Inside the lock, and past the second verification.                      *)
RuntimeInside(p) == pc[p] \notin {"idle", "checked"}

Working(p) == pc[p] \notin {"idle", "checked", "locked"}

LockIsInside == \A p \in Procs : lock = p <=> RuntimeInside(p)

Versioned == \A s \in Slots : slots[s] # "none" => version[s] \in Versions

Moving == {"move", "move_back"}

Staging ==
    {"extract", "keep", "switch", "verify", "clean",
     "undo_current", "undo_previous", "undo_staged"}

(* What an invocation remembers of the pointers is what they were when it  *)
(* began, and both are whole for as long as it may want to restore them.   *)
RemembersWhole(p) ==
    Working(p) =>
        /\ Whole(loc[p].current)
        /\ loc[p].previous # NoSlot => Whole(loc[p].previous)
        /\ loc[p].current \in Slots
        /\ pc[p] \notin Moving => moved = {}

Untouched(p) ==
    pc[p] \in {"download", "extract", "keep", "back"} \cup Moving =>
        current = loc[p].current /\ previous = loc[p].previous

Wants(p) == pc[p] # "idle" => loc[p].want \in Versions

(* The staged slot is neither of the old ones, and of another version.     *)
StagedApart(p) ==
    /\ pc[p] \in {"download"} \cup Staging =>
           loc[p].want # version[loc[p].current]
    /\ pc[p] \in Staging =>
           /\ loc[p].staged \in Slots
           /\ loc[p].staged \notin {loc[p].current, loc[p].previous}
           /\ version[loc[p].staged] = loc[p].want
           /\ slots[loc[p].staged] # "none"
    /\ pc[p] \in Staging \ {"extract", "undo_staged"} =>
           slots[loc[p].staged] = "complete"

(* How far an update, or its undoing, has come.                            *)
UpdateIsAt(p) ==
    /\ pc[p] = "switch" => current = loc[p].current
    /\ pc[p] \in {"verify", "clean", "undo_current"} => current = loc[p].staged
    /\ pc[p] \in {"undo_previous", "undo_staged"} =>
           \/ current = loc[p].current
           \/ current = loc[p].staged /\ hurt
    /\ pc[p] \in {"switch", "verify", "clean", "undo_current", "undo_previous"} =>
           previous = loc[p].current
    /\ pc[p] = "undo_staged" =>
           \/ previous = loc[p].previous
           \/ previous = loc[p].current /\ hurt

(* How far a rollback has come.                                            *)
RollbackIsAt(p) ==
    /\ pc[p] \in {"back", "verify_back", "consume", "clean_back"} =>
           loc[p].previous \notin {NoSlot, loc[p].current}
    /\ pc[p] \in {"verify_back", "consume", "clean_back"} =>
           current = loc[p].previous
    /\ pc[p] \in {"verify_back", "consume"} => previous = loc[p].previous
    /\ pc[p] = "clean_back" => previous = NoSlot

(* What is still to be moved back is aside, and so is only what could not   *)
(* be moved back.                                                          *)
MovesBack(p) ==
    pc[p] = "move_back" =>
        /\ loc[p].back \subseteq moved
        /\ moved # Parts
        /\ moved = loc[p].back \/ hurt

AtWork(p) ==
    /\ Wants(p)
    /\ RemembersWhole(p)
    /\ Untouched(p)
    /\ StagedApart(p)
    /\ UpdateIsAt(p)
    /\ RollbackIsAt(p)
    /\ MovesBack(p)

DistributionInv ==
    /\ RuntimeTypeOK
    /\ LockIsInside
    /\ Versioned
    /\ PointersWhole
    /\ \A p \in Procs : AtWork(p)

----------------------------------------------------------------------------
(* One invocation moves at a time *)

LEMMA PartsThere == Parts # {}
  BY DEF Parts

LEMMA RuntimeAlone ==
    ASSUME DistributionInv, NEW p \in Procs, NEW q \in Procs, RuntimeInside(p), q # p
    PROVE  ~RuntimeInside(q) /\ ~Working(q)
  BY DEF DistributionInv, LockIsInside, RuntimeInside, Working

(* What has to be shown of a step of p: the shared state stays right, the  *)
(* lock goes with being inside, and p is where it should be.  Who is       *)
(* outside is not concerned, and only who is inside moves shared state.    *)
LEMMA OneMoves ==
    ASSUME DistributionInv, NEW p \in Procs, NEW x \in RuntimePoints, NEW l \in Local,
           pc' = [pc EXCEPT ![p] = x], loc' = [loc EXCEPT ![p] = l],
           SharedTypes', Versioned', PointersWhole',
           lock' = p <=> x \notin {"idle", "checked"},
           \A q \in Procs \ {p} : lock' = q <=> lock = q,
           hurt => hurt',
           RuntimeInside(p) \/ UNCHANGED <<slots, version, current, previous, moved>>,
           AtWork(p)'
    PROVE  DistributionInv'
  <1>1. pc \in [Procs -> RuntimePoints] /\ loc \in [Procs -> Local]
    BY DEF DistributionInv, RuntimeTypeOK
  <1>2. RuntimeTypeOK'
    BY <1>1 DEF RuntimeTypeOK
  <1>3. pc'[p] = x /\ \A q \in Procs \ {p} : pc'[q] = pc[q] /\ loc'[q] = loc[q]
    BY <1>1
  <1>4. LockIsInside'
    BY <1>3 DEF DistributionInv, LockIsInside, RuntimeInside
  <1>5. ASSUME NEW q \in Procs, q # p
        PROVE  AtWork(q)'
    <2>1. pc'[q] = pc[q] /\ loc'[q] = loc[q] /\ AtWork(q)
      BY <1>3, <1>5 DEF DistributionInv
    <2>2. CASE ~RuntimeInside(p)
      <3>1. UNCHANGED <<slots, version, current, previous, moved>>
        BY <2>2
      <3>2. QED
        BY <2>1, <3>1 DEF AtWork, Wants, RemembersWhole, Untouched, StagedApart,
           UpdateIsAt, RollbackIsAt, MovesBack, Working, Whole
    <2>3. CASE RuntimeInside(p)
      <3>1. pc'[q] \in {"idle", "checked"}
        BY <1>5, <2>1, <2>3, RuntimeAlone DEF RuntimeInside
      <3>2. QED
        BY <2>1, <3>1 DEF AtWork, Wants, RemembersWhole, Untouched, StagedApart,
           UpdateIsAt, RollbackIsAt, MovesBack, Working, Moving, Staging
    <2>4. QED
      BY <2>2, <2>3
  <1>6. QED
    BY <1>2, <1>4, <1>5 DEF DistributionInv

LEMMA NoLocalsType == NoLocals \in Local
  BY DEF NoLocals, Local

LEMMA IdleAtWork ==
    ASSUME NEW p \in Procs, pc[p] \in {"idle", "checked", "locked"}, Wants(p)
    PROVE  AtWork(p)
  BY DEF AtWork, RemembersWhole, Untouched, StagedApart, UpdateIsAt,
     RollbackIsAt, MovesBack, Working, Moving, Staging

LEMMA LocalAt ==
    ASSUME DistributionInv, NEW p \in Procs
    PROVE  /\ loc[p] \in Local /\ pc[p] \in RuntimePoints
           /\ loc' = loc => loc' = [loc EXCEPT ![p] = loc[p]]
           /\ pc' = pc => pc' = [pc EXCEPT ![p] = pc[p]]
  BY DEF DistributionInv, RuntimeTypeOK

(* A step that leaves the pointers and the slots alone.                    *)
LEMMA QuietMoves ==
    ASSUME DistributionInv, NEW p \in Procs, NEW x \in RuntimePoints, NEW l \in Local,
           pc' = [pc EXCEPT ![p] = x], loc' = [loc EXCEPT ![p] = l],
           UNCHANGED <<slots, version, current, previous, moved>>,
           lock' \in Procs \cup {NoProc, Stale},
           lock' = p <=> x \notin {"idle", "checked"},
           \A q \in Procs \ {p} : lock' = q <=> lock = q,
           hurt' \in BOOLEAN, hurt => hurt',
           AtWork(p)'
    PROVE  DistributionInv'
  <1>1. SharedTypes'
    BY DEF DistributionInv, RuntimeTypeOK, SharedTypes
  <1>2. Versioned' /\ PointersWhole'
    BY DEF DistributionInv, Versioned, PointersWhole, Whole
  <1>3. QED
    BY <1>1, <1>2, OneMoves

(* The end of an operation, whatever it did to slots and pointers.         *)
LEMMA EndMoves ==
    ASSUME DistributionAssumption, DistributionInv, NEW p \in Procs,
           RuntimeInside(p), End(p), SharedTypes', Versioned', PointersWhole',
           hurt => hurt'
    PROVE  DistributionInv'
  <1>1. /\ pc' = [pc EXCEPT ![p] = "idle"] /\ loc' = [loc EXCEPT ![p] = NoLocals]
        /\ lock' = NoProc
    BY DEF End, Goto, DistributionInv, LockIsInside
  <1>2. pc'[p] = "idle"
    BY <1>1, LocalAt DEF DistributionInv, RuntimeTypeOK
  <1>3. AtWork(p)'
    BY <1>2 DEF AtWork, Wants, RemembersWhole, Untouched, StagedApart, UpdateIsAt,
       RollbackIsAt, MovesBack, Working, Moving, Staging
  <1>4. /\ lock = p /\ lock' # p
        /\ \A q \in Procs \ {p} : lock' # q /\ lock # q
    BY <1>1 DEF DistributionInv, LockIsInside, DistributionAssumption
  <1>5. "idle" \in RuntimePoints
    BY DEF RuntimePoints
  <1>6. QED
    BY <1>1, <1>3, <1>4, <1>5, NoLocalsType, OneMoves

----------------------------------------------------------------------------
(* The beginning of every operation *)

LEMMA DistributionInit ==
    ASSUME DistributionAssumption, Init
    PROVE  DistributionInv
  <1>1. 1 \in Slots /\ NoSlot \notin Slots
    BY DEF DistributionAssumption, Slots
  <1>2. SharedTypes
    <2>1. version \in [Slots -> Versions \cup {None}]
      BY DEF Init
    <2>2. slots \in [Slots -> {"none", "partial", "complete"}]
      BY DEF Init
    <2>3. current \in Slots /\ previous = NoSlot /\ moved \in SUBSET Parts /\ lock = NoProc
          /\ hurt = FALSE
      BY <1>1 DEF Init
    <2>4. QED
      BY <2>1, <2>2, <2>3 DEF SharedTypes
  <1>3. RuntimeTypeOK
    BY <1>2, NoLocalsType DEF Init, RuntimeTypeOK, RuntimePoints
  <1>4. LockIsInside
    BY DEF Init, LockIsInside, RuntimeInside, DistributionAssumption
  <1>5. Versioned /\ PointersWhole
    BY <1>1 DEF Init, Versioned, PointersWhole, Whole
  <1>6. ASSUME NEW p \in Procs
        PROVE  AtWork(p)
    <2>1. pc[p] = "idle"
      BY DEF Init
    <2>2. QED
      BY <2>1, IdleAtWork DEF Wants
  <1>7. QED
    BY <1>3, <1>4, <1>5, <1>6 DEF DistributionInv

LEMMA BeginKeeps ==
    ASSUME DistributionAssumption, DistributionInv, NEW p \in Procs,
           NEW op \in Operations, NEW want \in Versions, Begin(p, op, want)
    PROVE  DistributionInv'
  <1> DEFINE l == [NoLocals EXCEPT !.op = op, !.want = want, !.was = version[current]]
  <1>1. /\ pc[p] = "idle" /\ pc' = [pc EXCEPT ![p] = "checked"]
        /\ loc' = [loc EXCEPT ![p] = l]
        /\ UNCHANGED <<slots, version, current, previous, moved, hurt, lock>>
    BY DEF Begin, Goto, pointers
  <1>2. version[current] \in Versions \cup {None}
    BY DEF DistributionInv, RuntimeTypeOK, SharedTypes
  <1>3. l \in Local /\ l.want = want
    BY <1>2, NoLocalsType DEF Local, NoLocals, DistributionAssumption
  <1> HIDE DEF l
  <1>4. pc'[p] = "checked" /\ loc'[p] = l
    BY <1>1 DEF DistributionInv, RuntimeTypeOK
  <1>5. AtWork(p)'
    BY <1>3, <1>4 DEF AtWork, Wants, RemembersWhole, Untouched, StagedApart,
       UpdateIsAt, RollbackIsAt, MovesBack, Working, Moving, Staging
  <1>6. lock # p
    BY <1>1 DEF DistributionInv, LockIsInside, RuntimeInside
  <1>7. "checked" \in RuntimePoints /\ lock \in Procs \cup {NoProc, Stale} /\ hurt \in BOOLEAN
    BY DEF RuntimePoints, DistributionInv, RuntimeTypeOK, SharedTypes
  <1>8. QED
    BY <1>1, <1>3, <1>5, <1>6, <1>7, QuietMoves

(* To wait, to be let in and to be turned away leave what is remembered.   *)
LEMMA EntryKeeps ==
    ASSUME DistributionAssumption, DistributionInv, NEW p \in Procs,
           Acquire(p) \/ InProgress(p)
    PROVE  DistributionInv'
  <1>1. /\ pc[p] = "checked" /\ lock # p
        /\ \A q \in Procs : lock = q => q # p
    BY DEF Acquire, InProgress, DistributionInv, LockIsInside, RuntimeInside
  <1>2. /\ loc[p] \in Local /\ pc[p] \in RuntimePoints
        /\ {"idle", "locked"} \subseteq RuntimePoints
        /\ lock \in Procs \cup {NoProc, Stale} /\ hurt \in BOOLEAN
    BY LocalAt DEF RuntimePoints, DistributionInv, RuntimeTypeOK, SharedTypes
  <1>3. CASE Acquire(p)
    <2>1. /\ lock = NoProc /\ lock' = p /\ pc' = [pc EXCEPT ![p] = "locked"]
          /\ loc' = [loc EXCEPT ![p] = loc[p]]
          /\ UNCHANGED <<slots, version, current, previous, moved, hurt>>
      BY <1>3, LocalAt DEF Acquire, Goto, pointers
    <2>2. pc'[p] = "locked" /\ loc'[p] = loc[p]
      BY <2>1 DEF DistributionInv, RuntimeTypeOK
    <2>3. Wants(p)
      BY DEF DistributionInv, AtWork
    <2>4. AtWork(p)'
      BY <1>1, <2>2, <2>3 DEF AtWork, Wants, RemembersWhole, Untouched, StagedApart,
         UpdateIsAt, RollbackIsAt, MovesBack, Working, Moving, Staging
    <2>5. \A q \in Procs \ {p} : lock' = q <=> lock = q
      BY <2>1 DEF DistributionAssumption
    <2>6. QED
      BY <1>2, <2>1, <2>4, <2>5, QuietMoves
  <1>4. CASE InProgress(p)
    <2>1. /\ lock' = lock /\ pc' = [pc EXCEPT ![p] = "idle"]
          /\ loc' = [loc EXCEPT ![p] = NoLocals]
          /\ UNCHANGED <<slots, version, current, previous, moved, hurt>>
      BY <1>1, <1>4 DEF InProgress, End, Goto, pointers
    <2>2. pc'[p] = "idle"
      BY <2>1 DEF DistributionInv, RuntimeTypeOK
    <2>3. AtWork(p)'
      BY <2>2 DEF AtWork, Wants, RemembersWhole, Untouched, StagedApart,
         UpdateIsAt, RollbackIsAt, MovesBack, Working, Moving, Staging
    <2>4. QED
      BY <1>1, <1>2, <2>1, <2>3, NoLocalsType, QuietMoves
  <1>5. QED
    BY <1>3, <1>4

LEMMA RecheckKeeps ==
    ASSUME DistributionAssumption, DistributionInv, NEW p \in Procs, Recheck(p)
    PROVE  DistributionInv'
  <1> DEFINE l == [loc[p] EXCEPT !.current = current, !.previous = previous]
             x == Start[loc[p].op]
  <1>1. /\ pc[p] = "locked" /\ Possible(p) /\ pc' = [pc EXCEPT ![p] = x]
        /\ UNCHANGED <<slots, version, current, previous, moved, hurt, lock>>
    BY DEF Recheck, Goto, pointers
  <1>2. /\ loc \in [Procs -> Local] /\ loc[p] \in Local
        /\ current \in Slots /\ previous \in Slots \cup {NoSlot}
        /\ lock \in Procs \cup {NoProc, Stale} /\ hurt \in BOOLEAN
    BY DEF DistributionInv, RuntimeTypeOK, SharedTypes
  <1>3. loc' = [loc EXCEPT ![p] = l]
    BY <1>2 DEF Recheck
  <1>4. /\ l \in Local /\ l.current = current /\ l.previous = previous
        /\ l.want = loc[p].want
    BY <1>2 DEF Local
  <1>5. /\ x \in {"download", "back", "move"}
        /\ x = "download" <=> loc[p].op = "update"
        /\ x = "back" <=> loc[p].op = "rollback"
    BY <1>2 DEF Start, Local
  <1> HIDE DEF l, x
  <1>6. pc'[p] = x /\ loc'[p] = l
    BY <1>1, <1>2, <1>3 DEF DistributionInv, RuntimeTypeOK
  <1>7. loc[p].want \in Versions
    BY <1>1 DEF DistributionInv, AtWork, Wants
  <1>8. PointersWhole
    BY DEF DistributionInv
  <1>9. /\ moved = {}
        /\ x = "download" => loc[p].want # version[current]
        /\ x = "back" => previous # current /\ previous # NoSlot
    BY <1>1, <1>5 DEF Possible, Verified, Whole
  <1>10. AtWork(p)'
    <2>1. Wants(p)' /\ Untouched(p)'
      BY <1>1, <1>4, <1>6, <1>7 DEF Wants, Untouched
    <2>2. RemembersWhole(p)'
      BY <1>1, <1>2, <1>4, <1>6, <1>8, <1>9 DEF RemembersWhole, PointersWhole, Whole
    <2>3. StagedApart(p)' /\ UpdateIsAt(p)' /\ RollbackIsAt(p)' /\ MovesBack(p)'
      BY <1>1, <1>4, <1>5, <1>6, <1>9 DEF StagedApart, UpdateIsAt, RollbackIsAt, MovesBack, Staging
    <2>4. QED
      BY <2>1, <2>2, <2>3 DEF AtWork
  <1>11. lock = p /\ x \in RuntimePoints /\ x \notin {"idle", "checked"}
    BY <1>1, <1>5 DEF DistributionInv, LockIsInside, RuntimeInside, RuntimePoints
  <1>12. QED
    BY <1>1, <1>2, <1>3, <1>4, <1>10, <1>11, QuietMoves

(* Endings that touch nothing.                                             *)
LEMMA GiveUpKeeps ==
    ASSUME DistributionAssumption, DistributionInv, NEW p \in Procs,
           Refuse(p) \/ DownloadFails(p) \/ MovedBack(p) \/ Uninstalled(p)
    PROVE  DistributionInv'
  <1>1. /\ RuntimeInside(p) /\ End(p)
        /\ UNCHANGED <<slots, version, current, previous, moved, hurt>>
    BY DEF Refuse, DownloadFails, MovedBack, Uninstalled, RuntimeInside, pointers
  <1>2. lock' \in Procs \cup {NoProc, Stale}
    BY <1>1 DEF End, DistributionInv, RuntimeTypeOK, SharedTypes
  <1>3. SharedTypes' /\ Versioned' /\ PointersWhole'
    BY <1>1, <1>2 DEF DistributionInv, RuntimeTypeOK, SharedTypes, Versioned,
       PointersWhole, Whole
  <1>4. QED
    BY <1>1, <1>3, EndMoves

(* A crash leaves everything as it is, and who is not there is nowhere.    *)
LEMMA CrashKeeps ==
    ASSUME DistributionAssumption, DistributionInv, NEW p \in Procs, Crash(p)
    PROVE  DistributionInv'
  <1>1. /\ pc' = [pc EXCEPT ![p] = "idle"] /\ loc' = [loc EXCEPT ![p] = NoLocals]
        /\ lock' = (IF lock = p THEN Stale ELSE lock) /\ hurt'
        /\ UNCHANGED <<slots, version, current, previous, moved>>
    BY DEF Crash, Goto, pointers
  <1>2. /\ pc'[p] = "idle" /\ "idle" \in RuntimePoints
        /\ lock' \in Procs \cup {NoProc, Stale} /\ hurt' \in BOOLEAN
    BY <1>1 DEF DistributionInv, RuntimeTypeOK, SharedTypes, RuntimePoints, Crash
  <1>3. AtWork(p)'
    BY <1>2 DEF AtWork, Wants, RemembersWhole, Untouched, StagedApart,
       UpdateIsAt, RollbackIsAt, MovesBack, Working, Moving, Staging
  <1>4. lock' # p /\ \A q \in Procs \ {p} : lock' = q <=> lock = q
    BY <1>1 DEF DistributionAssumption
  <1>5. QED
    BY <1>1, <1>2, <1>3, <1>4, NoLocalsType, QuietMoves

(* The lock of an invocation that is gone belongs to nobody.               *)
LEMMA RemoveLockKeeps ==
    ASSUME DistributionAssumption, DistributionInv, RemoveLock
    PROVE  DistributionInv'
  <1>1. /\ lock = Stale /\ lock' = NoProc
        /\ UNCHANGED <<slots, version, current, previous, moved, hurt, pc, loc>>
    BY DEF RemoveLock, pointers
  <1>2. RuntimeTypeOK'
    BY <1>1 DEF DistributionInv, RuntimeTypeOK, SharedTypes
  <1>3. LockIsInside'
    BY <1>1 DEF DistributionInv, LockIsInside, RuntimeInside, DistributionAssumption
  <1>4. Versioned' /\ PointersWhole'
    BY <1>1 DEF DistributionInv, Versioned, PointersWhole, Whole
  <1>5. \A p \in Procs : AtWork(p)'
    BY <1>1 DEF DistributionInv, AtWork, Wants, RemembersWhole, Untouched,
       StagedApart, UpdateIsAt, RollbackIsAt, MovesBack, Working, Whole
  <1>6. QED
    BY <1>2, <1>3, <1>4, <1>5 DEF DistributionInv

----------------------------------------------------------------------------
(* update *)

LEMMA WorkMoves ==
    ASSUME DistributionInv, NEW p \in Procs, NEW x \in RuntimePoints, NEW l \in Local,
           RuntimeInside(p), x \notin {"idle", "checked"},
           pc' = [pc EXCEPT ![p] = x], loc' = [loc EXCEPT ![p] = l],
           lock' = lock, hurt => hurt', SharedTypes', Versioned', PointersWhole',
           AtWork(p)'
    PROVE  DistributionInv'
  <1>1. lock = p /\ \A q \in Procs \ {p} : lock' = q <=> lock = q
    BY DEF DistributionInv, LockIsInside
  <1>2. QED
    BY <1>1, OneMoves

LEMMA MakeSlotKeeps ==
    ASSUME DistributionAssumption, DistributionInv, NEW p \in Procs, MakeSlot(p)
    PROVE  DistributionInv'
  <1>1. PICK s \in Slots :
            /\ version[s] = None
            /\ slots' = [slots EXCEPT ![s] = "partial"]
            /\ version' = [version EXCEPT ![s] = loc[p].want]
            /\ loc' = [loc EXCEPT ![p].staged = s]
    BY DEF MakeSlot
  <1> DEFINE l == [loc[p] EXCEPT !.staged = s]
  <1>2. /\ pc[p] = "download" /\ pc' = [pc EXCEPT ![p] = "extract"]
        /\ UNCHANGED <<current, previous, moved, hurt, lock>>
    BY DEF MakeSlot, Goto, pointers
  <1>3. /\ RuntimeTypeOK /\ SharedTypes /\ Versioned /\ PointersWhole /\ AtWork(p)
        /\ loc[p] \in Local /\ loc[p].want \in Versions
    BY <1>2 DEF DistributionInv, RuntimeTypeOK, AtWork, Wants
  <1>4. /\ loc' = [loc EXCEPT ![p] = l] /\ l \in Local /\ l.staged = s
        /\ l.want = loc[p].want /\ l.current = loc[p].current
        /\ l.previous = loc[p].previous
    BY <1>1, <1>3 DEF Local
  <1> HIDE DEF l
  <1>5. pc'[p] = "extract" /\ loc'[p] = l
    BY <1>2, <1>3, <1>4 DEF RuntimeTypeOK
  <1>6. /\ slots'[s] = "partial" /\ version'[s] = loc[p].want
        /\ \A r \in Slots \ {s} : slots'[r] = slots[r] /\ version'[r] = version[r]
    BY <1>1, <1>3 DEF SharedTypes
  <1>7. slots[s] = "none"
    BY <1>1, <1>3 DEF Versioned, DistributionAssumption
  <1>8. SharedTypes'
    BY <1>1, <1>2, <1>3 DEF SharedTypes
  <1>9. Versioned'
    BY <1>3, <1>6 DEF Versioned
  <1>10. /\ s \notin {current, previous}
         /\ current = loc[p].current /\ previous = loc[p].previous
         /\ Whole(current) /\ current \in Slots
         /\ previous # NoSlot => previous \in Slots /\ Whole(previous)
         /\ moved = {} /\ loc[p].want # version[current]
    <2>1. current = loc[p].current /\ previous = loc[p].previous
      BY <1>2, <1>3 DEF AtWork, Untouched
    <2>2. moved = {} /\ loc[p].want # version[current]
      BY <1>2, <1>3, <2>1 DEF AtWork, RemembersWhole, StagedApart, Working, Moving
    <2>3. s # NoSlot
      BY DEF DistributionAssumption, Slots
    <2>4. QED
      BY <1>3, <1>7, <2>1, <2>2, <2>3 DEF PointersWhole, Whole, SharedTypes
  <1>11. PointersWhole'
    BY <1>2, <1>6, <1>10 DEF PointersWhole, Whole
  <1>12. AtWork(p)'
    <2>1. Wants(p)' /\ Untouched(p)'
      BY <1>2, <1>3, <1>4, <1>5, <1>10 DEF Wants, Untouched
    <2>2. RemembersWhole(p)'
      BY <1>2, <1>4, <1>5, <1>6, <1>10 DEF RemembersWhole, Whole
    <2>3. StagedApart(p)'
      BY <1>4, <1>5, <1>6, <1>10 DEF StagedApart
    <2>4. UpdateIsAt(p)' /\ RollbackIsAt(p)' /\ MovesBack(p)'
      BY <1>5 DEF UpdateIsAt, RollbackIsAt, MovesBack
    <2>5. QED
      BY <2>1, <2>2, <2>3, <2>4 DEF AtWork
  <1>13. RuntimeInside(p) /\ "extract" \in RuntimePoints
    BY <1>2 DEF RuntimeInside, RuntimePoints
  <1>14. QED
    BY <1>2, <1>4, <1>8, <1>9, <1>11, <1>12, <1>13, WorkMoves

LEMMA ExtractKeeps ==
    ASSUME DistributionAssumption, DistributionInv, NEW p \in Procs, Extract(p)
    PROVE  DistributionInv'
  <1> DEFINE s == loc[p].staged
  <1>1. /\ pc[p] = "extract" /\ pc' = [pc EXCEPT ![p] = "keep"]
        /\ slots' = [slots EXCEPT ![s] = "complete"]
        /\ UNCHANGED <<version, current, previous, moved, hurt, lock, loc>>
    BY DEF Extract, Goto, pointers
  <1>2. /\ RuntimeTypeOK /\ SharedTypes /\ Versioned /\ PointersWhole /\ AtWork(p)
        /\ loc[p] \in Local /\ loc' = [loc EXCEPT ![p] = loc[p]]
    BY <1>1, LocalAt DEF DistributionInv, RuntimeTypeOK
  <1>3. pc'[p] = "keep" /\ loc'[p] = loc[p]
    BY <1>1, <1>2 DEF RuntimeTypeOK
  <1>4. s \in Slots /\ slots[s] # "none"
    BY <1>1, <1>2 DEF AtWork, StagedApart, Staging
  <1>5. /\ slots'[s] = "complete"
        /\ \A r \in Slots \ {s} : slots'[r] = slots[r]
    BY <1>1, <1>2, <1>4 DEF SharedTypes
  <1>6. SharedTypes' /\ Versioned'
    BY <1>1, <1>2, <1>4, <1>5 DEF SharedTypes, Versioned
  <1>7. PointersWhole'
    BY <1>1, <1>2, <1>5 DEF PointersWhole, Whole, SharedTypes
  <1>8. AtWork(p)'
    <2>1. Wants(p)' /\ Untouched(p)'
      BY <1>1, <1>2, <1>3 DEF AtWork, Wants, Untouched
    <2>2. RemembersWhole(p)'
      BY <1>1, <1>2, <1>3, <1>5 DEF AtWork, RemembersWhole, Whole, Working, Moving, Local
    <2>3. StagedApart(p)'
      BY <1>1, <1>2, <1>3, <1>5 DEF AtWork, StagedApart, Staging
    <2>4. UpdateIsAt(p)' /\ RollbackIsAt(p)' /\ MovesBack(p)'
      BY <1>3 DEF UpdateIsAt, RollbackIsAt, MovesBack
    <2>5. QED
      BY <2>1, <2>2, <2>3, <2>4 DEF AtWork
  <1>9. RuntimeInside(p) /\ "keep" \in RuntimePoints
    BY <1>1 DEF RuntimeInside, RuntimePoints
  <1>10. QED
    BY <1>1, <1>2, <1>6, <1>7, <1>8, <1>9, WorkMoves

(* Steps that leave the slots as they are and may move a pointer to a slot *)
(* that is remembered or staged.                                           *)
LEMMA PointerMoves ==
    ASSUME DistributionAssumption, DistributionInv, NEW p \in Procs,
           NEW x \in RuntimePoints, pc' = [pc EXCEPT ![p] = x],
           RuntimeInside(p), x \notin {"idle", "checked"},
           UNCHANGED <<slots, version, moved, lock, loc>>,
           hurt' \in BOOLEAN, hurt => hurt',
           current' \in Slots, Whole(current'),
           previous' \in Slots \cup {NoSlot},
           previous' # NoSlot => Whole(previous'),
           AtWork(p)'
    PROVE  DistributionInv'
  <1>1. loc[p] \in Local /\ loc' = [loc EXCEPT ![p] = loc[p]]
    BY LocalAt
  <1>2. SharedTypes' /\ Versioned'
    BY DEF DistributionInv, RuntimeTypeOK, SharedTypes, Versioned
  <1>3. PointersWhole'
    BY DEF PointersWhole, Whole
  <1>4. QED
    BY <1>1, <1>2, <1>3, WorkMoves

Remembered(p) ==
    /\ RuntimeTypeOK /\ SharedTypes /\ Versioned /\ PointersWhole /\ AtWork(p)
    /\ loc[p] \in Local /\ hurt \in BOOLEAN
    /\ loc[p].current \in Slots /\ Whole(loc[p].current)
    /\ loc[p].previous \in Slots \cup {NoSlot}
    /\ loc[p].previous # NoSlot => Whole(loc[p].previous)
    /\ current \in Slots /\ Whole(current)
    /\ previous \in Slots \cup {NoSlot}
    /\ previous # NoSlot => Whole(previous)

LEMMA WorkRemembers ==
    ASSUME DistributionInv, NEW p \in Procs, Working(p)
    PROVE  Remembered(p)
  <1>1. RuntimeTypeOK /\ SharedTypes /\ Versioned /\ PointersWhole /\ AtWork(p)
    BY DEF DistributionInv, RuntimeTypeOK
  <1>2. loc[p] \in Local /\ hurt \in BOOLEAN
    BY <1>1 DEF RuntimeTypeOK, SharedTypes
  <1>3. /\ loc[p].current \in Slots /\ Whole(loc[p].current)
        /\ loc[p].previous # NoSlot => Whole(loc[p].previous)
    BY <1>1 DEF AtWork, RemembersWhole
  <1>4. loc[p].previous \in Slots \cup {NoSlot}
    BY <1>2 DEF Local
  <1>5. QED
    BY <1>1, <1>2, <1>3, <1>4 DEF Remembered, SharedTypes, PointersWhole

LEMMA KeepPreviousKeeps ==
    ASSUME DistributionAssumption, DistributionInv, NEW p \in Procs, KeepPrevious(p)
    PROVE  DistributionInv'
  <1>1. /\ pc[p] = "keep" /\ pc' = [pc EXCEPT ![p] = "switch"]
        /\ previous' = loc[p].current
        /\ UNCHANGED <<slots, version, current, moved, hurt, lock, loc>>
    BY DEF KeepPrevious, Goto, pointers
  <1>2. Remembered(p)
    BY <1>1, WorkRemembers DEF Working
  <1>3. pc'[p] = "switch" /\ loc'[p] = loc[p]
    BY <1>1, <1>2 DEF Remembered, RuntimeTypeOK
  <1>4. Whole(current') /\ Whole(previous')
    BY <1>1, <1>2 DEF Remembered, Whole
  <1>5. AtWork(p)'
    BY <1>1, <1>2, <1>3 DEF Remembered, AtWork, Wants, RemembersWhole, Untouched,
       StagedApart, UpdateIsAt, RollbackIsAt, MovesBack, Working, Whole, Moving, Staging
  <1>6. RuntimeInside(p) /\ "switch" \in RuntimePoints
    BY <1>1 DEF RuntimeInside, RuntimePoints
  <1>7. QED
    BY <1>1, <1>2, <1>4, <1>5, <1>6, PointerMoves DEF Remembered

LEMMA SwitchKeeps ==
    ASSUME DistributionAssumption, DistributionInv, NEW p \in Procs, Switch(p)
    PROVE  DistributionInv'
  <1>1. /\ pc[p] = "switch" /\ pc' = [pc EXCEPT ![p] = "verify"]
        /\ current' = loc[p].staged
        /\ UNCHANGED <<slots, version, previous, moved, hurt, lock, loc>>
    BY DEF Switch, Goto, pointers
  <1>2. Remembered(p)
    BY <1>1, WorkRemembers DEF Working
  <1>3. pc'[p] = "verify" /\ loc'[p] = loc[p]
    BY <1>1, <1>2 DEF Remembered, RuntimeTypeOK
  <1>4. /\ current' \in Slots /\ Whole(current')
        /\ previous' # NoSlot => Whole(previous')
    <2>1. loc[p].staged \in Slots /\ slots[loc[p].staged] = "complete"
      BY <1>1, <1>2 DEF Remembered, AtWork, StagedApart, Staging
    <2>2. loc[p].staged # NoSlot
      BY <2>1 DEF DistributionAssumption, Slots
    <2>3. QED
      BY <1>1, <1>2, <2>1, <2>2 DEF Remembered, Whole
  <1>5. AtWork(p)'
    BY <1>1, <1>2, <1>3 DEF Remembered, AtWork, Wants, RemembersWhole, Untouched,
       StagedApart, UpdateIsAt, RollbackIsAt, MovesBack, Working, Whole, Moving, Staging
  <1>6. RuntimeInside(p) /\ "verify" \in RuntimePoints
    BY <1>1 DEF RuntimeInside, RuntimePoints
  <1>7. QED
    BY <1>1, <1>2, <1>4, <1>5, <1>6, PointerMoves DEF Remembered

LEMMA VerifyKeeps ==
    ASSUME DistributionAssumption, DistributionInv, NEW p \in Procs, Verify(p)
    PROVE  DistributionInv'
  <1>1. /\ pc[p] = "verify" /\ pc' = [pc EXCEPT ![p] = "clean"]
        /\ UNCHANGED <<slots, version, current, previous, moved, hurt, lock, loc>>
    BY DEF Verify, Goto, pointers
  <1>2. Remembered(p)
    BY <1>1, WorkRemembers DEF Working
  <1>3. pc'[p] = "clean" /\ loc'[p] = loc[p]
    BY <1>1, <1>2 DEF Remembered, RuntimeTypeOK
  <1>4. Whole(current') /\ (previous' # NoSlot => Whole(previous'))
    BY <1>1, <1>2 DEF Remembered, Whole
  <1>5. AtWork(p)'
    BY <1>1, <1>2, <1>3 DEF Remembered, AtWork, Wants, RemembersWhole, Untouched,
       StagedApart, UpdateIsAt, RollbackIsAt, MovesBack, Working, Whole, Moving, Staging
  <1>6. RuntimeInside(p) /\ "clean" \in RuntimePoints
    BY <1>1 DEF RuntimeInside, RuntimePoints
  <1>7. QED
    BY <1>1, <1>2, <1>4, <1>5, <1>6, PointerMoves DEF Remembered

LEMMA UndoCurrentKeeps ==
    ASSUME DistributionAssumption, DistributionInv, NEW p \in Procs, UndoCurrent(p)
    PROVE  DistributionInv'
  <1>1. /\ pc[p] = "undo_current" /\ pc' = [pc EXCEPT ![p] = "undo_previous"]
        /\ \/ current' = loc[p].current /\ hurt' = hurt
           \/ current' = current /\ hurt' = TRUE
        /\ UNCHANGED <<slots, version, previous, moved, lock, loc>>
    BY DEF UndoCurrent, Goto, pointers
  <1>2. Remembered(p)
    BY <1>1, WorkRemembers DEF Working
  <1>3. pc'[p] = "undo_previous" /\ loc'[p] = loc[p]
    BY <1>1, <1>2 DEF Remembered, RuntimeTypeOK
  <1>4. Whole(current') /\ (previous' # NoSlot => Whole(previous'))
    BY <1>1, <1>2 DEF Remembered, Whole
  <1>5. AtWork(p)'
    BY <1>1, <1>2, <1>3 DEF Remembered, AtWork, Wants, RemembersWhole, Untouched,
       StagedApart, UpdateIsAt, RollbackIsAt, MovesBack, Working, Whole, Moving, Staging
  <1>6. RuntimeInside(p) /\ "undo_previous" \in RuntimePoints
    BY <1>1 DEF RuntimeInside, RuntimePoints
  <1>7. QED
    BY <1>1, <1>2, <1>4, <1>5, <1>6, PointerMoves DEF Remembered

LEMMA UndoPreviousKeeps ==
    ASSUME DistributionAssumption, DistributionInv, NEW p \in Procs, UndoPrevious(p)
    PROVE  DistributionInv'
  <1>1. /\ pc[p] = "undo_previous" /\ pc' = [pc EXCEPT ![p] = "undo_staged"]
        /\ \/ previous' = loc[p].previous /\ hurt' = hurt
           \/ previous' = previous /\ hurt' = TRUE
        /\ UNCHANGED <<slots, version, current, moved, lock, loc>>
    BY DEF UndoPrevious, Goto, pointers
  <1>2. Remembered(p)
    BY <1>1, WorkRemembers DEF Working
  <1>3. pc'[p] = "undo_staged" /\ loc'[p] = loc[p]
    BY <1>1, <1>2 DEF Remembered, RuntimeTypeOK
  <1>4. Whole(current') /\ (previous' # NoSlot => Whole(previous'))
    BY <1>1, <1>2 DEF Remembered, Whole
  <1>5. AtWork(p)'
    BY <1>1, <1>2, <1>3 DEF Remembered, AtWork, Wants, RemembersWhole, Untouched,
       StagedApart, UpdateIsAt, RollbackIsAt, MovesBack, Working, Whole, Moving, Staging
  <1>6. RuntimeInside(p) /\ "undo_staged" \in RuntimePoints
    BY <1>1 DEF RuntimeInside, RuntimePoints
  <1>7. QED
    BY <1>1, <1>2, <1>4, <1>5, <1>6, PointerMoves DEF Remembered

----------------------------------------------------------------------------
(* rollback *)

LEMMA SwitchBackKeeps ==
    ASSUME DistributionAssumption, DistributionInv, NEW p \in Procs, SwitchBack(p)
    PROVE  DistributionInv'
  <1>1. /\ pc[p] = "back" /\ pc' = [pc EXCEPT ![p] = "verify_back"]
        /\ current' = loc[p].previous
        /\ UNCHANGED <<slots, version, previous, moved, hurt, lock, loc>>
    BY DEF SwitchBack, Goto, pointers
  <1>2. Remembered(p)
    BY <1>1, WorkRemembers DEF Working
  <1>3. pc'[p] = "verify_back" /\ loc'[p] = loc[p]
    BY <1>1, <1>2 DEF Remembered, RuntimeTypeOK
  <1>4. /\ current' \in Slots /\ Whole(current')
        /\ previous' # NoSlot => Whole(previous')
    <2>1. loc[p].previous # NoSlot
      BY <1>1, <1>2 DEF Remembered, AtWork, RollbackIsAt, MovesBack
    <2>2. QED
      BY <1>1, <1>2, <2>1 DEF Remembered, Whole
  <1>5. AtWork(p)'
    BY <1>1, <1>2, <1>3 DEF Remembered, AtWork, Wants, RemembersWhole, Untouched,
       StagedApart, UpdateIsAt, RollbackIsAt, MovesBack, Working, Whole, Moving, Staging
  <1>6. RuntimeInside(p) /\ "verify_back" \in RuntimePoints
    BY <1>1 DEF RuntimeInside, RuntimePoints
  <1>7. QED
    BY <1>1, <1>2, <1>4, <1>5, <1>6, PointerMoves DEF Remembered

LEMMA VerifyBackKeeps ==
    ASSUME DistributionAssumption, DistributionInv, NEW p \in Procs, VerifyBack(p)
    PROVE  DistributionInv'
  <1>1. /\ pc[p] = "verify_back" /\ pc' = [pc EXCEPT ![p] = "consume"]
        /\ UNCHANGED <<slots, version, current, previous, moved, hurt, lock, loc>>
    BY DEF VerifyBack, Goto, pointers
  <1>2. Remembered(p)
    BY <1>1, WorkRemembers DEF Working
  <1>3. pc'[p] = "consume" /\ loc'[p] = loc[p]
    BY <1>1, <1>2 DEF Remembered, RuntimeTypeOK
  <1>4. Whole(current') /\ (previous' # NoSlot => Whole(previous'))
    BY <1>1, <1>2 DEF Remembered, Whole
  <1>5. AtWork(p)'
    BY <1>1, <1>2, <1>3 DEF Remembered, AtWork, Wants, RemembersWhole, Untouched,
       StagedApart, UpdateIsAt, RollbackIsAt, MovesBack, Working, Whole, Moving, Staging
  <1>6. RuntimeInside(p) /\ "consume" \in RuntimePoints
    BY <1>1 DEF RuntimeInside, RuntimePoints
  <1>7. QED
    BY <1>1, <1>2, <1>4, <1>5, <1>6, PointerMoves DEF Remembered

LEMMA ConsumeKeeps ==
    ASSUME DistributionAssumption, DistributionInv, NEW p \in Procs, Consume(p)
    PROVE  DistributionInv'
  <1>1. /\ pc[p] = "consume" /\ pc' = [pc EXCEPT ![p] = "clean_back"]
        /\ previous' = NoSlot
        /\ UNCHANGED <<slots, version, current, moved, hurt, lock, loc>>
    BY DEF Consume, Goto, pointers
  <1>2. Remembered(p)
    BY <1>1, WorkRemembers DEF Working
  <1>3. pc'[p] = "clean_back" /\ loc'[p] = loc[p]
    BY <1>1, <1>2 DEF Remembered, RuntimeTypeOK
  <1>4. Whole(current') /\ (previous' # NoSlot => Whole(previous'))
    BY <1>1, <1>2 DEF Remembered, Whole
  <1>5. AtWork(p)'
    BY <1>1, <1>2, <1>3 DEF Remembered, AtWork, Wants, RemembersWhole, Untouched,
       StagedApart, UpdateIsAt, RollbackIsAt, MovesBack, Working, Whole, Moving, Staging
  <1>6. RuntimeInside(p) /\ "clean_back" \in RuntimePoints
    BY <1>1 DEF RuntimeInside, RuntimePoints
  <1>7. QED
    BY <1>1, <1>2, <1>4, <1>5, <1>6, PointerMoves DEF Remembered

LEMMA FailMoveKeeps ==
    ASSUME DistributionAssumption, DistributionInv, NEW p \in Procs, FailMove(p)
    PROVE  DistributionInv'
  <1> DEFINE l == [loc[p] EXCEPT !.back = moved]
  <1>1. /\ pc[p] = "move" /\ pc' = [pc EXCEPT ![p] = "move_back"]
        /\ moved # Parts /\ loc' = [loc EXCEPT ![p] = l]
        /\ UNCHANGED <<slots, version, current, previous, moved, hurt, lock>>
    BY DEF FailMove, Goto, pointers
  <1>2. Remembered(p)
    BY <1>1, WorkRemembers DEF Working
  <1>3. loc[p] \in Local /\ moved \in SUBSET Parts
    BY <1>2 DEF Remembered, SharedTypes
  <1>4. /\ l \in Local /\ l.back = moved /\ l.want = loc[p].want
        /\ l.current = loc[p].current /\ l.previous = loc[p].previous
    BY <1>3 DEF Local
  <1> HIDE DEF l
  <1>5. pc'[p] = "move_back" /\ loc'[p] = l
    BY <1>1, <1>2 DEF Remembered, RuntimeTypeOK
  <1>6. AtWork(p)'
    <2>1. AtWork(p)
      BY <1>2 DEF Remembered
    <2>2. Wants(p)' /\ Untouched(p)'
      BY <1>1, <1>4, <1>5, <2>1 DEF AtWork, Wants, Untouched, Moving
    <2>3. RemembersWhole(p)'
      BY <1>1, <1>4, <1>5, <2>1 DEF AtWork, RemembersWhole, Whole, Working, Moving
    <2>4. StagedApart(p)' /\ UpdateIsAt(p)' /\ RollbackIsAt(p)'
      BY <1>5 DEF StagedApart, UpdateIsAt, RollbackIsAt, Staging
    <2>5. MovesBack(p)'
      BY <1>1, <1>4, <1>5 DEF MovesBack
    <2>6. QED
      BY <2>2, <2>3, <2>4, <2>5 DEF AtWork
  <1>7. SharedTypes' /\ Versioned' /\ PointersWhole'
    BY <1>1, <1>2 DEF Remembered, SharedTypes, Versioned, PointersWhole, Whole
  <1>8. RuntimeInside(p) /\ "move_back" \in RuntimePoints
    BY <1>1 DEF RuntimeInside, RuntimePoints
  <1>9. QED
    BY <1>1, <1>2, <1>4, <1>6, <1>7, <1>8, WorkMoves

LEMMA FailKeeps ==
    ASSUME DistributionAssumption, DistributionInv, NEW p \in Procs, Fail(p)
    PROVE  DistributionInv'
  <1> DEFINE x == CASE pc[p] = "verify" -> "undo_current"
                    [] pc[p] = "switch" -> "undo_previous"
                    [] OTHER -> "undo_staged"
  <1>1. /\ pc[p] \in {"extract", "keep", "switch", "verify"}
        /\ pc' = [pc EXCEPT ![p] = x]
        /\ UNCHANGED <<slots, version, current, previous, moved, hurt, lock, loc>>
    BY DEF Fail, Goto, pointers
  <1>2. /\ x \in {"undo_current", "undo_previous", "undo_staged"}
        /\ x = "undo_current" <=> pc[p] = "verify"
        /\ x = "undo_previous" <=> pc[p] = "switch"
    OBVIOUS
  <1> HIDE DEF x
  <1>3. Remembered(p)
    BY <1>1, WorkRemembers DEF Working
  <1>4. pc'[p] = x /\ loc'[p] = loc[p]
    BY <1>1, <1>3 DEF Remembered, RuntimeTypeOK
  <1>5. AtWork(p)'
    <2>1. AtWork(p)
      BY <1>3 DEF Remembered
    <2>2. Wants(p)' /\ Untouched(p)' /\ RollbackIsAt(p)' /\ MovesBack(p)'
      BY <1>1, <1>2, <1>4, <2>1 DEF AtWork, Wants, Untouched, RollbackIsAt, MovesBack, Moving
    <2>3. RemembersWhole(p)'
      BY <1>1, <1>2, <1>4, <2>1 DEF AtWork, RemembersWhole, Whole, Working, Moving
    <2>4. StagedApart(p)'
      BY <1>1, <1>2, <1>4, <2>1 DEF AtWork, StagedApart, Staging
    <2>5. UpdateIsAt(p)'
      BY <1>1, <1>2, <1>4, <2>1 DEF AtWork, UpdateIsAt, Untouched
    <2>6. QED
      BY <2>2, <2>3, <2>4, <2>5 DEF AtWork
  <1>6. /\ RuntimeInside(p) /\ x \in RuntimePoints /\ x \notin {"idle", "checked"}
        /\ Whole(current') /\ (previous' # NoSlot => Whole(previous'))
    BY <1>1, <1>2, <1>3 DEF RuntimeInside, RuntimePoints, Remembered, Whole
  <1>7. QED
    BY <1>1, <1>3, <1>5, <1>6, PointerMoves DEF Remembered

----------------------------------------------------------------------------
(* The parts of the installation *)

LEMMA MoveKeeps ==
    ASSUME DistributionAssumption, DistributionInv, NEW p \in Procs, Move(p)
    PROVE  DistributionInv'
  <1>1. PICK part \in Parts : moved' = moved \cup {part}
    BY DEF Move
  <1>2. /\ pc[p] = "move"
        /\ UNCHANGED <<slots, version, current, previous, hurt, lock, pc, loc>>
    BY DEF Move, pointers
  <1>3. Remembered(p)
    BY <1>2, WorkRemembers DEF Working
  <1>4. moved' \in SUBSET Parts
    BY <1>1, <1>3 DEF Remembered, SharedTypes
  <1>5. AtWork(p)'
    BY <1>2, <1>3 DEF Remembered, AtWork, Wants, RemembersWhole, Untouched,
       StagedApart, UpdateIsAt, RollbackIsAt, MovesBack, Working, Whole, Moving, Staging
  <1>6. SharedTypes' /\ Versioned' /\ PointersWhole'
    BY <1>2, <1>3, <1>4 DEF Remembered, SharedTypes, Versioned, PointersWhole, Whole
  <1>7. RuntimeInside(p) /\ pc[p] \notin {"idle", "checked"}
    BY <1>2 DEF RuntimeInside
  <1>8. QED
    BY <1>2, <1>5, <1>6, <1>7, LocalAt, WorkMoves

LEMMA MoveBackKeeps ==
    ASSUME DistributionAssumption, DistributionInv, NEW p \in Procs, MoveBack(p)
    PROVE  DistributionInv'
  <1>1. PICK part \in loc[p].back :
            /\ loc' = [loc EXCEPT ![p].back = @ \ {part}]
            /\ \/ moved' = moved \ {part} /\ hurt' = hurt
               \/ moved' = moved /\ hurt' = TRUE
    BY DEF MoveBack
  <1> DEFINE l == [loc[p] EXCEPT !.back = @ \ {part}]
  <1>2. /\ pc[p] = "move_back" /\ loc' = [loc EXCEPT ![p] = l]
        /\ UNCHANGED <<slots, version, current, previous, lock, pc>>
    BY <1>1 DEF MoveBack, pointers
  <1>3. Remembered(p)
    BY <1>2, WorkRemembers DEF Working
  <1>4. /\ loc[p] \in Local /\ moved \in SUBSET Parts /\ hurt \in BOOLEAN
        /\ MovesBack(p)
    BY <1>3 DEF Remembered, SharedTypes, AtWork
  <1>5. /\ l \in Local /\ l.back = loc[p].back \ {part} /\ l.want = loc[p].want
        /\ l.current = loc[p].current /\ l.previous = loc[p].previous
    BY <1>4 DEF Local
  <1> HIDE DEF l
  <1>6. pc'[p] = "move_back" /\ loc'[p] = l
    BY <1>2, <1>3 DEF Remembered, RuntimeTypeOK
  <1>7. /\ moved' \in SUBSET Parts /\ hurt' \in BOOLEAN /\ (hurt => hurt')
        /\ l.back \subseteq moved' /\ moved' # Parts
        /\ moved' = l.back \/ hurt'
    <2>1. part \in moved /\ moved # Parts /\ loc[p].back \subseteq moved
          /\ (moved = loc[p].back \/ hurt)
      BY <1>2, <1>4 DEF MovesBack
    <2>2. CASE moved' = moved \ {part} /\ hurt' = hurt
      BY <1>4, <1>5, <2>1, <2>2
    <2>3. CASE moved' = moved /\ hurt' = TRUE
      BY <1>4, <1>5, <2>1, <2>3
    <2>4. QED
      BY <1>1, <2>2, <2>3
  <1>8. AtWork(p)'
    <2>1. AtWork(p)
      BY <1>3 DEF Remembered
    <2>2. Wants(p)' /\ Untouched(p)'
      BY <1>2, <1>5, <1>6, <2>1 DEF AtWork, Wants, Untouched, Moving
    <2>3. RemembersWhole(p)'
      BY <1>2, <1>5, <1>6, <2>1 DEF AtWork, RemembersWhole, Whole, Working, Moving
    <2>4. StagedApart(p)' /\ UpdateIsAt(p)' /\ RollbackIsAt(p)'
      BY <1>6 DEF StagedApart, UpdateIsAt, RollbackIsAt, Staging
    <2>5. MovesBack(p)'
      BY <1>6, <1>7 DEF MovesBack
    <2>6. QED
      BY <2>2, <2>3, <2>4, <2>5 DEF AtWork
  <1>9. SharedTypes' /\ Versioned' /\ PointersWhole'
    BY <1>2, <1>3, <1>7 DEF Remembered, SharedTypes, Versioned, PointersWhole, Whole
  <1>10. /\ RuntimeInside(p) /\ "move_back" \in RuntimePoints
         /\ pc' = [pc EXCEPT ![p] = "move_back"]
    BY <1>2, LocalAt DEF RuntimeInside, RuntimePoints
  <1>11. QED
    BY <1>2, <1>5, <1>7, <1>8, <1>9, <1>10, WorkMoves

----------------------------------------------------------------------------
(* The slots that are given up at the end *)

LEMMA CleanKeeps ==
    ASSUME DistributionAssumption, DistributionInv, NEW p \in Procs, Clean(p)
    PROVE  DistributionInv'
  <1>1. PICK left \in {"none", "partial"} :
            slots' = [s \in Slots |-> IF s \in Superseded(p) THEN left ELSE slots[s]]
    BY DEF Clean
  <1>2. /\ pc[p] = "clean" /\ End(p)
        /\ UNCHANGED <<version, current, previous, moved, hurt>>
    BY DEF Clean, pointers
  <1>3. Remembered(p)
    BY <1>2, WorkRemembers DEF Working
  <1>4. /\ current = loc[p].staged /\ previous = loc[p].current
        /\ loc[p].staged # loc[p].previous
    BY <1>2, <1>3 DEF Remembered, AtWork, UpdateIsAt, StagedApart, Staging
  <1>5. current \notin Superseded(p) /\ previous \notin Superseded(p)
    BY <1>4 DEF Superseded
  <1>6. \A s \in Slots : /\ \/ slots'[s] = slots[s]
                            \/ slots'[s] = left /\ slots[s] = "complete"
                         /\ s \notin Superseded(p) => slots'[s] = slots[s]
    <2>1. ASSUME NEW s \in Slots, s \in Superseded(p)
          PROVE  slots[s] = "complete"
      BY <1>3, <2>1 DEF Superseded, Remembered, Whole
    <2>2. \A s \in Slots : slots'[s] = IF s \in Superseded(p) THEN left ELSE slots[s]
      BY <1>1
    <2>3. QED
      BY <2>1, <2>2
  <1>7. lock' \in Procs \cup {NoProc, Stale}
    BY <1>2, <1>3 DEF End, Remembered, SharedTypes
  <1>8. SharedTypes'
    <2>1. slots' \in [Slots -> {"none", "partial", "complete"}]
      BY <1>1, <1>3 DEF Remembered, SharedTypes
    <2>2. QED
      BY <1>2, <1>3, <1>7, <2>1 DEF Remembered, SharedTypes
  <1>9. Versioned'
    BY <1>2, <1>3, <1>6 DEF Remembered, Versioned
  <1>10. PointersWhole'
    BY <1>2, <1>3, <1>5, <1>6 DEF Remembered, PointersWhole, Whole
  <1>11. RuntimeInside(p)
    BY <1>2 DEF RuntimeInside
  <1>12. QED
    BY <1>2, <1>8, <1>9, <1>10, <1>11, EndMoves

(* One slot is given up, and no pointer names it.                          *)
LEMMA DropMoves ==
    ASSUME DistributionAssumption, DistributionInv, NEW p \in Procs, Remembered(p),
           RuntimeInside(p), End(p), NEW s \in Slots, NEW left \in {"none", "partial"},
           slots[s] # "none", slots' = [slots EXCEPT ![s] = left],
           s # current, s # previous,
           UNCHANGED <<version, current, previous, moved, hurt>>
    PROVE  DistributionInv'
  <1>1. /\ slots'[s] = left
        /\ \A r \in Slots \ {s} : slots'[r] = slots[r]
    BY DEF Remembered, SharedTypes
  <1>2. lock' \in Procs \cup {NoProc, Stale}
    BY DEF End, Remembered, SharedTypes
  <1>3. SharedTypes'
    BY <1>2 DEF Remembered, SharedTypes
  <1>4. Versioned'
    BY <1>1 DEF Remembered, Versioned
  <1>5. PointersWhole'
    BY <1>1 DEF Remembered, PointersWhole, Whole
  <1>6. QED
    BY <1>3, <1>4, <1>5, EndMoves

LEMMA UndoStagedKeeps ==
    ASSUME DistributionAssumption, DistributionInv, NEW p \in Procs, UndoStaged(p)
    PROVE  DistributionInv'
  <1>1. /\ pc[p] = "undo_staged" /\ End(p)
        /\ slots' = IF current = loc[p].staged THEN slots
                    ELSE [slots EXCEPT ![loc[p].staged] = "none"]
        /\ UNCHANGED <<version, current, previous, moved, hurt>>
    BY DEF UndoStaged, pointers
  <1>2. Remembered(p) /\ RuntimeInside(p)
    BY <1>1, WorkRemembers DEF Working, RuntimeInside
  <1>3. CASE current = loc[p].staged
    <2>1. lock' \in Procs \cup {NoProc, Stale} /\ slots' = slots
      BY <1>1, <1>2, <1>3 DEF End, Remembered, SharedTypes
    <2>2. SharedTypes' /\ Versioned' /\ PointersWhole'
      BY <1>1, <1>2, <2>1 DEF Remembered, SharedTypes, Versioned, PointersWhole, Whole
    <2>3. QED
      BY <1>1, <1>2, <2>2, EndMoves
  <1>4. CASE current # loc[p].staged
    <2>1. /\ loc[p].staged \in Slots /\ slots[loc[p].staged] # "none"
          /\ loc[p].staged \notin {loc[p].current, loc[p].previous}
          /\ previous \in {loc[p].current, loc[p].previous}
      BY <1>1, <1>2 DEF Remembered, AtWork, StagedApart, UpdateIsAt, Staging
    <2>2. slots' = [slots EXCEPT ![loc[p].staged] = "none"]
      BY <1>1, <1>4
    <2>3. QED
      BY <1>1, <1>2, <1>4, <2>1, <2>2, DropMoves
  <1>5. QED
    BY <1>3, <1>4

LEMMA CleanBackKeeps ==
    ASSUME DistributionAssumption, DistributionInv, NEW p \in Procs, CleanBack(p)
    PROVE  DistributionInv'
  <1>1. PICK left \in {"none", "partial"} :
            slots' = [slots EXCEPT ![loc[p].current] = left]
    BY DEF CleanBack
  <1>2. /\ pc[p] = "clean_back" /\ End(p)
        /\ UNCHANGED <<version, current, previous, moved, hurt>>
    BY DEF CleanBack, pointers
  <1>3. Remembered(p) /\ RuntimeInside(p)
    BY <1>2, WorkRemembers DEF Working, RuntimeInside
  <1>4. /\ current = loc[p].previous /\ loc[p].previous # loc[p].current
        /\ previous = NoSlot
    BY <1>2, <1>3 DEF Remembered, AtWork, RollbackIsAt, MovesBack
  <1>5. /\ loc[p].current \in Slots /\ slots[loc[p].current] # "none"
        /\ loc[p].current # NoSlot
    BY <1>3 DEF Remembered, Whole
  <1>6. QED
    BY <1>1, <1>2, <1>3, <1>4, <1>5, DropMoves

LEMMA FailBackKeeps ==
    ASSUME DistributionAssumption, DistributionInv, NEW p \in Procs, FailBack(p)
    PROVE  DistributionInv'
  <1>1. /\ pc[p] \in {"back", "verify_back", "consume"} /\ End(p)
        /\ \/ current' = current /\ hurt' = hurt
           \/ current' = loc[p].current /\ hurt' = hurt
           \/ current' = current /\ hurt' = TRUE
        /\ UNCHANGED <<slots, version, previous, moved>>
    BY DEF FailBack
  <1>2. Remembered(p) /\ RuntimeInside(p)
    BY <1>1, WorkRemembers DEF Working, RuntimeInside
  <1>3. current' \in Slots /\ Whole(current')
    BY <1>1, <1>2 DEF Remembered, Whole
  <1>4. lock' \in Procs \cup {NoProc, Stale}
    BY <1>1, <1>2 DEF End, Remembered, SharedTypes
  <1>5. SharedTypes' /\ Versioned' /\ PointersWhole'
    BY <1>1, <1>2, <1>3, <1>4 DEF Remembered, SharedTypes, Versioned,
       PointersWhole, Whole
  <1>6. QED
    BY <1>1, <1>2, <1>5, EndMoves

----------------------------------------------------------------------------

LEMMA DistributionStep ==
    ASSUME DistributionAssumption, DistributionInv, [Next]_vars
    PROVE  DistributionInv'
  <1>1. ASSUME NEW p \in Procs, NEW op \in Operations, NEW want \in Versions,
               Begin(p, op, want)
        PROVE  DistributionInv'
    BY <1>1, BeginKeeps
  <1>2. ASSUME NEW p \in Procs,
               \/ Acquire(p) \/ InProgress(p) \/ Recheck(p) \/ Refuse(p)
               \/ DownloadFails(p) \/ MovedBack(p) \/ Uninstalled(p) \/ Crash(p)
        PROVE  DistributionInv'
    BY <1>2, EntryKeeps, RecheckKeeps, GiveUpKeeps, CrashKeeps
  <1>3. ASSUME NEW p \in Procs,
               \/ MakeSlot(p) \/ Extract(p) \/ KeepPrevious(p) \/ Switch(p)
               \/ Verify(p) \/ Clean(p) \/ Fail(p) \/ UndoCurrent(p)
               \/ UndoPrevious(p) \/ UndoStaged(p)
        PROVE  DistributionInv'
    BY <1>3, MakeSlotKeeps, ExtractKeeps, KeepPreviousKeeps, SwitchKeeps,
       VerifyKeeps, CleanKeeps, FailKeeps, UndoCurrentKeeps, UndoPreviousKeeps,
       UndoStagedKeeps
  <1>4. ASSUME NEW p \in Procs,
               \/ SwitchBack(p) \/ VerifyBack(p) \/ Consume(p) \/ CleanBack(p)
               \/ FailBack(p) \/ Move(p) \/ FailMove(p) \/ MoveBack(p)
        PROVE  DistributionInv'
    BY <1>4, SwitchBackKeeps, VerifyBackKeeps, ConsumeKeeps, CleanBackKeeps,
       FailBackKeeps, MoveKeeps, FailMoveKeeps, MoveBackKeeps
  <1>5. CASE RemoveLock
    BY <1>5, RemoveLockKeeps
  <1>6. CASE UNCHANGED vars
    BY <1>6 DEF vars, pointers, DistributionInv, RuntimeTypeOK, SharedTypes,
       LockIsInside, RuntimeInside, Versioned, PointersWhole, Whole, AtWork, Wants,
       RemembersWhole, Untouched, StagedApart, UpdateIsAt, RollbackIsAt, MovesBack, Working
  <1>7. QED
    BY <1>1, <1>2, <1>3, <1>4, <1>5, <1>6 DEF Next

LEMMA DistributionInvariant == DistributionAssumption => (Spec => []DistributionInv)
  <1> SUFFICES ASSUME DistributionAssumption
               PROVE  Spec => []DistributionInv
    OBVIOUS
  <1>1. QED
    BY DistributionInit, DistributionStep, PTL DEF Spec

(* At every moment, and after any crashes and failed undoings, the runtime *)
(* the launcher starts is whole, and so is the one a rollback returns to.  *)
THEOREM PointersStayWhole == DistributionAssumption => (Spec => []PointersWhole)
  <1>1. DistributionInv => PointersWhole
    BY DEF DistributionInv
  <1>2. QED
    BY <1>1, DistributionInvariant, PTL

----------------------------------------------------------------------------
(* What is installed, and what can be rolled back to *)

Installed ==
    IF Gone THEN None ELSE IF Broken THEN "broken" ELSE VersionOf(CurrentNow)

Fallback ==
    IF Gone \/ PreviousNow \in {NoSlot, CurrentNow} THEN None
    ELSE VersionOf(PreviousNow)

(* While slot c is the current one and slot q the previous one.            *)
FallbackOf(c, q) == IF q \in {NoSlot, c} THEN None ELSE version[q]

Cleaning == {"clean", "clean_back"}

CurrentFor(p) == IF pc[p] \in Cleaning THEN current ELSE loc[p].current

PreviousFor(p) == IF pc[p] \in Cleaning THEN previous ELSE loc[p].previous

TentativePoints ==
    {"switch", "verify", "verify_back", "consume",
     "undo_current", "undo_previous", "undo_staged"}

(* Until its last pointer is switched and verified an operation has not    *)
(* happened.                                                               *)
SeenAtWork ==
    \A p \in Procs : Working(p) =>
        /\ Installed = version[CurrentFor(p)]
        /\ Fallback = FallbackOf(CurrentFor(p), PreviousFor(p))
        /\ CurrentFor(p) \in Slots /\ version[CurrentFor(p)] \in Versions

(* While nobody works the pointers tell, unless parts are gone.            *)
SeenAtRest ==
    (\A p \in Procs : ~Working(p)) =>
        /\ Installed = IF moved = Parts THEN None
                       ELSE IF moved # {} THEN "broken" ELSE version[current]
        /\ Fallback = IF moved = Parts THEN None ELSE FallbackOf(current, previous)

LEMMA ViewAtWork == DistributionAssumption /\ DistributionInv => SeenAtWork
  <1> SUFFICES ASSUME DistributionAssumption, DistributionInv,
                      NEW p \in Procs, Working(p)
               PROVE  /\ Installed = version[CurrentFor(p)]
                      /\ Fallback = FallbackOf(CurrentFor(p), PreviousFor(p))
                      /\ CurrentFor(p) \in Slots /\ version[CurrentFor(p)] \in Versions
    BY DEF SeenAtWork
  <1>1. Remembered(p)
    BY WorkRemembers
  <1>2. \A q \in Procs \ {p} : pc[q] \in {"idle", "checked"}
    BY RuntimeAlone DEF Working, RuntimeInside
  <1>3. Tentative = IF pc[p] \in TentativePoints THEN {p} ELSE {}
    BY <1>2 DEF Tentative, TentativePoints
  <1>4. ASSUME Tentative # {}
        PROVE  (CHOOSE q \in Tentative : TRUE) = p
    BY <1>3, <1>4
  <1>5. CurrentNow = CurrentFor(p) /\ PreviousNow = PreviousFor(p)
    <2>1. CASE pc[p] \in TentativePoints
      BY <1>3, <1>4, <2>1 DEF CurrentNow, PreviousNow, CurrentFor, PreviousFor,
         TentativePoints, Cleaning
    <2>2. CASE pc[p] \in Cleaning
      BY <1>3, <2>2 DEF CurrentNow, PreviousNow, CurrentFor, PreviousFor,
         TentativePoints, Cleaning
    <2>3. CASE pc[p] \notin TentativePoints \cup Cleaning
      <3>1. pc[p] \in {"download", "extract", "keep", "back"} \cup Moving
        BY <2>3, LocalAt DEF RuntimePoints, Moving, TentativePoints, Cleaning, Working
      <3>2. current = loc[p].current /\ previous = loc[p].previous
        BY <1>1, <3>1 DEF Remembered, AtWork, Untouched
      <3>3. QED
        BY <1>3, <2>3, <3>2 DEF CurrentNow, PreviousNow, CurrentFor, PreviousFor
    <2>4. QED
      BY <2>1, <2>2, <2>3
  <1>6. ~Gone /\ ~Broken
    <2>1. /\ pc[p] \notin Moving => moved = {}
          /\ pc[p] = "move_back" => moved # Parts
          /\ pc[p] \in Moving <=> pc[p] \in {"move", "move_back"}
      BY <1>1 DEF Remembered, AtWork, RemembersWhole, MovesBack, Moving
    <2>2. ~Gone
      BY <2>1, PartsThere DEF Gone
    <2>3. ~Broken
      BY <2>1 DEF Broken
    <2>4. QED
      BY <2>2, <2>3
  <1>7. /\ CurrentFor(p) \in Slots /\ Whole(CurrentFor(p))
        /\ PreviousFor(p) # NoSlot => PreviousFor(p) \in Slots /\ Whole(PreviousFor(p))
    BY <1>1 DEF Remembered, CurrentFor, PreviousFor
  <1>8. /\ VersionOf(CurrentFor(p)) = version[CurrentFor(p)]
        /\ PreviousFor(p) # NoSlot => VersionOf(PreviousFor(p)) = version[PreviousFor(p)]
    BY <1>7 DEF VersionOf, Whole
  <1>9. version[CurrentFor(p)] \in Versions
    BY <1>1, <1>7 DEF Remembered, Versioned, Whole
  <1>10. QED
    BY <1>5, <1>6, <1>7, <1>8, <1>9 DEF Installed, Fallback, FallbackOf

LEMMA ViewAtRest == DistributionAssumption /\ DistributionInv => SeenAtRest
  <1> SUFFICES ASSUME DistributionAssumption, DistributionInv,
                      \A p \in Procs : ~Working(p)
               PROVE  /\ Installed = IF moved = Parts THEN None
                                     ELSE IF moved # {} THEN "broken" ELSE version[current]
                      /\ Fallback = IF moved = Parts THEN None
                                    ELSE FallbackOf(current, previous)
    BY DEF SeenAtRest
  <1>1. \A p \in Procs : pc[p] \in {"idle", "checked", "locked"}
    BY DEF Working
  <1>2. Tentative = {}
    BY <1>1 DEF Tentative
  <1>3. CurrentNow = current /\ PreviousNow = previous
    BY <1>2 DEF CurrentNow, PreviousNow
  <1>4. Parts # {}
    BY PartsThere
  <1>5. (Gone <=> moved = Parts) /\ (Broken <=> moved # {} /\ moved # Parts)
    BY <1>1, <1>4 DEF Gone, Broken
  <1>6. /\ VersionOf(current) = version[current]
        /\ previous # NoSlot => VersionOf(previous) = version[previous]
    BY DEF VersionOf, Whole, DistributionInv, PointersWhole
  <1>7. QED
    BY <1>3, <1>4, <1>5, <1>6 DEF Installed, Fallback, FallbackOf

(* Before and after a step.                                                *)
LEMMA Seen ==
    ASSUME DistributionAssumption, DistributionInv, DistributionInv'
    PROVE  SeenAtWork /\ SeenAtRest /\ SeenAtWork' /\ SeenAtRest'
  <1>1. (DistributionAssumption /\ DistributionInv => SeenAtWork)'
    BY ViewAtWork, PTL
  <1>2. (DistributionAssumption /\ DistributionInv => SeenAtRest)'
    BY ViewAtRest, PTL
  <1>3. QED
    BY <1>1, <1>2, ViewAtWork, ViewAtRest

(* The steps of the installed runtime, in these terms.                     *)
LEMMA RuntimeSteps ==
    ASSUME hurt \in BOOLEAN, hurt' \in BOOLEAN, hurt => hurt',
           \/ Installed' = Installed /\ Fallback' = Fallback
           \/ Installed' = Installed /\ hurt' /\ Fallback' \in {Fallback, None}
           \/ /\ Installed \in Versions /\ Installed' \in Versions \ {Installed}
              /\ \/ Fallback' = Installed
                 \/ hurt' /\ Fallback' \in {Fallback, None}
           \/ /\ Installed \in Versions /\ Fallback # None
              /\ Installed' = Fallback /\ Fallback' = None
           \/ Installed \in Versions /\ Installed' = None /\ Fallback' = None
           \/ /\ Installed \in Versions /\ hurt'
              /\ Installed' = "broken" /\ Fallback' = Fallback
    PROVE  [Runtime!Next]_Runtime!vars
  BY DEF Runtime!Next, Runtime!vars, Runtime!Suffer, Runtime!Update,
     Runtime!Rollback, Runtime!Uninstall, Runtime!Forget, Runtime!Break,
     Installed, Fallback

----------------------------------------------------------------------------
(* Every step is one of the installed runtime *)

SameRuntime == Installed' = Installed /\ Fallback' = Fallback

(* Who is outside, and stays there, changes nothing.                       *)
LEMMA OutsideIsSame ==
    ASSUME DistributionAssumption, DistributionInv, DistributionInv',
           NEW p \in Procs, ~Working(p), ~Working(p)',
           \A q \in Procs \ {p} : pc'[q] = pc[q] /\ loc'[q] = loc[q],
           UNCHANGED <<slots, version, current, previous, moved>>
    PROVE  SameRuntime
  <1>1. SeenAtWork /\ SeenAtRest /\ SeenAtWork' /\ SeenAtRest'
    BY Seen
  <1>2. CASE \E q \in Procs : Working(q)
    <2>1. PICK q \in Procs : Working(q)
      BY <1>2
    <2>2. q # p /\ pc'[q] = pc[q] /\ loc'[q] = loc[q]
      BY <2>1
    <2>3. Working(q)' /\ CurrentFor(q)' = CurrentFor(q) /\ PreviousFor(q)' = PreviousFor(q)
      BY <2>1, <2>2 DEF Working, CurrentFor, PreviousFor
    <2>4. /\ Installed = version[CurrentFor(q)]
          /\ Fallback = FallbackOf(CurrentFor(q), PreviousFor(q))
      BY <1>1, <2>1 DEF SeenAtWork
    <2>5. /\ Installed' = version'[CurrentFor(q)']
          /\ Fallback' = FallbackOf(CurrentFor(q), PreviousFor(q))'
      BY <1>1, <2>3 DEF SeenAtWork
    <2>6. FallbackOf(CurrentFor(q), PreviousFor(q))' = FallbackOf(CurrentFor(q), PreviousFor(q))
      BY <2>3 DEF FallbackOf
    <2>7. QED
      BY <2>3, <2>4, <2>5, <2>6 DEF SameRuntime
  <1>3. CASE \A q \in Procs : ~Working(q)
    <2>1. \A q \in Procs : ~Working(q)'
      BY <1>3 DEF Working
    <2>2. FallbackOf(current, previous)' = FallbackOf(current, previous)
      BY DEF FallbackOf
    <2>3. QED
      BY <1>1, <1>3, <2>1, <2>2 DEF SeenAtRest, SameRuntime
  <1>4. QED
    BY <1>2, <1>3

(* Who works on, without having switched and verified the last pointer.    *)
LEMMA WorkingOnIsSame ==
    ASSUME DistributionAssumption, DistributionInv, DistributionInv',
           NEW p \in Procs, Working(p), Working(p)',
           pc[p] \notin Cleaning, pc'[p] \notin Cleaning,
           loc'[p].current = loc[p].current, loc'[p].previous = loc[p].previous,
           \A s \in Slots : version[s] \in Versions => version'[s] = version[s]
    PROVE  SameRuntime
  <1>1. SeenAtWork /\ SeenAtWork'
    BY Seen
  <1>2. Remembered(p)
    BY WorkRemembers
  <1>3. /\ CurrentFor(p) = loc[p].current /\ CurrentFor(p)' = loc[p].current
        /\ PreviousFor(p) = loc[p].previous /\ PreviousFor(p)' = loc[p].previous
    BY DEF CurrentFor, PreviousFor
  <1>4. /\ version'[loc[p].current] = version[loc[p].current]
        /\ loc[p].previous # NoSlot =>
              version'[loc[p].previous] = version[loc[p].previous]
    BY <1>2 DEF Remembered, Versioned, Whole
  <1>5. FallbackOf(CurrentFor(p), PreviousFor(p))' = FallbackOf(CurrentFor(p), PreviousFor(p))
    BY <1>3, <1>4 DEF FallbackOf
  <1>6. QED
    BY <1>1, <1>3, <1>4, <1>5 DEF SeenAtWork, SameRuntime

(* Who stops working leaves what the pointers say.                         *)
LEMMA Leaving ==
    ASSUME DistributionAssumption, DistributionInv, DistributionInv',
           NEW p \in Procs, Working(p), ~Working(p)',
           \A q \in Procs \ {p} : pc'[q] = pc[q],
           version' = version, moved' = moved
    PROVE  /\ Installed = version[CurrentFor(p)] /\ Installed \in Versions
           /\ Fallback = FallbackOf(CurrentFor(p), PreviousFor(p))
           /\ Installed' = IF moved = Parts THEN None
                           ELSE IF moved # {} THEN "broken" ELSE version[current']
           /\ Fallback' = IF moved = Parts THEN None ELSE FallbackOf(current', previous')
           /\ moved \in SUBSET Parts
  <1>1. SeenAtWork /\ SeenAtRest'
    BY Seen
  <1>2. \A q \in Procs : ~Working(q)'
    BY RuntimeAlone DEF Working, RuntimeInside
  <1>3. FallbackOf(current, previous)' = FallbackOf(current', previous')
    BY DEF FallbackOf
  <1>4. moved \in SUBSET Parts
    BY DEF DistributionInv, RuntimeTypeOK, SharedTypes
  <1>5. QED
    BY <1>1, <1>2, <1>3, <1>4 DEF SeenAtWork, SeenAtRest

(* The end of an update, done, undone, half undone or interrupted.         *)
LEMMA UpdateEnds ==
    ASSUME DistributionAssumption, DistributionInv, DistributionInv',
           NEW p \in Procs, ~Working(p)',
           \A q \in Procs \ {p} : pc'[q] = pc[q],
           UNCHANGED <<version, moved, current, previous>>,
           hurt => hurt', hurt' \in BOOLEAN,
           pc[p] \in Staging \ {"clean"}, pc[p] = "undo_staged" \/ hurt'
    PROVE  [Runtime!Next]_Runtime!vars
  <1> DEFINE c == loc[p].current
             q == loc[p].previous
             s == loc[p].staged
  <1>1. Working(p) /\ Remembered(p)
    BY WorkRemembers DEF Working, Staging
  <1>2. CurrentFor(p) = c /\ PreviousFor(p) = q
    BY DEF CurrentFor, PreviousFor, Cleaning, Staging
  <1>3. moved = {}
    BY <1>1 DEF Remembered, AtWork, RemembersWhole, Staging, Moving
  <1>4. /\ Installed = version[c] /\ Installed \in Versions
        /\ Fallback = FallbackOf(c, q)
        /\ Installed' = version[current] /\ Fallback' = FallbackOf(current, previous)
    BY <1>1, <1>2, <1>3, Leaving, PartsThere
  <1>5. /\ version[s] \in Versions /\ version[s] # version[c]
        /\ s \notin {c, q} /\ s \in Slots
    BY <1>1 DEF Remembered, AtWork, StagedApart, Wants, Staging
  <1>6. /\ current = c \/ (current = s /\ hurt')
        /\ previous = q \/ (previous = c /\ hurt')
    BY <1>1 DEF Remembered, AtWork, Untouched, UpdateIsAt, Staging
  <1>7. c # NoSlot /\ s # NoSlot
    BY <1>1, <1>5 DEF Remembered, DistributionAssumption, Slots
  <1> HIDE DEF c, q, s
  <1>8. \/ Installed' = Installed /\ Fallback' = Fallback
        \/ Installed' = Installed /\ hurt' /\ Fallback' \in {Fallback, None}
        \/ /\ Installed' \in Versions \ {Installed} /\ hurt'
           /\ Fallback' = Installed \/ Fallback' \in {Fallback, None}
    <2>1. CASE current = c /\ previous = q
      BY <1>4, <2>1
    <2>2. CASE current = c /\ previous = c /\ hurt'
      BY <1>4, <2>2 DEF FallbackOf
    <2>3. CASE current = s /\ previous = c /\ hurt'
      BY <1>4, <1>5, <1>7, <2>3 DEF FallbackOf
    <2>4. CASE current = s /\ previous = q /\ hurt'
      BY <1>4, <1>5, <2>4 DEF FallbackOf
    <2>5. QED
      BY <1>6, <2>1, <2>2, <2>3, <2>4
  <1>9. hurt \in BOOLEAN
    BY <1>1 DEF Remembered
  <1>10. QED
    BY <1>4, <1>8, <1>9, RuntimeSteps

(* The end of a rollback before its pointer is used up.                    *)
LEMMA RollbackEnds ==
    ASSUME DistributionAssumption, DistributionInv, DistributionInv',
           NEW p \in Procs, ~Working(p)',
           \A q \in Procs \ {p} : pc'[q] = pc[q],
           UNCHANGED <<version, moved, previous>>,
           hurt => hurt', hurt' \in BOOLEAN,
           pc[p] \in {"verify_back", "consume"},
           current' \in {loc[p].current, current}
    PROVE  [Runtime!Next]_Runtime!vars
  <1> DEFINE c == loc[p].current
             q == loc[p].previous
  <1>1. Working(p) /\ Remembered(p)
    BY WorkRemembers DEF Working
  <1>2. CurrentFor(p) = c /\ PreviousFor(p) = q
    BY DEF CurrentFor, PreviousFor, Cleaning
  <1>3. moved = {}
    BY <1>1 DEF Remembered, AtWork, RemembersWhole, Moving
  <1>4. /\ Installed = version[c] /\ Installed \in Versions
        /\ Fallback = FallbackOf(c, q)
        /\ Installed' = version[current'] /\ Fallback' = FallbackOf(current', previous)
    BY <1>1, <1>2, <1>3, Leaving, PartsThere
  <1>5. /\ current = q /\ previous = q /\ q \notin {NoSlot, c}
    BY <1>1 DEF Remembered, AtWork, RollbackIsAt, MovesBack
  <1>6. version[q] \in Versions /\ hurt \in BOOLEAN
    BY <1>1, <1>5 DEF Remembered, Versioned, Whole
  <1> HIDE DEF c, q
  <1>7. CASE current' = c
    <2>1. Installed' = Installed /\ Fallback' = Fallback
      BY <1>4, <1>5, <1>7
    <2>2. QED
      BY <1>6, <2>1, RuntimeSteps
  <1>8. CASE current' = q
    <2>1. Fallback = version[q] /\ Fallback # None
      BY <1>4, <1>5, <1>6 DEF FallbackOf, DistributionAssumption
    <2>2. Installed' = Fallback /\ Fallback' = None
      BY <1>4, <1>5, <1>8, <2>1 DEF FallbackOf
    <2>3. QED
      BY <1>4, <1>6, <2>1, <2>2, RuntimeSteps
  <1>9. QED
    BY <1>5, <1>7, <1>8 DEF c

LEMMA OthersStay ==
    ASSUME DistributionInv, NEW p \in Procs, NEW x, NEW l,
           pc' = [pc EXCEPT ![p] = x], loc' = [loc EXCEPT ![p] = l]
    PROVE  /\ pc'[p] = x /\ loc'[p] = l
           /\ \A q \in Procs \ {p} : pc'[q] = pc[q] /\ loc'[q] = loc[q]
  BY DEF DistributionInv, RuntimeTypeOK

LEMMA EntryImplements ==
    ASSUME DistributionAssumption, DistributionInv, DistributionInv',
           NEW p \in Procs,
           \/ \E op \in Operations, want \in Versions : Begin(p, op, want)
           \/ Acquire(p) \/ InProgress(p) \/ Refuse(p)
    PROVE  [Runtime!Next]_Runtime!vars
  <1>1. /\ pc[p] \in {"idle", "checked", "locked"}
        /\ \E x \in {"idle", "checked", "locked"} : pc' = [pc EXCEPT ![p] = x]
        /\ UNCHANGED <<slots, version, current, previous, moved, hurt>>
    <2>1. CASE \E op \in Operations, want \in Versions : Begin(p, op, want)
      BY <2>1 DEF Begin, Goto, pointers
    <2>2. CASE Acquire(p)
      BY <2>2 DEF Acquire, Goto, pointers
    <2>3. CASE InProgress(p) \/ Refuse(p)
      BY <2>3 DEF InProgress, Refuse, End, Goto, pointers
    <2>4. QED
      BY <2>1, <2>2, <2>3
  <1>2. \E l : loc' = [loc EXCEPT ![p] = l]
    <2>1. CASE Acquire(p)
      BY <2>1, LocalAt DEF Acquire
    <2>2. CASE InProgress(p) \/ Refuse(p)
      BY <2>2 DEF InProgress, Refuse, End
    <2>3. CASE \E op \in Operations, want \in Versions : Begin(p, op, want)
      <3>1. PICK op \in Operations, want \in Versions : Begin(p, op, want)
        BY <2>3
      <3>2. QED
        BY <3>1 DEF Begin
    <2>4. QED
      BY <2>1, <2>2, <2>3
  <1>3. /\ pc'[p] \in {"idle", "checked", "locked"}
        /\ \A q \in Procs \ {p} : pc'[q] = pc[q] /\ loc'[q] = loc[q]
    BY <1>1, <1>2, OthersStay
  <1>4. ~Working(p) /\ ~Working(p)'
    BY <1>1, <1>3 DEF Working
  <1>5. SameRuntime
    BY <1>1, <1>3, <1>4, OutsideIsSame
  <1>6. hurt \in BOOLEAN
    BY DEF DistributionInv, RuntimeTypeOK, SharedTypes
  <1>7. QED
    BY <1>1, <1>5, <1>6, RuntimeSteps DEF SameRuntime

(* What an operation takes down at its beginning is what is there.         *)
LEMMA RecheckImplements ==
    ASSUME DistributionAssumption, DistributionInv, DistributionInv',
           NEW p \in Procs, Recheck(p)
    PROVE  [Runtime!Next]_Runtime!vars
  <1> DEFINE l == [loc[p] EXCEPT !.current = current, !.previous = previous]
             x == Start[loc[p].op]
  <1>1. /\ pc[p] = "locked" /\ moved = {} /\ pc' = [pc EXCEPT ![p] = x]
        /\ UNCHANGED <<slots, version, current, previous, moved, hurt, lock>>
    BY DEF Recheck, Goto, pointers, Possible, Verified
  <1>2. loc \in [Procs -> Local] /\ loc[p] \in Local /\ hurt \in BOOLEAN
    BY DEF DistributionInv, RuntimeTypeOK, SharedTypes
  <1>3. loc' = [loc EXCEPT ![p] = l] /\ l.current = current /\ l.previous = previous
    BY <1>2 DEF Recheck, Local
  <1>4. x \in {"download", "back", "move"}
    BY <1>2 DEF Start, Local
  <1> HIDE DEF l, x
  <1>5. pc'[p] = x /\ loc'[p] = l
    BY <1>1, <1>3, OthersStay
  <1>6. Working(p)' /\ CurrentFor(p)' = current /\ PreviousFor(p)' = previous
    BY <1>3, <1>4, <1>5 DEF Working, CurrentFor, PreviousFor, Cleaning
  <1>7. \A q \in Procs : ~Working(q)
    BY <1>1, RuntimeAlone DEF RuntimeInside, Working
  <1>8. SeenAtRest /\ SeenAtWork'
    BY Seen
  <1>9. Installed = version[current] /\ Fallback = FallbackOf(current, previous)
    BY <1>1, <1>7, <1>8, PartsThere DEF SeenAtRest
  <1>10. Installed' = version[current] /\ Fallback' = FallbackOf(current, previous)
    BY <1>1, <1>6, <1>8 DEF SeenAtWork, FallbackOf
  <1>11. QED
    BY <1>1, <1>2, <1>9, <1>10, RuntimeSteps

LEMMA WorkImplements ==
    ASSUME DistributionAssumption, DistributionInv, DistributionInv',
           NEW p \in Procs,
           \/ MakeSlot(p) \/ Extract(p) \/ KeepPrevious(p) \/ Switch(p) \/ Fail(p)
           \/ UndoCurrent(p) \/ UndoPrevious(p) \/ SwitchBack(p) \/ VerifyBack(p)
           \/ Move(p) \/ FailMove(p) \/ MoveBack(p)
    PROVE  [Runtime!Next]_Runtime!vars
  <1> DEFINE x == pc'[p]
  <1>1. /\ Working(p) /\ pc[p] \notin Cleaning
        /\ \A s \in Slots : version[s] \in Versions => version'[s] = version[s]
        /\ loc'[p].current = loc[p].current /\ loc'[p].previous = loc[p].previous
        /\ hurt => hurt'
    <2>1. CASE MakeSlot(p)
      <3>1. PICK s \in Slots : /\ version[s] = None
                               /\ version' = [version EXCEPT ![s] = loc[p].want]
                               /\ loc' = [loc EXCEPT ![p].staged = s]
        BY <2>1 DEF MakeSlot
      <3>2. version \in [Slots -> Versions \cup {None}] /\ loc \in [Procs -> Local]
        BY DEF DistributionInv, RuntimeTypeOK, SharedTypes
      <3>3. \A r \in Slots : version[r] \in Versions => version'[r] = version[r]
        BY <3>1, <3>2 DEF DistributionAssumption
      <3>4. loc'[p].current = loc[p].current /\ loc'[p].previous = loc[p].previous
        BY <3>1, <3>2 DEF Local
      <3>5. QED
        BY <2>1, <3>3, <3>4 DEF MakeSlot, Working, Cleaning
    <2>2. CASE FailMove(p) \/ MoveBack(p)
      <3>1. \E back : loc' = [loc EXCEPT ![p].back = back]
        <4>1. CASE FailMove(p)
          BY <4>1 DEF FailMove
        <4>2. CASE MoveBack(p)
          <5>1. PICK part \in loc[p].back : loc' = [loc EXCEPT ![p].back = @ \ {part}]
            BY <4>2 DEF MoveBack
          <5>2. loc' = [loc EXCEPT ![p].back = loc[p].back \ {part}]
            BY <5>1
          <5>3. QED
            BY <5>2
        <4>3. QED
          BY <2>2, <4>1, <4>2
      <3>2. loc \in [Procs -> Local]
        BY DEF DistributionInv, RuntimeTypeOK
      <3>3. loc'[p].current = loc[p].current /\ loc'[p].previous = loc[p].previous
        BY <3>1, <3>2 DEF Local
      <3>4. QED
        BY <2>2, <3>3 DEF FailMove, MoveBack, Working, Cleaning
    <2>3. CASE ~(MakeSlot(p) \/ FailMove(p) \/ MoveBack(p))
      BY <2>3 DEF Extract, KeepPrevious, Switch, Fail, UndoCurrent, UndoPrevious,
         SwitchBack, VerifyBack, Move, Working, Cleaning
    <2>4. QED
      BY <2>1, <2>2, <2>3
  <1>2. x \in {"extract", "keep", "switch", "verify", "undo_current",
               "undo_previous", "undo_staged", "verify_back", "consume",
               "move", "move_back"}
    <2>1. CASE Move(p) \/ MoveBack(p)
      BY <2>1 DEF Move, MoveBack
    <2>2. CASE Fail(p)
      <3>1. \E y \in {"undo_current", "undo_previous", "undo_staged"} :
                pc' = [pc EXCEPT ![p] = y]
        BY <2>2 DEF Fail, Goto
      <3>2. QED
        BY <3>1, LocalAt DEF DistributionInv, RuntimeTypeOK
    <2>3. CASE ~(Move(p) \/ MoveBack(p) \/ Fail(p))
      <3>1. \E y \in {"extract", "keep", "switch", "verify", "undo_previous",
                      "undo_staged", "verify_back", "consume", "move_back"} :
                pc' = [pc EXCEPT ![p] = y]
        BY <2>3 DEF MakeSlot, Extract, KeepPrevious, Switch, UndoCurrent,
           UndoPrevious, SwitchBack, VerifyBack, FailMove, Goto
      <3>2. QED
        BY <3>1 DEF DistributionInv, RuntimeTypeOK
    <2>4. QED
      BY <2>1, <2>2, <2>3
  <1>3. Working(p)' /\ pc'[p] \notin Cleaning
    BY <1>2 DEF Working, Cleaning
  <1>4. SameRuntime
    BY <1>1, <1>3, WorkingOnIsSame
  <1>5. hurt \in BOOLEAN /\ hurt' \in BOOLEAN
    BY DEF DistributionInv, RuntimeTypeOK, SharedTypes
  <1>6. QED
    BY <1>1, <1>4, <1>5, RuntimeSteps DEF SameRuntime

(* An update has happened when its result is verified, a rollback when the *)
(* pointer it used is gone.                                                *)
LEMMA VerifyImplements ==
    ASSUME DistributionAssumption, DistributionInv, DistributionInv',
           NEW p \in Procs, Verify(p)
    PROVE  [Runtime!Next]_Runtime!vars
  <1>1. /\ pc[p] = "verify" /\ pc' = [pc EXCEPT ![p] = "clean"]
        /\ UNCHANGED <<slots, version, current, previous, moved, hurt, lock, loc>>
    BY DEF Verify, Goto, pointers
  <1>2. Remembered(p) /\ Working(p)
    BY <1>1, WorkRemembers DEF Working
  <1>3. pc'[p] = "clean"
    BY <1>1, <1>2 DEF Remembered, RuntimeTypeOK
  <1>4. /\ Working(p)' /\ CurrentFor(p)' = current /\ PreviousFor(p)' = previous
        /\ CurrentFor(p) = loc[p].current /\ PreviousFor(p) = loc[p].previous
    BY <1>1, <1>3 DEF Working, CurrentFor, PreviousFor, Cleaning
  <1>5. /\ current = loc[p].staged /\ previous = loc[p].current
        /\ loc[p].staged # loc[p].current
        /\ version[loc[p].staged] \in Versions
        /\ version[loc[p].staged] # version[loc[p].current]
    BY <1>1, <1>2 DEF Remembered, AtWork, UpdateIsAt, StagedApart, Wants, Staging
  <1>6. SeenAtWork /\ SeenAtWork'
    BY Seen
  <1>7. /\ Installed = version[loc[p].current] /\ Installed \in Versions
        /\ Installed' = version[current] /\ Fallback' = FallbackOf(current, previous)
    BY <1>1, <1>2, <1>4, <1>6 DEF SeenAtWork, FallbackOf
  <1>8. Fallback' = Installed
    BY <1>2, <1>5, <1>7 DEF FallbackOf, Remembered, DistributionAssumption, Slots
  <1>9. QED
    BY <1>1, <1>2, <1>5, <1>7, <1>8, RuntimeSteps DEF Remembered

LEMMA ConsumeImplements ==
    ASSUME DistributionAssumption, DistributionInv, DistributionInv',
           NEW p \in Procs, Consume(p)
    PROVE  [Runtime!Next]_Runtime!vars
  <1>1. /\ pc[p] = "consume" /\ pc' = [pc EXCEPT ![p] = "clean_back"]
        /\ previous' = NoSlot
        /\ UNCHANGED <<slots, version, current, moved, hurt, lock, loc>>
    BY DEF Consume, Goto
  <1>2. Remembered(p) /\ Working(p)
    BY <1>1, WorkRemembers DEF Working
  <1>3. pc'[p] = "clean_back"
    BY <1>1, <1>2 DEF Remembered, RuntimeTypeOK
  <1>4. /\ Working(p)' /\ CurrentFor(p)' = current /\ PreviousFor(p)' = NoSlot
        /\ CurrentFor(p) = loc[p].current /\ PreviousFor(p) = loc[p].previous
    BY <1>1, <1>3 DEF Working, CurrentFor, PreviousFor, Cleaning
  <1>5. current = loc[p].previous /\ loc[p].previous \notin {NoSlot, loc[p].current}
    BY <1>1, <1>2 DEF Remembered, AtWork, RollbackIsAt, MovesBack
  <1>6. version[current] # None
    BY <1>2 DEF Remembered, Versioned, Whole, DistributionAssumption
  <1>7. SeenAtWork /\ SeenAtWork'
    BY Seen
  <1>8. /\ Installed \in Versions /\ Fallback = version[current]
        /\ Installed' = version[current] /\ Fallback' = None
    BY <1>1, <1>2, <1>4, <1>5, <1>7 DEF SeenAtWork, FallbackOf
  <1>9. QED
    BY <1>1, <1>2, <1>6, <1>8, RuntimeSteps DEF Remembered

LEMMA EndingImplements ==
    ASSUME DistributionAssumption, DistributionInv, DistributionInv',
           NEW p \in Procs,
           \/ DownloadFails(p) \/ Clean(p) \/ CleanBack(p) \/ UndoStaged(p)
           \/ FailBack(p) \/ MovedBack(p) \/ Uninstalled(p)
    PROVE  [Runtime!Next]_Runtime!vars
  <1>1. /\ End(p) /\ Working(p) /\ UNCHANGED <<version, previous, moved>>
        /\ hurt => hurt'
    BY DEF DownloadFails, Clean, CleanBack, UndoStaged, FailBack, MovedBack,
       Uninstalled, Working, pointers
  <1>2. /\ pc'[p] = "idle" /\ \A q \in Procs \ {p} : pc'[q] = pc[q]
    BY <1>1, OthersStay DEF End, Goto
  <1>3. ~Working(p)' /\ hurt \in BOOLEAN /\ hurt' \in BOOLEAN /\ Remembered(p)
    BY <1>1, <1>2, WorkRemembers DEF Working, DistributionInv, RuntimeTypeOK, SharedTypes
  <1>4. CASE UndoStaged(p)
    <2>1. pc[p] = "undo_staged" /\ current' = current
      BY <1>4 DEF UndoStaged, pointers
    <2>2. pc[p] \in Staging \ {"clean"}
      BY <2>1 DEF Staging
    <2>3. QED
      BY <1>1, <1>2, <1>3, <2>1, <2>2, UpdateEnds
  <1>5. CASE FailBack(p) /\ pc[p] # "back"
    <2>1. pc[p] \in {"verify_back", "consume"} /\ current' \in {loc[p].current, current}
      BY <1>5 DEF FailBack
    <2>2. QED
      BY <1>1, <1>2, <1>3, <2>1, RollbackEnds
  <1>6. CASE \/ DownloadFails(p) \/ Clean(p) \/ CleanBack(p) \/ MovedBack(p)
             \/ Uninstalled(p) \/ (FailBack(p) /\ pc[p] = "back")
    <2>1. /\ current' = current /\ hurt' = hurt
          /\ \/ pc[p] \in {"download", "back", "clean", "clean_back"}
             \/ pc[p] = "move_back" /\ loc[p].back = {}
             \/ pc[p] = "move" /\ moved = Parts
      BY <1>6 DEF DownloadFails, Clean, CleanBack, MovedBack, Uninstalled, FailBack,
         pointers
    <2>2. CurrentFor(p) = current /\ PreviousFor(p) = previous
      BY <1>3, <2>1 DEF CurrentFor, PreviousFor, Cleaning, Remembered, AtWork,
         Untouched, Moving
    <2>3. moved = {} \/ (moved # Parts /\ hurt) \/ moved = Parts
      BY <1>1, <1>3, <2>1 DEF Remembered, AtWork, RemembersWhole, MovesBack, Moving
    <2>4. /\ Installed = version[current] /\ Installed \in Versions
          /\ Fallback = FallbackOf(current, previous)
          /\ Installed' = IF moved = Parts THEN None
                          ELSE IF moved # {} THEN "broken" ELSE version[current]
          /\ Fallback' = IF moved = Parts THEN None ELSE FallbackOf(current, previous)
      BY <1>1, <1>2, <1>3, <2>1, <2>2, Leaving
    <2>5. CASE moved = {}
      <3>1. Installed' = Installed /\ Fallback' = Fallback
        BY <2>4, <2>5, PartsThere
      <3>2. QED
        BY <1>1, <1>3, <3>1, RuntimeSteps
    <2>6. CASE moved # Parts /\ moved # {} /\ hurt
      <3>1. /\ Installed \in Versions /\ hurt'
            /\ Installed' = "broken" /\ Fallback' = Fallback
        BY <1>1, <2>4, <2>6
      <3>2. QED
        BY <1>1, <1>3, <3>1, RuntimeSteps
    <2>7. CASE moved = Parts
      <3>1. Installed \in Versions /\ Installed' = None /\ Fallback' = None
        BY <2>4, <2>7
      <3>2. QED
        BY <1>1, <1>3, <3>1, RuntimeSteps
    <2>8. QED
      BY <2>3, <2>5, <2>6, <2>7
  <1>7. QED
    BY <1>4, <1>5, <1>6

(* A crash may cost the version to roll back to; the one that is installed *)
(* is lost only when parts of it are moved aside.                          *)
LEMMA CrashImplements ==
    ASSUME DistributionAssumption, DistributionInv, DistributionInv',
           NEW p \in Procs, Crash(p)
    PROVE  [Runtime!Next]_Runtime!vars
  <1>1. /\ pc' = [pc EXCEPT ![p] = "idle"] /\ loc' = [loc EXCEPT ![p] = NoLocals]
        /\ hurt' = TRUE
        /\ UNCHANGED <<slots, version, current, previous, moved>>
    BY DEF Crash, Goto, pointers
  <1>2. /\ pc'[p] = "idle"
        /\ \A q \in Procs \ {p} : pc'[q] = pc[q] /\ loc'[q] = loc[q]
    BY <1>1, OthersStay
  <1>3. ~Working(p)' /\ hurt \in BOOLEAN
    BY <1>2 DEF Working, DistributionInv, RuntimeTypeOK, SharedTypes
  <1>4. CASE ~Working(p)
    <2>1. SameRuntime
      BY <1>1, <1>2, <1>3, <1>4, OutsideIsSame
    <2>2. QED
      BY <1>1, <1>3, <2>1, RuntimeSteps DEF SameRuntime
  <1>5. CASE pc[p] \in Staging \ {"clean"}
    BY <1>1, <1>2, <1>3, <1>5, UpdateEnds
  <1>6. CASE pc[p] \in {"verify_back", "consume"}
    BY <1>1, <1>2, <1>3, <1>6, RollbackEnds
  <1>7. CASE pc[p] \in {"download", "back"} \cup Cleaning \cup Moving
    <2>1. Working(p) /\ Remembered(p)
      BY <1>7, WorkRemembers DEF Working, Cleaning, Moving
    <2>2. CurrentFor(p) = current /\ PreviousFor(p) = previous
      BY <1>7, <2>1 DEF CurrentFor, PreviousFor, Remembered, AtWork, Untouched
    <2>3. /\ Installed = version[current] /\ Installed \in Versions
          /\ Fallback = FallbackOf(current, previous)
          /\ Installed' = IF moved = Parts THEN None
                          ELSE IF moved # {} THEN "broken" ELSE version[current]
          /\ Fallback' = IF moved = Parts THEN None ELSE FallbackOf(current, previous)
      BY <1>1, <1>2, <1>3, <2>1, <2>2, Leaving
    <2>4. QED
      BY <1>1, <1>3, <2>3, RuntimeSteps
  <1>8. QED
    BY <1>4, <1>5, <1>6, <1>7, LocalAt DEF RuntimePoints, Working, Staging, Cleaning, Moving

LEMMA ElsewhereImplements ==
    ASSUME DistributionInv, RemoveLock \/ UNCHANGED vars
    PROVE  [Runtime!Next]_Runtime!vars
  <1>1. UNCHANGED <<slots, version, current, previous, moved, hurt, pc, loc>>
    BY DEF RemoveLock, vars, pointers
  <1>2. Installed' = Installed /\ Fallback' = Fallback
    BY <1>1 DEF Installed, Fallback, Gone, Broken, CurrentNow, PreviousNow,
       Tentative, VersionOf
  <1>3. hurt \in BOOLEAN
    BY DEF DistributionInv, RuntimeTypeOK, SharedTypes
  <1>4. QED
    BY <1>1, <1>2, <1>3, RuntimeSteps

LEMMA DistributionImplements ==
    ASSUME DistributionAssumption, DistributionInv, DistributionInv', [Next]_vars
    PROVE  ImplementsInstalledRuntimeStep
  <1>1. ASSUME NEW p \in Procs,
               \/ \E op \in Operations, want \in Versions : Begin(p, op, want)
               \/ Acquire(p) \/ InProgress(p) \/ Recheck(p) \/ Refuse(p)
               \/ DownloadFails(p) \/ MakeSlot(p) \/ Extract(p)
               \/ KeepPrevious(p) \/ Switch(p) \/ Verify(p) \/ Clean(p)
               \/ Fail(p) \/ UndoCurrent(p) \/ UndoPrevious(p) \/ UndoStaged(p)
               \/ SwitchBack(p) \/ VerifyBack(p) \/ Consume(p) \/ CleanBack(p)
               \/ FailBack(p)
               \/ Move(p) \/ FailMove(p) \/ MoveBack(p) \/ MovedBack(p)
               \/ Uninstalled(p)
               \/ Crash(p)
        PROVE  [Runtime!Next]_Runtime!vars
    BY <1>1, EntryImplements, RecheckImplements, WorkImplements, VerifyImplements,
       ConsumeImplements, EndingImplements, CrashImplements
  <1>2. CASE RemoveLock \/ UNCHANGED vars
    BY <1>2, ElsewhereImplements DEF ImplementsInstalledRuntimeStep
  <1>3. QED
    BY <1>1, <1>2 DEF Next, ImplementsInstalledRuntimeStep

LEMMA InitInstalls == DistributionAssumption /\ Init => Runtime!Init
  <1> SUFFICES ASSUME DistributionAssumption, Init
               PROVE  Runtime!Init
    OBVIOUS
  <1>1. \A p \in Procs : ~Working(p)
    BY DEF Init, Working
  <1>2. SeenAtRest
    BY DistributionInit, ViewAtRest
  <1>3. current = 1 /\ previous = NoSlot /\ moved = {} /\ hurt = FALSE
    BY DEF Init
  <1>4. version[1] \in Versions
    BY DEF Init, Slots, DistributionAssumption
  <1>5. Installed \in Versions /\ Fallback = None
    BY <1>1, <1>2, <1>3, <1>4, PartsThere DEF SeenAtRest, FallbackOf
  <1>6. QED
    BY <1>3, <1>5 DEF Runtime!Init, Installed, Fallback

(* Update, rollback and uninstall happen completely or not at all, for any *)
(* invocations at once: a failure that is undone restores the installed    *)
(* version and the one to roll back to, a crash or a failed undoing costs  *)
(* at most the latter unless it is of an uninstall, and a rollback uses it *)
(* up.                                                                     *)
THEOREM DistributionImplementsInstalled ==
    DistributionAssumption => (Spec => ImplementsInstalledRuntime)
  <1> SUFFICES ASSUME DistributionAssumption
               PROVE  Spec => ImplementsInstalledRuntime
    OBVIOUS
  <1>1. DistributionInv /\ DistributionInv' /\ [Next]_vars =>
            ImplementsInstalledRuntimeStep
    BY DistributionImplements
  <1>2. Init => Runtime!Init
    BY InitInstalls
  <1>3. QED
    BY <1>1, <1>2, DistributionInvariant, PTL DEF Spec, ImplementsInstalledRuntime
===============================================================================
