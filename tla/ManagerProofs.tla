---------------------------- MODULE ManagerProofs ----------------------------
(***************************************************************************)
(* What users are asked about, proved for any values of the constants:     *)
(* the retention of entries (StorageRetention), the recovery of upgrades   *)
(* (UpgradeRecovery), the trials of modules (ModuleTrials) and the consent *)
(* to the commands of a task (CapabilityConsent).  Each has an inductive   *)
(* invariant of its own; what they share is the invocations that plan      *)
(* first and write later.                                                  *)
(***************************************************************************)
EXTENDS RetentionProperties, UpgradeProperties, TrialsProperties, ConsentProperties,
        FiniteSetTheorems, SequenceTheorems, InductionLemmas, TLAPS

----------------------------------------------------------------------------
(* StorageRetention: the invariant                                         *)

Indexes == UNION {[D -> Entry] : D \in SUBSET Items}

RetentionTypes ==
    /\ index \in Indexes
    /\ stored \in SUBSET Places
    /\ planLock \in Invocations \cup {Nobody}
    /\ planPc \in [Invocations -> {"idle", "pin_planned", "prune_planned", "pruning"}]
    /\ planLoc \in [Invocations -> [before : Indexes, plan : Indexes]]

(* What pruning reads and writes is under the lock.                        *)
PruningIsLocked ==
    \A p \in Invocations : planPc[p] = "pruning" <=> planLock = p

(* A plan of a pin changes no path and no mark, and takes no pin away.     *)
OnlyPins(before, after) ==
    /\ DOMAIN after = DOMAIN before
    /\ \A id \in DOMAIN before :
           /\ after[id].place = before[id].place
           /\ after[id].expired = before[id].expired
           /\ before[id].pinned => after[id].pinned

PinsPlanned ==
    \A p \in Invocations :
        planPc[p] = "pin_planned" => OnlyPins(planLoc[p].before, planLoc[p].plan)

(* The index that is pruned is the one on disk but for its marks, and what *)
(* it marks is gone.                                                       *)
OnlyMarks(before) ==
    /\ DOMAIN before = Registered
    /\ \A id \in Registered :
           /\ before[id].place = index[id].place
           /\ before[id].pinned = index[id].pinned
           /\ before[id].expired => index[id].place \notin stored

PruningMarks ==
    \A p \in Invocations : planPc[p] = "pruning" => OnlyMarks(planLoc[p].before)

RetentionInv ==
    /\ RetentionTypes /\ PruningIsLocked /\ ExpiredIsGone
    /\ PinsPlanned /\ PruningMarks

----------------------------------------------------------------------------
(* Indexes                                                                 *)

LEMMA IndexIsFunction ==
    ASSUME NEW f \in Indexes
    PROVE  f \in [DOMAIN f -> Entry] /\ DOMAIN f \in SUBSET Items
  <1>1. PICK D \in SUBSET Items : f \in [D -> Entry]
    BY DEF Indexes
  <1> QED BY <1>1

LEMMA IndexMade ==
    ASSUME NEW D \in SUBSET Items, NEW f \in [D -> Entry]
    PROVE  f \in Indexes
  BY DEF Indexes

LEMMA NoIndexTyped == NoIndex \in Indexes
  <1>1. NoIndex \in [{} -> Entry]
    BY DEF NoIndex
  <1> QED BY <1>1, IndexMade

LEMMA RestrictTyped ==
    ASSUME NEW f \in Indexes, NEW S \in SUBSET DOMAIN f
    PROVE  Restrict(f, S) \in Indexes
  <1>1. Restrict(f, S) \in [S -> Entry]
    BY IndexIsFunction DEF Restrict
  <1> QED BY <1>1, IndexMade, IndexIsFunction

LEMMA NewEntryTyped ==
    ASSUME RetentionAssumption, NEW entry \in NewEntries
    PROVE  entry \in Entry /\ ~entry.expired
  BY DEF RetentionAssumption, Entry

----------------------------------------------------------------------------
(* Types                                                                   *)

LEMMA EndTyped ==
    ASSUME RetentionTypes, NEW p \in Invocations, EndRetention(p)
    PROVE  /\ planPc' = [planPc EXCEPT ![p] = "idle"]
           /\ planLoc' = [planLoc EXCEPT ![p] = NoPlan]
           /\ planPc' \in [Invocations -> {"idle", "pin_planned", "prune_planned", "pruning"}]
           /\ planLoc' \in [Invocations -> [before : Indexes, plan : Indexes]]
  <1>1. NoPlan \in [before : Indexes, plan : Indexes]
    BY NoIndexTyped DEF NoPlan
  <1> QED BY <1>1 DEF RetentionTypes, EndRetention, PlanAt

LEMMA RegisterTypes ==
    ASSUME RetentionAssumption, RetentionTypes,
           NEW p \in Invocations, NEW id \in Items, NEW entry \in NewEntries,
           Register(p, id, entry)
    PROVE  RetentionTypes'
  <1>1. entry \in Entry /\ entry.place \in Places
    BY NewEntryTyped DEF Entry
  <1>2. Registered \cup {id} \in SUBSET Items
    BY IndexIsFunction DEF RetentionTypes, Registered
  <1>3. index' \in [Registered \cup {id} -> Entry]
    BY <1>1, IndexIsFunction DEF Register, RetentionTypes, Registered
  <1>4. index' \in Indexes
    BY <1>2, <1>3, IndexMade
  <1> QED BY <1>4 DEF Register, RetentionTypes

(* The index with a pin.                                                   *)
LEMMA PinnedTyped ==
    ASSUME NEW f \in Indexes, NEW i \in DOMAIN f, NEW cited \in BOOLEAN
    PROVE  Pinned(f, i, cited) \in Indexes /\ OnlyPins(f, Pinned(f, i, cited))
  <1> DEFINE g == Pinned(f, i, cited)
             e == [f[i] EXCEPT !.pinned = TRUE, !.cited = @ \/ cited]
  <1>1. f \in [DOMAIN f -> Entry]
    BY IndexIsFunction
  <1>2. f[i] \in Entry
    BY <1>1
  <1>3. /\ e \in Entry
        /\ e.place = f[i].place /\ e.expired = f[i].expired /\ e.pinned
    BY <1>2 DEF Entry
  <1>4. g = [f EXCEPT ![i] = e]
    BY <1>1 DEF Pinned
  <1>a. e \in Entry
    BY <1>3
  <1> HIDE DEF e, g
  <1>5. /\ g \in [DOMAIN f -> Entry] /\ g[i] = e
        /\ \A j \in DOMAIN f : j # i => g[j] = f[j]
    BY <1>1, <1>a, <1>4
  <1>6. g \in Indexes
    BY <1>5, IndexIsFunction, IndexMade
  <1>7. OnlyPins(f, g)
    BY <1>3, <1>5 DEF OnlyPins
  <1> QED BY <1>6, <1>7 DEF g

LEMMA PlanPinTypes ==
    ASSUME RetentionTypes, NEW p \in Invocations, NEW id \in Items, NEW cited \in BOOLEAN,
           PlanPin(p, id, cited)
    PROVE  /\ RetentionTypes'
           /\ OnlyPins(planLoc'[p].before, planLoc'[p].plan)
           /\ planPc' = [planPc EXCEPT ![p] = "pin_planned"]
           /\ \A q \in Invocations \ {p} : planLoc'[q] = planLoc[q]
  <1> DEFINE g == Pinned(index, id, cited)
             l == [before |-> index, plan |-> g]
  <1>1. index \in Indexes /\ id \in DOMAIN index
    BY DEF RetentionTypes, PlanPin, Registered
  <1>2. g \in Indexes /\ OnlyPins(index, g)
    BY <1>1, PinnedTyped
  <1>3. planLoc' = [planLoc EXCEPT ![p] = l]
    BY DEF PlanPin
  <1> HIDE DEF g
  <1>4. l \in [before : Indexes, plan : Indexes] /\ l.before = index /\ l.plan = g
    BY <1>1, <1>2
  <1> HIDE DEF l
  <1>5. planLoc' \in [Invocations -> [before : Indexes, plan : Indexes]] /\ planLoc'[p] = l
    BY <1>3, <1>4 DEF RetentionTypes
  <1>6. OnlyPins(planLoc'[p].before, planLoc'[p].plan)
    BY <1>2, <1>4, <1>5
  <1>7. planPc' = [planPc EXCEPT ![p] = "pin_planned"]
    BY DEF PlanPin, PlanAt
  <1>8. planPc' \in [Invocations -> {"idle", "pin_planned", "prune_planned", "pruning"}]
    BY <1>7 DEF RetentionTypes
  <1>9. UNCHANGED <<index, stored, planLock>>
    BY DEF PlanPin
  <1> QED BY <1>3, <1>5, <1>6, <1>7, <1>8, <1>9 DEF RetentionTypes

LEMMA ApplyPinTypes ==
    ASSUME RetentionTypes, NEW p \in Invocations, ApplyPin(p)
    PROVE  RetentionTypes'
  BY EndTyped DEF ApplyPin, RetentionTypes

LEMMA PlanPruneTypes ==
    ASSUME RetentionTypes, NEW p \in Invocations, PlanPrune(p)
    PROVE  /\ RetentionTypes'
           /\ planPc' = [planPc EXCEPT ![p] = "prune_planned"]
           /\ \A q \in Invocations \ {p} : planLoc'[q] = planLoc[q]
           /\ DOMAIN planLoc'[p].plan = {id \in Registered : Prunable(id)}
           /\ \A id \in DOMAIN planLoc'[p].plan : planLoc'[p].plan[id] = index[id]
  <1> DEFINE S == {id \in Registered : Prunable(id)}
             g == Restrict(index, S)
             l == [planLoc[p] EXCEPT !.plan = g]
  <1>1. index \in Indexes /\ S \in SUBSET DOMAIN index
    BY DEF RetentionTypes, Registered
  <1>a. DOMAIN g = S /\ \A id \in S : g[id] = index[id]
    BY DEF Restrict
  <1>2. g \in Indexes
    BY <1>1, RestrictTyped
  <1>3. planLoc' = [planLoc EXCEPT ![p] = l]
    BY DEF PlanPrune, RetentionTypes
  <1> HIDE DEF g
  <1>4. l \in [before : Indexes, plan : Indexes] /\ l.plan = g
    BY <1>2 DEF RetentionTypes
  <1> HIDE DEF l
  <1>5. planLoc' \in [Invocations -> [before : Indexes, plan : Indexes]] /\ planLoc'[p] = l
    BY <1>3, <1>4 DEF RetentionTypes
  <1>7. planPc' = [planPc EXCEPT ![p] = "prune_planned"]
    BY DEF PlanPrune, PlanAt
  <1>8. planPc' \in [Invocations -> {"idle", "pin_planned", "prune_planned", "pruning"}]
    BY <1>7 DEF RetentionTypes
  <1>9. UNCHANGED <<index, stored, planLock>>
    BY DEF PlanPrune
  <1>10. RetentionTypes'
    BY <1>5, <1>8, <1>9 DEF RetentionTypes
  <1>11. planLoc'[p].plan = g
    BY <1>4, <1>5
  <1> QED BY <1>a, <1>3, <1>7, <1>10, <1>11

LEMMA BeginPruneTypes ==
    ASSUME RetentionTypes, NEW p \in Invocations, BeginPrune(p)
    PROVE  /\ RetentionTypes'
           /\ planPc' = [planPc EXCEPT ![p] = "pruning"]
           /\ \A q \in Invocations \ {p} : planLoc'[q] = planLoc[q]
           /\ planLoc'[p].before = index
           /\ planLoc'[p].plan = planLoc[p].plan
  <1> DEFINE l == [planLoc[p] EXCEPT !.before = index]
  <1>1. planLoc' = [planLoc EXCEPT ![p] = l]
    BY DEF BeginPrune, RetentionTypes
  <1>2. /\ l \in [before : Indexes, plan : Indexes]
        /\ l.before = index /\ l.plan = planLoc[p].plan
    BY DEF RetentionTypes
  <1> HIDE DEF l
  <1>3. planLoc' \in [Invocations -> [before : Indexes, plan : Indexes]] /\ planLoc'[p] = l
    BY <1>1, <1>2 DEF RetentionTypes
  <1>4. planPc' = [planPc EXCEPT ![p] = "pruning"]
    BY DEF BeginPrune, PlanAt
  <1>5. planPc' \in [Invocations -> {"idle", "pin_planned", "prune_planned", "pruning"}]
    BY <1>4 DEF RetentionTypes
  <1>6. UNCHANGED <<index, stored>> /\ planLock' = p
    BY DEF BeginPrune
  <1> QED BY <1>1, <1>2, <1>3, <1>4, <1>5, <1>6 DEF RetentionTypes

(* One item is pruned: its entries are marked, all else of the loaded      *)
(* index and of the plan stays.                                            *)
MarksOne(f, g, id) ==
    /\ g \in Indexes /\ DOMAIN g = DOMAIN f
    /\ g[id].place = f[id].place /\ g[id].pinned = f[id].pinned
    /\ \A j \in DOMAIN f : j # id => g[j] = f[j]

LEMMA MarkedOne ==
    ASSUME NEW f \in Indexes, NEW id \in DOMAIN f
    PROVE  MarksOne(f, Marked(f, id), id)
  <1> DEFINE e == [f[id] EXCEPT !.expired = TRUE]
  <1>1. f[id] \in Entry
    BY IndexIsFunction
  <1>2. e \in Entry /\ e.place = f[id].place /\ e.pinned = f[id].pinned
    BY <1>1 DEF Entry
  <1>3. Marked(f, id) = [f EXCEPT ![id] = e]
    BY DEF Marked
  <1> HIDE DEF e
  <1>4. f \in [DOMAIN f -> Entry]
    BY IndexIsFunction
  <1> DEFINE g == Marked(f, id)
  <1>5. /\ g \in [DOMAIN f -> Entry] /\ g[id] = e
        /\ \A j \in DOMAIN f : j # id => g[j] = f[j]
    BY <1>2, <1>3, <1>4
  <1>6. g \in Indexes
    BY <1>5, IndexIsFunction, IndexMade
  <1> QED BY <1>2, <1>5, <1>6 DEF MarksOne

LEMMA PruneOneTypes ==
    ASSUME RetentionTypes, NEW p \in Invocations, NEW id \in Items, PruneOne(p, id)
    PROVE  /\ RetentionTypes'
           /\ \A q \in Invocations \ {p} : planLoc'[q] = planLoc[q]
           /\ id \in DOMAIN planLoc[p].plan /\ id \in DOMAIN planLoc[p].before
           /\ planLoc[p].before[id].place = planLoc[p].plan[id].place
           /\ MarksOne(planLoc[p].before, planLoc'[p].before, id)
           /\ MarksOne(planLoc[p].plan, planLoc'[p].plan, id)
  <1> DEFINE b == Marked(planLoc[p].before, id)
             a == Marked(planLoc[p].plan, id)
             l == [before |-> b, plan |-> a]
  <1>1. /\ planLoc[p].before \in Indexes /\ planLoc[p].plan \in Indexes
        /\ planLoc[p] = [before |-> planLoc[p].before, plan |-> planLoc[p].plan]
    BY DEF RetentionTypes
  <1>2. /\ id \in DOMAIN planLoc[p].plan /\ id \in DOMAIN planLoc[p].before
        /\ planLoc[p].before[id].place = planLoc[p].plan[id].place
    BY DEF PruneOne, Left, SameItem
  <1>3. MarksOne(planLoc[p].before, b, id) /\ MarksOne(planLoc[p].plan, a, id)
    BY <1>1, <1>2, MarkedOne
  <1>4. planLoc' = [planLoc EXCEPT ![p] = l]
    BY DEF PruneOne
  <1>5. b \in Indexes /\ a \in Indexes
    BY <1>3 DEF MarksOne
  <1> HIDE DEF a, b
  <1>6. l \in [before : Indexes, plan : Indexes] /\ l.before = b /\ l.plan = a
    BY <1>5
  <1> HIDE DEF l
  <1>7. planLoc' \in [Invocations -> [before : Indexes, plan : Indexes]] /\ planLoc'[p] = l
    BY <1>4, <1>6 DEF RetentionTypes
  <1>8. stored' \in SUBSET Places /\ UNCHANGED <<index, planPc, planLock>>
    BY DEF PruneOne, RetentionTypes
  <1>9. RetentionTypes'
    BY <1>7, <1>8 DEF RetentionTypes
  <1>10. planLoc'[p].before = b /\ planLoc'[p].plan = a
    BY <1>6, <1>7
  <1> QED BY <1>2, <1>3, <1>4, <1>9, <1>10

----------------------------------------------------------------------------
(* What was marked is gone                                                 *)

(* A step of p leaves the others where they are.                           *)
StepOf(p) ==
    /\ planPc' \in [Invocations -> {"idle", "pin_planned", "prune_planned", "pruning"}]
    /\ \A q \in Invocations \ {p} : planPc'[q] = planPc[q] /\ planLoc'[q] = planLoc[q]

LEMMA EndIsStep ==
    ASSUME RetentionTypes, NEW p \in Invocations, EndRetention(p)
    PROVE  StepOf(p) /\ planPc'[p] = "idle"
  BY EndTyped DEF StepOf, RetentionTypes

LEMMA RetentionInitial == RetentionAssumption /\ RetentionInit => RetentionInv
  <1> SUFFICES ASSUME RetentionAssumption, RetentionInit PROVE RetentionInv
    OBVIOUS
  <1>1. NoPlan \in [before : Indexes, plan : Indexes]
    BY NoIndexTyped DEF NoPlan
  <1>2. RetentionTypes
    BY <1>1, NoIndexTyped DEF RetentionInit, RetentionTypes
  <1>3. PruningIsLocked
    BY DEF RetentionInit, PruningIsLocked, RetentionAssumption
  <1>4. ExpiredIsGone
    BY DEF RetentionInit, ExpiredIsGone, Registered, NoIndex
  <1>5. PinsPlanned /\ PruningMarks
    BY DEF RetentionInit, PinsPlanned, PruningMarks
  <1> QED BY <1>2, <1>3, <1>4, <1>5 DEF RetentionInv

(* Registering takes the lock's being free: nobody prunes meanwhile.       *)
LEMMA RegisterKeeps ==
    ASSUME RetentionAssumption, RetentionInv,
           NEW p \in Invocations, NEW id \in Items, NEW entry \in NewEntries,
           Register(p, id, entry)
    PROVE  RetentionInv'
  <1>1. RetentionTypes'
    BY RegisterTypes DEF RetentionInv
  <1>2. UNCHANGED <<planPc, planLoc, planLock>> /\ planLock = Nobody
    BY DEF Register
  <1>3. \A q \in Invocations : planPc[q] # "pruning"
    BY <1>2 DEF RetentionInv, PruningIsLocked, RetentionAssumption
  <1>4. PruningIsLocked' /\ PinsPlanned'
    BY <1>2 DEF RetentionInv, PruningIsLocked, PinsPlanned
  <1>5. PruningMarks'
    BY <1>2, <1>3 DEF PruningMarks
  <1>6. ~entry.expired
    BY NewEntryTyped
  <1>7. ExpiredIsGone'
    <2> SUFFICES ASSUME NEW i \in Registered', index'[i].expired
                 PROVE  index'[i].place \notin stored'
      BY DEF ExpiredIsGone
    <2>1. index' = [j \in Registered \cup {id} |-> IF j = id THEN entry ELSE index[j]]
      BY DEF Register
    <2>2. i # id
      BY <2>1, <1>6 DEF Registered
    <2>3. i \in Registered /\ index'[i] = index[i]
      BY <2>1, <2>2 DEF Registered
    <2>4. index[i].place \notin stored
      BY <2>3 DEF RetentionInv, ExpiredIsGone
    <2> QED BY <2>2, <2>3, <2>4 DEF Register
  <1> QED BY <1>1, <1>4, <1>5, <1>7 DEF RetentionInv

(* Steps that leave the index and the files alone, and end or begin a plan *)
(* outside the lock.                                                       *)
LEMMA QuietStepKeeps ==
    ASSUME RetentionInv, NEW p \in Invocations, RetentionTypes', StepOf(p),
           UNCHANGED <<index, stored>>,
           planPc'[p] = "pruning" <=> planLock' = p,
           planLock' = planLock \/ planLock' = p \/ planLock = p,
           \A q \in Invocations \ {p} : planLock = q <=> planLock' = q,
           planPc'[p] = "pin_planned" => OnlyPins(planLoc'[p].before, planLoc'[p].plan),
           planPc'[p] = "pruning" => planLoc'[p].before = index
    PROVE  RetentionInv'
  <1>1. PruningIsLocked'
    BY DEF RetentionInv, PruningIsLocked, StepOf
  <1>2. ExpiredIsGone'
    BY DEF RetentionInv, ExpiredIsGone, Registered
  <1>3. PinsPlanned'
    BY DEF RetentionInv, PinsPlanned, StepOf
  <1>4. PruningMarks'
    <2> SUFFICES ASSUME NEW q \in Invocations, planPc'[q] = "pruning"
                 PROVE  OnlyMarks(planLoc[q].before)'
      BY DEF PruningMarks
    <2>1. CASE q = p
      <3>1. planLoc'[q].before = index
        BY <2>1
      <3> QED BY <3>1 DEF OnlyMarks, RetentionInv, ExpiredIsGone, Registered
    <2>2. CASE q # p
      <3>1. planPc[q] = "pruning" /\ planLoc'[q] = planLoc[q]
        BY <2>2 DEF StepOf
      <3>2. OnlyMarks(planLoc[q].before)
        BY <3>1 DEF RetentionInv, PruningMarks
      <3> QED BY <3>1, <3>2 DEF OnlyMarks, Registered
    <2> QED BY <2>1, <2>2
  <1> QED BY <1>1, <1>2, <1>3, <1>4 DEF RetentionInv

(* The index that was pinned is the one on disk.                           *)
LEMMA ApplyPinKeeps ==
    ASSUME RetentionAssumption, RetentionInv, NEW p \in Invocations, ApplyPin(p)
    PROVE  RetentionInv'
  <1>1. RetentionTypes' /\ RetentionTypes
    BY ApplyPinTypes DEF RetentionInv
  <1>2. StepOf(p) /\ planPc'[p] = "idle"
    BY <1>1, EndIsStep DEF ApplyPin
  <1>3. /\ planPc[p] = "pin_planned" /\ planLock = Nobody
        /\ planLoc[p].before = index /\ index' = planLoc[p].plan
        /\ UNCHANGED <<stored, planLock>>
    BY DEF ApplyPin, PinReviewed
  <1>4. OnlyPins(index, index')
    BY <1>3 DEF RetentionInv, PinsPlanned
  <1>5. ExpiredIsGone'
    BY <1>3, <1>4 DEF RetentionInv, ExpiredIsGone, OnlyPins, Registered
  <1>6. PruningIsLocked'
    BY <1>2, <1>3 DEF RetentionInv, PruningIsLocked, StepOf, RetentionAssumption
  <1>7. PinsPlanned'
    BY <1>2 DEF RetentionInv, PinsPlanned, StepOf
  <1>8. PruningMarks'
    BY <1>2, <1>3, <1>6 DEF PruningMarks, PruningIsLocked, RetentionAssumption
  <1> QED BY <1>1, <1>5, <1>6, <1>7, <1>8 DEF RetentionInv

LEMMA PruneOneKeeps ==
    ASSUME RetentionInv, NEW p \in Invocations, NEW id \in Items, PruneOne(p, id)
    PROVE  RetentionInv'
  <1>1. /\ RetentionTypes'
        /\ \A q \in Invocations \ {p} : planLoc'[q] = planLoc[q]
        /\ planLoc[p].before[id].place = planLoc[p].plan[id].place
        /\ id \in DOMAIN planLoc[p].before
        /\ MarksOne(planLoc[p].before, planLoc'[p].before, id)
    BY PruneOneTypes DEF RetentionInv
  <1>2. /\ planPc[p] = "pruning"
        /\ UNCHANGED <<index, planPc, planLock>>
        /\ stored' = stored \ {planLoc[p].plan[id].place}
    BY DEF PruneOne
  <1>3. PruningIsLocked'
    BY <1>2 DEF RetentionInv, PruningIsLocked
  <1>4. ExpiredIsGone'
    BY <1>2 DEF RetentionInv, ExpiredIsGone, Registered
  <1>5. PinsPlanned'
    BY <1>1, <1>2 DEF RetentionInv, PinsPlanned
  <1>6. PruningMarks'
    <2> SUFFICES ASSUME NEW q \in Invocations, planPc'[q] = "pruning"
                 PROVE  OnlyMarks(planLoc[q].before)'
      BY DEF PruningMarks
    <2>1. q = p
      BY <1>2 DEF RetentionInv, PruningIsLocked
    <2>2. OnlyMarks(planLoc[p].before)
      BY <1>2 DEF RetentionInv, PruningMarks
    <2> DEFINE b == planLoc[p].before
               c == planLoc'[p].before
    <2>3. DOMAIN c = Registered
      BY <1>1, <2>2 DEF MarksOne, OnlyMarks
    <2>4. ASSUME NEW i \in Registered
          PROVE  /\ c[i].place = index[i].place /\ c[i].pinned = index[i].pinned
                 /\ c[i].expired => index[i].place \notin stored'
      <3>1. CASE i = id
        <4>1. c[i].place = b[i].place /\ c[i].pinned = b[i].pinned
          BY <1>1, <3>1 DEF MarksOne
        <4>2. b[i].place = index[i].place /\ b[i].pinned = index[i].pinned
          BY <2>2 DEF OnlyMarks
        <4>3. index[i].place \notin stored'
          BY <1>1, <1>2, <3>1, <4>2
        <4> QED BY <4>1, <4>2, <4>3
      <3>2. CASE i # id
        <4>1. c[i] = b[i]
          BY <1>1, <2>2, <3>2 DEF MarksOne, OnlyMarks
        <4> QED BY <1>2, <2>2, <4>1 DEF OnlyMarks
      <3> QED BY <3>1, <3>2
    <2> QED BY <1>2, <2>1, <2>3, <2>4 DEF OnlyMarks, Registered
  <1> QED BY <1>1, <1>3, <1>4, <1>5, <1>6 DEF RetentionInv

LEMMA WriteIndexKeeps ==
    ASSUME RetentionAssumption, RetentionInv, NEW p \in Invocations, WriteIndex(p)
    PROVE  RetentionInv'
  <1>1. RetentionTypes
    BY DEF RetentionInv
  <1>2. StepOf(p) /\ planPc'[p] = "idle"
    BY <1>1, EndIsStep DEF WriteIndex
  <1>3. /\ planPc[p] = "pruning" /\ index' = planLoc[p].before
        /\ stored' = stored /\ planLock' = Nobody
    BY DEF WriteIndex
  <1>4. RetentionTypes'
    BY <1>1, <1>3, EndTyped DEF WriteIndex, RetentionTypes
  <1>5. OnlyMarks(index')
    BY <1>3 DEF RetentionInv, PruningMarks
  <1>6. ExpiredIsGone'
    BY <1>3, <1>5 DEF ExpiredIsGone, OnlyMarks, Registered
  <1>7. \A q \in Invocations : planPc'[q] # "pruning"
    BY <1>2, <1>3 DEF RetentionInv, PruningIsLocked, StepOf
  <1>8. PruningIsLocked' /\ PruningMarks'
    BY <1>3, <1>7 DEF PruningIsLocked, PruningMarks, RetentionAssumption
  <1>9. PinsPlanned'
    BY <1>2 DEF RetentionInv, PinsPlanned, StepOf
  <1> QED BY <1>4, <1>6, <1>8, <1>9 DEF RetentionInv

(* A file is written where no item was pruned, and while nobody prunes.    *)
LEMMA StoreKeeps ==
    ASSUME RetentionAssumption, RetentionInv, NEW place \in Places, Store(place)
    PROVE  RetentionInv'
  <1>1. /\ UNCHANGED <<index, planPc, planLoc, planLock>> /\ planLock = Nobody
        /\ stored' = stored \cup {place}
        /\ \A id \in Registered : index[id].expired => index[id].place # place
    BY DEF Store
  <1>2. RetentionTypes'
    BY <1>1 DEF RetentionInv, RetentionTypes
  <1>3. \A q \in Invocations : planPc[q] # "pruning"
    BY <1>1 DEF RetentionInv, PruningIsLocked, RetentionAssumption
  <1>4. PruningIsLocked' /\ PinsPlanned'
    BY <1>1 DEF RetentionInv, PruningIsLocked, PinsPlanned
  <1>5. PruningMarks'
    BY <1>1, <1>3 DEF PruningMarks
  <1>6. ExpiredIsGone'
    BY <1>1 DEF RetentionInv, ExpiredIsGone, Registered
  <1> QED BY <1>2, <1>4, <1>5, <1>6 DEF RetentionInv

LEMMA RetentionSteps ==
    RetentionAssumption /\ RetentionInv /\ [RetentionNext]_retentionVars => RetentionInv'
  <1> SUFFICES ASSUME RetentionAssumption, RetentionInv, [RetentionNext]_retentionVars
               PROVE  RetentionInv'
    OBVIOUS
  <1>0. RetentionTypes /\ Nobody \notin Invocations
    BY DEF RetentionInv, RetentionAssumption
  <1>1. ASSUME NEW p \in Invocations, NEW id \in Items, NEW entry \in NewEntries,
               Register(p, id, entry)
        PROVE  RetentionInv'
    BY <1>1, RegisterKeeps
  <1>2. ASSUME NEW p \in Invocations, NEW id \in Items, NEW cited \in BOOLEAN,
               PlanPin(p, id, cited)
        PROVE  RetentionInv'
    <2>1. StepOf(p) /\ RetentionTypes' /\ planPc'[p] = "pin_planned"
          /\ OnlyPins(planLoc'[p].before, planLoc'[p].plan)
      BY <1>0, <1>2, PlanPinTypes DEF StepOf, RetentionTypes
    <2>2. UNCHANGED <<index, stored, planLock>> /\ planPc[p] = "idle"
      BY <1>2 DEF PlanPin
    <2> QED BY <2>1, <2>2, QuietStepKeeps DEF RetentionInv, PruningIsLocked
  <1>3. ASSUME NEW p \in Invocations, NEW id \in Items, PruneOne(p, id)
        PROVE  RetentionInv'
    BY <1>3, PruneOneKeeps
  <1>4. ASSUME NEW p \in Invocations, NEW id \in Items, PruneRefused(p, id)
        PROVE  RetentionInv'
    <2>1. StepOf(p) /\ planPc'[p] = "idle" /\ planPc[p] = "pruning" /\ planLock' = Nobody
          /\ UNCHANGED <<index, stored>>
      BY <1>0, <1>4, EndIsStep DEF PruneRefused
    <2>2. RetentionTypes'
      BY <1>0, <1>4, EndTyped DEF PruneRefused, RetentionTypes
    <2> QED BY <1>0, <2>1, <2>2, QuietStepKeeps DEF RetentionInv, PruningIsLocked
  <1>5. ASSUME NEW p \in Invocations, ApplyPin(p)
        PROVE  RetentionInv'
    BY <1>5, ApplyPinKeeps
  <1>6. ASSUME NEW p \in Invocations, RefusePin(p) \/ DeclineRetention(p)
        PROVE  RetentionInv'
    <2>1. StepOf(p) /\ planPc'[p] = "idle" /\ planPc[p] # "pruning"
          /\ UNCHANGED <<index, stored, planLock>>
      BY <1>0, <1>6, EndIsStep DEF RefusePin, DeclineRetention
    <2>2. RetentionTypes'
      BY <1>0, <1>6, EndTyped DEF RefusePin, DeclineRetention, RetentionTypes
    <2> QED BY <1>0, <2>1, <2>2, QuietStepKeeps DEF RetentionInv, PruningIsLocked
  <1>7. ASSUME NEW p \in Invocations, PlanPrune(p)
        PROVE  RetentionInv'
    <2>1. StepOf(p) /\ RetentionTypes' /\ planPc'[p] = "prune_planned"
      BY <1>0, <1>7, PlanPruneTypes DEF StepOf, RetentionTypes
    <2>2. UNCHANGED <<index, stored, planLock>> /\ planPc[p] = "idle"
      BY <1>7 DEF PlanPrune
    <2> QED BY <2>1, <2>2, QuietStepKeeps DEF RetentionInv, PruningIsLocked
  <1>8. ASSUME NEW p \in Invocations, BeginPrune(p)
        PROVE  RetentionInv'
    <2>1. StepOf(p) /\ RetentionTypes' /\ planPc'[p] = "pruning" /\ planLoc'[p].before = index
      BY <1>0, <1>8, BeginPruneTypes DEF StepOf, RetentionTypes
    <2>2. UNCHANGED <<index, stored>> /\ planLock = Nobody /\ planLock' = p
      BY <1>8 DEF BeginPrune
    <2> QED BY <1>0, <2>1, <2>2, QuietStepKeeps
  <1>9. ASSUME NEW p \in Invocations, WriteIndex(p)
        PROVE  RetentionInv'
    BY <1>9, WriteIndexKeeps
  <1>10. ASSUME NEW p \in Invocations, CrashPruning(p)
         PROVE  RetentionInv'
    <2>1. StepOf(p) /\ planPc'[p] = "idle" /\ planPc[p] = "pruning" /\ planLock' = Nobody
          /\ UNCHANGED <<index, stored>>
      BY <1>0, <1>10, EndIsStep DEF CrashPruning
    <2>2. RetentionTypes'
      BY <1>0, <1>10, EndTyped DEF CrashPruning, RetentionTypes
    <2> QED BY <1>0, <2>1, <2>2, QuietStepKeeps DEF RetentionInv, PruningIsLocked
  <1>11. CASE UNCHANGED <<index, stored, planPc, planLoc, planLock>>
    BY <1>11 DEF RetentionInv, RetentionTypes, PruningIsLocked, ExpiredIsGone, PinsPlanned,
                 PruningMarks, OnlyMarks, OnlyPins, Registered
  <1>12. ASSUME NEW id \in Items, Age(id)
         PROVE  RetentionInv'
    BY <1>11, <1>12 DEF Age
  <1>13. ASSUME NEW place \in Places, Link(place)
         PROVE  RetentionInv'
    BY <1>11, <1>13 DEF Link
  <1>15. ASSUME NEW place \in Places, Store(place)
         PROVE  RetentionInv'
    BY <1>15, StoreKeeps
  <1>14. CASE UNCHANGED retentionVars
    BY <1>11, <1>14 DEF retentionVars
  <1> QED BY <1>1, <1>2, <1>3, <1>4, <1>5, <1>6, <1>7, <1>8, <1>9, <1>10, <1>12, <1>13, <1>14,
         <1>15
      DEF RetentionNext

(* What the index marks as expired is gone, whatever else happens.         *)
THEOREM ExpiredItemsAreGone ==
    ASSUME RetentionAssumption
    PROVE  RetentionSpec => []ExpiredIsGone
  <1>1. RetentionInit => RetentionInv
    BY RetentionInitial
  <1>2. RetentionInv /\ [RetentionNext]_retentionVars => RetentionInv'
    BY RetentionSteps
  <1>3. RetentionInv => ExpiredIsGone
    BY DEF RetentionInv
  <1> QED BY <1>1, <1>2, <1>3, PTL DEF RetentionSpec

----------------------------------------------------------------------------
(* Pins survive                                                            *)

LEMMA PinsSurviveSteps ==
    ASSUME RetentionInv, RetentionNext, NEW i \in Registered, index[i].pinned
    PROVE  \/ index'[i].pinned
           \/ \E p \in Invocations, entry \in NewEntries : Register(p, i, entry)
  <1>1. CASE index' = index
    BY <1>1
  <1>2. ASSUME NEW p \in Invocations, NEW id \in Items, NEW entry \in NewEntries,
               Register(p, id, entry)
        PROVE  \/ index'[i].pinned
               \/ \E q \in Invocations, e \in NewEntries : Register(q, i, e)
    <2>1. CASE i = id
      BY <1>2, <2>1
    <2>2. CASE i # id
      <3>1. index'[i] = index[i]
        BY <1>2, <2>2 DEF Register
      <3> QED BY <3>1
    <2> QED BY <2>1, <2>2
  <1>3. ASSUME NEW p \in Invocations, ApplyPin(p)
        PROVE  index'[i].pinned
    <2>1. OnlyPins(index, index')
      BY <1>3 DEF ApplyPin, PinReviewed, RetentionInv, PinsPlanned
    <2> QED BY <2>1 DEF OnlyPins, Registered
  <1>4. ASSUME NEW p \in Invocations, WriteIndex(p)
        PROVE  index'[i].pinned
    <2>1. OnlyMarks(index')
      BY <1>4 DEF WriteIndex, RetentionInv, PruningMarks
    <2> QED BY <2>1 DEF OnlyMarks
  <1>5. ASSUME NEW p \in Invocations, NEW id \in Items, NEW cited \in BOOLEAN,
               PlanPin(p, id, cited) \/ PruneOne(p, id) \/ PruneRefused(p, id)
        PROVE  index' = index
    BY <1>5 DEF PlanPin, PruneOne, PruneRefused
  <1>6. ASSUME NEW p \in Invocations,
               RefusePin(p) \/ PlanPrune(p) \/ BeginPrune(p) \/ DeclineRetention(p)
                   \/ CrashPruning(p)
        PROVE  index' = index
    BY <1>6 DEF RefusePin, PlanPrune, BeginPrune, DeclineRetention, CrashPruning
  <1>7. ASSUME NEW id \in Items, Age(id)
        PROVE  index' = index
    BY <1>7 DEF Age
  <1>8. ASSUME NEW place \in Places, Store(place) \/ Link(place)
        PROVE  index' = index
    BY <1>8 DEF Store, Link
  <1> QED BY <1>1, <1>2, <1>3, <1>4, <1>5, <1>6, <1>7, <1>8 DEF RetentionNext

(* No step takes a pin away but registering the item anew.                 *)
THEOREM PinsAreKept ==
    ASSUME RetentionAssumption
    PROVE  RetentionSpec => PinsSurvive
  <1> DEFINE A == \A id \in Registered :
                      \/ ~index[id].pinned
                      \/ index'[id].pinned
                      \/ \E p \in Invocations, entry \in NewEntries : Register(p, id, entry)
  <1>1. RetentionInit => RetentionInv
    BY RetentionInitial
  <1>2. RetentionInv /\ [RetentionNext]_retentionVars => RetentionInv'
    BY RetentionSteps
  <1>3. RetentionInv /\ [RetentionNext]_retentionVars => [A]_retentionVars
    BY PinsSurviveSteps
  <1> QED BY <1>1, <1>2, <1>3, PTL DEF RetentionSpec, PinsSurvive

----------------------------------------------------------------------------
(* UpgradeRecovery: the invariant                                          *)

UpgradeLocal == [id : Ids, before : PartialContents, after : PartialContents]

UpgradePoints ==
    {"idle", "candidates", "upgrade_planned", "saved", "rollback_planned", "rolled_back"}

UpgradeTypes ==
    /\ files \in [ManagedPaths -> Contents]
    /\ DOMAIN points \subseteq Ids
    /\ points \in [DOMAIN points -> Point]
    /\ original \in [DOMAIN original -> PartialContents]
    /\ planLock \in Invocations \cup {Nobody}
    /\ planPc \in [Invocations -> UpgradePoints]
    /\ planLoc \in [Invocations -> UpgradeLocal]

(* What an upgrade with this result replaces.                              *)
Replaces(result, before) ==
    /\ DOMAIN before = DOMAIN result
    /\ \A path \in DOMAIN result :
           before[path] # result[path] /\ Upgraded[before[path]] = result[path]

PointsReplaced ==
    \A id \in DOMAIN points : Replaces(id, points[id].before)

(* The last upgrade of an id has its recovery point, not yet used.         *)
OriginalIsSaved ==
    \A id \in DOMAIN original :
        /\ id \in DOMAIN points
        /\ points[id].before = original[id]
        /\ ~points[id].rolledBack

(* What is written is under the lock.                                      *)
WritingIsLocked ==
    \A p \in Invocations : planPc[p] \in {"saved", "rolled_back"} <=> planLock = p

(* Upgrades and rollbacks leave what a file becomes by an upgrade.         *)
CandidatesHold(p) ==
    /\ DOMAIN planLoc[p].after = ManagedPaths
    /\ \A path \in ManagedPaths : Upgraded[files[path]] = planLoc[p].after[path]

UpgradePlanned(p) ==
    /\ planLoc[p].id = planLoc[p].after
    /\ Replaces(planLoc[p].id, planLoc[p].before)

RollbackPlanned(p) ==
    /\ planLoc[p].id \in DOMAIN points
    /\ planLoc[p].before = planLoc[p].id
    /\ Replaces(planLoc[p].id, planLoc[p].after)

PlanHolds(p) ==
    /\ planPc[p] = "candidates" => CandidatesHold(p)
    /\ planPc[p] \in {"upgrade_planned", "saved"} => UpgradePlanned(p)
    /\ planPc[p] \in {"rollback_planned", "rolled_back"} => RollbackPlanned(p)
    /\ planPc[p] = "saved" =>
           /\ planLoc[p].id \in DOMAIN points
           /\ points[planLoc[p].id] = [before |-> planLoc[p].before, rolledBack |-> FALSE]
    /\ planPc[p] = "rolled_back" => planLoc[p].id \notin DOMAIN original

PlansHold == \A p \in Invocations : PlanHolds(p)

UpgradeInv ==
    /\ UpgradeTypes /\ PointsReplaced /\ OriginalIsSaved /\ WritingIsLocked /\ PlansHold

----------------------------------------------------------------------------
(* Contents of some of the files                                           *)

LEMMA PartialIsFunction ==
    ASSUME NEW f \in PartialContents
    PROVE  f \in [DOMAIN f -> Contents] /\ DOMAIN f \in SUBSET ManagedPaths
  <1>1. PICK D \in SUBSET ManagedPaths : f \in [D -> Contents]
    BY DEF PartialContents
  <1> QED BY <1>1

LEMMA PartialMade ==
    ASSUME NEW D \in SUBSET ManagedPaths, NEW f \in [D -> Contents]
    PROVE  f \in PartialContents
  BY DEF PartialContents

LEMMA RestrictedIsPartial ==
    ASSUME NEW f \in [ManagedPaths -> Contents], NEW D \in SUBSET ManagedPaths
    PROVE  /\ Restrict(f, D) \in PartialContents
           /\ DOMAIN Restrict(f, D) = D
           /\ \A path \in D : Restrict(f, D)[path] = f[path]
  <1>1. Restrict(f, D) \in [D -> Contents]
    BY DEF Restrict
  <1>2. Restrict(f, D) \in PartialContents
    BY <1>1, PartialMade
  <1> QED BY <1>2 DEF Restrict

LEMMA NoContentsTyped == NoContents \in PartialContents
  <1>1. NoContents \in [{} -> Contents]
    BY DEF NoContents
  <1> QED BY <1>1, PartialMade

----------------------------------------------------------------------------
(* Types                                                                   *)

(* A step of p leaves the others where they are.                           *)
UpgradeStepOf(p) ==
    /\ planPc' \in [Invocations -> UpgradePoints]
    /\ planLoc' \in [Invocations -> UpgradeLocal]
    /\ \A q \in Invocations \ {p} : planPc'[q] = planPc[q] /\ planLoc'[q] = planLoc[q]

LEMMA UpgradeMoves ==
    ASSUME UpgradeTypes, NEW p \in Invocations, NEW point \in UpgradePoints, PlanAt(p, point),
           NEW l \in UpgradeLocal, planLoc' = [planLoc EXCEPT ![p] = l]
    PROVE  UpgradeStepOf(p) /\ planPc'[p] = point /\ planLoc'[p] = l
  BY DEF UpgradeTypes, PlanAt, UpgradeStepOf

LEMMA UpgradeGoes ==
    ASSUME UpgradeTypes, NEW p \in Invocations, NEW point \in UpgradePoints, PlanAt(p, point),
           planLoc' = planLoc
    PROVE  UpgradeStepOf(p) /\ planPc'[p] = point /\ planLoc'[p] = planLoc[p]
  BY DEF UpgradeTypes, PlanAt, UpgradeStepOf

LEMMA UpgradeEnds ==
    ASSUME UpgradeTypes, NEW p \in Invocations, EndUpgrade(p)
    PROVE  /\ UpgradeStepOf(p) /\ planPc'[p] = "idle"
           /\ planLock' \in Invocations \cup {Nobody}
           /\ planLock = p => planLock' = Nobody
           /\ planLock # p => planLock' = planLock
  <1>1. NoUpgrade \in UpgradeLocal
    BY NoContentsTyped DEF NoUpgrade, UpgradeLocal, Ids
  <1>2. PlanAt(p, "idle") /\ planLoc' = [planLoc EXCEPT ![p] = NoUpgrade]
    BY DEF EndUpgrade
  <1>3. UpgradeStepOf(p) /\ planPc'[p] = "idle"
    BY <1>1, <1>2, UpgradeMoves DEF UpgradePoints
  <1> QED BY <1>3 DEF EndUpgrade, UpgradeTypes

LEMMA TransactTyped ==
    ASSUME UpgradeTypes, NEW p \in Invocations, Transact(p)
    PROVE  /\ files' \in [ManagedPaths -> Contents]
           /\ \A path \in DOMAIN planLoc[p].after : files'[path] = planLoc[p].after[path]
           /\ \A path \in ManagedPaths \ DOMAIN planLoc[p].after : files'[path] = files[path]
  <1>1. planLoc[p].after \in PartialContents
    BY DEF UpgradeTypes, UpgradeLocal
  <1>2. /\ planLoc[p].after \in [DOMAIN planLoc[p].after -> Contents]
        /\ DOMAIN planLoc[p].after \in SUBSET ManagedPaths
    BY <1>1, PartialIsFunction
  <1> QED BY <1>2 DEF Transact, UpgradeTypes

----------------------------------------------------------------------------
(* What a step leaves of the plans of the others                           *)

PointsStay == DOMAIN points \subseteq DOMAIN points'

(* Upgrading would make the same of each file.                             *)
SameResults ==
    \A path \in ManagedPaths : Upgraded[files'[path]] = Upgraded[files[path]]

LEMMA PlanStays ==
    ASSUME NEW q \in Invocations, PlanHolds(q),
           planPc'[q] = planPc[q], planLoc'[q] = planLoc[q], PointsStay,
           planPc[q] = "candidates" => SameResults,
           planPc[q] = "saved" => points' = points,
           planPc[q] = "rolled_back" => original' = original
    PROVE  PlanHolds(q)'
  <1>1. ASSUME planPc[q] = "candidates" PROVE CandidatesHold(q)'
    BY <1>1 DEF PlanHolds, CandidatesHold, SameResults
  <1>2. ASSUME planPc[q] \in {"upgrade_planned", "saved"} PROVE UpgradePlanned(q)'
    BY <1>2 DEF PlanHolds, UpgradePlanned, Replaces
  <1>3. ASSUME planPc[q] \in {"rollback_planned", "rolled_back"} PROVE RollbackPlanned(q)'
    BY <1>3 DEF PlanHolds, RollbackPlanned, PointsStay, Replaces
  <1>4. ASSUME planPc[q] = "saved"
        PROVE  /\ planLoc'[q].id \in DOMAIN points'
               /\ points'[planLoc'[q].id] =
                      [before |-> planLoc'[q].before, rolledBack |-> FALSE]
    BY <1>4 DEF PlanHolds
  <1>5. ASSUME planPc[q] = "rolled_back" PROVE planLoc'[q].id \notin DOMAIN original'
    BY <1>5 DEF PlanHolds
  <1> QED BY <1>1, <1>2, <1>3, <1>4, <1>5 DEF PlanHolds

(* Who does not hold the lock writes nothing.                              *)
LEMMA OthersDoNotWrite ==
    ASSUME UpgradeAssumption, WritingIsLocked, NEW p \in Invocations,
           planLock = Nobody \/ planLock = p,
           NEW q \in Invocations \ {p}
    PROVE  planPc[q] # "saved" /\ planPc[q] # "rolled_back"
  BY DEF WritingIsLocked, UpgradeAssumption

LEMMA LockFollows ==
    ASSUME UpgradeAssumption, WritingIsLocked, NEW p \in Invocations, UpgradeStepOf(p),
           \/ /\ planPc'[p] \in {"saved", "rolled_back"}
              /\ planLock = Nobody \/ planLock = p
              /\ planLock' = p
           \/ /\ planPc'[p] \notin {"saved", "rolled_back"}
              /\ planLock = p => planLock' = Nobody
              /\ planLock # p => planLock' = planLock
    PROVE  WritingIsLocked'
  BY DEF WritingIsLocked, UpgradeStepOf, UpgradeAssumption

(* Steps that read, and leave the files, points and history alone.         *)
LEMMA ReadingKeeps ==
    ASSUME UpgradeAssumption, UpgradeInv, NEW p \in Invocations, UpgradeStepOf(p),
           UNCHANGED <<files, points, original>>,
           planLock' \in Invocations \cup {Nobody},
           \/ planPc'[p] \in {"saved", "rolled_back"} /\ planLock = p /\ planLock' = p
           \/ /\ planPc'[p] \notin {"saved", "rolled_back"}
              /\ planLock = p => planLock' = Nobody
              /\ planLock # p => planLock' = planLock,
           PlanHolds(p)'
    PROVE  UpgradeInv'
  <1>1. UpgradeTypes'
    BY DEF UpgradeInv, UpgradeTypes, UpgradeStepOf
  <1>2. PointsReplaced' /\ OriginalIsSaved'
    BY DEF UpgradeInv, PointsReplaced, OriginalIsSaved, Replaces
  <1>3. WritingIsLocked'
    BY LockFollows DEF UpgradeInv
  <1>4. PointsStay /\ SameResults
    BY DEF PointsStay, SameResults
  <1>5. ASSUME NEW q \in Invocations \ {p} PROVE PlanHolds(q)'
    BY <1>4, PlanStays DEF UpgradeInv, PlansHold, UpgradeStepOf
  <1>6. PlansHold'
    BY <1>5 DEF PlansHold
  <1> QED BY <1>1, <1>2, <1>3, <1>6 DEF UpgradeInv

LEMMA EndingKeeps ==
    ASSUME UpgradeAssumption, UpgradeInv, NEW p \in Invocations, EndUpgrade(p),
           UNCHANGED <<files, points, original>>
    PROVE  UpgradeInv'
  <1>1. /\ UpgradeStepOf(p) /\ planPc'[p] = "idle"
        /\ planLock' \in Invocations \cup {Nobody}
        /\ planLock = p => planLock' = Nobody
        /\ planLock # p => planLock' = planLock
    BY UpgradeEnds DEF UpgradeInv
  <1>2. PlanHolds(p)'
    BY <1>1 DEF PlanHolds
  <1> QED BY <1>1, <1>2, ReadingKeeps

LEMMA PlanUpgradeKeeps ==
    ASSUME UpgradeAssumption, UpgradeInv, NEW p \in Invocations, PlanUpgrade(p)
    PROVE  UpgradeInv'
  <1> DEFINE after == [path \in ManagedPaths |-> Upgraded[files[path]]]
             l == [planLoc[p] EXCEPT !.after = after]
  <1>1. UpgradeTypes
    BY DEF UpgradeInv
  <1>2. after \in [ManagedPaths -> Contents]
    BY <1>1 DEF UpgradeTypes, UpgradeAssumption
  <1>3. after \in PartialContents
    BY <1>2, PartialMade
  <1>4. DOMAIN after = ManagedPaths /\ \A path \in ManagedPaths : after[path] = Upgraded[files[path]]
    OBVIOUS
  <1>5. planLoc' = [planLoc EXCEPT ![p] = l]
    BY <1>1 DEF PlanUpgrade, UpgradeTypes
  <1> HIDE DEF after
  <1>6. l \in UpgradeLocal /\ l.after = after
    BY <1>1, <1>3 DEF UpgradeTypes, UpgradeLocal
  <1> HIDE DEF l
  <1>7. UpgradeStepOf(p) /\ planPc'[p] = "candidates" /\ planLoc'[p] = l
    BY <1>1, <1>5, <1>6, UpgradeMoves DEF PlanUpgrade, UpgradePoints
  <1>8. UNCHANGED <<files, points, original, planLock>> /\ planPc[p] = "idle"
    BY DEF PlanUpgrade
  <1>9. PlanHolds(p)'
    BY <1>4, <1>6, <1>7, <1>8 DEF PlanHolds, CandidatesHold
  <1>10. planLock' \in Invocations \cup {Nobody} /\ planLock # p
    BY <1>1, <1>8 DEF UpgradeTypes, UpgradeInv, WritingIsLocked
  <1> QED BY <1>7, <1>8, <1>9, <1>10, ReadingKeeps

LEMMA CompareKeeps ==
    ASSUME UpgradeAssumption, UpgradeInv, NEW p \in Invocations, Compare(p)
    PROVE  UpgradeInv'
  <1> DEFINE changed == {path \in ManagedPaths : files[path] # planLoc[p].after[path]}
             after == Restrict(planLoc[p].after, changed)
             before == Restrict(files, changed)
             l == [id |-> after, after |-> after, before |-> before]
  <1>1. UpgradeTypes
    BY DEF UpgradeInv
  <1>2. planPc[p] = "candidates" /\ CandidatesHold(p)
    BY DEF Compare, UpgradeInv, PlansHold, PlanHolds
  <1>3. planLoc[p].after \in [ManagedPaths -> Contents]
    BY <1>1, <1>2, PartialIsFunction DEF UpgradeTypes, UpgradeLocal, CandidatesHold
  <1>4. /\ after \in PartialContents /\ DOMAIN after = changed
        /\ \A path \in changed : after[path] = planLoc[p].after[path]
    BY <1>3, RestrictedIsPartial
  <1>5. /\ before \in PartialContents /\ DOMAIN before = changed
        /\ \A path \in changed : before[path] = files[path]
    BY <1>1, RestrictedIsPartial DEF UpgradeTypes
  <1>6. planLoc' = [planLoc EXCEPT ![p] = l]
    BY DEF Compare
  <1>a. \A path \in changed : /\ files[path] # planLoc[p].after[path]
                              /\ Upgraded[files[path]] = planLoc[p].after[path]
    BY <1>2 DEF CandidatesHold
  <1> HIDE DEF after, before, changed
  <1>7. Replaces(after, before)
    BY <1>4, <1>5, <1>a DEF Replaces
  <1>8. l \in UpgradeLocal /\ l.id = after /\ l.after = after /\ l.before = before
    BY <1>4, <1>5 DEF UpgradeLocal, Ids
  <1> HIDE DEF l
  <1>9. UpgradeStepOf(p) /\ planPc'[p] = "upgrade_planned" /\ planLoc'[p] = l
    BY <1>1, <1>6, <1>8, UpgradeMoves DEF Compare, UpgradePoints
  <1>10. UNCHANGED <<files, points, original, planLock>>
    BY DEF Compare
  <1>11. PlanHolds(p)'
    BY <1>7, <1>8, <1>9 DEF PlanHolds, UpgradePlanned, Replaces
  <1>12. planLock' \in Invocations \cup {Nobody} /\ planLock # p
    BY <1>1, <1>2, <1>10 DEF UpgradeTypes, UpgradeInv, WritingIsLocked
  <1> QED BY <1>9, <1>10, <1>11, <1>12, ReadingKeeps

LEMMA PlanRollbackKeeps ==
    ASSUME UpgradeAssumption, UpgradeInv, NEW p \in Invocations, NEW id \in DOMAIN points,
           PlanRollback(p, id)
    PROVE  UpgradeInv'
  <1> DEFINE before == Restrict(files, DOMAIN id)
             l == [id |-> id, before |-> before, after |-> points[id].before]
  <1>1. UpgradeTypes
    BY DEF UpgradeInv
  <1>2. /\ id \in PartialContents
        /\ id \in [DOMAIN id -> Contents] /\ DOMAIN id \in SUBSET ManagedPaths
    BY <1>1, PartialIsFunction DEF UpgradeTypes, Ids
  <1>3. points[id].before \in PartialContents
    BY <1>1 DEF UpgradeTypes, Point
  <1>4. before = id
    <2>1. before = [path \in DOMAIN id |-> files[path]]
      BY DEF Restrict
    <2>2. \A path \in DOMAIN id : files[path] = id[path]
      BY DEF PlanRollback, Unedited, Agree
    <2> QED BY <1>2, <2>1, <2>2
  <1>5. planLoc' = [planLoc EXCEPT ![p] = l]
    BY DEF PlanRollback
  <1> HIDE DEF before
  <1>6. l \in UpgradeLocal /\ l.id = id /\ l.before = id /\ l.after = points[id].before
    BY <1>2, <1>3, <1>4 DEF UpgradeLocal, Ids
  <1> HIDE DEF l
  <1>7. UpgradeStepOf(p) /\ planPc'[p] = "rollback_planned" /\ planLoc'[p] = l
    BY <1>1, <1>5, <1>6, UpgradeMoves DEF PlanRollback, UpgradePoints
  <1>8. UNCHANGED <<files, points, original, planLock>> /\ planPc[p] = "idle"
    BY DEF PlanRollback
  <1>9. PlanHolds(p)'
    <2>1. Replaces(id, l.after)
      BY <1>6 DEF UpgradeInv, PointsReplaced
    <2>2. RollbackPlanned(p)'
      BY <1>6, <1>7, <1>8, <2>1 DEF RollbackPlanned, Replaces
    <2> QED BY <1>7, <2>2 DEF PlanHolds
  <1>10. planLock' \in Invocations \cup {Nobody} /\ planLock # p
    BY <1>1, <1>8 DEF UpgradeTypes, UpgradeInv, WritingIsLocked
  <1> QED BY <1>7, <1>8, <1>9, <1>10, ReadingKeeps

----------------------------------------------------------------------------
(* What the lock is taken for                                              *)

(* A point of the same id is replaced.                                     *)
LEMMA SavePointKeeps ==
    ASSUME UpgradeAssumption, UpgradeInv, NEW p \in Invocations, SavePoint(p)
    PROVE  UpgradeInv'
  <1> DEFINE id == planLoc[p].id
             point == [before |-> planLoc[p].before, rolledBack |-> FALSE]
  <1>1. UpgradeTypes
    BY DEF UpgradeInv
  <1>2. /\ planPc[p] = "upgrade_planned" /\ planLock = Nobody
        /\ planLock' = p /\ points' = With(points, id, point)
        /\ original' = Without(original, id)
        /\ PlanAt(p, "saved") /\ UNCHANGED <<files, planLoc>>
    BY DEF SavePoint, Saved
  <1>3. UpgradePlanned(p)
    BY <1>2 DEF UpgradeInv, PlansHold, PlanHolds
  <1>4. /\ id \in Ids /\ id \in PartialContents /\ planLoc[p].before \in PartialContents
        /\ point \in Point /\ point.before = planLoc[p].before /\ ~point.rolledBack
        /\ point = [before |-> planLoc[p].before, rolledBack |-> FALSE]
    BY <1>1 DEF UpgradeTypes, UpgradeLocal, Point, Ids
  <1> HIDE DEF point
  <1>5. /\ points' \in [DOMAIN points \cup {id} -> Point]
        /\ DOMAIN points' = DOMAIN points \cup {id}
        /\ points'[id] = point
        /\ \A j \in DOMAIN points : j # id => points'[j] = points[j]
    <2>1. points \in [DOMAIN points -> Point] /\ point \in Point
      BY <1>1, <1>4 DEF UpgradeTypes
    <2>2. /\ With(points, id, point) \in [DOMAIN points \cup {id} -> Point]
          /\ DOMAIN With(points, id, point) = DOMAIN points \cup {id}
          /\ With(points, id, point)[id] = point
          /\ \A j \in DOMAIN points : j # id => With(points, id, point)[j] = points[j]
      BY <2>1 DEF With
    <2> QED BY <1>2, <2>2
  <1>6. Replaces(id, planLoc[p].before)
    BY <1>3 DEF UpgradePlanned
  <1>7. /\ DOMAIN original' = DOMAIN original \ {id}
        /\ original' \in [DOMAIN original \ {id} -> PartialContents]
        /\ \A j \in DOMAIN original \ {id} : original'[j] = original[j]
    <2>1. original \in [DOMAIN original -> PartialContents]
      BY <1>1 DEF UpgradeTypes
    <2>2. /\ DOMAIN Without(original, id) = DOMAIN original \ {id}
          /\ Without(original, id) \in [DOMAIN original \ {id} -> PartialContents]
          /\ \A j \in DOMAIN original \ {id} : Without(original, id)[j] = original[j]
      BY <2>1 DEF Without, Restrict
    <2> QED BY <1>2, <2>2
  <1>8. PointsStay
    BY <1>5 DEF PointsStay
  <1>9. UpgradeStepOf(p) /\ planPc'[p] = "saved" /\ planLoc'[p] = planLoc[p]
    BY <1>1, <1>2, UpgradeGoes DEF UpgradePoints
  <1>10. UpgradeTypes'
    BY <1>1, <1>2, <1>4, <1>5, <1>7, <1>9 DEF UpgradeTypes, UpgradeStepOf
  <1>11. PointsReplaced'
    <2>1. \A j \in DOMAIN points' : Replaces(j, points'[j].before)
      BY <1>4, <1>5, <1>6 DEF UpgradeInv, PointsReplaced
    <2> QED BY <2>1 DEF PointsReplaced, Replaces
  <1>12. OriginalIsSaved'
    BY <1>5, <1>7 DEF UpgradeInv, OriginalIsSaved
  <1>13. WritingIsLocked'
    BY <1>2, <1>9, LockFollows DEF UpgradeInv
  <1>14. ASSUME NEW q \in Invocations \ {p} PROVE PlanHolds(q)'
    <2>1. planPc[q] # "saved" /\ planPc[q] # "rolled_back"
      BY <1>2, OthersDoNotWrite DEF UpgradeInv
    <2>2. SameResults
      BY <1>2 DEF SameResults
    <2> QED BY <1>8, <1>9, <2>1, <2>2, PlanStays DEF UpgradeInv, PlansHold, UpgradeStepOf
  <1>15. PlanHolds(p)'
    <2>1. UpgradePlanned(p)'
      BY <1>2, <1>3 DEF UpgradePlanned, Replaces
    <2> QED BY <1>4, <1>5, <1>9, <2>1 DEF PlanHolds
  <1>16. PlansHold'
    BY <1>14, <1>15 DEF PlansHold
  <1> QED BY <1>10, <1>11, <1>12, <1>13, <1>16 DEF UpgradeInv

LEMMA UpgradeKeeps ==
    ASSUME UpgradeAssumption, UpgradeInv, NEW p \in Invocations, Upgrade(p)
    PROVE  UpgradeInv'
  <1> DEFINE id == planLoc[p].id
             before == planLoc[p].before
  <1>1. UpgradeTypes
    BY DEF UpgradeInv
  <1>2. /\ planPc[p] = "saved" /\ Agree(before) /\ Transact(p)
        /\ original' = With(original, id, before)
        /\ EndUpgrade(p) /\ points' = points
    BY DEF Upgrade
  <1>3. /\ id = planLoc[p].after /\ Replaces(id, before)
        /\ id \in DOMAIN points /\ ~points[id].rolledBack /\ points[id].before = before
    <2>1. UpgradePlanned(p) /\ PlanHolds(p)
      BY <1>2 DEF UpgradeInv, PlansHold, PlanHolds
    <2>2. /\ id \in DOMAIN points
          /\ points[id] = [before |-> before, rolledBack |-> FALSE]
      BY <1>2, <2>1 DEF PlanHolds
    <2>3. ~points[id].rolledBack /\ points[id].before = before
      BY <2>2
    <2> QED BY <2>1, <2>2, <2>3 DEF UpgradePlanned
  <1>4. id \in PartialContents /\ before \in PartialContents
    BY <1>1 DEF UpgradeTypes, UpgradeLocal, Ids
  <1>5. /\ UpgradeStepOf(p) /\ planPc'[p] = "idle"
        /\ planLock' \in Invocations \cup {Nobody}
        /\ planLock = p => planLock' = Nobody
        /\ planLock # p => planLock' = planLock
    BY <1>1, <1>2, UpgradeEnds
  <1>6. /\ files' \in [ManagedPaths -> Contents]
        /\ \A path \in DOMAIN id : files'[path] = id[path]
        /\ \A path \in ManagedPaths \ DOMAIN id : files'[path] = files[path]
    BY <1>1, <1>2, <1>3, TransactTyped
  <1>7. /\ original' \in [DOMAIN original \cup {id} -> PartialContents]
        /\ DOMAIN original' = DOMAIN original \cup {id}
        /\ original'[id] = before
        /\ \A j \in DOMAIN original : j # id => original'[j] = original[j]
    <2>1. original \in [DOMAIN original -> PartialContents] /\ before \in PartialContents
      BY <1>1, <1>4 DEF UpgradeTypes
    <2>2. /\ With(original, id, before) \in [DOMAIN original \cup {id} -> PartialContents]
          /\ DOMAIN With(original, id, before) = DOMAIN original \cup {id}
          /\ With(original, id, before)[id] = before
          /\ \A j \in DOMAIN original : j # id => With(original, id, before)[j] = original[j]
      BY <2>1 DEF With
    <2> QED BY <1>2, <2>2
  <1>9. SameResults
    <2> SUFFICES ASSUME NEW path \in ManagedPaths
                 PROVE  Upgraded[files'[path]] = Upgraded[files[path]]
      BY DEF SameResults
    <2>1. CASE path \in DOMAIN id
      <3>1. files[path] = before[path] /\ Upgraded[before[path]] = id[path]
        BY <1>2, <1>3, <2>1 DEF Agree, Replaces
      <3>2. files[path] \in Contents
        BY <1>1 DEF UpgradeTypes
      <3> QED BY <1>6, <2>1, <3>1, <3>2 DEF UpgradeAssumption
    <2>2. CASE path \notin DOMAIN id
      BY <1>6, <2>2
    <2> QED BY <2>1, <2>2
  <1>10. UpgradeTypes'
    BY <1>1, <1>2, <1>5, <1>6, <1>7 DEF UpgradeTypes, UpgradeStepOf
  <1>11. PointsReplaced'
    BY <1>2 DEF UpgradeInv, PointsReplaced, Replaces
  <1>12. OriginalIsSaved'
    BY <1>2, <1>3, <1>7 DEF UpgradeInv, OriginalIsSaved
  <1>13. WritingIsLocked'
    BY <1>5, LockFollows DEF UpgradeInv
  <1>14. planLock = p
    BY <1>2 DEF UpgradeInv, WritingIsLocked
  <1>15. ASSUME NEW q \in Invocations \ {p} PROVE PlanHolds(q)'
    <2>1. planPc[q] # "saved" /\ planPc[q] # "rolled_back"
      BY <1>14, OthersDoNotWrite DEF UpgradeInv
    <2>2. PointsStay
      BY <1>2 DEF PointsStay
    <2> QED BY <1>5, <1>9, <2>1, <2>2, PlanStays DEF UpgradeInv, PlansHold, UpgradeStepOf
  <1>16. PlanHolds(p)'
    BY <1>5 DEF PlanHolds
  <1>17. PlansHold'
    BY <1>15, <1>16 DEF PlansHold
  <1> QED BY <1>10, <1>11, <1>12, <1>13, <1>17 DEF UpgradeInv

LEMMA RollbackKeeps ==
    ASSUME UpgradeAssumption, UpgradeInv, NEW p \in Invocations, Rollback(p)
    PROVE  UpgradeInv'
  <1> DEFINE id == planLoc[p].id
             after == planLoc[p].after
  <1>1. UpgradeTypes
    BY DEF UpgradeInv
  <1>2. /\ planPc[p] = "rollback_planned" /\ planLock = Nobody /\ planLock' = p
        /\ Agree(planLoc[p].before) /\ Transact(p)
        /\ original' = Without(original, id)
        /\ PlanAt(p, "rolled_back") /\ UNCHANGED <<points, planLoc>>
    BY DEF Rollback
  <1>3. RollbackPlanned(p)
    BY <1>2 DEF UpgradeInv, PlansHold, PlanHolds
  <1>4. /\ id \in DOMAIN points /\ Agree(id) /\ Replaces(id, after)
    BY <1>2, <1>3 DEF RollbackPlanned, UpgradeInv, PointsReplaced
  <1>5. UpgradeStepOf(p) /\ planPc'[p] = "rolled_back" /\ planLoc'[p] = planLoc[p]
    BY <1>1, <1>2, UpgradeGoes DEF UpgradePoints
  <1>6. /\ files' \in [ManagedPaths -> Contents]
        /\ \A path \in DOMAIN id : files'[path] = after[path]
        /\ \A path \in ManagedPaths \ DOMAIN id : files'[path] = files[path]
    BY <1>1, <1>2, <1>4, TransactTyped DEF Replaces
  <1>7. /\ DOMAIN original' = DOMAIN original \ {id}
        /\ original' \in [DOMAIN original \ {id} -> PartialContents]
        /\ \A j \in DOMAIN original \ {id} : original'[j] = original[j]
    <2>1. original \in [DOMAIN original -> PartialContents]
      BY <1>1 DEF UpgradeTypes
    <2>2. /\ DOMAIN Without(original, id) = DOMAIN original \ {id}
          /\ Without(original, id) \in [DOMAIN original \ {id} -> PartialContents]
          /\ \A j \in DOMAIN original \ {id} : Without(original, id)[j] = original[j]
      BY <2>1 DEF Without, Restrict
    <2> QED BY <1>2, <2>2
  <1>8. id \in PartialContents /\ after \in PartialContents
    BY <1>1 DEF UpgradeTypes, UpgradeLocal, Ids
  <1>9. SameResults
    <2> SUFFICES ASSUME NEW path \in ManagedPaths
                 PROVE  Upgraded[files'[path]] = Upgraded[files[path]]
      BY DEF SameResults
    <2>1. CASE path \in DOMAIN id
      <3>1. files[path] = id[path] /\ Upgraded[after[path]] = id[path]
        BY <1>4, <2>1 DEF Agree, Replaces
      <3>2. after[path] \in Contents
        BY <1>4, <1>8, <2>1, PartialIsFunction DEF Replaces
      <3> QED BY <1>6, <2>1, <3>1, <3>2 DEF UpgradeAssumption
    <2>2. CASE path \notin DOMAIN id
      BY <1>6, <2>2
    <2> QED BY <2>1, <2>2
  <1>10. UpgradeTypes'
    BY <1>1, <1>2, <1>5, <1>6, <1>7 DEF UpgradeTypes, UpgradeStepOf
  <1>11. PointsReplaced'
    BY <1>2 DEF UpgradeInv, PointsReplaced, Replaces
  <1>12. OriginalIsSaved'
    BY <1>2, <1>7 DEF UpgradeInv, OriginalIsSaved
  <1>13. WritingIsLocked'
    BY <1>2, <1>5, LockFollows DEF UpgradeInv
  <1>14. PointsStay
    BY <1>2 DEF PointsStay
  <1>15. ASSUME NEW q \in Invocations \ {p} PROVE PlanHolds(q)'
    <2>1. planPc[q] # "saved" /\ planPc[q] # "rolled_back"
      BY <1>2, OthersDoNotWrite DEF UpgradeInv
    <2> QED BY <1>5, <1>9, <1>14, <2>1, PlanStays DEF UpgradeInv, PlansHold, UpgradeStepOf
  <1>16. PlanHolds(p)'
    <2>1. RollbackPlanned(p)'
      BY <1>2, <1>3 DEF RollbackPlanned, Replaces
    <2> QED BY <1>2, <1>5, <1>7, <2>1 DEF PlanHolds
  <1>17. PlansHold'
    BY <1>15, <1>16 DEF PlansHold
  <1> QED BY <1>10, <1>11, <1>12, <1>13, <1>17 DEF UpgradeInv

LEMMA MarkKeeps ==
    ASSUME UpgradeAssumption, UpgradeInv, NEW p \in Invocations, Mark(p)
    PROVE  UpgradeInv'
  <1> DEFINE id == planLoc[p].id
             point == [points[id] EXCEPT !.rolledBack = TRUE]
  <1>1. UpgradeTypes
    BY DEF UpgradeInv
  <1>2. /\ planPc[p] = "rolled_back" /\ EndUpgrade(p) /\ UNCHANGED <<files, original>>
        /\ points' = [points EXCEPT ![id] = point]
    BY DEF Mark
  <1>3. id \in DOMAIN points /\ id \notin DOMAIN original
    BY <1>2 DEF UpgradeInv, PlansHold, PlanHolds, RollbackPlanned
  <1>4. point \in Point /\ point.before = points[id].before
    BY <1>1, <1>3 DEF UpgradeTypes, Point
  <1> HIDE DEF point
  <1>5. /\ points' \in [DOMAIN points -> Point] /\ DOMAIN points' = DOMAIN points
        /\ points'[id] = point
        /\ \A j \in DOMAIN points : j # id => points'[j] = points[j]
    BY <1>1, <1>2, <1>3, <1>4 DEF UpgradeTypes
  <1>6. /\ UpgradeStepOf(p) /\ planPc'[p] = "idle"
        /\ planLock' \in Invocations \cup {Nobody}
        /\ planLock = p => planLock' = Nobody
        /\ planLock # p => planLock' = planLock
    BY <1>1, <1>2, UpgradeEnds
  <1>7. PointsStay
    BY <1>4, <1>5 DEF PointsStay
  <1>8. UpgradeTypes'
    BY <1>1, <1>2, <1>5, <1>6 DEF UpgradeTypes, UpgradeStepOf
  <1>9. PointsReplaced'
    <2>1. \A j \in DOMAIN points' : Replaces(j, points'[j].before)
      BY <1>4, <1>5 DEF UpgradeInv, PointsReplaced
    <2> QED BY <2>1 DEF PointsReplaced, Replaces
  <1>10. OriginalIsSaved'
    BY <1>2, <1>3, <1>5 DEF UpgradeInv, OriginalIsSaved
  <1>11. WritingIsLocked'
    BY <1>6, LockFollows DEF UpgradeInv
  <1>12. planLock = p
    BY <1>2 DEF UpgradeInv, WritingIsLocked
  <1>13. ASSUME NEW q \in Invocations \ {p} PROVE PlanHolds(q)'
    <2>1. planPc[q] # "saved" /\ planPc[q] # "rolled_back"
      BY <1>12, OthersDoNotWrite DEF UpgradeInv
    <2>2. SameResults
      BY <1>2 DEF SameResults
    <2> QED BY <1>6, <1>7, <2>1, <2>2, PlanStays DEF UpgradeInv, PlansHold, UpgradeStepOf
  <1>14. PlanHolds(p)'
    BY <1>6 DEF PlanHolds
  <1>15. PlansHold'
    BY <1>13, <1>14 DEF PlansHold
  <1> QED BY <1>8, <1>9, <1>10, <1>11, <1>15 DEF UpgradeInv

(* Who edits waits until the files have been read.                         *)
LEMMA EditKeeps ==
    ASSUME UpgradeAssumption, "meddle" \notin Disturbances, UpgradeInv,
           NEW path \in ManagedPaths, NEW content \in Contents, Edit(path, content)
    PROVE  UpgradeInv'
  <1>1. /\ \A q \in Invocations : planPc[q] # "candidates"
        /\ files' = [files EXCEPT ![path] = content]
        /\ UNCHANGED <<points, original, planLock, planPc, planLoc>>
    BY DEF Edit
  <1>2. UpgradeTypes'
    BY <1>1 DEF UpgradeInv, UpgradeTypes
  <1>3. PointsReplaced' /\ OriginalIsSaved' /\ WritingIsLocked'
    BY <1>1 DEF UpgradeInv, PointsReplaced, OriginalIsSaved, WritingIsLocked, Replaces
  <1>4. PointsStay
    BY <1>1 DEF PointsStay
  <1>5. ASSUME NEW q \in Invocations PROVE PlanHolds(q)'
    BY <1>1, <1>4, PlanStays DEF UpgradeInv, PlansHold
  <1>6. PlansHold'
    BY <1>5 DEF PlansHold
  <1> QED BY <1>2, <1>3, <1>6 DEF UpgradeInv

----------------------------------------------------------------------------

LEMMA UpgradeInitial == UpgradeAssumption /\ UpgradeInit => UpgradeInv
  <1> SUFFICES ASSUME UpgradeAssumption, UpgradeInit PROVE UpgradeInv
    OBVIOUS
  <1>1. NoUpgrade \in UpgradeLocal
    BY NoContentsTyped DEF NoUpgrade, UpgradeLocal, Ids
  <1>2. DOMAIN points = {} /\ DOMAIN original = {}
    BY DEF UpgradeInit, NoContents
  <1>3. points \in [DOMAIN points -> Point] /\ original \in [DOMAIN original -> PartialContents]
    BY <1>2 DEF UpgradeInit, NoContents
  <1>4. UpgradeTypes
    BY <1>1, <1>2, <1>3 DEF UpgradeInit, UpgradeTypes, UpgradeAssumption, UpgradePoints
  <1>5. PointsReplaced /\ OriginalIsSaved
    BY <1>2 DEF PointsReplaced, OriginalIsSaved
  <1>6. WritingIsLocked
    BY DEF UpgradeInit, WritingIsLocked, UpgradeAssumption
  <1>7. PlansHold
    BY DEF UpgradeInit, PlansHold, PlanHolds
  <1> QED BY <1>4, <1>5, <1>6, <1>7 DEF UpgradeInv

LEMMA UpgradeSteps ==
    UpgradeAssumption /\ "meddle" \notin Disturbances
        /\ UpgradeInv /\ [UpgradeNext]_upgradeVars => UpgradeInv'
  <1> SUFFICES ASSUME UpgradeAssumption, "meddle" \notin Disturbances,
                      UpgradeInv, [UpgradeNext]_upgradeVars
               PROVE  UpgradeInv'
    OBVIOUS
  <1>1. ASSUME NEW p \in Invocations, PlanUpgrade(p) PROVE UpgradeInv'
    BY <1>1, PlanUpgradeKeeps
  <1>2. ASSUME NEW p \in Invocations, Compare(p) PROVE UpgradeInv'
    BY <1>2, CompareKeeps
  <1>3. ASSUME NEW p \in Invocations,
               NothingToUpgrade(p) \/ UpgradeDrifted(p) \/ RollbackDrifted(p)
                   \/ DeclineUpgrade(p) \/ CrashUpgrade(p)
        PROVE  UpgradeInv'
    BY <1>3, EndingKeeps DEF NothingToUpgrade, UpgradeDrifted, RollbackDrifted, DeclineUpgrade,
                             CrashUpgrade
  <1>4. ASSUME NEW p \in Invocations, SavePoint(p) PROVE UpgradeInv'
    BY <1>4, SavePointKeeps
  <1>5. ASSUME NEW p \in Invocations, Upgrade(p) PROVE UpgradeInv'
    BY <1>5, UpgradeKeeps
  <1>6. ASSUME NEW p \in Invocations, NEW id \in DOMAIN points, PlanRollback(p, id)
        PROVE  UpgradeInv'
    BY <1>6, PlanRollbackKeeps
  <1>7. ASSUME NEW p \in Invocations, Rollback(p) PROVE UpgradeInv'
    BY <1>7, RollbackKeeps
  <1>8. ASSUME NEW p \in Invocations, Mark(p) PROVE UpgradeInv'
    BY <1>8, MarkKeeps
  <1>9. ASSUME NEW path \in ManagedPaths, NEW content \in Contents, Edit(path, content)
        PROVE  UpgradeInv'
    BY <1>9, EditKeeps
  <1>10. CASE UNCHANGED upgradeVars
    BY <1>10 DEF upgradeVars, UpgradeInv, UpgradeTypes, PointsReplaced, OriginalIsSaved,
                 WritingIsLocked, PlansHold, PlanHolds, CandidatesHold, UpgradePlanned,
                 RollbackPlanned, Replaces
  <1> QED BY <1>1, <1>2, <1>3, <1>4, <1>5, <1>6, <1>7, <1>8, <1>9, <1>10 DEF UpgradeNext

(* The last upgrade of an id can be undone: the bytes it replaced are in   *)
(* its recovery point, and no rollback has used that point.                *)
THEOREM UpgradesAreUndoable ==
    ASSUME UpgradeAssumption, "meddle" \notin Disturbances
    PROVE  UpgradeSpec => []UpgradeIsUndoable
  <1>1. UpgradeInit => UpgradeInv
    BY UpgradeInitial
  <1>2. UpgradeInv /\ [UpgradeNext]_upgradeVars => UpgradeInv'
    BY UpgradeSteps
  <1>3. UpgradeInv => UpgradeIsUndoable
    BY DEF UpgradeInv, OriginalIsSaved, UpgradeIsUndoable
  <1> QED BY <1>1, <1>2, <1>3, PTL DEF UpgradeSpec

(* A rollback writes over what an upgrade wrote alone, and puts back what  *)
(* that upgrade turns into it; the very bytes where the point is as it was *)
(* reviewed and its last upgrade is done.                                  *)
THEOREM RollbacksAreExact ==
    ASSUME UpgradeAssumption, "meddle" \notin Disturbances
    PROVE  UpgradeSpec => RollbackIsExact
  <1> DEFINE A == \A id \in DOMAIN points, p \in Invocations :
                      planLoc[p].id = id /\ Rollback(p) =>
                          /\ Agree(id)
                          /\ \A path \in DOMAIN id : Upgraded[files'[path]] = id[path]
                          /\ id \in DOMAIN original /\ planLoc[p].after = points[id].before =>
                                 \A path \in DOMAIN id : files'[path] = original[id][path]
  <1>1. UpgradeInit => UpgradeInv
    BY UpgradeInitial
  <1>2. UpgradeInv /\ [UpgradeNext]_upgradeVars => UpgradeInv'
    BY UpgradeSteps
  <1>3. ASSUME UpgradeInv, NEW id \in DOMAIN points, NEW p \in Invocations,
               planLoc[p].id = id, Rollback(p)
        PROVE  /\ Agree(id)
               /\ \A path \in DOMAIN id : Upgraded[files'[path]] = id[path]
               /\ id \in DOMAIN original /\ planLoc[p].after = points[id].before =>
                      \A path \in DOMAIN id : files'[path] = original[id][path]
    <2>1. RollbackPlanned(p) /\ Agree(planLoc[p].before) /\ Transact(p)
      BY <1>3 DEF Rollback, UpgradeInv, PlansHold, PlanHolds
    <2>2. Agree(id)
      BY <1>3, <2>1 DEF RollbackPlanned
    <2>3. Replaces(id, planLoc[p].after)
      BY <1>3, <2>1 DEF RollbackPlanned
    <2>4. \A path \in DOMAIN id : files'[path] = planLoc[p].after[path]
      BY <1>3, <2>1, <2>3, TransactTyped DEF UpgradeInv, Replaces
    <2>5. \A path \in DOMAIN id : Upgraded[files'[path]] = id[path]
      BY <2>3, <2>4 DEF Replaces
    <2>6. id \in DOMAIN original => points[id].before = original[id]
      BY <1>3 DEF UpgradeInv, OriginalIsSaved
    <2> QED BY <2>2, <2>4, <2>5, <2>6
  <1>4. UpgradeInv => A
    BY <1>3
  <1>5. UpgradeInv /\ [UpgradeNext]_upgradeVars => [A]_upgradeVars
    BY <1>4
  <1> QED BY <1>1, <1>2, <1>5, PTL DEF UpgradeSpec, RollbackIsExact

----------------------------------------------------------------------------
(* ModuleTrials: the invariant                                             *)

Change == [before : Document, after : Document, starts : BOOLEAN]

(* What a plan may have made of d, by the conditions of its operation.     *)
AsTried(d, a) ==
    \E m \in Modules, n \in MatchingTasks : ~HasActiveTrial(d, m) /\ a = Tried(d, m, n)

AsEnabled(d, a) == \E m \in Modules, policy \in Policies : a = Enabled(d, m, policy)

AsDisabled(d, a) == \E m \in Modules : d.modules[m] # Absent /\ a = Disabled(d, m)

AsRecorded(d, a) ==
    \E m \in Modules, result \in Result :
        /\ OpenTrials(d, m) # {}
        /\ Awaited(d.trials[ActiveTrial(d, m)], result.task)
        /\ a = ResultRecorded(d, m, result)

AsPromoted(d, a) ==
    \E m \in Modules :
        /\ OpenTrials(d, m) # {}
        /\ d.trials[ActiveTrial(d, m)].remaining = 0
        /\ Beneficial(d.trials[ActiveTrial(d, m)].results)
        /\ d.modules[m] # Absent
        /\ a = Promoted(d, m)

AsRolledBack(d, a) == \E m \in Modules : CanRollBack(d, m) /\ a = RolledBack(d, m)

Operation(d, a, starts) ==
    \/ starts /\ AsTried(d, a)
    \/ ~starts /\ AsEnabled(d, a)
    \/ ~starts /\ AsDisabled(d, a)
    \/ ~starts /\ AsRecorded(d, a)
    \/ ~starts /\ AsPromoted(d, a)
    \/ ~starts /\ AsRolledBack(d, a)

(* A plan is an operation on the document it was loaded from, and nobody   *)
(* replaces that document before the plan has read it again.               *)
PlansAreOperations ==
    \A p \in Invocations :
        /\ planPc[p] = "loaded" => Operation(document, planLoc[p].after, planLoc[p].starts)
        /\ planPc[p] = "planned" =>
               Operation(planLoc[p].before, planLoc[p].after, planLoc[p].starts)

(* OneActiveTrial without the latest trial's being a maximum.              *)
ActiveIsLast(d) ==
    \A k \in 1..Len(d.trials) :
        d.trials[k].state \in ActiveStates =>
            /\ \A j \in 1..Len(d.trials) : d.trials[j].module = d.trials[k].module => j <= k
            /\ d.modules[d.trials[k].module] # Absent

(* An active trial has kept to its budget, a promoted one has all results. *)
Earned(trial) ==
    /\ trial.state \in ActiveStates => Spent(trial.results) <= Budget(trial)
    /\ trial.state = "promoted" => trial.remaining = 0 /\ Beneficial(trial.results)

(* The results of a trial and those it waits for are what it asked for.    *)
ResultsAreCounted(d) ==
    \A k \in 1..Len(d.trials) :
        LET trial == d.trials[k]
        IN  /\ Len(trial.results) + trial.remaining = trial.matching
            /\ \A i, j \in 1..Len(trial.results) :
                   trial.results[i].task = trial.results[j].task => i = j
            /\ Earned(trial)

ReplacedIsPrevious ==
    /\ Len(replaced) = Len(document.trials)
    /\ \A k \in 1..Len(document.trials) : document.trials[k].previous = replaced[k]

TrialsInv ==
    /\ TrialsTypeOK /\ PlansAreOperations
    /\ ActiveIsLast(document) /\ ResultsAreCounted(document) /\ ReplacedIsPrevious

----------------------------------------------------------------------------
(* The largest position of a set                                           *)

LEMMA MaxIsLast ==
    ASSUME NEW n \in Nat, NEW S \in SUBSET (1..n), S # {}
    PROVE  Max(S) \in S /\ \A y \in S : y <= Max(S)
  <1> DEFINE T == {t \in 0..n : n - t \in S}
  <1>1. T \in SUBSET Nat /\ \A t \in T : t \in Nat /\ n - t \in S
    OBVIOUS
  <1>2. ASSUME NEW y \in S
        PROVE  y \in Nat /\ n - y \in T
    <2>1. y \in 1..n
      OBVIOUS
    <2>2. n - y \in 0..n /\ n - (n - y) = y
      BY <2>1
    <2>3. n - (n - y) \in S
      BY <2>2
    <2> QED BY <2>1, <2>2, <2>3
  <1> HIDE DEF T
  <1>3. T # {}
    BY <1>2
  <1>4. PICK x \in T : \A y \in T : x <= y
    BY <1>1, <1>3, LeastExists
  <1>5. x \in Nat /\ n - x \in S
    BY <1>1, <1>4
  <1>6. ASSUME NEW y \in S
        PROVE  n - x >= y
    <2>1. y \in Nat /\ n - y \in T
      BY <1>2
    <2>2. x <= n - y
      BY <1>4, <2>1
    <2> QED BY <1>5, <2>1, <2>2
  <1>7. \E z \in S : \A y \in S : z >= y
    BY <1>5, <1>6
  <1>8. Max(S) \in S /\ \A y \in S : Max(S) >= y
    BY <1>7 DEF Max
  <1>9. ASSUME NEW y \in S
        PROVE  y <= Max(S)
    <2>1. Max(S) \in 1..n /\ y \in 1..n /\ Max(S) >= y
      BY <1>8
    <2> QED BY <2>1
  <1> QED BY <1>8, <1>9

LEMMA LastIsMax ==
    ASSUME NEW n \in Nat, NEW S \in SUBSET (1..n), NEW k \in S, \A y \in S : y <= k
    PROVE  k = Max(S)
  <1>1. Max(S) \in S /\ k <= Max(S)
    BY MaxIsLast
  <1>2. Max(S) <= k /\ Max(S) \in 1..n /\ k \in 1..n
    BY <1>1
  <1> QED BY <1>1, <1>2

----------------------------------------------------------------------------
(* Documents                                                               *)

LEMMA DocumentTyped ==
    ASSUME NEW d \in Document
    PROVE  /\ d.modules \in [Modules -> Item \cup {Absent}]
           /\ d.trials \in Seq(Trial)
           /\ Len(d.trials) \in Nat
           /\ DOMAIN d.trials = 1..Len(d.trials)
           /\ \A k \in 1..Len(d.trials) : d.trials[k] \in Trial
  BY DEF Document

LEMMA TrialTyped ==
    ASSUME NEW t \in Trial
    PROVE  /\ t.module \in Modules /\ t.state \in TrialStates
           /\ t.remaining \in Nat /\ t.matching \in Nat
           /\ t.results \in Seq(Result) /\ Len(t.results) \in Nat
           /\ t.previous \in Item \cup {Absent}
  BY DEF Trial

(* What results cost is the sum of what each has cost.                     *)
LEMMA SpentTyped ==
    ASSUME TrialsAssumption
    PROVE  /\ \A results \in Seq(Result) : Spent(results) \in Nat
           /\ Spent(<<>>) = 0
  <1>1. ASSUME NEW results \in Seq(Result)
        PROVE  /\ Spent(results) \in Nat
               /\ Len(results) = 0 => Spent(results) = 0
    <2> DEFINE N == Len(results)
               step == [n \in 1..N |-> [v \in Nat |-> v + results[n].overhead]]
               IsSum(h) == h = [n \in 0..N |-> IF n = 0 THEN 0
                                               ELSE h[n - 1] + results[n].overhead]
    <2>1. N \in Nat /\ \A n \in 1..N : results[n].overhead \in Nat
      <3>1. N \in Nat /\ \A n \in 1..N : results[n] \in Result
        OBVIOUS
      <3>2. \A result \in Result : result.overhead \in Nat
        BY DEF Result, TrialsAssumption
      <3> HIDE DEF N
      <3> QED BY <3>1, <3>2
    <2>2. step \in [1..N -> [Nat -> Nat]]
      BY <2>1
    <2>3. \A n \in 1..N, v \in Nat : step[n][v] = v + results[n].overhead
      OBVIOUS
    <2>4. PICK h \in [0..N -> Nat] : h[0] = 0 /\ \A n \in 1..N : h[n] = step[n][h[n - 1]]
      <3> DEFINE S == Nat
                 base == 0
      <3>1. base \in S /\ step \in [1..N -> [S -> S]] /\ N \in Nat
        BY <2>1, <2>2
      <3> HIDE DEF N, step, S, base
      <3>2. \E h \in [0..N -> S] :
                h[0] = base /\ \A n \in 1..N : h[n] = step[n][h[n - 1]]
        BY <3>1, Recursion
      <3> QED BY <3>2 DEF S, base
    <2>5. ASSUME NEW n \in 0..N
          PROVE  h[n] = IF n = 0 THEN 0 ELSE h[n - 1] + results[n].overhead
      <3> HIDE DEF step
      <3>1. CASE n = 0
        BY <2>4, <3>1
      <3>2. CASE n # 0
        <4>1. n \in 1..N /\ n - 1 \in 0..N
          BY <2>1, <3>2
        <4>2. h[n] = step[n][h[n - 1]] /\ h[n - 1] \in Nat
          BY <2>4, <4>1
        <4> QED BY <2>3, <3>2, <4>1, <4>2
      <3> QED BY <3>1, <3>2
    <2>6. IsSum(h)
      <3> HIDE DEF N
      <3> QED BY <2>4, <2>5
    <2>7. PICK sum : IsSum(sum) /\ Spent(results) = sum[N]
      <3>1. \E g : IsSum(g)
        <4> HIDE DEF IsSum
        <4> QED BY <2>6
      <3>2. IsSum(CHOOSE g : IsSum(g))
        <4> HIDE DEF IsSum
        <4> QED BY <3>1
      <3>3. Spent(results) = (CHOOSE g : IsSum(g))[N]
        BY Zenon DEF Spent
      <3> HIDE DEF IsSum
      <3> QED BY <3>2, <3>3
    <2> DEFINE T == {n \in 0..N : sum[n] \in Nat}
    <2>8. \A n \in 0..N : n \in T
      <3>1. 0 \in T
        BY <2>1, <2>7
      <3>2. ASSUME NEW n \in 1..N, n - 1 \in T
            PROVE  n \in T
        <4>1. n \in 0..N /\ sum[n - 1] \in Nat /\ results[n].overhead \in Nat
          BY <2>1, <3>2
        <4>2. sum[n] = IF n = 0 THEN 0 ELSE sum[n - 1] + results[n].overhead
          BY <2>7, <4>1, Zenon
        <4>3. n # 0
          BY <3>2
        <4> QED BY <4>1, <4>2, <4>3
      <3> HIDE DEF T, IsSum, N
      <3> QED BY <2>1, <3>1, <3>2, Counting
    <2>9. N \in T /\ (N = 0 => sum[N] = 0)
      BY <2>1, <2>7, <2>8
    <2> QED BY <2>7, <2>9
  <1>2. Spent(<<>>) = 0
    <2>1. <<>> \in Seq(Result) /\ Len(<<>>) = 0
      BY EmptySeq
    <2> QED BY <1>1, <2>1
  <1> QED BY <1>1, <1>2

LEMMA BudgetTyped ==
    ASSUME TrialsAssumption, NEW t \in Trial
    PROVE  Budget(t) \in Nat
  <1>1. TaskBudget \in Nat /\ t.matching \in Nat
    BY TrialTyped DEF TrialsAssumption
  <1>2. \A x, y \in Nat : x * y \in Nat
    OBVIOUS
  <1> QED BY <1>1, <1>2 DEF Budget

LEMMA TrialsOfTyped ==
    ASSUME NEW d \in Document, NEW m
    PROVE  /\ TrialsOf(d, m) = {k \in 1..Len(d.trials) : d.trials[k].module = m}
           /\ TrialsOf(d, m) \in SUBSET (1..Len(d.trials))
           /\ OpenTrials(d, m) \in SUBSET (1..Len(d.trials))
  BY DocumentTyped DEF TrialsOf, OpenTrials

LEMMA ActiveTrialIsOpen ==
    ASSUME NEW d \in Document, NEW m \in Modules, OpenTrials(d, m) # {}
    PROVE  /\ ActiveTrial(d, m) \in 1..Len(d.trials)
           /\ d.trials[ActiveTrial(d, m)].module = m
           /\ d.trials[ActiveTrial(d, m)].state = "trial"
  <1>1. Len(d.trials) \in Nat /\ OpenTrials(d, m) \in SUBSET (1..Len(d.trials))
    BY DocumentTyped, TrialsOfTyped
  <1>2. Max(OpenTrials(d, m)) \in OpenTrials(d, m)
    BY <1>1, MaxIsLast
  <1>3. ActiveTrial(d, m) \in OpenTrials(d, m) /\ ActiveTrial(d, m) \in 1..Len(d.trials)
    BY <1>1, <1>2 DEF ActiveTrial
  <1> QED BY <1>3 DEF OpenTrials, TrialsOf

LEMMA LatestTrialIsLast ==
    ASSUME NEW d \in Document, NEW m \in Modules, TrialsOf(d, m) # {}
    PROVE  /\ LatestTrial(d, m) \in 1..Len(d.trials)
           /\ d.trials[LatestTrial(d, m)].module = m
           /\ \A k \in 1..Len(d.trials) :
                  d.trials[k].module = m => k <= LatestTrial(d, m)
  <1>1. /\ Len(d.trials) \in Nat /\ TrialsOf(d, m) \in SUBSET (1..Len(d.trials))
        /\ TrialsOf(d, m) = {k \in 1..Len(d.trials) : d.trials[k].module = m}
    BY DocumentTyped, TrialsOfTyped
  <1>2. Max(TrialsOf(d, m)) \in TrialsOf(d, m) /\ \A k \in TrialsOf(d, m) : k <= Max(TrialsOf(d, m))
    BY <1>1, MaxIsLast
  <1> QED BY <1>1, <1>2 DEF LatestTrial

----------------------------------------------------------------------------
(* What an operation does to the trials there are                          *)

(* The trials that there are stay, and the decided ones stay decided.      *)
Evolves(d, a) ==
    /\ Len(a.trials) >= Len(d.trials)
    /\ \A k \in 1..Len(d.trials) :
           /\ a.trials[k].module = d.trials[k].module
           /\ a.trials[k].state \in Later(d.trials[k].state)
           /\ a.trials[k].previous = d.trials[k].previous
           /\ IsPrefix(d.trials[k].results, a.trials[k].results)

LEMMA SameIsLater ==
    ASSUME NEW s \in TrialStates
    PROVE  s \in Later(s)
  BY DEF Later, TrialStates

LEMMA SameIsPrefix ==
    ASSUME NEW s \in Seq(Result)
    PROVE  IsPrefix(s, s)
  BY DEF IsPrefix

LEMMA AppendIsLonger ==
    ASSUME NEW s \in Seq(Result), NEW result \in Result
    PROVE  IsPrefix(s, Append(s, result))
  <1>1. /\ Append(s, result) \in Seq(Result)
        /\ Len(Append(s, result)) = Len(s) + 1
        /\ \A i \in 1..Len(s) : Append(s, result)[i] = s[i]
    BY AppendProperties
  <1>2. Len(s) \in Nat /\ \A i \in 1..Len(s) : s[i] \in Result
    OBVIOUS
  <1> DEFINE t == SubSeq(Append(s, result), 1, Len(s))
  <1>3. /\ t \in Seq(Result) /\ Len(t) = Len(s)
        /\ \A i \in 1..Len(s) : t[i] = s[i]
    BY <1>1, <1>2
  <1>4. t = s
    <2> HIDE DEF t
    <2> QED BY <1>2, <1>3, SeqEqual
  <1>5. SubSeq(s, 1, Len(s)) = s
    BY SubSeqFull
  <1> QED BY <1>1, <1>2, <1>4, <1>5 DEF IsPrefix

(* One trial is edited, its module and what it replaced remain.            *)
Edited(d, a, i, t) ==
    /\ a.trials \in Seq(Trial)
    /\ Len(a.trials) = Len(d.trials)
    /\ a.trials[i] = t
    /\ \A k \in 1..Len(d.trials) : k # i => a.trials[k] = d.trials[k]
    /\ t.module = d.trials[i].module
    /\ t.previous = d.trials[i].previous
    /\ t.state \in Later(d.trials[i].state)
    /\ IsPrefix(d.trials[i].results, t.results)

LEMMA EditedEvolves ==
    ASSUME NEW d \in Document, NEW a, NEW i \in 1..Len(d.trials), NEW t, Edited(d, a, i, t)
    PROVE  Evolves(d, a)
  <1>1. Len(d.trials) \in Nat /\ Len(a.trials) >= Len(d.trials)
    BY DocumentTyped DEF Edited
  <1>2. ASSUME NEW k \in 1..Len(d.trials)
        PROVE  /\ a.trials[k].module = d.trials[k].module
               /\ a.trials[k].state \in Later(d.trials[k].state)
               /\ a.trials[k].previous = d.trials[k].previous
               /\ IsPrefix(d.trials[k].results, a.trials[k].results)
    <2>1. CASE k = i
      BY <2>1 DEF Edited
    <2>2. CASE k # i
      <3>1. a.trials[k] = d.trials[k]
        BY <2>2 DEF Edited
      <3>2. d.trials[k].state \in TrialStates /\ d.trials[k].results \in Seq(Result)
        BY DocumentTyped, TrialTyped
      <3> QED BY <3>1, <3>2, SameIsLater, SameIsPrefix
    <2> QED BY <2>1, <2>2
  <1> QED BY <1>1, <1>2 DEF Evolves

LEMMA EditedKeepsActive ==
    ASSUME NEW d \in Document, ActiveIsLast(d), NEW a, NEW i \in 1..Len(d.trials), NEW t,
           Edited(d, a, i, t),
           \A k \in 1..Len(d.trials) :
               a.trials[k].state \in ActiveStates => a.modules[a.trials[k].module] # Absent
    PROVE  ActiveIsLast(a)
  <1> SUFFICES ASSUME NEW k \in 1..Len(a.trials), a.trials[k].state \in ActiveStates
               PROVE  /\ \A j \in 1..Len(a.trials) :
                             a.trials[j].module = a.trials[k].module => j <= k
                      /\ a.modules[a.trials[k].module] # Absent
    BY DEF ActiveIsLast
  <1>1. Len(a.trials) = Len(d.trials) /\ k \in 1..Len(d.trials)
    BY DEF Edited
  <1>2. \A j \in 1..Len(d.trials) : a.trials[j].module = d.trials[j].module
    BY DEF Edited
  <1>3. d.trials[k].state \in ActiveStates
    <2>1. CASE k = i
      <3>1. a.trials[k].state \in Later(d.trials[k].state)
        BY <2>1 DEF Edited
      <3>2. d.trials[k].state \in TrialStates
        BY <1>1, DocumentTyped, TrialTyped
      <3> QED BY <3>1, <3>2 DEF Later, TrialStates, ActiveStates
    <2>2. CASE k # i
      BY <1>1, <2>2 DEF Edited
    <2> QED BY <2>1, <2>2
  <1>4. \A j \in 1..Len(d.trials) : d.trials[j].module = d.trials[k].module => j <= k
    BY <1>1, <1>3 DEF ActiveIsLast
  <1> QED BY <1>1, <1>2, <1>4

LEMMA EditedKeepsCount ==
    ASSUME NEW d \in Document, ResultsAreCounted(d), NEW a, NEW i \in 1..Len(d.trials), NEW t,
           Edited(d, a, i, t),
           Len(t.results) + t.remaining = t.matching,
           \A r, s \in 1..Len(t.results) : t.results[r].task = t.results[s].task => r = s,
           Earned(t)
    PROVE  ResultsAreCounted(a)
  <1> SUFFICES ASSUME NEW k \in 1..Len(a.trials)
               PROVE  /\ Len(a.trials[k].results) + a.trials[k].remaining = a.trials[k].matching
                      /\ \A r, s \in 1..Len(a.trials[k].results) :
                             a.trials[k].results[r].task = a.trials[k].results[s].task => r = s
                      /\ Earned(a.trials[k])
    BY DEF ResultsAreCounted
  <1>1. k \in 1..Len(d.trials)
    BY DEF Edited
  <1>2. CASE k = i
    BY <1>2 DEF Edited
  <1>3. CASE k # i
    BY <1>1, <1>3 DEF Edited, ResultsAreCounted
  <1> QED BY <1>2, <1>3

(* Only the lock is edited.                                                *)
LEMMA LockEdited ==
    ASSUME NEW d \in Document, ActiveIsLast(d), ResultsAreCounted(d),
           NEW a, a.trials = d.trials,
           \A m \in Modules : d.modules[m] # Absent => a.modules[m] # Absent
    PROVE  Evolves(d, a) /\ ActiveIsLast(a) /\ ResultsAreCounted(a)
  <1>1. \A k \in 1..Len(d.trials) :
            /\ d.trials[k].module \in Modules /\ d.trials[k].state \in TrialStates
            /\ d.trials[k].results \in Seq(Result)
    BY DocumentTyped, TrialTyped
  <1>2. Evolves(d, a)
    BY <1>1, SameIsLater, SameIsPrefix, DocumentTyped DEF Evolves
  <1>3. ActiveIsLast(a)
    BY <1>1 DEF ActiveIsLast
  <1>4. ResultsAreCounted(a)
    BY DEF ResultsAreCounted
  <1> QED BY <1>2, <1>3, <1>4
----------------------------------------------------------------------------
(* The operations                                                          *)

(* What every operation but a trial's start keeps.                         *)
KeepsDocument(d, a) ==
    /\ a \in Document
    /\ Evolves(d, a)
    /\ ActiveIsLast(a)
    /\ ResultsAreCounted(a)

LEMMA LockedIsDocument ==
    ASSUME NEW d \in Document, NEW m \in Modules, NEW item \in Item \cup {Absent}
    PROVE  /\ [d EXCEPT !.modules[m] = item] \in Document
           /\ [d EXCEPT !.modules[m] = item].trials = d.trials
           /\ [d EXCEPT !.modules[m] = item].modules[m] = item
           /\ \A q \in Modules \ {m} :
                  [d EXCEPT !.modules[m] = item].modules[q] = d.modules[q]
  BY DEF Document

LEMMA EnabledKeeps ==
    ASSUME TrialsAssumption, NEW d \in Document, ActiveIsLast(d), ResultsAreCounted(d),
           NEW a, AsEnabled(d, a)
    PROVE  KeepsDocument(d, a) /\ Len(a.trials) = Len(d.trials)
  <1>1. PICK m \in Modules, policy \in Policies :
            a = [d EXCEPT !.modules[m] = [enabled |-> TRUE, policy |-> policy]]
    BY DEF AsEnabled, Enabled
  <1> DEFINE item == [enabled |-> TRUE, policy |-> policy]
  <1>2. item \in Item /\ a = [d EXCEPT !.modules[m] = item]
    BY <1>1 DEF Item
  <1> HIDE DEF item
  <1>3. Absent \notin Item
    BY DEF TrialsAssumption
  <1>4. /\ a \in Document /\ a.trials = d.trials /\ a.modules[m] # Absent
        /\ \A q \in Modules \ {m} : a.modules[q] = d.modules[q]
    BY <1>2, <1>3, LockedIsDocument
  <1> QED BY <1>4, LockEdited DEF KeepsDocument

LEMMA DisabledKeeps ==
    ASSUME TrialsAssumption, NEW d \in Document, ActiveIsLast(d), ResultsAreCounted(d),
           NEW a, AsDisabled(d, a)
    PROVE  KeepsDocument(d, a) /\ Len(a.trials) = Len(d.trials)
  <1>1. PICK m \in Modules :
            d.modules[m] # Absent /\ a = [d EXCEPT !.modules[m].enabled = FALSE]
    BY DEF AsDisabled, Disabled
  <1> DEFINE item == [d.modules[m] EXCEPT !.enabled = FALSE]
  <1>2. d.modules[m] \in Item
    BY <1>1, DocumentTyped
  <1>3. item \in Item
    BY <1>2 DEF Item
  <1>4. Absent \notin Item
    BY DEF TrialsAssumption
  <1>5. a = [d EXCEPT !.modules[m] = item]
    BY <1>1
  <1> HIDE DEF item
  <1>6. /\ a \in Document /\ a.trials = d.trials /\ a.modules[m] # Absent
        /\ \A q \in Modules \ {m} : a.modules[q] = d.modules[q]
    BY <1>5, <1>3, <1>4, LockedIsDocument
  <1> QED BY <1>6, LockEdited DEF KeepsDocument

LEMMA LaterThanTrial ==
    \A state \in TrialStates : state \in Later("trial")
  BY DEF Later

LEMMA RecordedKeeps ==
    ASSUME TrialsAssumption, NEW d \in Document, ActiveIsLast(d), ResultsAreCounted(d),
           NEW a, AsRecorded(d, a)
    PROVE  KeepsDocument(d, a) /\ Len(a.trials) = Len(d.trials)
  <1>1. PICK m \in Modules, result \in Result :
            /\ OpenTrials(d, m) # {}
            /\ Awaited(d.trials[ActiveTrial(d, m)], result.task)
            /\ a = ResultRecorded(d, m, result)
    BY DEF AsRecorded
  <1> DEFINE i == ActiveTrial(d, m)
             old == d.trials[i]
             results == Append(old.results, result)
             state == IF Spent(results) > Budget(old) THEN "rejected" ELSE old.state
             new == [old EXCEPT !.results = results, !.remaining = @ - 1, !.state = state]
  <1>2. i \in 1..Len(d.trials) /\ old.module = m /\ old.state = "trial"
    BY <1>1, ActiveTrialIsOpen
  <1>3. old \in Trial
    BY <1>2, DocumentTyped
  <1>4. /\ old.remaining \in Nat \ {0}
        /\ \A r \in 1..Len(old.results) : old.results[r].task # result.task
    BY <1>1, <1>3, TrialTyped DEF Awaited
  <1>5. a = [d EXCEPT !.trials = [d.trials EXCEPT ![i] = new]]
    <2>1. a = [d EXCEPT !.trials[i] = new]
      BY <1>1 DEF ResultRecorded
    <2> HIDE DEF new, i
    <2> QED BY <2>1
  <1>6. /\ results \in Seq(Result) /\ Len(results) = Len(old.results) + 1
        /\ \A r \in 1..Len(old.results) : results[r] = old.results[r]
        /\ results[Len(results)] = result
        /\ IsPrefix(old.results, results)
    BY <1>3, TrialTyped, AppendProperties, AppendIsLonger
  <1>7. state \in {"trial", "rejected"}
    BY <1>2
  <1> HIDE DEF results, state, old
  <1>8. /\ new \in Trial /\ new.module = old.module /\ new.previous = old.previous
        /\ new.results = results /\ new.remaining = old.remaining - 1
        /\ new.state = state /\ new.matching = old.matching
    <2>1. old.remaining - 1 \in Nat
      BY <1>4
    <2>2. state \in TrialStates
      BY <1>7 DEF TrialStates
    <2> QED BY <1>3, <1>6, <2>1, <2>2 DEF Trial
  <1> HIDE DEF new
  <1>9. /\ [d.trials EXCEPT ![i] = new] \in Seq(Trial)
        /\ Len([d.trials EXCEPT ![i] = new]) = Len(d.trials)
        /\ [d.trials EXCEPT ![i] = new][i] = new
        /\ \A k \in 1..Len(d.trials) : k # i => [d.trials EXCEPT ![i] = new][k] = d.trials[k]
    BY <1>2, <1>8, DocumentTyped, ExceptSeq
  <1>10. /\ a \in Document /\ a.modules = d.modules
         /\ a.trials = [d.trials EXCEPT ![i] = new]
    BY <1>5, <1>9 DEF Document
  <1> HIDE DEF i
  <1>11. new.state \in Later(old.state)
    BY <1>2, <1>7, <1>8, LaterThanTrial DEF TrialStates
  <1>12. Edited(d, a, i, new)
    BY <1>6, <1>8, <1>9, <1>10, <1>11 DEF Edited, old
  <1>13. Evolves(d, a)
    BY <1>2, <1>12, EditedEvolves
  <1>14. \A k \in 1..Len(d.trials) :
             a.trials[k].state \in ActiveStates => a.modules[a.trials[k].module] # Absent
    <2> SUFFICES ASSUME NEW k \in 1..Len(d.trials), a.trials[k].state \in ActiveStates
                 PROVE  a.modules[a.trials[k].module] # Absent
      OBVIOUS
    <2>1. a.trials[k].module = d.trials[k].module
      BY <1>13 DEF Evolves
    <2>2. d.trials[k].state \in ActiveStates
      BY <1>2, <1>9, <1>10 DEF ActiveStates, old
    <2> QED BY <1>10, <2>1, <2>2 DEF ActiveIsLast
  <1>15. ActiveIsLast(a)
    BY <1>2, <1>12, <1>14, EditedKeepsActive
  <1>16. /\ Len(old.results) \in Nat /\ old.matching \in Nat /\ old.remaining \in Nat
         /\ Len(old.results) + old.remaining = old.matching
         /\ \A r, s \in 1..Len(old.results) :
                old.results[r].task = old.results[s].task => r = s
    BY <1>2, <1>3, TrialTyped DEF ResultsAreCounted, old
  <1>17. Len(new.results) + new.remaining = new.matching
    <2>1. new.remaining = old.remaining - 1 /\ Len(new.results) = Len(old.results) + 1
      BY <1>6, <1>8
    <2>2. new.matching = old.matching
      BY <1>8
    <2> HIDE DEF old, new
    <2> QED BY <1>16, <2>1, <2>2
  <1>18. ASSUME NEW r \in 1..Len(results), NEW s \in 1..Len(results),
                results[r].task = results[s].task
         PROVE  r = s
    <2>1. CASE r \in 1..Len(old.results) /\ s \in 1..Len(old.results)
      BY <1>6, <1>16, <1>18, <2>1
    <2>2. CASE r = Len(results) /\ s \in 1..Len(old.results)
      BY <1>4, <1>6, <1>18, <2>2
    <2>3. CASE s = Len(results) /\ r \in 1..Len(old.results)
      BY <1>4, <1>6, <1>18, <2>3
    <2> QED BY <1>6, <1>16, <2>1, <2>2, <2>3
  <1>19. Earned(new)
    <2>1. Spent(results) \in Nat /\ Budget(old) \in Nat
      BY <1>3, <1>6, SpentTyped, BudgetTyped
    <2>2. new.state = "trial" => ~(Spent(results) > Budget(old))
      BY <1>8 DEF state
    <2>3. Budget(new) = Budget(old)
      BY <1>8 DEF Budget
    <2>4. new.state \in {"trial", "rejected"}
      BY <1>7, <1>8
    <2>5. new.state = "trial" => Spent(new.results) <= Budget(new)
      BY <1>8, <2>1, <2>2, <2>3
    <2> QED BY <2>4, <2>5 DEF Earned, ActiveStates
  <1>20. ResultsAreCounted(a)
    BY <1>2, <1>8, <1>12, <1>17, <1>18, <1>19, EditedKeepsCount
  <1> QED BY <1>9, <1>10, <1>13, <1>15, <1>20 DEF KeepsDocument
LEMMA PromotedKeeps ==
    ASSUME TrialsAssumption, NEW d \in Document, ActiveIsLast(d), ResultsAreCounted(d),
           NEW a, AsPromoted(d, a)
    PROVE  KeepsDocument(d, a) /\ Len(a.trials) = Len(d.trials)
  <1>1. PICK m \in Modules :
            /\ OpenTrials(d, m) # {}
            /\ d.trials[ActiveTrial(d, m)].remaining = 0
            /\ Beneficial(d.trials[ActiveTrial(d, m)].results)
            /\ d.modules[m] # Absent
            /\ a = Promoted(d, m)
    BY DEF AsPromoted
  <1> DEFINE i == ActiveTrial(d, m)
             old == d.trials[i]
             new == [old EXCEPT !.state = "promoted"]
             item == [d.modules[m] EXCEPT !.enabled = TRUE]
  <1>2. i \in 1..Len(d.trials) /\ old.module = m /\ old.state = "trial" /\ old.remaining = 0
    BY <1>1, ActiveTrialIsOpen
  <1>3. old \in Trial
    BY <1>2, DocumentTyped
  <1>4. d.modules[m] \in Item
    BY <1>1, DocumentTyped
  <1>5. item \in Item /\ item # Absent
    BY <1>4 DEF Item, TrialsAssumption
  <1>6. /\ a.trials = [d.trials EXCEPT ![i] = new]
        /\ a.modules = [d.modules EXCEPT ![m] = item]
        /\ a = [modules |-> a.modules, trials |-> a.trials]
    BY <1>1 DEF Promoted, Document
  <1>7. /\ new \in Trial /\ new.module = old.module /\ new.previous = old.previous
        /\ new.results = old.results /\ new.remaining = old.remaining
        /\ new.state = "promoted" /\ new.matching = old.matching
    BY <1>3 DEF Trial, TrialStates
  <1> HIDE DEF new, item
  <1>8. /\ [d.trials EXCEPT ![i] = new] \in Seq(Trial)
        /\ Len([d.trials EXCEPT ![i] = new]) = Len(d.trials)
        /\ [d.trials EXCEPT ![i] = new][i] = new
        /\ \A k \in 1..Len(d.trials) : k # i => [d.trials EXCEPT ![i] = new][k] = d.trials[k]
    BY <1>2, <1>7, DocumentTyped, ExceptSeq
  <1>9. /\ a.modules \in [Modules -> Item \cup {Absent}]
        /\ a.modules[m] # Absent
        /\ \A q \in Modules \ {m} : a.modules[q] = d.modules[q]
    BY <1>5, <1>6, DocumentTyped
  <1>10. a \in Document
    BY <1>6, <1>8, <1>9 DEF Document
  <1>11. new.state \in Later(old.state) /\ IsPrefix(old.results, new.results)
    <2>1. new.state \in Later(old.state)
      BY <1>2, <1>7, LaterThanTrial DEF TrialStates
    <2>2. IsPrefix(old.results, new.results)
      BY <1>3, <1>7, TrialTyped, SameIsPrefix
    <2> QED BY <2>1, <2>2
  <1> HIDE DEF i
  <1>12. Edited(d, a, i, new)
    BY <1>6, <1>7, <1>8, <1>11 DEF Edited
  <1>13. Evolves(d, a)
    BY <1>2, <1>12, EditedEvolves
  <1>14. \A k \in 1..Len(d.trials) :
             a.trials[k].state \in ActiveStates => a.modules[a.trials[k].module] # Absent
    <2> SUFFICES ASSUME NEW k \in 1..Len(d.trials), a.trials[k].state \in ActiveStates
                 PROVE  a.modules[a.trials[k].module] # Absent
      OBVIOUS
    <2>1. a.trials[k].module = d.trials[k].module /\ d.trials[k].module \in Modules
      BY <1>13, DocumentTyped, TrialTyped DEF Evolves
    <2>2. d.trials[k].state \in ActiveStates
      BY <1>2, <1>6, <1>8 DEF ActiveStates
    <2>3. d.modules[d.trials[k].module] # Absent
      BY <2>2 DEF ActiveIsLast
    <2> QED BY <1>9, <2>1, <2>3
  <1>15. ActiveIsLast(a)
    BY <1>2, <1>12, <1>14, EditedKeepsActive
  <1>16. /\ Len(old.results) + old.remaining = old.matching
         /\ \A r, s \in 1..Len(old.results) :
                old.results[r].task = old.results[s].task => r = s
         /\ Earned(old) /\ Beneficial(old.results)
    <2>1. Beneficial(old.results)
      BY <1>1 DEF i
    <2>2. /\ Len(old.results) + old.remaining = old.matching
          /\ \A r, s \in 1..Len(old.results) :
                 old.results[r].task = old.results[s].task => r = s
          /\ Earned(old)
      BY <1>2 DEF ResultsAreCounted
    <2> QED BY <2>1, <2>2
  <1> HIDE DEF old
  <1>17. /\ Len(new.results) + new.remaining = new.matching
         /\ \A r, s \in 1..Len(new.results) :
                new.results[r].task = new.results[s].task => r = s
         /\ Earned(new)
    <2>1. Spent(new.results) <= Budget(new)
      BY <1>2, <1>7, <1>16 DEF Earned, ActiveStates, Budget
    <2>2. Beneficial(new.results) /\ new.remaining = 0
      BY <1>2, <1>7, <1>16
    <2> QED BY <1>7, <1>16, <2>1, <2>2 DEF Earned
  <1>18. ResultsAreCounted(a)
    BY <1>2, <1>12, <1>17, EditedKeepsCount
  <1> QED BY <1>6, <1>8, <1>10, <1>13, <1>15, <1>18 DEF KeepsDocument

LEMMA RolledBackKeeps ==
    ASSUME TrialsAssumption, NEW d \in Document, ActiveIsLast(d), ResultsAreCounted(d),
           NEW a, AsRolledBack(d, a)
    PROVE  KeepsDocument(d, a) /\ Len(a.trials) = Len(d.trials)
  <1>1. PICK m \in Modules : CanRollBack(d, m) /\ a = RolledBack(d, m)
    BY DEF AsRolledBack
  <1> DEFINE i == LatestTrial(d, m)
             old == d.trials[i]
             new == [old EXCEPT !.state = "rolled_back"]
  <1>2. /\ i \in 1..Len(d.trials) /\ old.module = m
        /\ \A k \in 1..Len(d.trials) : d.trials[k].module = m => k <= i
        /\ old.state \notin ClosedStates
    BY <1>1, LatestTrialIsLast DEF CanRollBack
  <1>3. old \in Trial
    BY <1>2, DocumentTyped
  <1>4. old.previous \in Item \cup {Absent}
    BY <1>3, TrialTyped
  <1>5. /\ a.trials = [d.trials EXCEPT ![i] = new]
        /\ a.modules = [d.modules EXCEPT ![m] = old.previous]
        /\ a = [modules |-> a.modules, trials |-> a.trials]
    BY <1>1 DEF RolledBack, Document
  <1>6. /\ new \in Trial /\ new.module = old.module /\ new.previous = old.previous
        /\ new.results = old.results /\ new.remaining = old.remaining
        /\ new.state = "rolled_back" /\ new.matching = old.matching
    BY <1>3 DEF Trial, TrialStates
  <1> HIDE DEF new
  <1>7. /\ [d.trials EXCEPT ![i] = new] \in Seq(Trial)
        /\ Len([d.trials EXCEPT ![i] = new]) = Len(d.trials)
        /\ [d.trials EXCEPT ![i] = new][i] = new
        /\ \A k \in 1..Len(d.trials) : k # i => [d.trials EXCEPT ![i] = new][k] = d.trials[k]
    BY <1>2, <1>6, DocumentTyped, ExceptSeq
  <1>8. /\ a.modules \in [Modules -> Item \cup {Absent}]
        /\ \A q \in Modules \ {m} : a.modules[q] = d.modules[q]
    BY <1>4, <1>5, DocumentTyped
  <1>9. a \in Document
    BY <1>5, <1>7, <1>8 DEF Document
  <1>10. new.state \in Later(old.state)
    <2>1. old.state \in {"trial", "promoted"}
      BY <1>2, <1>3, TrialTyped DEF ClosedStates, TrialStates
    <2> HIDE DEF old
    <2> QED BY <1>6, <2>1 DEF Later, TrialStates
  <1>11. IsPrefix(old.results, new.results)
    BY <1>3, <1>6, TrialTyped, SameIsPrefix
  <1> HIDE DEF i
  <1>12. Edited(d, a, i, new)
    BY <1>5, <1>6, <1>7, <1>10, <1>11 DEF Edited
  <1>13. Evolves(d, a)
    BY <1>2, <1>12, EditedEvolves
  <1>14. \A k \in 1..Len(d.trials) :
             a.trials[k].state \in ActiveStates => a.modules[a.trials[k].module] # Absent
    <2> SUFFICES ASSUME NEW k \in 1..Len(d.trials), a.trials[k].state \in ActiveStates
                 PROVE  a.modules[a.trials[k].module] # Absent
      OBVIOUS
    <2>1. a.trials[k].module = d.trials[k].module /\ d.trials[k].module \in Modules
      BY <1>13, DocumentTyped, TrialTyped DEF Evolves
    <2>2. k # i
      BY <1>5, <1>6, <1>7 DEF ActiveStates
    <2>3. d.trials[k].state \in ActiveStates
      BY <1>5, <1>7, <2>2
    <2>4. /\ d.modules[d.trials[k].module] # Absent
          /\ \A j \in 1..Len(d.trials) : d.trials[j].module = d.trials[k].module => j <= k
      BY <2>3 DEF ActiveIsLast
    <2>5. d.trials[k].module # m
      <3> SUFFICES ASSUME d.trials[k].module = m
                   PROVE  FALSE
        OBVIOUS
      <3>1. i <= k /\ k <= i
        BY <1>2, <2>4
      <3>2. i \in Int /\ k \in Int
        BY <1>2, DocumentTyped
      <3> QED BY <2>2, <3>1, <3>2
    <2> QED BY <1>8, <2>1, <2>4, <2>5
  <1>15. ActiveIsLast(a)
    BY <1>2, <1>12, <1>14, EditedKeepsActive
  <1>16. /\ Len(old.results) + old.remaining = old.matching
         /\ \A r, s \in 1..Len(old.results) :
                old.results[r].task = old.results[s].task => r = s
    BY <1>2 DEF ResultsAreCounted
  <1> HIDE DEF old
  <1>17. /\ Len(new.results) + new.remaining = new.matching
         /\ \A r, s \in 1..Len(new.results) :
                new.results[r].task = new.results[s].task => r = s
         /\ Earned(new)
    BY <1>6, <1>16 DEF Earned, ActiveStates
  <1>18. ResultsAreCounted(a)
    BY <1>2, <1>12, <1>17, EditedKeepsCount
  <1> QED BY <1>5, <1>7, <1>9, <1>13, <1>15, <1>18 DEF KeepsDocument
(* A trial is appended; what it keeps to be put back is in the lock.       *)
LEMMA TriedKeeps ==
    ASSUME TrialsAssumption, NEW d \in Document, ActiveIsLast(d), ResultsAreCounted(d),
           NEW a, AsTried(d, a)
    PROVE  /\ KeepsDocument(d, a)
           /\ Len(a.trials) = Len(d.trials) + 1
           /\ a.trials[Len(a.trials)].module \in Modules
           /\ a.trials[Len(a.trials)].previous = d.modules[a.trials[Len(a.trials)].module]
  <1>1. PICK m \in Modules, n \in MatchingTasks :
            ~HasActiveTrial(d, m) /\ a = Tried(d, m, n)
    BY DEF AsTried
  <1> DEFINE item == [enabled |-> TRUE, policy |-> ManifestPolicy[m]]
             new == [module |-> m, state |-> "trial", remaining |-> n, matching |-> n,
                     results |-> <<>>, previous |-> d.modules[m]]
  <1>2. item \in Item /\ item # Absent
    <2>1. ManifestPolicy[m] \in Policies /\ Absent \notin Item
      BY DEF TrialsAssumption
    <2>2. item \in Item
      BY <2>1 DEF Item
    <2> QED BY <2>1, <2>2
  <1>3. /\ a.trials = Append(d.trials, new)
        /\ a.modules = [d EXCEPT !.modules[m] = item].modules
        /\ a = [modules |-> a.modules, trials |-> a.trials]
    BY <1>1 DEF Tried, Enabled
  <1>4. n \in Nat /\ d.modules[m] \in Item \cup {Absent} /\ <<>> \in Seq(Result)
    BY DocumentTyped, EmptySeq DEF TrialsAssumption
  <1>5. /\ new \in Trial /\ new.module = m /\ new.previous = d.modules[m]
        /\ new.results = <<>> /\ new.remaining = n /\ new.matching = n
        /\ new.state = "trial"
    BY <1>4 DEF Trial, TrialStates
  <1> HIDE DEF new, item
  <1>6. d.trials \in Seq(Trial) /\ Len(d.trials) \in Nat
    BY DocumentTyped
  <1>7. /\ a.trials \in Seq(Trial)
        /\ Len(a.trials) = Len(d.trials) + 1
        /\ a.trials[Len(a.trials)] = new
        /\ \A k \in 1..Len(d.trials) : a.trials[k] = d.trials[k]
    BY <1>3, <1>5, <1>6, AppendProperties
  <1>8. /\ a.modules \in [Modules -> Item \cup {Absent}]
        /\ a.modules[m] # Absent
        /\ \A q \in Modules \ {m} : a.modules[q] = d.modules[q]
    BY <1>2, <1>3, LockedIsDocument, DocumentTyped
  <1>9. a \in Document
    BY <1>3, <1>7, <1>8 DEF Document
  <1>10. Evolves(d, a)
    <2>1. ASSUME NEW k \in 1..Len(d.trials)
          PROVE  /\ a.trials[k].module = d.trials[k].module
                 /\ a.trials[k].state \in Later(d.trials[k].state)
                 /\ a.trials[k].previous = d.trials[k].previous
                 /\ IsPrefix(d.trials[k].results, a.trials[k].results)
      <3>1. a.trials[k] = d.trials[k]
        BY <1>7
      <3>2. d.trials[k].state \in TrialStates /\ d.trials[k].results \in Seq(Result)
        BY DocumentTyped, TrialTyped
      <3> QED BY <3>1, <3>2, SameIsLater, SameIsPrefix
    <2>2. Len(a.trials) >= Len(d.trials)
      BY <1>6, <1>7
    <2> QED BY <2>1, <2>2 DEF Evolves
  <1>11. \A k \in 1..Len(d.trials) :
             d.trials[k].state \in ActiveStates => d.trials[k].module # m
    BY <1>1, TrialsOfTyped DEF HasActiveTrial
  <1>12. ActiveIsLast(a)
    <2> SUFFICES ASSUME NEW k \in 1..Len(a.trials), a.trials[k].state \in ActiveStates
                 PROVE  /\ \A j \in 1..Len(a.trials) :
                               a.trials[j].module = a.trials[k].module => j <= k
                        /\ a.modules[a.trials[k].module] # Absent
      BY DEF ActiveIsLast
    <2>1. CASE k = Len(a.trials)
      BY <1>5, <1>6, <1>7, <1>8, <2>1
    <2>2. CASE k # Len(a.trials)
      <3>1. k \in 1..Len(d.trials) /\ a.trials[k] = d.trials[k]
        BY <1>6, <1>7, <2>2
      <3>2. /\ \A j \in 1..Len(d.trials) : d.trials[j].module = d.trials[k].module => j <= k
            /\ d.modules[d.trials[k].module] # Absent
            /\ d.trials[k].module # m /\ d.trials[k].module \in Modules
        BY <1>11, <3>1, DocumentTyped, TrialTyped DEF ActiveIsLast
      <3>3. a.modules[a.trials[k].module] # Absent
        BY <1>8, <3>1, <3>2
      <3>4. ASSUME NEW j \in 1..Len(a.trials), a.trials[j].module = a.trials[k].module
            PROVE  j <= k
        <4>1. CASE j = Len(a.trials)
          BY <1>5, <1>7, <3>1, <3>2, <3>4, <4>1
        <4>2. CASE j # Len(a.trials)
          <5>1. j \in 1..Len(d.trials) /\ a.trials[j] = d.trials[j]
            BY <1>6, <1>7, <4>2
          <5> QED BY <3>1, <3>2, <3>4, <5>1
        <4> QED BY <4>1, <4>2
      <3> QED BY <3>3, <3>4
    <2> QED BY <2>1, <2>2
  <1>13. ResultsAreCounted(a)
    <2> SUFFICES ASSUME NEW k \in 1..Len(a.trials)
                 PROVE  /\ Len(a.trials[k].results) + a.trials[k].remaining
                               = a.trials[k].matching
                        /\ \A r, s \in 1..Len(a.trials[k].results) :
                               a.trials[k].results[r].task = a.trials[k].results[s].task => r = s
                        /\ Earned(a.trials[k])
      BY DEF ResultsAreCounted
    <2>1. CASE k = Len(a.trials)
      <3>1. Len(a.trials[k].results) = 0 /\ a.trials[k] = new
        BY <1>5, <1>7, <2>1, EmptySeq
      <3>2. Earned(new)
        <4>1. Spent(<<>>) = 0 /\ Budget(new) \in Nat
          BY <1>5, SpentTyped, BudgetTyped
        <4> QED BY <1>5, <4>1 DEF Earned
      <3> QED BY <1>4, <1>5, <3>1, <3>2
    <2>2. CASE k # Len(a.trials)
      <3>1. k \in 1..Len(d.trials) /\ a.trials[k] = d.trials[k]
        BY <1>6, <1>7, <2>2
      <3> QED BY <3>1 DEF ResultsAreCounted
    <2> QED BY <2>1, <2>2
  <1>14. KeepsDocument(d, a)
    BY <1>9, <1>10, <1>12, <1>13 DEF KeepsDocument
  <1> QED BY <1>5, <1>7, <1>14

LEMMA OperationKeeps ==
    ASSUME TrialsAssumption, NEW d \in Document, ActiveIsLast(d), ResultsAreCounted(d),
           NEW a, NEW starts \in BOOLEAN, Operation(d, a, starts)
    PROVE  /\ KeepsDocument(d, a)
           /\ ~starts => Len(a.trials) = Len(d.trials)
           /\ starts =>
                  /\ Len(a.trials) = Len(d.trials) + 1
                  /\ a.trials[Len(a.trials)].module \in Modules
                  /\ a.trials[Len(a.trials)].previous
                         = d.modules[a.trials[Len(a.trials)].module]
  <1>1. CASE starts
    BY <1>1, TriedKeeps DEF Operation
  <1>2. CASE ~starts
    BY <1>2, EnabledKeeps, DisabledKeeps, RecordedKeeps, PromotedKeeps, RolledBackKeeps
       DEF Operation
  <1> QED BY <1>1, <1>2
----------------------------------------------------------------------------
(* The steps of the invocations                                            *)

TrialPoints == {"idle", "loaded", "planned"}

LEMMA EmptyIsDocument == EmptyDocument \in Document /\ NoChange \in Change
  <1>1. <<>> \in Seq(Trial)
    BY EmptySeq
  <1>2. EmptyDocument \in Document
    BY <1>1 DEF EmptyDocument, Document
  <1> QED BY <1>2 DEF NoChange, Change

LEMMA InvTyped ==
    ASSUME TrialsInv
    PROVE  /\ document \in Document /\ replaced \in Seq(Item \cup {Absent})
           /\ planPc \in [Invocations -> TrialPoints]
           /\ planLoc \in [Invocations -> Change]
           /\ \A p \in Invocations : /\ planLoc[p].before \in Document
                                     /\ planLoc[p].after \in Document
                                     /\ planLoc[p].starts \in BOOLEAN
  BY DEF TrialsInv, TrialsTypeOK, TrialPoints, Change

(* A step of one invocation that leaves the document alone.                *)
LEMMA PlanningKeeps ==
    ASSUME TrialsInv, UNCHANGED <<document, replaced>>, NEW p \in Invocations,
           NEW point \in TrialPoints, PlanAt(p, point),
           planLoc' \in [Invocations -> Change],
           \A q \in Invocations \ {p} : planLoc'[q] = planLoc[q],
           point = "loaded" => Operation(document, planLoc'[p].after, planLoc'[p].starts),
           point = "planned" =>
               Operation(planLoc'[p].before, planLoc'[p].after, planLoc'[p].starts)
    PROVE  TrialsInv'
  <1>1. /\ planPc' \in [Invocations -> TrialPoints]
        /\ planLoc' \in [Invocations -> Change]
        /\ planPc'[p] = point
        /\ \A q \in Invocations \ {p} : planPc'[q] = planPc[q] /\ planLoc'[q] = planLoc[q]
    BY InvTyped DEF PlanAt
  <1>2. TrialsTypeOK'
    BY <1>1, InvTyped DEF TrialsTypeOK, TrialPoints, Change
  <1>3. ASSUME NEW q \in Invocations
        PROVE  /\ planPc'[q] = "loaded" =>
                      Operation(document', planLoc'[q].after, planLoc'[q].starts)
               /\ planPc'[q] = "planned" =>
                      Operation(planLoc'[q].before, planLoc'[q].after, planLoc'[q].starts)
    <2>1. CASE q = p
      BY <1>1, <2>1
    <2>2. CASE q # p
      BY <1>1, <2>2 DEF TrialsInv, PlansAreOperations
    <2> QED BY <2>1, <2>2
  <1>4. PlansAreOperations'
    BY <1>3 DEF PlansAreOperations
  <1>5. ActiveIsLast(document') /\ ResultsAreCounted(document')
    BY DEF TrialsInv
  <1>6. ReplacedIsPrevious'
    BY DEF TrialsInv, ReplacedIsPrevious
  <1> QED BY <1>2, <1>4, <1>5, <1>6 DEF TrialsInv

LEMMA LoadKeeps ==
    ASSUME TrialsAssumption, TrialsInv, NEW p \in Invocations, NEW after,
           NEW starts \in BOOLEAN, Operation(document, after, starts), Load(p, after, starts)
    PROVE  TrialsInv'
  <1>1. after \in Document
    BY InvTyped, OperationKeeps DEF TrialsInv, KeepsDocument
  <1>2. /\ planLoc' \in [Invocations -> Change]
        /\ \A q \in Invocations \ {p} : planLoc'[q] = planLoc[q]
        /\ planLoc'[p].after = after /\ planLoc'[p].starts = starts
    BY <1>1, InvTyped DEF Load, Change
  <1>3. PlanAt(p, "loaded") /\ UNCHANGED <<document, replaced>> /\ "loaded" \in TrialPoints
    BY DEF Load, TrialPoints
  <1> QED BY <1>2, <1>3, PlanningKeeps

LEMMA ReadBeforeKeeps ==
    ASSUME TrialsInv, NEW p \in Invocations, ReadBefore(p)
    PROVE  TrialsInv'
  <1>1. /\ planLoc' \in [Invocations -> Change]
        /\ \A q \in Invocations \ {p} : planLoc'[q] = planLoc[q]
        /\ planLoc'[p].before = document
        /\ planLoc'[p].after = planLoc[p].after /\ planLoc'[p].starts = planLoc[p].starts
    BY InvTyped DEF ReadBefore, Change
  <1>2. Operation(document, planLoc[p].after, planLoc[p].starts)
    BY DEF ReadBefore, TrialsInv, PlansAreOperations
  <1>3. /\ PlanAt(p, "planned") /\ UNCHANGED <<document, replaced>>
        /\ "planned" \in TrialPoints
    BY DEF ReadBefore, TrialPoints
  <1> QED BY <1>1, <1>2, <1>3, PlanningKeeps

LEMMA EndKeeps ==
    ASSUME TrialsInv, NEW p \in Invocations, EndChange(p), UNCHANGED <<document, replaced>>
    PROVE  TrialsInv'
  <1>1. /\ PlanAt(p, "idle") /\ "idle" \in TrialPoints
        /\ planLoc' \in [Invocations -> Change]
        /\ \A q \in Invocations \ {p} : planLoc'[q] = planLoc[q]
    BY EmptyIsDocument, InvTyped DEF EndChange, TrialPoints
  <1> QED BY <1>1, PlanningKeeps

(* What is applied is an operation on the document there is.               *)
LEMMA AppliedIsOperation ==
    ASSUME TrialsInv, NEW p \in Invocations, Apply(p)
    PROVE  /\ planLoc[p].starts \in BOOLEAN
           /\ document' = planLoc[p].after
           /\ Operation(document, planLoc[p].after, planLoc[p].starts)
  BY InvTyped DEF Apply, Reviewed, TrialsInv, PlansAreOperations

LEMMA ApplyKeeps ==
    ASSUME TrialsAssumption, Overlap = FALSE, TrialsInv, NEW p \in Invocations, Apply(p)
    PROVE  TrialsInv'
  <1> DEFINE a == planLoc[p].after
             starts == planLoc[p].starts
             last == a.trials[Len(a.trials)]
  <1>1. starts \in BOOLEAN /\ document' = a /\ Operation(document, a, starts)
    BY AppliedIsOperation
  <1>2. document \in Document /\ ActiveIsLast(document) /\ ResultsAreCounted(document)
    BY InvTyped DEF TrialsInv
  <1>3. /\ KeepsDocument(document, a)
        /\ ~starts => Len(a.trials) = Len(document.trials)
        /\ starts => /\ Len(a.trials) = Len(document.trials) + 1
                     /\ last.module \in Modules
                     /\ last.previous = document.modules[last.module]
    BY <1>1, <1>2, OperationKeeps
  <1>4. /\ planPc' \in [Invocations -> TrialPoints]
        /\ planLoc' \in [Invocations -> Change]
        /\ planPc'[p] = "idle"
        /\ \A q \in Invocations \ {p} : planPc'[q] = planPc[q] /\ planLoc'[q] = planLoc[q]
        /\ \A q \in Invocations : planPc[q] # "loaded"
    BY InvTyped, EmptyIsDocument DEF Apply, EndChange, PlanAt, Undisturbed, TrialPoints
  <1>5. PlansAreOperations'
    <2>1. ASSUME NEW q \in Invocations
          PROVE  /\ planPc'[q] # "loaded"
                 /\ planPc'[q] = "planned" =>
                        Operation(planLoc'[q].before, planLoc'[q].after, planLoc'[q].starts)
      BY <1>4 DEF TrialsInv, PlansAreOperations
    <2> QED BY <2>1 DEF PlansAreOperations
  <1>6. /\ Len(document.trials) \in Nat /\ Len(replaced) = Len(document.trials)
        /\ replaced \in Seq(Item \cup {Absent})
        /\ \A k \in 1..Len(document.trials) :
               a.trials[k].previous = replaced[k]
    BY <1>2, <1>3, InvTyped, DocumentTyped
       DEF TrialsInv, ReplacedIsPrevious, KeepsDocument, Evolves
  <1>7. /\ replaced' \in Seq(Item \cup {Absent})
        /\ Len(replaced') = Len(a.trials)
        /\ \A k \in 1..Len(a.trials) : a.trials[k].previous = replaced'[k]
    <2>1. CASE starts
      <3>1. SubSeq(replaced, 1, Len(a.trials) - 1) = replaced
        <4>1. Len(a.trials) - 1 = Len(replaced)
          BY <1>3, <1>6, <2>1
        <4> QED BY <1>6, <4>1, SubSeqFull
      <3>2. replaced' = Append(replaced, document.modules[last.module])
        BY <2>1, <3>1 DEF Apply
      <3>3. document.modules[last.module] \in Item \cup {Absent}
        BY <1>2, <1>3, <2>1, DocumentTyped
      <3>4. /\ replaced' \in Seq(Item \cup {Absent})
            /\ Len(replaced') = Len(replaced) + 1
            /\ replaced'[Len(replaced) + 1] = document.modules[last.module]
            /\ \A k \in 1..Len(replaced) : replaced'[k] = replaced[k]
        <4> DEFINE S == Item \cup {Absent}
                   item == document.modules[last.module]
        <4>1. replaced \in Seq(S) /\ item \in S /\ replaced' = Append(replaced, item)
          BY <1>6, <3>2, <3>3
        <4> HIDE DEF S, item
        <4>2. /\ replaced' \in Seq(S)
              /\ Len(replaced') = Len(replaced) + 1
              /\ replaced'[Len(replaced) + 1] = item
              /\ \A k \in 1..Len(replaced) : replaced'[k] = replaced[k]
          BY <4>1, AppendProperties
        <4> QED BY <4>2 DEF S, item
      <3>5. ASSUME NEW k \in 1..Len(a.trials)
            PROVE  a.trials[k].previous = replaced'[k]
        <4>1. CASE k = Len(a.trials)
          BY <1>3, <1>6, <2>1, <3>4, <4>1
        <4>2. CASE k # Len(a.trials)
          <5>1. k \in 1..Len(document.trials)
            BY <1>3, <1>6, <2>1, <4>2
          <5> QED BY <1>6, <3>4, <5>1
        <4> QED BY <4>1, <4>2
      <3> QED BY <1>3, <1>6, <2>1, <3>4, <3>5
    <2>2. CASE ~starts
      <3>1. replaced' = replaced
        BY <2>2 DEF Apply
      <3> QED BY <1>3, <1>6, <2>2, <3>1
    <2> QED BY <1>1, <2>1, <2>2
  <1>8. ReplacedIsPrevious'
    BY <1>1, <1>7 DEF ReplacedIsPrevious
  <1>9. /\ document' \in Document
        /\ ActiveIsLast(document') /\ ResultsAreCounted(document')
    BY <1>1, <1>3 DEF KeepsDocument
  <1>10. TrialsTypeOK'
    BY <1>4, <1>7, <1>9 DEF TrialsTypeOK, TrialPoints, Change
  <1> QED BY <1>5, <1>8, <1>9, <1>10 DEF TrialsInv
LEMMA PlansKeep ==
    ASSUME TrialsAssumption, TrialsInv, NEW p \in Invocations, NEW m \in Modules,
           \/ \E policy \in Policies : PlanEnable(p, m, policy)
           \/ PlanDisable(p, m)
           \/ \E n \in MatchingTasks : PlanTrial(p, m, n)
           \/ \E result \in Result : PlanRecord(p, m, result)
           \/ PlanPromote(p, m)
           \/ PlanTrialRollback(p, m)
    PROVE  TrialsInv' /\ document' = document
  <1>1. CASE \E policy \in Policies : PlanEnable(p, m, policy)
    <2>1. PICK policy \in Policies : Load(p, Enabled(document, m, policy), FALSE)
      BY <1>1 DEF PlanEnable
    <2>2. Operation(document, Enabled(document, m, policy), FALSE)
      BY DEF Operation, AsEnabled
    <2> QED BY <2>1, <2>2, LoadKeeps DEF Load
  <1>2. CASE PlanDisable(p, m)
    <2>1. Load(p, Disabled(document, m), FALSE) /\ document.modules[m] # Absent
      BY <1>2 DEF PlanDisable
    <2>2. Operation(document, Disabled(document, m), FALSE)
      BY <2>1 DEF Operation, AsDisabled
    <2> QED BY <2>1, <2>2, LoadKeeps DEF Load
  <1>3. CASE \E n \in MatchingTasks : PlanTrial(p, m, n)
    <2>1. PICK n \in MatchingTasks :
              Load(p, Tried(document, m, n), TRUE) /\ ~HasActiveTrial(document, m)
      BY <1>3 DEF PlanTrial
    <2>2. Operation(document, Tried(document, m, n), TRUE)
      BY <2>1 DEF Operation, AsTried
    <2> QED BY <2>1, <2>2, LoadKeeps DEF Load
  <1>4. CASE \E result \in Result : PlanRecord(p, m, result)
    <2>1. PICK result \in Result :
              /\ Load(p, ResultRecorded(document, m, result), FALSE)
              /\ OpenTrials(document, m) # {}
              /\ Awaited(document.trials[ActiveTrial(document, m)], result.task)
      BY <1>4 DEF PlanRecord
    <2>2. Operation(document, ResultRecorded(document, m, result), FALSE)
      BY <2>1 DEF Operation, AsRecorded
    <2> QED BY <2>1, <2>2, LoadKeeps DEF Load
  <1>5. CASE PlanPromote(p, m)
    <2>1. /\ Load(p, Promoted(document, m), FALSE)
          /\ OpenTrials(document, m) # {} /\ document.modules[m] # Absent
          /\ document.trials[ActiveTrial(document, m)].remaining = 0
          /\ Beneficial(document.trials[ActiveTrial(document, m)].results)
      BY <1>5 DEF PlanPromote
    <2>2. Operation(document, Promoted(document, m), FALSE)
      BY <2>1 DEF Operation, AsPromoted
    <2> QED BY <2>1, <2>2, LoadKeeps DEF Load
  <1>6. CASE PlanTrialRollback(p, m)
    <2>1. Load(p, RolledBack(document, m), FALSE) /\ CanRollBack(document, m)
      BY <1>6 DEF PlanTrialRollback
    <2>2. Operation(document, RolledBack(document, m), FALSE)
      BY <2>1 DEF Operation, AsRolledBack
    <2> QED BY <2>1, <2>2, LoadKeeps DEF Load
  <1> QED BY <1>1, <1>2, <1>3, <1>4, <1>5, <1>6

LEMMA TrialsStarts ==
    ASSUME TrialsAssumption, TrialsInit
    PROVE  TrialsInv
  <1>1. PICK locked \in [Modules -> Item \cup {Absent}] :
            document = [modules |-> locked, trials |-> <<>>]
    BY DEF TrialsInit, TrialsAssumption
  <1>2. <<>> \in Seq(Trial) /\ <<>> \in Seq(Item \cup {Absent}) /\ Len(<<>>) = 0
    BY EmptySeq
  <1>3. document \in Document /\ document.trials = <<>> /\ Len(document.trials) = 0
    BY <1>1, <1>2 DEF Document
  <1>4. TrialsTypeOK
    BY <1>2, <1>3, EmptyIsDocument DEF TrialsInit, TrialsTypeOK, Change
  <1>5. PlansAreOperations
    BY DEF TrialsInit, PlansAreOperations
  <1>6. ActiveIsLast(document) /\ ResultsAreCounted(document)
    BY <1>3 DEF ActiveIsLast, ResultsAreCounted
  <1>7. ReplacedIsPrevious
    BY <1>2, <1>3 DEF TrialsInit, ReplacedIsPrevious
  <1> QED BY <1>4, <1>5, <1>6, <1>7 DEF TrialsInv

LEMMA TrialsStep ==
    ASSUME TrialsAssumption, Overlap = FALSE, TrialsInv, [TrialsNext]_trialsVars
    PROVE  TrialsInv' /\ (document' # document => Evolves(document, document'))
  <1>1. CASE UNCHANGED trialsVars
    <2>1. UNCHANGED <<document, replaced, planPc, planLoc>>
      BY <1>1 DEF trialsVars
    <2>2. TrialsTypeOK' /\ PlansAreOperations' /\ ReplacedIsPrevious'
      BY <2>1 DEF TrialsInv, TrialsTypeOK, PlansAreOperations, ReplacedIsPrevious
    <2> QED BY <2>1, <2>2 DEF TrialsInv
  <1>2. CASE \E p \in Invocations, m \in Modules :
                 \/ \E policy \in Policies : PlanEnable(p, m, policy)
                 \/ PlanDisable(p, m)
                 \/ \E n \in MatchingTasks : PlanTrial(p, m, n)
                 \/ \E result \in Result : PlanRecord(p, m, result)
                 \/ PlanPromote(p, m)
                 \/ PlanTrialRollback(p, m)
    BY <1>2, PlansKeep
  <1>3. ASSUME NEW p \in Invocations, ReadBefore(p)
        PROVE  TrialsInv' /\ document' = document
    BY <1>3, ReadBeforeKeeps DEF ReadBefore
  <1>4. ASSUME NEW p \in Invocations, Apply(p)
        PROVE  TrialsInv' /\ Evolves(document, document')
    <2>1. TrialsInv'
      BY <1>4, ApplyKeeps
    <2>2. Evolves(document, document')
      BY <1>4, AppliedIsOperation, OperationKeeps, InvTyped DEF TrialsInv, KeepsDocument
    <2> QED BY <2>1, <2>2
  <1>5. ASSUME NEW p \in Invocations, Drifted(p) \/ Leave(p)
        PROVE  TrialsInv' /\ document' = document
    BY <1>5, EndKeeps DEF Drifted, Leave
  <1> QED BY <1>1, <1>2, <1>3, <1>4, <1>5 DEF TrialsNext

LEMMA TrialsAlways ==
    ASSUME TrialsAssumption, Overlap = FALSE
    PROVE  TrialsSpec => []TrialsInv
  <1>1. TrialsInit => TrialsInv
    BY TrialsStarts
  <1>2. TrialsInv /\ [TrialsNext]_trialsVars => TrialsInv'
    BY TrialsStep
  <1> QED BY <1>1, <1>2, PTL DEF TrialsSpec

LEMMA ActiveIsLatest ==
    ASSUME TrialsInv
    PROVE  OneActiveTrial
  <1> SUFFICES ASSUME NEW m \in Modules, NEW i \in TrialsOf(document, m),
                      document.trials[i].state \in ActiveStates
               PROVE  i = LatestTrial(document, m) /\ document.modules[m] # Absent
    BY DEF OneActiveTrial, ActiveStates
  <1>1. document \in Document /\ ActiveIsLast(document) /\ Len(document.trials) \in Nat
    BY InvTyped, DocumentTyped DEF TrialsInv
  <1>2. /\ TrialsOf(document, m) = {k \in 1..Len(document.trials) : document.trials[k].module = m}
        /\ TrialsOf(document, m) \in SUBSET (1..Len(document.trials))
    BY <1>1, TrialsOfTyped
  <1>3. i \in 1..Len(document.trials) /\ document.trials[i].module = m
    BY <1>2
  <1>4. /\ \A j \in 1..Len(document.trials) : document.trials[j].module = m => j <= i
        /\ document.modules[m] # Absent
    BY <1>1, <1>3 DEF ActiveIsLast
  <1>5. \A j \in TrialsOf(document, m) : j <= i
    BY <1>2, <1>4
  <1>6. i = Max(TrialsOf(document, m))
    BY <1>1, <1>2, <1>5, LastIsMax
  <1> QED BY <1>4, <1>6 DEF LatestTrial

(* One trial of a module is open or promoted, the latest one, whoever      *)
(* plans and applies at the same time; and what a rollback of a trial puts *)
(* back is what was in the lock when the trial was applied.                *)
THEOREM TrialsAreUndoable ==
    ASSUME TrialsAssumption, Overlap = FALSE
    PROVE  TrialsSpec => []TrialsAreSound
  <1>1. TrialsInv => OneActiveTrial
    BY ActiveIsLatest
  <1>2. TrialsInv => UndoIsExact
    <2> SUFFICES ASSUME TrialsInv
                 PROVE  UndoIsExact
      OBVIOUS
    <2>1. DOMAIN document.trials = 1..Len(document.trials)
      BY InvTyped, DocumentTyped
    <2> QED BY <2>1 DEF TrialsInv, ReplacedIsPrevious, UndoIsExact
  <1>3. TrialsInv => TrialsAreSound
    BY <1>1, <1>2 DEF TrialsAreSound
  <1> QED BY <1>3, TrialsAlways, PTL

(* No trial and no result is lost, and no decision is taken back.          *)
THEOREM TrialsOnlyProgress ==
    ASSUME TrialsAssumption, Overlap = FALSE
    PROVE  TrialsSpec => TrialsProgress
  <1> DEFINE Progress ==
          /\ Len(document'.trials) >= Len(document.trials)
          /\ \A i \in DOMAIN document.trials :
                LET old == document.trials[i]
                    new == document'.trials[i]
                IN  /\ new.module = old.module
                    /\ new.state \in Later(old.state)
                    /\ IsPrefix(old.results, new.results)
  <1>1. TrialsInv /\ [TrialsNext]_trialsVars => [Progress]_trialsVars
    <2> SUFFICES ASSUME TrialsInv, [TrialsNext]_trialsVars
                 PROVE  Progress
      OBVIOUS
    <2>1. /\ document \in Document /\ Len(document.trials) \in Nat
          /\ DOMAIN document.trials = 1..Len(document.trials)
      BY InvTyped, DocumentTyped
    <2>2. CASE document' = document
      <3>1. \A i \in 1..Len(document.trials) :
                /\ document.trials[i].state \in Later(document.trials[i].state)
                /\ IsPrefix(document.trials[i].results, document.trials[i].results)
        BY <2>1, DocumentTyped, TrialTyped, SameIsLater, SameIsPrefix
      <3> QED BY <2>1, <2>2, <3>1
    <2>3. CASE document' # document
      <3>1. Evolves(document, document')
        BY <2>3, TrialsStep
      <3> QED BY <2>1, <3>1 DEF Evolves
    <2> QED BY <2>2, <2>3
  <1> QED BY <1>1, TrialsAlways, PTL DEF TrialsSpec, TrialsProgress

(* Results of different tasks are as many as their tasks.                   *)
LEMMA DistinctTasks ==
    ASSUME NEW results \in Seq(Result),
           \A r, s \in 1..Len(results) : results[r].task = results[s].task => r = s
    PROVE  Cardinality({results[j].task : j \in 1..Len(results)}) = Len(results)
  <1> DEFINE S == 1..Len(results)
             T == {results[j].task : j \in S}
             taskOf == [j \in S |-> results[j].task]
  <1>1. IsFiniteSet(S) /\ Cardinality(S) = Len(results)
    <2>1. Len(results) \in Nat /\ 1 \in Int /\ Len(results) \in Int
      OBVIOUS
    <2>2. /\ IsFiniteSet(S)
          /\ Cardinality(S) = IF 1 > Len(results) THEN 0 ELSE Len(results) - 1 + 1
      BY <2>1, FS_Interval
    <2> HIDE DEF S
    <2> QED BY <2>1, <2>2
  <1>2. taskOf \in Bijection(S, T)
    <2>1. taskOf \in [S -> T] /\ \A t \in T : \E j \in S : taskOf[j] = t
      OBVIOUS
    <2>2. \A r, s \in S : taskOf[r] = taskOf[s] => r = s
      OBVIOUS
    <2> QED BY <2>1, <2>2 DEF Bijection, Injection, Surjection, IsInjective
  <1>3. ExistsBijection(S, T)
    BY <1>2 DEF ExistsBijection
  <1> HIDE DEF S, T, taskOf
  <1>4. Cardinality(T) = Cardinality(S)
    BY <1>1, <1>3, FS_Bijection
  <1> QED BY <1>1, <1>4 DEF S, T

(* A promoted trial has had a result of each task it asked for, most of    *)
(* them beneficial, within its budget.                                     *)
THEOREM PromotionsAreEarned ==
    ASSUME TrialsAssumption, Overlap = FALSE
    PROVE  TrialsSpec => []PromotedIsEarned
  <1>1. TrialsInv => PromotedIsEarned
    <2> SUFFICES ASSUME TrialsInv, NEW i \in DOMAIN document.trials,
                        document.trials[i].state = "promoted"
                 PROVE  LET trial == document.trials[i]
                        IN  /\ Len(trial.results) = trial.matching
                            /\ Cardinality({trial.results[j].task : j \in DOMAIN trial.results})
                                   = trial.matching
                            /\ Cardinality({j \in DOMAIN trial.results :
                                               trial.results[j].beneficial}) * 2
                                   > trial.matching
                            /\ Spent(trial.results) <= Budget(trial)
      BY DEF PromotedIsEarned
    <2> DEFINE trial == document.trials[i]
               results == trial.results
    <2>1. i \in 1..Len(document.trials) /\ trial \in Trial
      BY InvTyped, DocumentTyped
    <2>2. /\ results \in Seq(Result) /\ Len(results) \in Nat
          /\ DOMAIN results = 1..Len(results)
          /\ trial.matching \in Nat
      BY <2>1, TrialTyped
    <2>3. /\ Len(results) + trial.remaining = trial.matching /\ trial.remaining = 0
          /\ \A r, s \in 1..Len(results) : results[r].task = results[s].task => r = s
          /\ Beneficial(results) /\ Spent(results) <= Budget(trial)
      BY <2>1 DEF TrialsInv, ResultsAreCounted, Earned, ActiveStates
    <2> HIDE DEF trial
    <2>4. Len(results) = trial.matching
      BY <2>2, <2>3
    <2> HIDE DEF results
    <2>5. Cardinality({results[j].task : j \in 1..Len(results)}) = Len(results)
      BY <2>2, <2>3, DistinctTasks
    <2>6. Cardinality({j \in DOMAIN results : results[j].beneficial}) * 2 > trial.matching
      <3> DEFINE beneficial == BeneficialOnes(results)
      <3>1. 2 * Cardinality(beneficial) > Len(results)
        BY <2>3 DEF Beneficial
      <3>2. Cardinality(beneficial) \in Nat
        <4>1. beneficial \in SUBSET (1..Len(results))
          BY <2>2 DEF BeneficialOnes
        <4>2. IsFiniteSet(1..Len(results))
          <5>1. 1 \in Int /\ Len(results) \in Int
            BY <2>2
          <5> QED BY <5>1, FS_Interval
        <4>3. IsFiniteSet(beneficial)
          <5> HIDE DEF beneficial
          <5> QED BY <4>1, <4>2, FS_Subset
        <4> HIDE DEF beneficial
        <4> QED BY <4>3, FS_CardinalityType
      <3>3. beneficial = {j \in DOMAIN results : results[j].beneficial}
        BY DEF BeneficialOnes
      <3> HIDE DEF beneficial
      <3>4. Cardinality(beneficial) * 2 > trial.matching
        BY <2>2, <2>4, <3>1, <3>2
      <3> QED BY <3>3, <3>4
    <2> QED BY <2>2, <2>3, <2>4, <2>5, <2>6 DEF trial, results
  <1> QED BY <1>1, TrialsAlways, PTL

----------------------------------------------------------------------------
(* CapabilityConsent: the history is read and extended in one step here,   *)
(* because TaskKernel shows that the operation lock makes it one; the      *)
(* declarations are not.                                                   *)

Event ==
    [type : {"approval.granted", "command.authorized", "command.started"},
     cap : Caps, decl : Declarations \cup {Undeclared}, approval : Nat,
     uses : Nat, time : Nat, auth : Nat, revision : Nat]

Envelope ==
    [revision : Nat, requested : SUBSET Caps, scope : SUBSET Paths, base : Shas,
     retry : Nat, max_commands : Nat, events : Seq(Event)]

Points == {"idle", "shown", "replan", "grant", "authorize", "execute"}

Local ==
    [cap : Caps \cup {NoCap}, decl : Declarations \cup {Undeclared}, approval : Nat,
     uses : Nat, expires : Nat, auth : Nat]

TypeOK ==
    /\ declared \in [Caps -> Declarations \cup {Undeclared}]
    /\ task \in Envelope /\ head \in Shas
    /\ now \in Nat /\ planned \in Nat
    /\ pc \in [Procs -> Points]
    /\ loc \in [Procs -> Local]
    /\ \A p \in Procs : pc[p] # "idle" => loc[p].cap \in Caps

(* What was read was loaded, and so is well declared.                      *)
ReadsAreLoaded ==
    \A p \in Procs : pc[p] = "authorize" =>
        loc[p].decl \in Declarations /\ WellDeclared(loc[p].decl)

Grants == EventsOf("approval.granted")

(* An approval is of one grant, and what is charged to it names that grant.*)
GrantsApart ==
    \A i, j \in Grants :
        task.events[i].approval = task.events[j].approval => i = j

ChargesAreGranted ==
    \A j \in Authorized :
        \/ task.events[j].approval = 0
        \/ \E i \in Grants : task.events[i].approval = task.events[j].approval

GrantsPlanned == \A i \in Grants : task.events[i].approval \in 1..planned

(* Invocations that were given an id for an approval.                      *)
Granting == {"shown", "replan", "grant"}

(* Nobody else has that id: no grant in the history, no other invocation.  *)
ApprovalsFresh ==
    \A p \in Procs : pc[p] \in Granting =>
        /\ loc[p].approval \in 1..planned
        /\ \A i \in Grants : task.events[i].approval # loc[p].approval
        /\ \A q \in Procs \ {p} :
               pc[q] \in Granting => loc[q].approval # loc[p].approval

HistorySound ==
    /\ GrantsPlanned
    /\ GrantsApart
    /\ ChargesAreGranted
    /\ EffectsConsented

ConsentInv ==
    /\ TypeOK
    /\ ReadsAreLoaded
    /\ HistorySound
    /\ ApprovalsFresh

----------------------------------------------------------------------------
(* A history that is extended *)

Adds(e) ==
    /\ e \in Event
    /\ task' = [task EXCEPT !.events = Append(task.events, e)]

LEMMA AddsOne ==
    ASSUME task \in Envelope, NEW e, Adds(e)
    PROVE  /\ task' \in Envelope
           /\ task'.requested = task.requested /\ task'.scope = task.scope
           /\ Len(task.events) + 1 \in Nat
           /\ DOMAIN task'.events = 1..(Len(task.events) + 1)
           /\ DOMAIN task.events = 1..Len(task.events)
           /\ task'.events[Len(task.events) + 1] = e
           /\ \A i \in DOMAIN task.events : task'.events[i] = task.events[i]
  <1>1. task.events \in Seq(Event) /\ e \in Event
    BY DEF Adds, Envelope
  <1>2. /\ task'.events = Append(task.events, e)
        /\ task'.requested = task.requested /\ task'.scope = task.scope
    BY DEF Adds, Envelope
  <1>3. Append(task.events, e) \in Seq(Event)
    BY <1>1
  <1>4. task' \in Envelope
    BY <1>3 DEF Adds, Envelope
  <1>5. QED
    BY <1>1, <1>2, <1>4

LEMMA AddsToSets ==
    ASSUME task \in Envelope, NEW e, Adds(e)
    PROVE  /\ Authorized' =
                  Authorized \cup (IF e.type = "command.authorized"
                                   THEN {Len(task.events) + 1} ELSE {})
           /\ Grants' = Grants \cup (IF e.type = "approval.granted"
                                     THEN {Len(task.events) + 1} ELSE {})
  <1>1. \A i : i \in 1..(Len(task.events) + 1) <=>
               i \in 1..Len(task.events) \/ i = Len(task.events) + 1
    BY DEF Envelope
  <1>2. Authorized' =
            Authorized \cup (IF e.type = "command.authorized"
                             THEN {Len(task.events) + 1} ELSE {})
    BY <1>1, AddsOne DEF Authorized, EventsOf
  <1>3. Grants' = Grants \cup (IF e.type = "approval.granted"
                               THEN {Len(task.events) + 1} ELSE {})
    BY <1>1, AddsOne DEF Grants, EventsOf
  <1>4. QED
    BY <1>2, <1>3

LEMMA HistoryTypes ==
    ASSUME task \in Envelope, NEW i \in DOMAIN task.events
    PROVE  /\ task.events[i] \in Event
           /\ i \in Nat /\ i >= 1 /\ i <= Len(task.events) /\ Len(task.events) \in Nat
  BY DEF Envelope

LEMMA UsesFinite ==
    ASSUME task \in Envelope, NEW a
    PROVE  IsFiniteSet(UsesOf(a)) /\ Cardinality(UsesOf(a)) \in Nat
  <1>1. IsFiniteSet(1..Len(task.events))
    BY FS_Interval DEF Envelope
  <1>2. UsesOf(a) \subseteq 1..Len(task.events)
    BY DEF UsesOf, EventsOf, Envelope
  <1>3. QED
    BY <1>1, <1>2, FS_Subset, FS_CardinalityType

(* Uses of an approval after one more event.                               *)
UsesAfter(a) == {k \in Authorized' : task'.events[k].approval = a}

LEMMA AddsToUses ==
    ASSUME task \in Envelope, NEW e, Adds(e), NEW a
    PROVE  /\ e.type = "command.authorized" /\ e.approval = a =>
                  Cardinality(UsesAfter(a)) = Cardinality(UsesOf(a)) + 1
           /\ ~(e.type = "command.authorized" /\ e.approval = a) =>
                  UsesAfter(a) = UsesOf(a)
  <1> DEFINE n == Len(task.events) + 1
  <1>1. /\ Authorized' = Authorized \cup (IF e.type = "command.authorized" THEN {n} ELSE {})
        /\ task'.events[n] = e
        /\ \A i \in Authorized : task'.events[i] = task.events[i]
    BY AddsToSets, AddsOne DEF Authorized, EventsOf
  <1>2. n \notin UsesOf(a)
    BY HistoryTypes DEF UsesOf, EventsOf
  <1>3. UsesOf(a) = {k \in Authorized : task.events[k].approval = a}
    BY DEF UsesOf, Authorized
  <1> HIDE DEF n
  <1>4. CASE e.type = "command.authorized" /\ e.approval = a
    <2>1. UsesAfter(a) = UsesOf(a) \cup {n}
      BY <1>1, <1>3, <1>4 DEF UsesAfter
    <2>2. QED
      BY <2>1, <1>2, <1>4, UsesFinite, FS_AddElement
  <1>5. CASE ~(e.type = "command.authorized" /\ e.approval = a)
    <2>1. UsesAfter(a) = UsesOf(a)
      BY <1>1, <1>3, <1>5 DEF UsesAfter
    <2>2. QED
      BY <2>1, <1>5
  <1>6. QED
    BY <1>4, <1>5

----------------------------------------------------------------------------
(* Consent stays *)

(* EffectsConsented, of one command and of one grant.                      *)
Consented(j) ==
    LET d == task.events[j].decl IN
    /\ task.events[j].cap \in task.requested
    /\ d.writes \subseteq task.scope
    /\ ~d.outbound /\ ~d.listener
    /\ d.environment \notin {"staging", "production"}
    /\ d.policy # "deny"
    /\ NeedsConsent(d) => \E i \in EventsOf("approval.granted") : Consents(i, j)

Charged(i) == Cardinality(UsesOf(task.events[i].approval)) <= task.events[i].uses

LEMMA EffectsAreThese ==
    EffectsConsented <=> /\ \A j \in Authorized : Consented(j)
                         /\ \A i \in Grants : Charged(i)
  BY DEF EffectsConsented, Consented, Charged, Grants

(* An envelope only widens and a history only grows.                       *)
Extended ==
    /\ task.requested \subseteq task'.requested
    /\ task.scope \subseteq task'.scope
    /\ DOMAIN task.events \subseteq DOMAIN task'.events
    /\ \A i \in DOMAIN task.events : task'.events[i] = task.events[i]

LEMMA ConsentStays ==
    ASSUME Extended, NEW j \in Authorized, Consented(j)
    PROVE  Consented(j)'
  <1> DEFINE d == task.events[j].decl
  <1>1. j \in DOMAIN task.events /\ task'.events[j] = task.events[j]
    BY DEF Extended, Authorized, EventsOf
  <1>2. /\ task'.events[j].cap \in task'.requested
        /\ d.writes \subseteq task'.scope
        /\ ~d.outbound /\ ~d.listener
        /\ d.environment \notin {"staging", "production"}
        /\ d.policy # "deny"
    BY <1>1 DEF Consented, Extended
  <1>3. ASSUME NeedsConsent(d)
        PROVE  \E i \in EventsOf("approval.granted")' : Consents(i, j)'
    <2>1. PICK i \in EventsOf("approval.granted") : Consents(i, j)
      BY <1>3 DEF Consented
    <2>2. i \in EventsOf("approval.granted")' /\ task'.events[i] = task.events[i]
      BY <2>1 DEF EventsOf, Extended
    <2>3. Consents(i, j)'
      BY <2>1, <2>2, <1>1 DEF Consents
    <2>4. QED
      BY <2>2, <2>3
  <1>4. QED
    BY <1>1, <1>2, <1>3 DEF Consented

LEMMA AddsExtends ==
    ASSUME task \in Envelope, NEW e, Adds(e)
    PROVE  Extended
  BY AddsOne DEF Extended

----------------------------------------------------------------------------
(* The ways a history grows *)

LEMMA ChargedAfter ==
    ASSUME NEW i
    PROVE  Charged(i)' <=>
               Cardinality(UsesAfter(task'.events[i].approval)) <= task'.events[i].uses
  BY DEF Charged, UsesOf, UsesAfter, Authorized

(* A grant that is not charged pays for as many as before.                 *)
LEMMA ChargedStays ==
    ASSUME task \in Envelope, NEW e, Adds(e), NEW i \in Grants, Charged(i),
           ~(e.type = "command.authorized" /\ e.approval = task.events[i].approval)
    PROVE  Charged(i)'
  <1>1. task'.events[i] = task.events[i]
    BY AddsOne DEF Grants, EventsOf
  <1>2. UsesAfter(task.events[i].approval) = UsesOf(task.events[i].approval)
    BY AddsToUses
  <1>3. QED
    BY <1>1, <1>2, ChargedAfter DEF Charged

LEMMA StartedKeeps ==
    ASSUME task \in Envelope, HistorySound, planned' = planned,
           NEW e, Adds(e), e.type = "command.started"
    PROVE  HistorySound'
  <1>3. /\ Authorized' = Authorized /\ Grants' = Grants
        /\ \A i \in DOMAIN task.events : task'.events[i] = task.events[i]
    BY AddsToSets, AddsOne
  <1>4. Authorized \subseteq DOMAIN task.events /\ Grants \subseteq DOMAIN task.events
    BY DEF Authorized, Grants, EventsOf
  <1>5. GrantsPlanned' /\ GrantsApart' /\ ChargesAreGranted'
    BY <1>3, <1>4 DEF HistorySound, GrantsPlanned, GrantsApart, ChargesAreGranted
  <1>6. \A j \in Authorized : Consented(j)'
    BY AddsExtends, ConsentStays, EffectsAreThese DEF HistorySound
  <1>7. \A i \in Grants : Charged(i)'
    BY ChargedStays, EffectsAreThese DEF HistorySound
  <1>8. (\A j \in Authorized : Consented(j))' /\ (\A i \in Grants : Charged(i))'
    BY <1>3, <1>6, <1>7
  <1>9. (EffectsConsented <=> /\ \A j \in Authorized : Consented(j)
                              /\ \A i \in Grants : Charged(i))'
    BY EffectsAreThese, PTL
  <1>10. QED
    BY <1>5, <1>8, <1>9 DEF HistorySound

(* A history is sound when these hold of the one that is longer.           *)
LEMMA SoundAfter ==
    ASSUME GrantsPlanned', GrantsApart', ChargesAreGranted',
           \A j \in Authorized' : Consented(j)', \A i \in Grants' : Charged(i)'
    PROVE  HistorySound'
  <1>1. (EffectsConsented <=> /\ \A j \in Authorized : Consented(j)
                              /\ \A i \in Grants : Charged(i))'
    BY EffectsAreThese, PTL
  <1>2. (\A j \in Authorized : Consented(j))' /\ (\A i \in Grants : Charged(i))'
    OBVIOUS
  <1>3. QED
    BY <1>1, <1>2 DEF HistorySound

(* A grant whose id nobody used before has not paid for anything.          *)
LEMMA GrantKeeps ==
    ASSUME task \in Envelope, HistorySound, planned \in Nat, planned' = planned,
           NEW n, n = Len(task.events) + 1,
           NEW e, Adds(e), e.type = "approval.granted", e.approval \in 1..planned,
           \A i \in Grants : task.events[i].approval # e.approval
    PROVE  HistorySound'
  <1>1. /\ Authorized' = Authorized /\ Grants' = Grants \cup {n}
        /\ task'.events[n] = e
        /\ \A i \in DOMAIN task.events : task'.events[i] = task.events[i]
    BY AddsToSets, AddsOne
  <1>2. Authorized \subseteq DOMAIN task.events /\ Grants \subseteq DOMAIN task.events
    BY DEF Authorized, Grants, EventsOf
  <1>3. GrantsPlanned'
    BY <1>1, <1>2 DEF HistorySound, GrantsPlanned
  <1>4. GrantsApart'
    BY <1>1, <1>2 DEF HistorySound, GrantsApart
  <1>5. ChargesAreGranted'
    BY <1>1, <1>2 DEF HistorySound, ChargesAreGranted
  <1>6. \A j \in Authorized' : Consented(j)'
    BY <1>1, AddsExtends, ConsentStays, EffectsAreThese DEF HistorySound
  <1>7. ASSUME NEW i \in Grants
        PROVE  Charged(i)'
    BY ChargedStays, EffectsAreThese DEF HistorySound
  <1>8. Charged(n)'
    <2>1. \A k \in Authorized : task.events[k].approval # e.approval
      BY DEF HistorySound, ChargesAreGranted
    <2>2. UsesOf(e.approval) = {}
      BY <2>1 DEF UsesOf, Authorized
    <2>3. Cardinality(UsesAfter(e.approval)) = 0
      BY <2>2, AddsToUses, FS_EmptySet
    <2>4. e.uses \in Nat
      BY DEF Adds, Event
    <2>5. QED
      BY <1>1, <2>3, <2>4, ChargedAfter
  <1>9. QED
    BY <1>1, <1>3, <1>4, <1>5, <1>6, <1>7, <1>8, SoundAfter

(* A command that is charged to a grant with a use left.                   *)
LEMMA AuthorizedKeeps ==
    ASSUME task \in Envelope, HistorySound, planned \in Nat, planned' = planned,
           NEW n, n = Len(task.events) + 1, Consented(n)',
           NEW e, Adds(e), e.type = "command.authorized",
           \/ e.approval = 0
           \/ \E g \in Grants : /\ task.events[g].approval = e.approval
                                /\ Cardinality(UsesOf(e.approval)) < task.events[g].uses
    PROVE  HistorySound'
  <1>1. /\ Authorized' = Authorized \cup {n} /\ Grants' = Grants
        /\ task'.events[n] = e
        /\ \A i \in DOMAIN task.events : task'.events[i] = task.events[i]
    BY AddsToSets, AddsOne
  <1>2. Authorized \subseteq DOMAIN task.events /\ Grants \subseteq DOMAIN task.events
    BY DEF Authorized, Grants, EventsOf
  <1>4. GrantsPlanned' /\ GrantsApart'
    BY <1>1, <1>2 DEF HistorySound, GrantsPlanned, GrantsApart
  <1>5. ChargesAreGranted'
    BY <1>1, <1>2 DEF HistorySound, ChargesAreGranted
  <1>6. \A j \in Authorized : Consented(j)'
    BY AddsExtends, ConsentStays, EffectsAreThese DEF HistorySound
  <1>7. ASSUME NEW i \in Grants
        PROVE  Charged(i)'
    <2>1. CASE e.approval # task.events[i].approval
      BY <2>1, ChargedStays, EffectsAreThese DEF HistorySound
    <2>2. CASE e.approval = task.events[i].approval
      <3>1. e.approval # 0
        BY <2>2 DEF HistorySound, GrantsPlanned
      <3>2. PICK g \in Grants : /\ task.events[g].approval = e.approval
                                /\ Cardinality(UsesOf(e.approval)) < task.events[g].uses
        BY <3>1
      <3>3. g = i
        BY <2>2, <3>2 DEF HistorySound, GrantsApart
      <3>4. task.events[i].uses \in Nat
        BY <1>2, HistoryTypes DEF Event
      <3>5. Cardinality(UsesAfter(e.approval)) <= task.events[i].uses
        BY <3>2, <3>3, <3>4, AddsToUses, UsesFinite
      <3>6. QED
        BY <2>2, <3>5, <1>1, <1>2, ChargedAfter
    <2>3. QED
      BY <2>1, <2>2
  <1>8. QED
    BY <1>1, <1>4, <1>5, <1>6, <1>7, SoundAfter

(* An envelope that only widens.                                           *)
LEMMA WideningKeeps ==
    ASSUME HistorySound, Extended, task'.events = task.events,
           planned \in Nat, planned' \in Nat, planned' >= planned
    PROVE  HistorySound'
  <1>1. Authorized' = Authorized /\ Grants' = Grants
    BY DEF Authorized, Grants, EventsOf
  <1>2. GrantsPlanned' /\ GrantsApart' /\ ChargesAreGranted'
    BY <1>1 DEF HistorySound, GrantsPlanned, GrantsApart, ChargesAreGranted
  <1>3. \A j \in Authorized' : Consented(j)'
    BY <1>1, ConsentStays, EffectsAreThese DEF HistorySound
  <1>4. \A i \in Grants' : Charged(i)'
    BY <1>1, EffectsAreThese DEF HistorySound, Charged, UsesOf, EventsOf
  <1>5. QED
    BY <1>2, <1>3, <1>4, SoundAfter

----------------------------------------------------------------------------
(* What the steps record *)

LEMMA GrantAdds ==
    ASSUME TypeOK, NEW p \in Procs, RecordGrant(p)
    PROVE  \E e : /\ Adds(e)
                  /\ e.type = "approval.granted" /\ e.approval = loc[p].approval
  <1> DEFINE e == [NoEvent EXCEPT !.type = "approval.granted", !.cap = loc[p].cap,
                                  !.decl = loc[p].decl, !.approval = loc[p].approval,
                                  !.uses = loc[p].uses, !.time = loc[p].expires]
  <1>1. loc[p] \in Local /\ loc[p].cap \in Caps
    BY DEF TypeOK, RecordGrant
  <1>2. e \in Event /\ e.type = "approval.granted" /\ e.approval = loc[p].approval
    BY <1>1 DEF NoEvent, Event, Local
  <1>3. Recorded(e)
    BY DEF RecordGrant
  <1>4. QED
    BY <1>2, <1>3 DEF Adds, Recorded

LEMMA ApprovalsTyped ==
    ASSUME task \in Envelope, NEW c, NEW d, NEW a \in ApprovalFor(c, d)
    PROVE  a \in Nat
  BY HistoryTypes DEF ApprovalFor, FirstUsable, UsableGrants, EventsFor, EventsOf, Event

LEMMA AuthorizeAdds ==
    ASSUME TypeOK, NEW p \in Procs, Authorize(p)
    PROVE  \E e : /\ Adds(e)
                  /\ e.type = "command.authorized"
                  /\ e.cap = loc[p].cap /\ e.decl = loc[p].decl
                  /\ e.approval \in ApprovalFor(loc[p].cap, loc[p].decl)
  <1>1. /\ loc[p] \in Local /\ loc[p].cap \in Caps /\ now \in Nat
        /\ task \in Envelope /\ task.revision \in Nat
    BY DEF TypeOK, Authorize, Envelope
  <1>2. PICK a \in ApprovalFor(loc[p].cap, loc[p].decl) :
            Recorded([NoEvent EXCEPT !.type = "command.authorized", !.cap = loc[p].cap,
                                     !.decl = loc[p].decl, !.approval = a,
                                     !.revision = task.revision])
    BY DEF Authorize
  <1> DEFINE e == [NoEvent EXCEPT !.type = "command.authorized", !.cap = loc[p].cap,
                                  !.decl = loc[p].decl, !.approval = a,
                                  !.revision = task.revision]
  <1>3. a \in Nat
    BY <1>1, ApprovalsTyped
  <1>4. /\ e \in Event /\ e.type = "command.authorized" /\ e.approval = a
        /\ e.cap = loc[p].cap /\ e.decl = loc[p].decl
    BY <1>1, <1>3 DEF NoEvent, Event, Local
  <1>5. QED
    BY <1>2, <1>4 DEF Adds, Recorded

LEMMA ExecuteAdds ==
    ASSUME TypeOK, NEW p \in Procs, Execute(p)
    PROVE  \E e : Adds(e) /\ e.type = "command.started"
  <1> DEFINE e == [NoEvent EXCEPT !.type = "command.started", !.cap = loc[p].cap,
                                  !.auth = loc[p].auth]
  <1>1. loc[p] \in Local /\ loc[p].cap \in Caps
    BY DEF TypeOK, Execute
  <1>2. e \in Event /\ e.type = "command.started"
    BY <1>1 DEF NoEvent, Event, Local
  <1>3. Recorded(e)
    BY DEF Execute
  <1>4. QED
    BY <1>2, <1>3 DEF Adds, Recorded

----------------------------------------------------------------------------
(* The types *)

LEMMA TypesStart ==
    ASSUME ConsentAssumption, Init
    PROVE  TypeOK
  <1>1. /\ declared \in [Caps -> Declarations \cup {Undeclared}]
        /\ now \in Nat /\ planned \in Nat /\ head \in Shas
    BY DEF Init, ConsentAssumption
  <1>2. NoLocals \in Local
    BY DEF NoLocals, Local
  <1>3. NoTask \in Envelope
    BY <1>1 DEF NoTask, Envelope
  <1>4. QED
    BY <1>1, <1>2, <1>3 DEF TypeOK, Init, Points

(* An invocation that ends forgets what it knew.                           *)
LEMMA ConsentEndTyped ==
    ASSUME TypeOK, NEW p \in Procs, End(p)
    PROVE  /\ pc' \in [Procs -> Points] /\ loc' \in [Procs -> Local]
           /\ \A q \in Procs : pc'[q] # "idle" => loc'[q].cap \in Caps
           /\ pc' = [pc EXCEPT ![p] = "idle"]
           /\ \A q \in Procs \ {p} : pc'[q] = pc[q] /\ loc'[q] = loc[q]
  <1>1. NoLocals \in Local
    BY DEF NoLocals, Local
  <1>2. QED
    BY <1>1 DEF TypeOK, End, Goto, Points

LEMMA StartTyped ==
    ASSUME ConsentAssumption, TypeOK, NEW p, NEW caps \in (SUBSET Caps) \ {{}},
           NEW scope \in Scopes, NEW retry \in RetryBudgets, Start(p, caps, scope, retry)
    PROVE  TypeOK'
  <1>1. IsFiniteSet(caps) /\ Cardinality(caps) \in Nat /\ retry \in Nat
    BY FS_Subset, FS_CardinalityType DEF ConsentAssumption
  <1>2. Cardinality(caps) * (retry + 1) \in Nat
    BY <1>1
  <1>3. scope \in SUBSET Paths /\ caps \in SUBSET Caps /\ head \in Shas
    BY DEF ConsentAssumption, TypeOK
  <1>4. task' \in Envelope
    BY <1>1, <1>2, <1>3 DEF Start, Envelope
  <1>5. QED
    BY <1>4 DEF TypeOK, Start, AtOnce

LEMMA AmendTyped ==
    ASSUME ConsentAssumption, TypeOK, NEW p, NEW caps \in SUBSET Caps,
           NEW scope \in Scopes, Amend(p, caps, scope)
    PROVE  TypeOK'
  <1>1. scope \in SUBSET Paths
    BY DEF ConsentAssumption
  <1>2. /\ task \in Envelope /\ task.revision + 1 \in Nat
        /\ task.requested \cup caps \in SUBSET Caps
        /\ task.scope \cup scope \in SUBSET Paths
    BY <1>1 DEF TypeOK, Envelope
  <1>3. task' = [task EXCEPT !.revision = task.revision + 1,
                             !.requested = task.requested \cup caps,
                             !.scope = task.scope \cup scope]
    BY DEF Amend
  <1>4. task' \in Envelope
    BY <1>2, <1>3 DEF Envelope
  <1>5. QED
    BY <1>4 DEF TypeOK, Amend, AtOnce

LEMMA ReadTyped ==
    ASSUME TypeOK, NEW p \in Procs, NEW c \in Caps, ReadDeclarations(p, c)
    PROVE  TypeOK'
  <1>1. declared[c] \in Declarations \cup {Undeclared}
    BY DEF TypeOK
  <1>2. [NoLocals EXCEPT !.cap = c, !.decl = declared[c]] \in Local
    BY <1>1 DEF NoLocals, Local
  <1>3. [NoLocals EXCEPT !.cap = c, !.decl = declared[c]].cap = c
    BY DEF NoLocals
  <1>4. QED
    BY <1>2, <1>3 DEF TypeOK, ReadDeclarations, Goto, Points

LEMMA PlanTyped ==
    ASSUME ConsentAssumption, TypeOK, NEW p \in Procs, NEW c \in Caps,
           NEW uses \in 1..MaxUses, PlanApproval(p, c, uses)
    PROVE  TypeOK'
  <1> DEFINE l == [NoLocals EXCEPT !.cap = c, !.decl = declared[c],
                                   !.approval = planned + 1, !.uses = uses,
                                   !.expires = now + 1]
  <1>1. /\ declared[c] \in Declarations \cup {Undeclared}
        /\ planned + 1 \in Nat /\ now + 1 \in Nat /\ uses \in Nat
    BY DEF TypeOK, ConsentAssumption
  <1>2. l \in Local /\ l.cap = c
    BY <1>1 DEF NoLocals, Local
  <1>3. loc' = [loc EXCEPT ![p] = l]
    BY DEF PlanApproval
  <1> HIDE DEF l
  <1>4. QED
    BY <1>1, <1>2, <1>3 DEF TypeOK, PlanApproval, Goto, Points

LEMMA AdvanceTyped ==
    ASSUME TypeOK, NEW p \in Procs, Advance(p)
    PROVE  TypeOK'
  <1>1. ASSUME GiveUp(p)
        PROVE  TypeOK'
    BY <1>1, ConsentEndTyped DEF GiveUp, TypeOK
  <1>2. CASE Decline(p) \/ ScopeChanged(p) \/ Deny(p) \/ ExecutionRejected(p) \/ Crash(p)
    BY <1>1, <1>2 DEF Decline, ScopeChanged, Deny, ExecutionRejected, Crash
  <1>3. CASE Confirm(p) \/ Replan(p)
    BY <1>3 DEF TypeOK, Confirm, Replan, Goto, Points
  <1>4. CASE RecordGrant(p)
    <2>1. task' \in Envelope
      BY <1>4, GrantAdds, AddsOne DEF TypeOK
    <2>2. QED
      BY <2>1, <1>4, ConsentEndTyped DEF RecordGrant, TypeOK
  <1>5. CASE Authorize(p)
    <2>1. task' \in Envelope
      BY <1>5, AuthorizeAdds, AddsOne DEF TypeOK
    <2>2. Len(task.events) + 1 \in Nat
      BY DEF TypeOK, Envelope
    <2>3. /\ loc' \in [Procs -> Local]
          /\ \A q \in Procs : loc'[q].cap = loc[q].cap
      BY <1>5, <2>2 DEF Authorize, TypeOK, Local
    <2>4. QED
      BY <2>1, <2>3, <1>5 DEF Authorize, Goto, Points, TypeOK
  <1>6. CASE Execute(p)
    <2>1. task' \in Envelope
      BY <1>6, ExecuteAdds, AddsOne DEF TypeOK
    <2>2. QED
      BY <2>1, <1>6, ConsentEndTyped DEF Execute, TypeOK
  <1>7. QED
    BY <1>2, <1>3, <1>4, <1>5, <1>6 DEF Advance

LEMMA SurroundingsTyped ==
    ASSUME TypeOK,
           \/ \E c \in Caps, d \in Declarations \cup {Undeclared} : EditDeclaration(c, d)
           \/ \E s \in Shas : Commit(s)
           \/ Tick
    PROVE  TypeOK' /\ UNCHANGED <<task, pc, loc, planned>>
  BY DEF TypeOK, EditDeclaration, Commit, Tick

----------------------------------------------------------------------------
(* What is read, and what is given out *)

LEMMA ReadStays ==
    ASSUME ReadsAreLoaded, NEW p \in Procs,
           \A q \in Procs \ {p} : pc'[q] = pc[q] /\ loc'[q] = loc[q],
           pc'[p] # "authorize"
    PROVE  ReadsAreLoaded'
  BY DEF ReadsAreLoaded

(* Whoever reads the declarations reads a file that loads.                 *)
LEMMA ReadIsLoaded ==
    ASSUME TypeOK, ReadsAreLoaded, NEW p \in Procs, NEW c \in Caps,
           ReadDeclarations(p, c)
    PROVE  ReadsAreLoaded'
  <1>1. /\ declared[c] \in Declarations /\ WellDeclared(declared[c])
    BY DEF TypeOK, ReadDeclarations, Declares, Available, Loadable
  <1>2. /\ loc' = [loc EXCEPT ![p] = [NoLocals EXCEPT !.cap = c, !.decl = declared[c]]]
        /\ pc' = [pc EXCEPT ![p] = "authorize"]
    BY DEF ReadDeclarations, Goto
  <1>3. loc'[p].decl = declared[c]
    BY <1>2 DEF TypeOK, NoLocals
  <1>4. \A q \in Procs \ {p} : pc'[q] = pc[q] /\ loc'[q] = loc[q]
    BY <1>2 DEF TypeOK
  <1>5. QED
    BY <1>1, <1>3, <1>4 DEF ReadsAreLoaded, WellDeclared

(* Ids stay apart when nobody gets one and no grant is recorded.           *)
LEMMA FreshStays ==
    ASSUME ApprovalsFresh, planned \in Nat, planned' = planned,
           \A i \in Grants' : i \in Grants /\ task'.events[i] = task.events[i],
           \A q \in Procs : pc'[q] \in Granting =>
               pc[q] \in Granting /\ loc'[q].approval = loc[q].approval
    PROVE  ApprovalsFresh'
  BY DEF ApprovalsFresh, Granting

LEMMA PlanIsFresh ==
    ASSUME TypeOK, GrantsPlanned, ApprovalsFresh, NEW p \in Procs, NEW c \in Caps,
           NEW uses \in 1..MaxUses, PlanApproval(p, c, uses)
    PROVE  ApprovalsFresh'
  <1>1. /\ planned \in Nat /\ planned' = planned + 1
        /\ task' = task /\ pc' = [pc EXCEPT ![p] = "shown"]
        /\ \A q \in Procs \ {p} : pc'[q] = pc[q] /\ loc'[q] = loc[q]
    BY DEF TypeOK, PlanApproval, Goto
  <1>2. loc'[p].approval = planned + 1
    BY DEF TypeOK, PlanApproval, NoLocals
  <1>3. Grants' = Grants /\ \A i \in Grants : task.events[i].approval \in 1..planned
    BY <1>1 DEF Grants, EventsOf, GrantsPlanned
  <1>4. \A q \in Procs \ {p} : pc[q] \in Granting =>
            /\ loc[q].approval \in 1..planned
            /\ \A i \in Grants : task.events[i].approval # loc[q].approval
            /\ \A r \in Procs \ {q} : pc[r] \in Granting => loc[r].approval # loc[q].approval
    BY DEF ApprovalsFresh
  <1>5. ASSUME NEW q \in Procs, pc'[q] \in Granting
        PROVE  /\ loc'[q].approval \in 1..planned'
               /\ \A i \in Grants' : task'.events[i].approval # loc'[q].approval
               /\ \A r \in Procs \ {q} :
                      pc'[r] \in Granting => loc'[r].approval # loc'[q].approval
    <2>1. CASE q = p
      BY <2>1, <1>1, <1>2, <1>3, <1>4
    <2>2. CASE q # p
      BY <2>2, <1>1, <1>2, <1>3, <1>4, <1>5
    <2>3. QED
      BY <2>1, <2>2
  <1>6. QED
    BY <1>5 DEF ApprovalsFresh, Granting

LEMMA GrantIsFresh ==
    ASSUME TypeOK, ApprovalsFresh, NEW p \in Procs, RecordGrant(p)
    PROVE  ApprovalsFresh'
  <1>1. PICK e : /\ Adds(e) /\ e.type = "approval.granted"
                 /\ e.approval = loc[p].approval
    BY GrantAdds
  <1>2. /\ task'.events[Len(task.events) + 1] = e
        /\ Grants' = Grants \cup {Len(task.events) + 1}
        /\ \A i \in Grants : task'.events[i] = task.events[i]
    BY <1>1, AddsToSets, AddsOne DEF TypeOK, Grants, EventsOf
  <1>3. /\ pc' = [pc EXCEPT ![p] = "idle"]
        /\ \A q \in Procs \ {p} : pc'[q] = pc[q] /\ loc'[q] = loc[q]
        /\ pc[p] = "grant" /\ planned' = planned /\ pc'[p] = "idle"
    BY ConsentEndTyped DEF RecordGrant, TypeOK
  <1>4. ASSUME NEW q \in Procs, pc'[q] \in Granting
        PROVE  /\ loc'[q].approval \in 1..planned'
               /\ \A i \in Grants' : task'.events[i].approval # loc'[q].approval
               /\ \A r \in Procs \ {q} :
                      pc'[r] \in Granting => loc'[r].approval # loc'[q].approval
    <2>1. q # p /\ pc[q] \in Granting /\ loc'[q] = loc[q] /\ pc[p] \in Granting
      BY <1>3, <1>4 DEF Granting
    <2>2. /\ loc[q].approval \in 1..planned
          /\ \A i \in Grants : task.events[i].approval # loc[q].approval
          /\ \A r \in Procs \ {q} : pc[r] \in Granting => loc[r].approval # loc[q].approval
      BY <2>1 DEF ApprovalsFresh
    <2>3. loc[p].approval # loc[q].approval
      BY <2>1, <2>2
    <2>4. \A r \in Procs : pc'[r] \in Granting => r # p /\ pc[r] \in Granting /\ loc'[r] = loc[r]
      BY <1>3 DEF Granting
    <2>5. QED
      BY <1>1, <1>2, <1>3, <2>1, <2>2, <2>3, <2>4
  <1>5. QED
    BY <1>4 DEF ApprovalsFresh, Granting

----------------------------------------------------------------------------
(* What may be authorized *)

(* What needs consent is asked for: a well declared command that does more *)
(* than read says so in its effects.                                       *)
LEMMA ConsentIsAsked ==
    ASSUME NEW d \in Declaration, WellDeclared(d), PolicyAllows(d), NeedsConsent(d)
    PROVE  RequiresApproval(d)
  <1>1. d.writes # {} => "filesystem_write" \in d.effects
    BY DEF WellDeclared
  <1>2. ~d.outbound /\ ~d.listener
    BY DEF PolicyAllows
  <1>3. CASE d.effects \ {"filesystem_read"} # {} \/ d.writes # {}
    <2>1. ~(d.effects \subseteq {"filesystem_read"})
      BY <1>1, <1>3
    <2>2. QED
      BY <2>1 DEF RequiresApproval, AutoApproved
  <1>4. CASE d.reversibility = "irreversible" \/ d.policy = "ask"
    BY <1>4 DEF RequiresApproval, KernelHighRisk
  <1>5. QED
    BY <1>2, <1>3, <1>4 DEF NeedsConsent

(* The approval a command is charged to is one that pays for it.           *)
LEMMA ApprovalPays ==
    ASSUME NEW c, NEW d, NEW a \in ApprovalFor(c, d), RequiresApproval(d)
    PROVE  \E g \in Grants :
               /\ task.events[g].approval = a /\ task.events[g].cap = c
               /\ Binding(task.events[g].decl) = Binding(d)
               /\ Cardinality(UsesOf(a)) < task.events[g].uses
  BY DEF ApprovalFor, FirstUsable, UsableGrants, EventsFor, Grants, SameBinding

LEMMA AuthorizeSound ==
    ASSUME ConsentAssumption, ConsentInv, NEW p \in Procs, Authorize(p)
    PROVE  HistorySound'
  <1> DEFINE c == loc[p].cap
             d == loc[p].decl
  <1>1. PICK e : /\ Adds(e) /\ e.type = "command.authorized"
                 /\ e.cap = c /\ e.decl = d
                 /\ e.approval \in ApprovalFor(c, d)
    BY AuthorizeAdds DEF ConsentInv
  <1>2. /\ d \in Declaration /\ WellDeclared(d) /\ PolicyAllows(d)
        /\ c \in task.requested /\ d.writes \subseteq task.scope
    BY DEF ConsentInv, ReadsAreLoaded, Authorize, Permitted, ConsentAssumption
  <1>3. PICK n : n = Len(task.events) + 1
    OBVIOUS
  <1>4. /\ task \in Envelope /\ HistorySound /\ planned \in Nat /\ planned' = planned
    BY DEF ConsentInv, TypeOK, Authorize
  <1>5. /\ task'.events[n] = e /\ Grants' = Grants
        /\ task'.requested = task.requested /\ task'.scope = task.scope
        /\ \A g \in Grants : task'.events[g] = task.events[g] /\ g < n
    BY <1>1, <1>3, <1>4, AddsToSets, AddsOne, HistoryTypes DEF Grants, EventsOf
  <1> HIDE DEF c, d
  <1>6. CASE RequiresApproval(d)
    <2>1. PICK g \in Grants :
              /\ task.events[g].approval = e.approval /\ task.events[g].cap = c
              /\ Binding(task.events[g].decl) = Binding(d)
              /\ Cardinality(UsesOf(e.approval)) < task.events[g].uses
      BY <1>1, <1>6, ApprovalPays
    <2>2. g \in EventsOf("approval.granted")' /\ Consents(g, n)'
      <3>1. g \in Grants' /\ g < n /\ task'.events[g] = task.events[g]
        BY <1>5, <2>1
      <3>2. g \in EventsOf("approval.granted")'
        BY <3>1 DEF Grants
      <3>3. QED
        BY <3>1, <3>2, <1>1, <1>5, <2>1 DEF Consents, Binding
    <2>3. Consented(n)'
      BY <2>2, <1>1, <1>2, <1>5 DEF Consented, PolicyAllows, AllowedEnvironments
    <2>4. QED
      BY <2>1, <2>3, <1>1, <1>3, <1>4, AuthorizedKeeps
  <1>7. CASE ~RequiresApproval(d)
    <2>1. ~NeedsConsent(d) /\ e.approval = 0
      BY <1>1, <1>2, <1>7, ConsentIsAsked DEF ApprovalFor
    <2>2. Consented(n)'
      BY <2>1, <1>1, <1>2, <1>5 DEF Consented, PolicyAllows, AllowedEnvironments
    <2>3. QED
      BY <2>1, <2>2, <1>1, <1>3, <1>4, AuthorizedKeeps
  <1>8. QED
    BY <1>6, <1>7

----------------------------------------------------------------------------
(* The invariant *)

LEMMA ConsentStarts ==
    ASSUME ConsentAssumption, Init
    PROVE  ConsentInv
  <1>1. task.events = <<>>
    BY DEF Init, NoTask
  <1>2. Authorized = {} /\ Grants = {}
    BY <1>1 DEF Authorized, Grants, EventsOf
  <1>3. HistorySound
    BY <1>2, EffectsAreThese
    DEF HistorySound, GrantsPlanned, GrantsApart, ChargesAreGranted
  <1>4. \A p \in Procs : pc[p] = "idle"
    BY DEF Init
  <1>5. ReadsAreLoaded /\ ApprovalsFresh
    BY <1>4 DEF ReadsAreLoaded, ApprovalsFresh, Granting
  <1>6. QED
    BY <1>3, <1>5, TypesStart DEF ConsentInv

(* Where a task begins and where an envelope widens, nobody else moves.    *)
LEMMA EnvelopeKeeps ==
    ASSUME ConsentAssumption, ConsentInv, NEW p \in Procs,
           \/ \E caps \in (SUBSET Caps) \ {{}}, scope \in Scopes, retry \in RetryBudgets :
                  Start(p, caps, scope, retry)
           \/ \E caps \in SUBSET Caps, scope \in Scopes : Amend(p, caps, scope)
    PROVE  ConsentInv'
  <1>1. TypeOK'
    BY StartTyped, AmendTyped DEF ConsentInv
  <1>2. pc' = pc /\ loc' = loc /\ planned' = planned /\ planned \in Nat
    BY DEF Start, Amend, AtOnce, ConsentInv, TypeOK
  <1>3. HistorySound' /\ \A i \in Grants' : i \in Grants /\ task'.events[i] = task.events[i]
    <2>1. CASE \E caps \in (SUBSET Caps) \ {{}}, scope \in Scopes, retry \in RetryBudgets :
                   Start(p, caps, scope, retry)
      <3>1. task'.events = <<>>
        BY <2>1 DEF Start
      <3>2. Authorized' = {} /\ Grants' = {}
        BY <3>1 DEF Authorized, Grants, EventsOf
      <3>3. GrantsPlanned' /\ GrantsApart' /\ ChargesAreGranted'
        BY <3>2 DEF GrantsPlanned, GrantsApart, ChargesAreGranted
      <3>4. QED
        BY <3>2, <3>3, SoundAfter
    <2>2. CASE \E caps \in SUBSET Caps, scope \in Scopes : Amend(p, caps, scope)
      <3>1. PICK caps \in SUBSET Caps, scope \in Scopes : Amend(p, caps, scope)
        BY <2>2
      <3>2. /\ task'.events = task.events
            /\ task'.requested = task.requested \cup caps
            /\ task'.scope = task.scope \cup scope
        BY <3>1 DEF Amend, ConsentInv, TypeOK, Envelope
      <3>3. Extended
        BY <3>2 DEF Extended
      <3>4. HistorySound'
        BY <1>2, <3>2, <3>3, WideningKeeps DEF ConsentInv
      <3>5. QED
        BY <3>2, <3>4 DEF Grants, EventsOf
    <2>3. QED
      BY <2>1, <2>2
  <1>4. ReadsAreLoaded'
    BY <1>2 DEF ConsentInv, ReadsAreLoaded, WellDeclared
  <1>5. ApprovalsFresh'
    BY <1>2, <1>3, FreshStays DEF ConsentInv
  <1>6. QED
    BY <1>1, <1>3, <1>4, <1>5 DEF ConsentInv

(* Steps that leave the task as it is.                                     *)
LEMMA SameTaskSound ==
    ASSUME ConsentInv, task' = task, planned' \in Nat, planned' >= planned
    PROVE  /\ HistorySound'
           /\ Grants' = Grants /\ \A i \in Grants : task'.events[i] = task.events[i]
  <1>1. Extended /\ planned \in Nat /\ HistorySound
    BY DEF Extended, ConsentInv, TypeOK
  <1>2. HistorySound'
    BY <1>1, WideningKeeps
  <1>3. QED
    BY <1>2 DEF Grants, EventsOf

LEMMA ReadKeeps ==
    ASSUME ConsentInv, NEW p \in Procs, NEW c \in Caps, ReadDeclarations(p, c)
    PROVE  ConsentInv'
  <1>1. TypeOK' /\ ReadsAreLoaded'
    BY ReadTyped, ReadIsLoaded DEF ConsentInv
  <1>2. /\ task' = task /\ planned' = planned /\ planned \in Nat
        /\ pc' = [pc EXCEPT ![p] = "authorize"]
        /\ \A q \in Procs \ {p} : pc'[q] = pc[q] /\ loc'[q] = loc[q]
    BY DEF ConsentInv, TypeOK, ReadDeclarations, Goto
  <1>3. HistorySound' /\ Grants' = Grants /\ \A i \in Grants : task'.events[i] = task.events[i]
    BY <1>2, SameTaskSound
  <1>4. \A q \in Procs : pc'[q] \in Granting =>
            pc[q] \in Granting /\ loc'[q].approval = loc[q].approval
    BY <1>2 DEF Granting, ConsentInv, TypeOK
  <1>5. ApprovalsFresh'
    BY <1>2, <1>3, <1>4, FreshStays DEF ConsentInv
  <1>6. QED
    BY <1>1, <1>3, <1>5 DEF ConsentInv

LEMMA PlanKeeps ==
    ASSUME ConsentAssumption, ConsentInv, NEW p \in Procs, NEW c \in Caps,
           NEW uses \in 1..MaxUses, PlanApproval(p, c, uses)
    PROVE  ConsentInv'
  <1>1. TypeOK' /\ ApprovalsFresh'
    BY PlanTyped, PlanIsFresh DEF ConsentInv, HistorySound
  <1>2. /\ task' = task /\ planned \in Nat /\ planned' = planned + 1
        /\ pc' = [pc EXCEPT ![p] = "shown"]
        /\ \A q \in Procs \ {p} : pc'[q] = pc[q] /\ loc'[q] = loc[q]
    BY DEF ConsentInv, TypeOK, PlanApproval, Goto
  <1>3. planned' \in Nat /\ planned' >= planned
    BY <1>2
  <1>4. HistorySound'
    BY <1>2, <1>3, SameTaskSound
  <1>5. pc'[p] # "authorize"
    BY <1>2 DEF ConsentInv, TypeOK
  <1>6. ReadsAreLoaded'
    BY <1>2, <1>5, ReadStays DEF ConsentInv
  <1>7. QED
    BY <1>1, <1>4, <1>6 DEF ConsentInv

LEMMA AdvanceKeeps ==
    ASSUME ConsentAssumption, ConsentInv, NEW p \in Procs, Advance(p)
    PROVE  ConsentInv'
  <1>1. TypeOK'
    BY AdvanceTyped DEF ConsentInv
  <1>2. /\ TypeOK /\ ReadsAreLoaded /\ HistorySound /\ ApprovalsFresh
        /\ task \in Envelope /\ planned \in Nat
    BY DEF ConsentInv, TypeOK
  <1>3. planned' = planned
    BY DEF Advance, Decline, Confirm, Replan, ScopeChanged, RecordGrant, Authorize,
           Deny, Execute, ExecutionRejected, Crash, GiveUp
  <1>4. ASSUME End(p), \A i \in Grants' : i \in Grants /\ task'.events[i] = task.events[i]
        PROVE  ReadsAreLoaded' /\ ApprovalsFresh'
    <2>1. /\ pc' = [pc EXCEPT ![p] = "idle"]
          /\ \A q \in Procs \ {p} : pc'[q] = pc[q] /\ loc'[q] = loc[q]
          /\ pc'[p] = "idle"
      BY <1>2, <1>4, ConsentEndTyped DEF TypeOK
    <2>2. ReadsAreLoaded'
      BY <1>2, <2>1, ReadStays
    <2>3. \A q \in Procs : pc'[q] \in Granting =>
              pc[q] \in Granting /\ loc'[q].approval = loc[q].approval
      BY <2>1 DEF Granting
    <2>4. QED
      BY <1>2, <1>3, <1>4, <2>2, <2>3, FreshStays
  <1>5. CASE Decline(p) \/ ScopeChanged(p) \/ Deny(p) \/ ExecutionRejected(p) \/ Crash(p)
    <2>1. GiveUp(p)
      BY <1>5 DEF Decline, ScopeChanged, Deny, ExecutionRejected, Crash
    <2>2. End(p) /\ task' = task
      BY <2>1 DEF GiveUp
    <2>3. HistorySound' /\ Grants' = Grants /\ \A i \in Grants : task'.events[i] = task.events[i]
      BY <1>2, <1>3, <2>2, SameTaskSound
    <2>4. QED
      BY <1>1, <1>4, <2>2, <2>3 DEF ConsentInv
  <1>6. CASE Confirm(p) \/ Replan(p)
    <2>1. /\ task' = task /\ loc' = loc /\ pc[p] \in {"shown", "replan"}
          /\ \E point \in {"replan", "grant"} : pc' = [pc EXCEPT ![p] = point]
      BY <1>6 DEF Confirm, Replan, Goto
    <2>2. /\ pc'[p] \in {"replan", "grant"}
          /\ \A q \in Procs \ {p} : pc'[q] = pc[q] /\ loc'[q] = loc[q]
      BY <1>2, <2>1 DEF TypeOK
    <2>3. HistorySound' /\ Grants' = Grants /\ \A i \in Grants : task'.events[i] = task.events[i]
      BY <1>2, <1>3, <2>1, SameTaskSound
    <2>4. ReadsAreLoaded'
      BY <1>2, <2>2, ReadStays
    <2>5. \A q \in Procs : pc'[q] \in Granting =>
              pc[q] \in Granting /\ loc'[q].approval = loc[q].approval
      BY <2>1, <2>2 DEF Granting
    <2>6. ApprovalsFresh'
      BY <1>2, <1>3, <2>3, <2>5, FreshStays
    <2>7. QED
      BY <1>1, <2>3, <2>4, <2>6 DEF ConsentInv
  <1>7. CASE RecordGrant(p)
    <2>1. PICK e : /\ Adds(e) /\ e.type = "approval.granted"
                   /\ e.approval = loc[p].approval
      BY <1>2, <1>7, GrantAdds
    <2>2. /\ e.approval \in 1..planned
          /\ \A i \in Grants : task.events[i].approval # e.approval
      BY <1>2, <1>7, <2>1 DEF RecordGrant, ApprovalsFresh, Granting
    <2>3. HistorySound'
      BY <1>2, <1>3, <2>1, <2>2, GrantKeeps
    <2>4. ApprovalsFresh'
      BY <1>2, <1>7, GrantIsFresh
    <2>5. /\ pc' = [pc EXCEPT ![p] = "idle"]
          /\ \A q \in Procs \ {p} : pc'[q] = pc[q] /\ loc'[q] = loc[q]
      BY <1>2, <1>7, ConsentEndTyped DEF RecordGrant
    <2>6. pc'[p] # "authorize"
      BY <1>2, <2>5 DEF TypeOK
    <2>7. ReadsAreLoaded'
      BY <1>2, <2>5, <2>6, ReadStays
    <2>8. QED
      BY <1>1, <2>3, <2>4, <2>7 DEF ConsentInv
  <1>8. CASE Authorize(p)
    <2>1. HistorySound'
      BY <1>8, AuthorizeSound
    <2>2. /\ Grants' = Grants /\ \A i \in Grants : task'.events[i] = task.events[i]
      <3>1. PICK e : Adds(e) /\ e.type = "command.authorized"
        BY <1>2, <1>8, AuthorizeAdds
      <3>2. QED
        BY <1>2, <3>1, AddsToSets, AddsOne DEF Grants, EventsOf
    <2>3. /\ pc' = [pc EXCEPT ![p] = "execute"]
          /\ \A q \in Procs \ {p} : pc'[q] = pc[q] /\ loc'[q] = loc[q]
          /\ pc'[p] = "execute"
      BY <1>2, <1>8 DEF Authorize, Goto, TypeOK
    <2>4. ReadsAreLoaded'
      BY <1>2, <2>3, ReadStays
    <2>5. \A q \in Procs : pc'[q] \in Granting =>
              pc[q] \in Granting /\ loc'[q].approval = loc[q].approval
      BY <2>3 DEF Granting
    <2>6. ApprovalsFresh'
      BY <1>2, <1>3, <2>2, <2>5, FreshStays
    <2>7. QED
      BY <1>1, <2>1, <2>4, <2>6 DEF ConsentInv
  <1>9. CASE Execute(p)
    <2>1. PICK e : Adds(e) /\ e.type = "command.started"
      BY <1>2, <1>9, ExecuteAdds
    <2>2. HistorySound'
      BY <1>2, <1>3, <2>1, StartedKeeps
    <2>3. /\ Grants' = Grants /\ \A i \in Grants : task'.events[i] = task.events[i]
      BY <1>2, <2>1, AddsToSets, AddsOne DEF Grants, EventsOf
    <2>4. QED
      BY <1>1, <1>4, <1>9, <2>2, <2>3 DEF Execute, ConsentInv
  <1>10. QED
    BY <1>5, <1>6, <1>7, <1>8, <1>9 DEF Advance

LEMMA ConsentStep ==
    ASSUME ConsentAssumption, ConsentInv, [Next]_vars
    PROVE  ConsentInv'
  <1>1. ASSUME TypeOK', UNCHANGED <<task, pc, loc, planned>>
        PROVE  ConsentInv'
    <2>1. ReadsAreLoaded' /\ ApprovalsFresh'
      BY <1>1 DEF ConsentInv, ReadsAreLoaded, WellDeclared, ApprovalsFresh, Grants, EventsOf
    <2>2. HistorySound'
      BY <1>1, SameTaskSound DEF ConsentInv, TypeOK
    <2>3. QED
      BY <1>1, <2>1, <2>2 DEF ConsentInv
  <1>2. CASE \/ \E c \in Caps, d \in Declarations \cup {Undeclared} : EditDeclaration(c, d)
             \/ \E s \in Shas : Commit(s)
             \/ Tick
    BY <1>1, <1>2, SurroundingsTyped DEF ConsentInv
  <1>3. CASE UNCHANGED vars
    BY <1>1, <1>3 DEF vars, ConsentInv, TypeOK
  <1>4. CASE \E p \in Procs :
                 \/ \E caps \in (SUBSET Caps) \ {{}}, scope \in Scopes, retry \in RetryBudgets :
                        Start(p, caps, scope, retry)
                 \/ \E caps \in SUBSET Caps, scope \in Scopes : Amend(p, caps, scope)
    BY <1>4, EnvelopeKeeps
  <1>5. CASE \E p \in Procs : \E c \in Caps : ReadDeclarations(p, c)
    BY <1>5, ReadKeeps
  <1>6. CASE \E p \in Procs : \E c \in Caps, uses \in 1..MaxUses : PlanApproval(p, c, uses)
    BY <1>6, PlanKeeps
  <1>7. CASE \E p \in Procs : Advance(p)
    BY <1>7, AdvanceKeeps
  <1>8. QED
    BY <1>2, <1>3, <1>4, <1>5, <1>6, <1>7 DEF Next

(* Whatever is edited, committed, amended or killed between the plan of an *)
(* approval, its grant, the reading of the declarations and the            *)
(* authorization, by however many invocations: what was authorized is      *)
(* within the policy and the scope, was consented to if it matters, and no *)
(* grant pays for more commands than it says (core/gateway.py authorize,   *)
(* core/task_service.py grant_approval, run_capability).                   *)
THEOREM EffectsAreConsented == ConsentAssumption => (Spec => []EffectsConsented)
  <1> SUFFICES ASSUME ConsentAssumption
               PROVE  Spec => []EffectsConsented
    OBVIOUS
  <1>1. Init => ConsentInv
    BY ConsentStarts
  <1>2. ConsentInv /\ [Next]_vars => ConsentInv'
    BY ConsentStep
  <1>3. ConsentInv => EffectsConsented
    BY DEF ConsentInv, HistorySound
  <1>4. QED
    BY <1>1, <1>2, <1>3, PTL DEF Spec
==============================================================================
