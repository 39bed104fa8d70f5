-------------------------- MODULE TaskKernelProofs --------------------------
(***************************************************************************)
(* What TLC checks of the task kernel on small instances, proved for every *)
(* value of the constants: types, the operation lock, the append-only      *)
(* history and the exclusion of supervised commands; and what the writes   *)
(* of TaskStore keep of a record.                                          *)
(***************************************************************************)
EXTENDS TaskProperties, FiniteSetTheorems, SequenceTheorems, TLAPS

----------------------------------------------------------------------------
(* Operators of TaskRecord *)

LEMMA NewEventType ==
    ASSUME NEW type \in EventTypes
    PROVE  NewEvent(type) \in Event
  BY DEF NewEvent, Event

LEMMA AppendEventType ==
    ASSUME NEW r \in Record, NEW e \in Event
    PROVE  AppendEvent(r, e) \in Record
  <1>1. Append(r.events, e) \in Seq(Event)
    BY DEF Record
  <1>2. AppendEvent(r, e) = [r EXCEPT !.events = Append(r.events, e)]
    BY DEF AppendEvent
  <1>3. QED
    BY <1>1, <1>2 DEF Record

LEMMA EventAt ==
    ASSUME NEW r \in Record, NEW i \in DOMAIN r.events
    PROVE  r.events[i] \in Event
  <1>1. r.events \in Seq(Event)
    BY DEF Record
  <1>2. QED
    BY <1>1

(* Positions of events form a finite set of positive naturals, so they can *)
(* be counted.                                                             *)
LEMMA EventsOfFinite ==
    ASSUME NEW r \in Record, NEW type
    PROVE  /\ EventsOf(r, type) \subseteq Nat
           /\ IsFiniteSet(EventsOf(r, type))
  <1>1. r.events \in Seq(Event)
    BY DEF Record
  <1>2. Len(r.events) \in Nat /\ DOMAIN r.events = 1..Len(r.events)
    BY <1>1
  <1>3. EventsOf(r, type) \subseteq 1..Len(r.events)
    BY <1>2 DEF EventsOf
  <1>4. IsFiniteSet(1..Len(r.events))
    BY <1>2, FS_Interval
  <1>5. QED
    BY <1>3, <1>4, FS_Subset

LEMMA EventsForCount ==
    ASSUME NEW r \in Record, NEW type, NEW c
    PROVE  Cardinality(EventsFor(r, type, c)) \in Nat
  <1>1. EventsFor(r, type, c) \subseteq EventsOf(r, type)
    BY DEF EventsFor
  <1>2. IsFiniteSet(EventsFor(r, type, c))
    BY <1>1, EventsOfFinite, FS_Subset
  <1>3. QED
    BY <1>2, FS_CardinalityType

LEMMA ApprovalForType ==
    ASSUME NEW r \in Record, NEW c, NEW n, NEW a \in ApprovalFor(r, c, n)
    PROVE  a \in Nat
  <1>1. \A i \in DOMAIN r.events : r.events[i].approval \in Nat
    BY EventAt DEF Event
  <1>2. FirstUsable(r, c, n) \subseteq DOMAIN r.events
    BY DEF FirstUsable, UsableGrants, EventsFor, EventsOf
  <1>3. QED
    BY <1>1, <1>2 DEF ApprovalFor

----------------------------------------------------------------------------
(* Types of what the steps write *)

LEMMA NoRecordType == NoRecord \in Record
  <1>1. (CHOOSE s \in Shas : TRUE) \in Shas
    BY ShasAssumption
  <1>2. <<>> \in Seq(Event)
    OBVIOUS
  <1>3. QED
    BY <1>1, <1>2 DEF NoRecord, Record, States

LEMMA NoLocalsType == NoLocals \in Locals
  BY NoRecordType DEF NoLocals, Locals

(* An invocation that is inside an operation knows its task.               *)
TaskKnown ==
    \A p \in Procs : pc[p] \notin {"idle", "release"} => loc[p].task \in Tasks

TypeInv == TypeOK /\ TaskKnown

LEMMA AfterLoadType ==
    ASSUME NEW x \in LoadPoints
    PROVE  AfterLoad[x] \in Points
  BY DEF LoadPoints, AfterLoad, Points

LEMMA InitTypeInv == Init => TypeInv
  BY NoRecordType, NoLocalsType DEF Init, TypeInv, TypeOK, TaskKnown, Points

(* A step that moves one invocation and leaves its task alone.             *)
LEMMA GotoType ==
    ASSUME TypeInv, NEW p \in Procs, NEW x \in Points, Goto(p, x),
           pc[p] \notin {"idle", "release"} \/ x \in {"idle", "release"},
           \A q \in Procs : loc'[q].task = loc[q].task
    PROVE  pc' \in [Procs -> Points] /\ TaskKnown'
  BY DEF Goto, TypeInv, TypeOK, TaskKnown

LEMMA GiveUpType ==
    ASSUME TypeInv, NEW p \in Procs, GiveUp(p)
    PROVE  TypeInv'
  <1>1. "release" \in Points
    BY DEF Points
  <1>2. pc' \in [Procs -> Points] /\ TaskKnown'
    BY <1>1, GotoType DEF GiveUp
  <1>3. QED
    BY <1>2 DEF GiveUp, TypeInv, TypeOK, disk, locks, environment

LEMMA LoadType ==
    ASSUME TypeInv, NEW p \in Procs, Load(p)
    PROVE  TypeInv'
  <1>1. loc[p] \in Locals /\ loc[p].task \in Tasks
    BY DEF TypeInv, TypeOK, TaskKnown, Load, LoadPoints, AfterLoad
  <1>2. store[loc[p].task] \in Record
    BY <1>1 DEF TypeInv, TypeOK
  <1>3. loc' \in [Procs -> Locals]
    <2>1. [loc[p] EXCEPT !.rec = store[loc[p].task]] \in Locals
      BY <1>1, <1>2 DEF Locals
    <2>2. QED
      BY <2>1 DEF Load, TypeInv, TypeOK
  <1>4. \A q \in Procs : loc'[q].task = loc[q].task
    BY <1>1 DEF Load, TypeInv, TypeOK, Locals
  <1>5. pc' \in [Procs -> Points] /\ TaskKnown'
    BY <1>4, AfterLoadType, GotoType DEF Load, LoadPoints, AfterLoad
  <1>6. QED
    BY <1>3, <1>5 DEF Load, TypeInv, TypeOK, disk, locks, environment

LEMMA BeginType ==
    ASSUME TypeInv, NEW p \in Procs, NEW op, NEW x \in Points, NEW l \in Locals,
           l.task \in Tasks, Begin(p, op, x, l)
    PROVE  TypeInv'
  <1>1. loc' \in [Procs -> Locals] /\ pc' \in [Procs -> Points]
    BY DEF Begin, Goto, TypeInv, TypeOK
  <1>2. TaskKnown'
    BY DEF Begin, Goto, TypeInv, TypeOK, TaskKnown
  <1>3. lock' \in Procs \cup {NoProc}
    BY DEF Begin, Acquire, TypeInv, TypeOK
  <1>4. QED
    BY <1>1, <1>2, <1>3 DEF Begin, TypeInv, TypeOK, disk, environment

(* A write of a record, with or without a change of what p knows.          *)
LEMMA PersistType ==
    ASSUME TypeInv, NEW p \in Procs, NEW x \in Points, NEW r \in Record,
           pc[p] \notin {"idle", "release"}, Persist(p, r, x),
           loc' \in [Procs -> Locals],
           \A q \in Procs : loc'[q].task = loc[q].task
    PROVE  TypeInv'
  <1>1. pc' \in [Procs -> Points] /\ TaskKnown'
    BY GotoType DEF Persist
  <1>2. store' \in [Tasks -> Record]
    BY DEF Persist, TypeInv, TypeOK
  <1>3. QED
    BY <1>1, <1>2 DEF Persist, TypeInv, TypeOK, locks, environment

LEMMA PersistEventType ==
    ASSUME TypeInv, NEW p \in Procs, NEW x \in Points, NEW e \in Event,
           pc[p] \notin {"idle", "release"}, PersistEvent(p, e, x),
           loc' \in [Procs -> Locals],
           \A q \in Procs : loc'[q].task = loc[q].task
    PROVE  TypeInv'
  <1>1. loc[p].rec \in Record
    BY DEF TypeInv, TypeOK, Locals
  <1>2. AppendEvent(loc[p].rec, e) \in Record
    BY <1>1, AppendEventType
  <1>3. QED
    BY <1>2, PersistType DEF PersistEvent

(* A step of p that changes only where p is and what it knows.             *)
LEMMA LocalStepType ==
    ASSUME TypeInv, NEW p \in Procs, NEW x \in Points, NEW l \in Locals,
           pc[p] \notin {"idle", "release"}, Goto(p, x),
           l.task = loc[p].task, loc' = [loc EXCEPT ![p] = l],
           UNCHANGED <<disk, locks, children, environment, planned>>
    PROVE  TypeInv'
  <1>1. loc' \in [Procs -> Locals]
    BY DEF TypeInv, TypeOK
  <1>2. \A q \in Procs : loc'[q].task = loc[q].task
    BY DEF TypeInv, TypeOK
  <1>3. pc' \in [Procs -> Points] /\ TaskKnown'
    BY <1>2, GotoType
  <1>4. QED
    BY <1>1, <1>3 DEF TypeInv, TypeOK, disk, locks, environment

(* A step of p that moves it and touches nothing else.                     *)
LEMMA MoveType ==
    ASSUME TypeInv, NEW p \in Procs, NEW x \in Points,
           pc[p] \notin {"idle", "release"}, Goto(p, x),
           UNCHANGED <<disk, locks, loc, children, environment, planned>>
    PROVE  TypeInv'
  <1>1. pc' \in [Procs -> Points] /\ TaskKnown'
    BY GotoType
  <1>2. QED
    BY <1>1 DEF TypeInv, TypeOK, disk, locks, environment

(* An invocation ends, or is killed: what it held is given back.           *)
LEMMA StopType ==
    ASSUME TypeInv, NEW p \in Procs, Goto(p, "idle"),
           loc' = [loc EXCEPT ![p] = NoLocals],
           lock' = IF lock = p THEN NoProc ELSE lock,
           lease' = IF lease = p THEN NoProc ELSE lease,
           children' \subseteq Child,
           UNCHANGED <<disk, environment, planned>>
    PROVE  TypeInv'
  <1>1. loc' \in [Procs -> Locals]
    BY NoLocalsType DEF TypeInv, TypeOK
  <1>2. pc' \in [Procs -> Points]
    BY DEF Goto, TypeInv, TypeOK, Points
  <1>3. TaskKnown'
    BY DEF Goto, TypeInv, TypeOK, TaskKnown
  <1>4. QED
    BY <1>1, <1>2, <1>3 DEF TypeInv, TypeOK, disk, environment

----------------------------------------------------------------------------
(* One lemma per operation: its steps keep the types *)

LEMMA ReleaseType ==
    ASSUME TypeInv, NEW p \in Procs, Release(p) \/ Crash(p)
    PROVE  TypeInv'
  <1>1. CASE Release(p)
    <2>1. children' \subseteq Child
      BY <1>1 DEF Release, TypeInv, TypeOK
    <2>2. QED
      BY <1>1, <2>1, StopType DEF Release
  <1>2. CASE Crash(p)
    <2>1. PICK survives \in {TRUE} \cup {~loc[p].rec.enforced} :
              children' = (children \ OwnChildren(p)) \cup
                 {[c EXCEPT !.owner = NoProc] :
                     c \in {d \in OwnChildren(p) : survives}}
      BY <1>2 DEF Crash
    <2>2. \A c \in Child : [c EXCEPT !.owner = NoProc] \in Child
      BY DEF Child
    <2>3. children \subseteq Child /\ OwnChildren(p) \subseteq Child
      BY DEF TypeInv, TypeOK, OwnChildren
    <2>4. children' \subseteq Child
      BY <2>1, <2>2, <2>3
    <2>5. QED
      BY <1>2, <2>4, StopType DEF Crash
  <1>3. QED
    BY <1>1, <1>2

LEMMA InvokeType ==
    ASSUME TypeInv, NEW p \in Procs, Invoke(p)
    PROVE  TypeInv'
  <1> USE DEF Points, LoadPoints, AfterLoad
  <1>1. PICK t \in Tasks :
          \/ \E caps \in (SUBSET Caps) \ {{}}, scope \in Scopes,
                retry \in RetryBudgets : BeginStart(p, t, caps, scope, retry)
          \/ \E caps \in SUBSET Caps, scope \in Scopes :
                BeginAmend(p, t, caps, scope)
          \/ BeginCancel(p, t)
          \/ \E c \in Caps, uses \in 1..MaxUses : PlanApproval(p, t, c, uses)
          \/ \E c \in Caps : BeginRun(p, t, c)
          \/ \E auth \in EventsOf(store[t], "command.authorized") :
                BeginExecute(p, t, auth)
          \/ \E risk \in BOOLEAN : BeginVerify(p, t, risk)
    BY DEF Invoke
  <1>2. ASSUME NEW caps \in SUBSET Caps, NEW scope \in Scopes,
               NEW retry \in RetryBudgets, BeginStart(p, t, caps, scope, retry)
        PROVE  TypeInv'
    <2>1. [NoLocals EXCEPT !.task = t, !.requested = caps, !.scope = scope,
                           !.retry = retry] \in Locals
      BY NoLocalsType, KernelAssumption DEF Locals
    <2>2. QED
      BY <1>2, <2>1, BeginType DEF BeginStart, NoLocals
  <1>3. ASSUME NEW caps \in SUBSET Caps, NEW scope \in Scopes,
               BeginAmend(p, t, caps, scope)
        PROVE  TypeInv'
    <2>1. [NoLocals EXCEPT !.task = t, !.requested = caps, !.scope = scope]
            \in Locals
      BY NoLocalsType, KernelAssumption DEF Locals
    <2>2. QED
      BY <1>3, <2>1, BeginType DEF BeginAmend, NoLocals
  <1>4. CASE BeginCancel(p, t)
    <2>1. [NoLocals EXCEPT !.task = t] \in Locals
      BY NoLocalsType DEF Locals
    <2>2. QED
      BY <1>4, <2>1, BeginType DEF BeginCancel, NoLocals
  <1>5. ASSUME NEW c \in Caps, NEW uses \in 1..MaxUses,
               PlanApproval(p, t, c, uses)
        PROVE  TypeInv'
    <2> DEFINE l == [NoLocals EXCEPT !.task = t, !.cap = c, !.uses = uses,
                                     !.approval = planned + 1,
                                     !.expires = now + 1]
    <2>1. uses \in Nat /\ planned + 1 \in Nat /\ now + 1 \in Nat
      BY KernelAssumption DEF TypeInv, TypeOK
    <2>2. l \in Locals /\ l.task = t
      BY <2>1, NoLocalsType DEF Locals
    <2>3. loc' = [loc EXCEPT ![p] = l]
      BY <1>5 DEF PlanApproval
    <2>4. loc' \in [Procs -> Locals] /\ TaskKnown'
      BY <1>5, <2>2, <2>3 DEF PlanApproval, Goto, TypeInv, TypeOK, TaskKnown
    <2>5. pc' \in [Procs -> Points]
      BY <1>5 DEF PlanApproval, Goto, TypeInv, TypeOK
    <2>6. QED
      BY <1>5, <2>1, <2>4, <2>5
         DEF PlanApproval, TypeInv, TypeOK, disk, locks, environment
  <1>6. ASSUME NEW c \in Caps, BeginRun(p, t, c)
        PROVE  TypeInv'
    <2>1. [NoLocals EXCEPT !.task = t, !.cap = c] \in Locals
      BY NoLocalsType DEF Locals
    <2>2. QED
      BY <1>6, <2>1, BeginType DEF BeginRun, NoLocals
  <1>7. ASSUME NEW auth \in EventsOf(store[t], "command.authorized"),
               BeginExecute(p, t, auth)
        PROVE  TypeInv'
    <2>1. store[t] \in Record
      BY DEF TypeInv, TypeOK
    <2>2. auth \in Nat /\ auth \in DOMAIN store[t].events
      <3>1. auth \in DOMAIN store[t].events
        BY DEF EventsOf
      <3>2. QED
        BY <2>1, <3>1, EventsOfFinite
    <2>3. store[t].events[auth].cap \in Caps \cup {NoCap}
      BY <2>1, <2>2, EventAt DEF Event
    <2>4. [NoLocals EXCEPT !.task = t, !.cap = store[t].events[auth].cap,
                           !.auth = auth] \in Locals
      BY <2>2, <2>3, NoLocalsType DEF Locals
    <2>5. QED
      <3>1. loc' = [loc EXCEPT ![p] =
                [NoLocals EXCEPT !.task = t, !.cap = store[t].events[auth].cap,
                                 !.auth = auth]]
        BY <1>7 DEF BeginExecute
      <3>5. [NoLocals EXCEPT !.task = t, !.cap = store[t].events[auth].cap,
                             !.auth = auth].task = t
        BY DEF NoLocals
      <3>2. loc' \in [Procs -> Locals] /\ TaskKnown'
        BY <1>7, <2>4, <3>1, <3>5
           DEF BeginExecute, Goto, TypeInv, TypeOK, TaskKnown
      <3>3. pc' \in [Procs -> Points]
        BY <1>7 DEF BeginExecute, Goto, TypeInv, TypeOK, Points, LoadPoints, AfterLoad
      <3>4. QED
        BY <1>7, <3>2, <3>3
           DEF BeginExecute, TypeInv, TypeOK, disk, locks, environment
  <1>8. ASSUME NEW risk \in BOOLEAN, BeginVerify(p, t, risk)
        PROVE  TypeInv'
    <2>1. [NoLocals EXCEPT !.task = t, !.risk = risk] \in Locals
      BY NoLocalsType DEF Locals
    <2>2. QED
      BY <1>8, <2>1, BeginType DEF BeginVerify, NoLocals
  <1>9. QED
    BY <1>1, <1>2, <1>3, <1>4, <1>5, <1>6, <1>7, <1>8

LEMMA StartType ==
    ASSUME TypeInv, NEW p \in Procs,
           Create(p) \/ CreateExisting(p) \/ RecordActivation(p) \/ StartDone(p)
    PROVE  TypeInv'
  <1> DEFINE me == loc[p]
  <1>0. me \in Locals
    BY DEF TypeInv, TypeOK
  <1>1. CASE Create(p)
    <2>1. PICK mode \in Modes : Persist(p, Created(p, mode), "load_activation")
      BY <1>1 DEF Create
    <2>2. IsFiniteSet(me.requested) /\ Cardinality(me.requested) \in Nat
      BY <1>0, CapsAssumption, FS_Subset, FS_CardinalityType DEF Locals
    <2>3. Cardinality(me.requested) * (me.retry + 1) \in Nat
      BY <1>0, <2>2 DEF Locals
    <2>4. <<NewEvent("task.created")>> \in Seq(Event)
      BY NewEventType DEF EventTypes
    <2>5. Created(p, mode) \in Record
      <3>1. head \in Shas /\ mode \in BOOLEAN
        BY KernelAssumption DEF TypeInv, TypeOK
      <3>2. QED
        BY <1>0, <2>3, <2>4, <3>1 DEF Created, Record, States, Locals
    <2>6. [me EXCEPT !.left = Activations] \in Locals
      BY <1>0, KernelAssumption DEF Locals
    <2>7. /\ loc' \in [Procs -> Locals]
          /\ \A q \in Procs : loc'[q].task = loc[q].task
      BY <1>0, <1>1, <2>6 DEF Create, TypeInv, TypeOK, Locals
    <2>8. "load_activation" \in Points /\ pc[p] \notin {"idle", "release"}
      BY <1>1 DEF Points, LoadPoints, AfterLoad, Create
    <2>9. QED
      BY <2>1, <2>5, <2>7, <2>8, PersistType
  <1>2. CASE RecordActivation(p)
    <2>1. [me EXCEPT !.left = @ - 1] \in Locals
      BY <1>0, <1>2 DEF Locals, RecordActivation
    <2>2. /\ loc' \in [Procs -> Locals]
          /\ \A q \in Procs : loc'[q].task = loc[q].task
      BY <1>0, <1>2, <2>1 DEF RecordActivation, TypeInv, TypeOK, Locals
    <2>3. "load_activation" \in Points /\ pc[p] \notin {"idle", "release"}
      BY <1>2 DEF Points, LoadPoints, AfterLoad, RecordActivation
    <2>4. NewEvent("module.activation") \in Event
      BY NewEventType DEF EventTypes
    <2>5. QED
      BY <1>2, <2>2, <2>3, <2>4, PersistEventType DEF RecordActivation
  <1>3. CASE CreateExisting(p) \/ StartDone(p)
    BY <1>3, GiveUpType DEF CreateExisting, StartDone
  <1>4. QED
    BY <1>1, <1>2, <1>3

LEMMA AmendedType ==
    ASSUME NEW r \in Record, NEW caps \in SUBSET Caps, NEW scope \in SUBSET Paths
    PROVE  /\ Amended(r, caps, scope) \in Record
           /\ Amended(r, caps, scope).events = r.events
           /\ Amended(r, caps, scope).state = r.state
  <1>1. /\ r.revision + 1 \in Nat
        /\ r.requested \cup caps \in SUBSET Caps
        /\ r.scope \cup scope \in SUBSET Paths
    BY DEF Record
  <1>2. QED
    BY <1>1 DEF Amended, Record

LEMMA AmendType ==
    ASSUME TypeInv, NEW p \in Procs,
           Amend(p) \/ AmendBounded(p) \/ Cancel(p)
    PROVE  TypeInv'
  <1> DEFINE me == loc[p]
  <1>0. /\ me \in Locals /\ me.rec \in Record
        /\ loc \in [Procs -> Locals]
        /\ "release" \in Points
    BY DEF TypeInv, TypeOK, Locals, Points
  <1>1. CASE Amend(p)
    <2> DEFINE r == Amended(me.rec, me.requested, me.scope)
               e == [NewEvent("task.amended") EXCEPT !.revision = r.revision]
    <2>1. r \in Record
      <3>1. me.requested \in SUBSET Caps /\ me.scope \in SUBSET Paths
        BY <1>0 DEF Locals
      <3>2. QED
        BY <1>0, <3>1, AmendedType
    <2>2. e \in Event
      <3>1. NewEvent("task.amended") \in Event
        BY NewEventType DEF EventTypes
      <3>2. r.revision \in Nat
        BY <2>1 DEF Record
      <3>3. QED
        BY <3>1, <3>2 DEF Event
    <2>3. AppendEvent(r, e) \in Record
      BY <2>1, <2>2, AppendEventType
    <2>4. Persist(p, AppendEvent(r, e), "release") /\ UNCHANGED loc
      BY <1>1 DEF Amend
    <2>5. pc[p] \notin {"idle", "release"}
      BY <1>1 DEF Amend
    <2>6. QED
      BY <1>0, <2>3, <2>4, <2>5, PersistType
  <1>2. CASE Cancel(p)
    <2>1. [me.rec EXCEPT !.state = "abandoned"] \in Record
      BY <1>0 DEF Record, States, TerminalStates
    <2>2. NewEvent("task.cancelled") \in Event
      BY NewEventType DEF EventTypes
    <2>3. AppendEvent([me.rec EXCEPT !.state = "abandoned"],
                      NewEvent("task.cancelled")) \in Record
      BY <2>1, <2>2, AppendEventType
    <2>4. pc[p] \notin {"idle", "release"}
      BY <1>2 DEF Cancel
    <2>5. QED
      BY <1>0, <1>2, <2>3, <2>4, PersistType DEF Cancel
  <1>3. CASE AmendBounded(p)
    BY <1>3, GiveUpType DEF AmendBounded
  <1>4. QED
    BY <1>1, <1>2, <1>3

LEMMA ApprovalType ==
    ASSUME TypeInv, NEW p \in Procs,
           \/ Confirm(p) \/ Decline(p)
           \/ Grant(p) \/ GrantRefused(p) \/ RecordGrant(p)
    PROVE  TypeInv'
  <1> DEFINE me == loc[p]
  <1>0. /\ me \in Locals /\ loc \in [Procs -> Locals]
        /\ {"release", "load_grant", "load_granted"} \subseteq Points
    BY DEF TypeInv, TypeOK, Points, LoadPoints, AfterLoad
  <1>1. CASE Confirm(p)
    <2>1. pc' \in [Procs -> Points] /\ TaskKnown'
      BY <1>0, <1>1, GotoType DEF Confirm
    <2>2. lock' \in Procs \cup {NoProc}
      BY <1>1 DEF Confirm, Acquire, TypeInv, TypeOK
    <2>3. QED
      BY <1>1, <2>1, <2>2 DEF Confirm, TypeInv, TypeOK, disk, environment
  <1>2. CASE Grant(p)
    BY <1>0, <1>2, MoveType DEF Grant
  <1>3. CASE RecordGrant(p)
    <2> DEFINE e == [NewEvent("approval.granted") EXCEPT
                        !.cap = me.cap, !.approval = me.approval,
                        !.uses = me.uses, !.time = me.expires]
    <2>1. NewEvent("approval.granted") \in Event
      BY NewEventType DEF EventTypes
    <2>2. e \in Event
      BY <1>0, <2>1 DEF Event, Locals
    <2>3. QED
      BY <1>0, <1>3, <2>2, PersistEventType DEF RecordGrant
  <1>4. CASE Decline(p) \/ GrantRefused(p)
    BY <1>4, GiveUpType DEF Decline, GrantRefused
  <1>5. QED
    BY <1>1, <1>2, <1>3, <1>4

LEMMA AuthorizeType ==
    ASSUME TypeInv, NEW p \in Procs,
           Authorize(p) \/ Deny(p) \/ RecordAuthorization(p)
    PROVE  TypeInv'
  <1> DEFINE me == loc[p]
  <1>0. /\ me \in Locals /\ me.rec \in Record /\ now \in Nat
        /\ {"load_authorized", "load_execute"} \subseteq Points
    BY DEF TypeInv, TypeOK, Locals, Points, LoadPoints, AfterLoad
  <1>1. CASE Authorize(p)
    <2>1. PICK a \in ApprovalFor(me.rec, me.cap, now) :
             loc' = [loc EXCEPT ![p].approval = a,
                                ![p].revision = me.rec.revision]
      BY <1>1 DEF Authorize
    <2> DEFINE l == [me EXCEPT !.approval = a, !.revision = me.rec.revision]
    <2>2. a \in Nat /\ me.rec.revision \in Nat
      BY <1>0, ApprovalForType DEF Record
    <2>3. l \in Locals /\ l.task = me.task
      BY <1>0, <2>2 DEF Locals
    <2>4. loc' = [loc EXCEPT ![p] = l]
      BY <1>0, <2>1
    <2>5. pc[p] \notin {"idle", "release"}
      BY <1>1 DEF Authorize
    <2>6. QED
      BY <1>0, <1>1, <2>3, <2>4, <2>5, LocalStepType DEF Authorize
  <1>2. CASE RecordAuthorization(p)
    <2> DEFINE e == [NewEvent("command.authorized") EXCEPT
                        !.cap = me.cap, !.revision = me.revision,
                        !.approval = me.approval, !.time = now]
               l == [me EXCEPT !.auth = Len(me.rec.events) + 1]
    <2>1. NewEvent("command.authorized") \in Event
      BY NewEventType DEF EventTypes
    <2>2. e \in Event
      BY <1>0, <2>1 DEF Event, Locals
    <2>3. me.rec.events \in Seq(Event)
      BY <1>0 DEF Record
    <2>4. Len(me.rec.events) + 1 \in Nat
      BY <2>3
    <2>5. l \in Locals /\ l.task = me.task
      BY <1>0, <2>4 DEF Locals
    <2>6. /\ loc' \in [Procs -> Locals]
          /\ \A q \in Procs : loc'[q].task = loc[q].task
      BY <1>2, <2>5 DEF RecordAuthorization, TypeInv, TypeOK
    <2>7. pc[p] \notin {"idle", "release"}
      BY <1>2 DEF RecordAuthorization
    <2>8. QED
      BY <1>0, <1>2, <2>2, <2>6, <2>7, PersistEventType
         DEF RecordAuthorization
  <1>3. CASE Deny(p)
    BY <1>3, GiveUpType DEF Deny
  <1>4. QED
    BY <1>1, <1>2, <1>3

LEMMA ExecuteType ==
    ASSUME TypeInv, NEW p \in Procs,
           \/ ExecuteChecked(p) \/ ExecutionRejected(p)
           \/ TakeLease(p) \/ LeaseConflict(p)
           \/ PrepareExecution(p) \/ ArtifactCollision(p)
           \/ SandboxUnavailable(p) \/ RecordStart(p)
    PROVE  TypeInv'
  <1> DEFINE me == loc[p]
  <1>0. /\ me \in Locals /\ me.rec \in Record /\ loc \in [Procs -> Locals]
        /\ {"execute_lease", "load_started", "spawn"} \subseteq Points
        /\ \A x \in LeasePoints : AfterLease[x] \in Points
    BY DEF TypeInv, TypeOK, Locals, Points, LoadPoints, AfterLoad,
           LeasePoints, AfterLease
  <1>1. CASE ExecuteChecked(p)
    BY <1>0, <1>1, MoveType DEF ExecuteChecked
  <1>2. CASE TakeLease(p)
    <2>1. pc' \in [Procs -> Points] /\ TaskKnown'
      BY <1>0, <1>2, GotoType DEF TakeLease, LeasePoints
    <2>2. QED
      BY <1>2, <2>1 DEF TakeLease, TypeInv, TypeOK, disk, environment
  <1>3. CASE PrepareExecution(p)
    <2> DEFINE n == NextAttempt(p)
               l == [me EXCEPT !.attempt = n]
    <2>1. n \in Nat
      BY <1>0, EventsForCount DEF NextAttempt
    <2>2. l \in Locals /\ l.task = me.task
      BY <1>0, <2>1 DEF Locals
    <2>3. loc' = [loc EXCEPT ![p] = l]
      BY <1>3 DEF PrepareExecution
    <2>4. /\ loc' \in [Procs -> Locals]
          /\ \A q \in Procs : loc'[q].task = loc[q].task
      BY <1>0, <2>2, <2>3
    <2>5. pc' \in [Procs -> Points] /\ TaskKnown'
      BY <1>0, <1>3, <2>4, GotoType DEF PrepareExecution
    <2>6. <<me.auth, n>> \in Nat \X Nat
      BY <1>0, <2>1 DEF Locals
    <2>7. artifacts' \in [Tasks -> SUBSET (Nat \X Nat)]
      BY <1>3, <2>6 DEF PrepareExecution, TypeInv, TypeOK
    <2>8. QED
      BY <1>3, <2>4, <2>5, <2>7
         DEF PrepareExecution, TypeInv, TypeOK, locks, environment
  <1>4. CASE RecordStart(p)
    <2> DEFINE e == [NewEvent("command.started") EXCEPT
                        !.cap = me.cap, !.auth = me.auth,
                        !.attempt = me.attempt]
    <2>1. NewEvent("command.started") \in Event
      BY NewEventType DEF EventTypes
    <2>2. e \in Event
      BY <1>0, <2>1 DEF Event, Locals
    <2>3. QED
      BY <1>0, <1>4, <2>2, PersistEventType DEF RecordStart
  <1>5. CASE \/ ExecutionRejected(p) \/ LeaseConflict(p)
             \/ ArtifactCollision(p) \/ SandboxUnavailable(p)
    BY <1>5, GiveUpType
       DEF ExecutionRejected, LeaseConflict, ArtifactCollision,
           SandboxUnavailable
  <1>6. QED
    BY <1>1, <1>2, <1>3, <1>4, <1>5

LEMMA RunType ==
    ASSUME TypeInv, NEW p \in Procs,
           Spawn(p) \/ SpawnFails(p) \/ CommandEnds(p) \/ RecordFinish(p)
    PROVE  TypeInv'
  <1> DEFINE me == loc[p]
  <1>0. /\ me \in Locals /\ me.rec \in Record /\ loc \in [Procs -> Locals]
        /\ {"running", "load_finished", "release"} \subseteq Points
    BY DEF TypeInv, TypeOK, Locals, Points, LoadPoints, AfterLoad
  <1>1. CASE Spawn(p)
    <2>1. pc' \in [Procs -> Points] /\ TaskKnown'
      BY <1>0, <1>1, GotoType DEF Spawn
    <2>2. [task |-> me.task, cap |-> me.cap, owner |-> p] \in Child
      BY <1>0, <1>1 DEF Child, TypeInv, TaskKnown, Spawn, Locals
    <2>3. children' \subseteq Child
      BY <1>1, <2>2 DEF Spawn, TypeInv, TypeOK
    <2>4. QED
      BY <1>1, <2>1, <2>3 DEF Spawn, TypeInv, TypeOK, disk, locks, environment
  <1>2. CASE SpawnFails(p)
    <2> DEFINE l == [me EXCEPT !.status = "environment_failure"]
    <2>1. l \in Locals /\ l.task = me.task
      BY <1>0, StatusAssumption DEF Locals
    <2>2. QED
      BY <1>0, <1>2, <2>1, LocalStepType DEF SpawnFails
  <1>3. CASE CommandEnds(p)
    <2>1. PICK status \in Statuses : loc' = [loc EXCEPT ![p].status = status]
      BY <1>3 DEF CommandEnds
    <2> DEFINE l == [me EXCEPT !.status = status]
    <2>2. l \in Locals /\ l.task = me.task
      BY <1>0 DEF Locals
    <2>3. /\ loc' \in [Procs -> Locals]
          /\ \A q \in Procs : loc'[q].task = loc[q].task
      BY <1>0, <2>1, <2>2
    <2>4. pc' \in [Procs -> Points] /\ TaskKnown'
      BY <1>0, <1>3, <2>3, GotoType DEF CommandEnds
    <2>5. QED
      BY <1>3, <2>3, <2>4
         DEF CommandEnds, TypeInv, TypeOK, disk, locks, environment
  <1>4. CASE RecordFinish(p)
    <2> DEFINE e == [NewEvent("command.finished") EXCEPT
                        !.cap = me.cap, !.auth = me.auth,
                        !.attempt = me.attempt, !.status = me.status]
    <2>1. NewEvent("command.finished") \in Event
      BY NewEventType DEF EventTypes
    <2>2. e \in Event
      BY <1>0, <2>1 DEF Event, Locals
    <2>3. QED
      BY <1>0, <1>4, <2>2, PersistEventType DEF RecordFinish
  <1>5. QED
    BY <1>1, <1>2, <1>3, <1>4

LEMMA AllIssuesType ==
    ASSUME TypeInv, NEW p \in Procs
    PROVE  AllIssues(p) \in SUBSET (Waivable \cup NonWaivable)
  <1>1. loc[p].issues \in SUBSET (Waivable \cup NonWaivable)
    BY DEF TypeInv, TypeOK, Locals
  <1>2. QED
    BY <1>1 DEF AllIssues, RecordIssues

LEMMA VerifyType ==
    ASSUME TypeInv, NEW p \in Procs,
           \/ CheckWorkspace(p) \/ CheckDiff(p) \/ Decide(p) \/ Reject(p)
           \/ Finalize(p)
    PROVE  TypeInv'
  <1> DEFINE me == loc[p]
  <1>0. /\ me \in Locals /\ me.rec \in Record /\ loc \in [Procs -> Locals]
        /\ {"check_diff", "decide", "load_finalize", "release"} \subseteq Points
    BY DEF TypeInv, TypeOK, Locals, Points, LoadPoints, AfterLoad
  <1>1. CASE CheckWorkspace(p)
    <2> DEFINE l == [me EXCEPT !.issues =
                        IF head = me.rec.base THEN {} ELSE {"workspace_mismatch"}]
    <2>1. l \in Locals /\ l.task = me.task
      BY <1>0 DEF Locals, NonWaivable
    <2>2. QED
      BY <1>0, <1>1, <2>1, LocalStepType DEF CheckWorkspace
  <1>2. CASE CheckDiff(p)
    <2> DEFINE found == IF dirty \subseteq me.rec.scope THEN me.issues
                        ELSE me.issues \cup {"diff_out_of_scope"}
               l == [me EXCEPT !.issues = found]
    <2>1. found \in SUBSET (Waivable \cup NonWaivable)
      BY <1>0 DEF Locals, NonWaivable
    <2>2. l \in Locals /\ l.task = me.task
      BY <1>0, <2>1 DEF Locals
    <2>3. loc' = [loc EXCEPT ![p] = l]
      BY <1>0, <1>2 DEF CheckDiff
    <2>4. QED
      BY <1>0, <1>2, <2>2, <2>3, LocalStepType DEF CheckDiff
  <1>3. CASE Decide(p)
    <2> DEFINE l == [me EXCEPT !.issues = AllIssues(p),
                               !.revision = me.rec.revision]
    <2>1. me.rec.revision \in Nat
      BY <1>0 DEF Record
    <2>2. l \in Locals /\ l.task = me.task
      BY <1>0, <2>1, AllIssuesType DEF Locals
    <2>3. loc' = [loc EXCEPT ![p] = l]
      BY <1>0, <1>3 DEF Decide
    <2>4. QED
      BY <1>0, <1>3, <2>2, <2>3, LocalStepType DEF Decide
  <1>4. CASE Reject(p)
    BY <1>4, GiveUpType DEF Reject
  <1>5. CASE Finalize(p)
    <2> DEFINE outcome == Outcome(me.issues, me.risk)
               r == [me.rec EXCEPT !.state = outcome]
               e == [NewEvent(TerminalEvent[outcome]) EXCEPT
                        !.revision = me.revision]
    <2>1. /\ outcome \in TerminalStates
          /\ TerminalEvent[outcome] \in EventTypes
      BY <1>5 DEF Finalize, TerminalEvent, TerminalStates, EventTypes
    <2>2. r \in Record
      BY <1>0, <2>1 DEF Record, States
    <2>3. NewEvent(TerminalEvent[outcome]) \in Event
      BY <2>1, NewEventType
    <2>4. e \in Event
      BY <1>0, <2>3 DEF Event, Locals
    <2>5. AppendEvent(r, e) \in Record
      BY <2>2, <2>4, AppendEventType
    <2>6. Persist(p, AppendEvent(r, e), "release") /\ UNCHANGED loc
      BY <1>5 DEF Finalize
    <2>7. pc[p] \notin {"idle", "release"}
      BY <1>5 DEF Finalize
    <2>8. QED
      BY <1>0, <2>5, <2>6, <2>7, PersistType
  <1>6. QED
    BY <1>1, <1>2, <1>3, <1>4, <1>5

LEMMA EnvironmentType ==
    ASSUME TypeInv, Environment
    PROVE  TypeInv'
  <1>1. ASSUME NEW c \in children, OrphanEnds(c)
        PROVE  TypeInv'
    BY <1>1 DEF OrphanEnds, TypeInv, TypeOK, TaskKnown, disk, locks, environment
  <1>2. ASSUME NEW s \in Shas, Commit(s)
        PROVE  TypeInv'
    BY <1>2 DEF Commit, TypeInv, TypeOK, TaskKnown, disk, locks
  <1>3. ASSUME NEW path \in Paths, Edit(path)
        PROVE  TypeInv'
    BY <1>3 DEF Edit, TypeInv, TypeOK, TaskKnown, disk, locks
  <1>4. ASSUME NEW t \in Tasks, NEW file \in artifacts[t], LoseArtifact(t, file)
        PROVE  TypeInv'
    BY <1>4 DEF LoseArtifact, TypeInv, TypeOK, TaskKnown, locks, environment
  <1>5. CASE Tick
    BY <1>5 DEF Tick, TypeInv, TypeOK, TaskKnown, disk, locks
  <1>6. QED
    BY <1>1, <1>2, <1>3, <1>4, <1>5 DEF Environment

LEMMA AdvanceType ==
    ASSUME TypeInv, NEW p \in Procs, Advance(p)
    PROVE  TypeInv'
  <1>1. CASE LoadMissing(p) \/ RejectTerminal(p)
    BY <1>1, GiveUpType DEF LoadMissing, RejectTerminal
  <1>2. QED
    BY <1>1, LoadType, ReleaseType, StartType, AmendType, ApprovalType,
       AuthorizeType, ExecuteType, RunType, VerifyType DEF Advance

LEMMA NextTypeInv == TypeInv /\ [Next]_vars => TypeInv'
  <1> SUFFICES ASSUME TypeInv, [Next]_vars
               PROVE  TypeInv'
    OBVIOUS
  <1>1. ASSUME NEW p \in Procs,
               Invoke(p) \/ Advance(p) \/ Confirm(p) \/ Decline(p) \/ Crash(p)
        PROVE  TypeInv'
    BY <1>1, InvokeType, AdvanceType, ApprovalType, ReleaseType
  <1>2. CASE Environment
    BY <1>2, EnvironmentType
  <1>3. CASE UNCHANGED vars
    BY <1>3 DEF vars, disk, locks, environment, TypeInv, TypeOK, TaskKnown
  <1>4. QED
    BY <1>1, <1>2, <1>3 DEF Next

(* Every variable keeps its type, for any sets of tasks, invocations,      *)
(* capabilities and statuses and whichever operations are called.          *)
THEOREM TypeCorrect == Spec => []TypeOK
  <1>1. TypeInv => TypeOK
    BY DEF TypeInv
  <1>2. QED
    BY InitTypeInv, NextTypeInv, <1>1, PTL DEF Spec

----------------------------------------------------------------------------
(* What the two locks guarantee, for any number of invocations, tasks and  *)
(* capabilities and whatever is killed.                                    *)
(*                                                                         *)
(* The operation lock makes the read-modify-write of TaskStore atomic:     *)
(* whoever writes a record holds the lock since it read it, so histories   *)
(* only grow.                                                              *)
(*                                                                         *)
(* The workspace lease keeps supervised commands and verification apart,   *)
(* with or without the operation lock: the holder of the lease is the only *)
(* invocation past WorkspaceLease.__enter__.                               *)

(* A record that does not exist has no history.                            *)
AbsentEmpty == \A t \in Tasks : store[t].state = "absent" => store[t].events = <<>>

LockInv == LockHeld /\ LoadedIsCurrent /\ AbsentEmpty

HistoryInv == TypeInv /\ LockInv

(* What a write does to the record it read.                                *)
Extends(r, s) ==
    /\ IsPrefix(r.events, s.events)
    /\ r.state \notin TerminalStates
    /\ s.state # "absent"

(* A step of p: it touches nothing another invocation has, it is outside   *)
(* the operation or has the lock when it is done, and it either leaves the *)
(* records alone or, inside the operation, extends the one it has read.    *)
Keeps(p) ==
    /\ \A q \in Procs \ {p} : pc'[q] = pc[q] /\ loc'[q] = loc[q]
    /\ lock' # lock => lock \in {NoProc, p}
    /\ pc'[p] \in Unlocked \/ lock' = p
    /\ pc'[p] \in Loaded => loc'[p].rec = store'[loc'[p].task]
    /\ \/ UNCHANGED store
       \/ /\ lock = p
          /\ pc[p] \in Loaded
          /\ \E r :
                /\ store' = [store EXCEPT ![loc[p].task] = r]
                /\ Extends(loc[p].rec, r)

----------------------------------------------------------------------------
(* Prefixes *)

LEMMA PrefixReflexive ==
    ASSUME NEW S, NEW s \in Seq(S)
    PROVE  IsPrefix(s, s)
  BY DEF IsPrefix

LEMMA PrefixOfAppend ==
    ASSUME NEW S, NEW s \in Seq(S), NEW e
    PROVE  IsPrefix(s, Append(s, e))
  <1> DEFINE t == Append(s, e)
  <1>0. s \in Seq(S \cup {e})
    BY SeqMonotonic
  <1>1. /\ t \in Seq(S \cup {e}) /\ Len(t) = Len(s) + 1 /\ Len(s) \in Nat
        /\ \A i \in 1..Len(s) : t[i] = s[i]
    BY <1>0, AppendProperties
  <1>2. SubSeq(s, 1, Len(s)) = [i \in 1..Len(s) |-> s[i]]
    BY <1>1
  <1>3. SubSeq(t, 1, Len(s)) = [i \in 1..Len(s) |-> t[i]]
    BY <1>1
  <1>4. QED
    BY <1>1, <1>2, <1>3 DEF IsPrefix

LEMMA EmptyPrefix ==
    ASSUME NEW S, NEW s \in Seq(S)
    PROVE  IsPrefix(<<>>, s)
  BY DEF IsPrefix

LEMMA AppendExtends ==
    ASSUME NEW r \in Record, NEW s \in Record, NEW e, Active(r),
           s.events = r.events, s.state # "absent"
    PROVE  Extends(r, AppendEvent(s, e))
  <1>1. r.events \in Seq(Event) /\ r.state \notin TerminalStates
    BY DEF Record, Active
  <1>2. IsPrefix(r.events, Append(r.events, e))
    BY <1>1, PrefixOfAppend
  <1>3. /\ AppendEvent(s, e).events = Append(r.events, e)
        /\ AppendEvent(s, e).state = s.state
    BY DEF AppendEvent, Record
  <1>4. QED
    BY <1>1, <1>2, <1>3 DEF Extends

----------------------------------------------------------------------------
(* A step that Keeps the discipline keeps the invariant *)

LEMMA LoadedPoints ==
    Loaded = {"create", "activation", "amend", "cancel", "grant", "granted",
              "authorize", "authorized", "execute", "leased", "started",
              "finished", "verify_lease", "check_workspace", "finalize",
              "check_diff", "decide"}
  BY DEF Loaded, LoadPoints, AfterLoad

LEMMA KeepsLockInv ==
    ASSUME ~Presented, HistoryInv, TypeOK', NEW p \in Procs, Keeps(p)
    PROVE  LockInv'
  <1>1. \A q \in Procs : pc[q] \in Loaded => pc[q] \notin Unlocked
    BY LoadedPoints DEF Unlocked
  <1>2. \A q \in Procs : pc[q] \notin Unlocked => lock = q
    BY DEF HistoryInv, LockInv, LockHeld
  <1>3. LockHeld'
    <2> SUFFICES ASSUME NEW q \in Procs, pc'[q] \notin Unlocked
                 PROVE  lock' = q
      BY DEF LockHeld
    <2>1. CASE q = p
      BY <2>1 DEF Keeps
    <2>2. CASE q # p
      <3>1. pc'[q] = pc[q] /\ lock = q
        BY <2>2, <1>2 DEF Keeps
      <3>2. lock \notin {NoProc, p}
        BY <2>2, <3>1, KernelAssumption
      <3>3. QED
        BY <3>1, <3>2 DEF Keeps
    <2>3. QED
      BY <2>1, <2>2
  <1>4. LoadedIsCurrent'
    <2> SUFFICES ASSUME NEW q \in Procs, pc'[q] \in Loaded
                 PROVE  loc'[q].rec = store'[loc'[q].task]
      BY DEF LoadedIsCurrent
    <2>1. CASE q = p
      BY <2>1 DEF Keeps
    <2>2. CASE q # p
      <3>1. pc[q] \in Loaded /\ loc'[q] = loc[q]
        BY <2>2 DEF Keeps
      <3>2. lock # p
        BY <1>1, <1>2, <2>2, <3>1
      <3>3. store' = store
        BY <3>2 DEF Keeps
      <3>4. QED
        BY <3>1, <3>3 DEF HistoryInv, LockInv, LoadedIsCurrent
    <2>3. QED
      BY <2>1, <2>2
  <1>5. AbsentEmpty'
    BY DEF AbsentEmpty, HistoryInv, LockInv, TypeInv, TypeOK, Keeps, Extends
  <1>6. QED
    BY <1>3, <1>4, <1>5 DEF LockInv

(* The history of every task is extended, and a terminal one left alone.   *)
AppendOnly ==
    \A t \in Tasks :
        /\ IsPrefix(store[t].events, store'[t].events)
        /\ store[t].state \in TerminalStates => store'[t] = store[t]

LEMMA SameStoreAppends ==
    ASSUME TypeOK, UNCHANGED store
    PROVE  AppendOnly
  <1>1. \A t \in Tasks : store[t].events \in Seq(Event)
    BY DEF TypeOK, Record
  <1>2. QED
    BY <1>1, PrefixReflexive DEF AppendOnly

LEMMA KeepsAppends ==
    ASSUME ~Presented, HistoryInv, NEW p \in Procs, Keeps(p)
    PROVE  AppendOnly
  <1>1. CASE UNCHANGED store
    BY <1>1, SameStoreAppends DEF HistoryInv, TypeInv
  <1>2. ASSUME pc[p] \in Loaded,
               NEW r, store' = [store EXCEPT ![loc[p].task] = r],
               Extends(loc[p].rec, r)
        PROVE  AppendOnly
    <2> SUFFICES ASSUME NEW t \in Tasks
                 PROVE  /\ IsPrefix(store[t].events, store'[t].events)
                        /\ store[t].state \in TerminalStates
                              => store'[t] = store[t]
      BY DEF AppendOnly
    <2>1. CASE t = loc[p].task
      <3>1. loc[p].rec = store[t]
        BY <1>2, <2>1 DEF HistoryInv, LockInv, LoadedIsCurrent
      <3>2. store'[t] = r
        BY <1>2, <2>1 DEF HistoryInv, TypeInv, TypeOK
      <3>3. QED
        BY <1>2, <3>1, <3>2 DEF Extends
    <2>2. CASE t # loc[p].task
      <3>1. store'[t] = store[t] /\ store[t].events \in Seq(Event)
        BY <1>2, <2>2 DEF HistoryInv, TypeInv, TypeOK, Record
      <3>2. QED
        BY <3>1, PrefixReflexive
    <2>3. QED
      BY <2>1, <2>2
  <1>3. QED
    BY <1>1, <1>2 DEF Keeps

----------------------------------------------------------------------------
(* Every step Keeps the discipline *)

LEMMA GiveUpKeeps ==
    ASSUME TypeOK, NEW p \in Procs, GiveUp(p)
    PROVE  Keeps(p)
  <1>1. pc'[p] \in Unlocked /\ pc'[p] \notin Loaded
    BY LoadedPoints DEF GiveUp, Goto, TypeOK, Unlocked
  <1>2. QED
    BY <1>1 DEF GiveUp, Goto, Keeps, TypeOK, disk, locks

(* A step inside an operation that does not write.                         *)
LEMMA QuietKeeps ==
    ASSUME TypeOK, LockHeld, ~Presented, NEW p \in Procs, NEW x,
           pc[p] \notin Unlocked, Goto(p, x), UNCHANGED <<store, lock>>,
           \A q \in Procs \ {p} : loc'[q] = loc[q],
           x \in Loaded => loc'[p].rec = store[loc'[p].task]
    PROVE  Keeps(p)
  <1>1. lock' = p
    BY DEF LockHeld
  <1>2. QED
    BY <1>1 DEF Keeps, Goto, TypeOK

LEMMA WriteKeeps ==
    ASSUME TypeOK, LockHeld, ~Presented, NEW p \in Procs, NEW x, NEW r,
           pc[p] \in Loaded, Persist(p, r, x), x \notin Loaded,
           \A q \in Procs \ {p} : loc'[q] = loc[q],
           Extends(loc[p].rec, r)
    PROVE  Keeps(p)
  <1>1. lock = p
    BY LoadedPoints DEF LockHeld, Unlocked
  <1>2. QED
    BY <1>1 DEF Keeps, Persist, Goto, TypeOK, locks

LEMMA EventKeeps ==
    ASSUME TypeOK, LockHeld, ~Presented, NEW p \in Procs, NEW x, NEW e,
           pc[p] \in Loaded, PersistEvent(p, e, x), x \notin Loaded,
           \A q \in Procs \ {p} : loc'[q] = loc[q]
    PROVE  Keeps(p)
  <1>1. loc[p].rec \in Record
    BY DEF TypeOK, Locals
  <1>2. Active(loc[p].rec) /\ loc[p].rec.state # "absent"
    BY DEF PersistEvent, Active
  <1>3. Extends(loc[p].rec, AppendEvent(loc[p].rec, e))
    BY <1>1, <1>2, AppendExtends
  <1>4. QED
    BY <1>3, WriteKeeps DEF PersistEvent

LEMMA StopKeeps ==
    ASSUME TypeOK, NEW p \in Procs, Release(p) \/ Crash(p)
    PROVE  Keeps(p)
  <1>1. /\ Goto(p, "idle") /\ loc' = [loc EXCEPT ![p] = NoLocals]
        /\ lock' = (IF lock = p THEN NoProc ELSE lock)
        /\ UNCHANGED store
    BY DEF Release, Crash, disk
  <1>2. pc'[p] \in Unlocked /\ pc'[p] \notin Loaded
    BY <1>1, LoadedPoints DEF Goto, TypeOK, Unlocked
  <1>3. QED
    BY <1>1, <1>2 DEF Keeps, Goto, TypeOK

(* An invocation that enters an operation waits for the lock.              *)
LEMMA InvokeKeeps ==
    ASSUME TypeOK, ~Presented, NEW p \in Procs,
           Invoke(p) \/ Confirm(p) \/ Decline(p)
    PROVE  Keeps(p)
  <1>1. ASSUME NEW op, NEW x, NEW l, Begin(p, op, x, l), x \notin Loaded
        PROVE  Keeps(p)
    BY <1>1 DEF Begin, Acquire, Goto, Keeps, TypeOK, disk
  <1>2. CASE Invoke(p)
    <2>1. ASSUME NEW t, NEW c, NEW uses, PlanApproval(p, t, c, uses)
          PROVE  Keeps(p)
      <3>1. "planned" \in Unlocked /\ "planned" \notin Loaded
        BY LoadedPoints DEF Unlocked
      <3>2. QED
        BY <2>1, <3>1 DEF PlanApproval, Goto, Keeps, TypeOK, disk, locks
    <2>2. {"load_create", "load_amend", "load_cancel", "load_authorize",
           "load_execute", "load_target"} \cap Loaded = {}
      BY LoadedPoints
    <2>3. QED
      BY <1>1, <1>2, <2>1, <2>2
         DEF Invoke, BeginStart, BeginAmend, BeginCancel, BeginRun,
             BeginExecute, BeginVerify, Presented
  <1>3. CASE Confirm(p)
    <2>1. "load_grant" \notin Loaded
      BY LoadedPoints
    <2>2. QED
      BY <1>3, <2>1 DEF Confirm, Acquire, Goto, Keeps, TypeOK, disk
  <1>4. CASE Decline(p)
    BY <1>4, GiveUpKeeps DEF Decline
  <1>5. QED
    BY <1>2, <1>3, <1>4

LEMMA LoadKeeps ==
    ASSUME TypeInv, LockHeld, ~Presented, NEW p \in Procs, Load(p)
    PROVE  Keeps(p)
  <1>1. pc[p] \notin Unlocked
    BY DEF Load, LoadPoints, AfterLoad, Unlocked
  <1>2. /\ loc'[p].rec = store[loc'[p].task]
        /\ \A q \in Procs \ {p} : loc'[q] = loc[q]
    BY DEF Load, TypeInv, TypeOK, Locals
  <1>3. QED
    BY <1>1, <1>2, QuietKeeps DEF Load, TypeInv, disk, locks

(* The writes that are not an event appended to the record read.           *)
LEMMA RecordWriteKeeps ==
    ASSUME HistoryInv, ~Presented, NEW p \in Procs,
           Create(p) \/ Amend(p) \/ Cancel(p) \/ Finalize(p)
    PROVE  Keeps(p)
  <1> DEFINE me == loc[p]
  <1>0. /\ TypeOK /\ LockHeld /\ me.rec \in Record /\ me.task \in Tasks
        /\ pc[p] \in Loaded /\ me.rec = store[me.task]
        /\ "release" \notin Loaded /\ "load_activation" \notin Loaded
    BY LoadedPoints
       DEF HistoryInv, LockInv, LoadedIsCurrent, TypeInv, TypeOK, TaskKnown,
           Locals, Create, Amend, Cancel, Finalize
  <1>1. CASE Create(p)
    <2>1. PICK mode \in Modes : Persist(p, Created(p, mode), "load_activation")
      BY <1>1 DEF Create
    <2>2. me.rec.events = <<>> /\ me.rec.state \notin TerminalStates
      BY <1>0, <1>1 DEF Create, HistoryInv, LockInv, AbsentEmpty, TerminalStates
    <2>3. /\ Created(p, mode).events = <<NewEvent("task.created")>>
          /\ Created(p, mode).state # "absent"
      BY DEF Created
    <2>4. <<NewEvent("task.created")>> \in Seq({NewEvent("task.created")})
      OBVIOUS
    <2>5. Extends(me.rec, Created(p, mode))
      BY <2>2, <2>3, <2>4, EmptyPrefix DEF Extends
    <2>6. \A q \in Procs \ {p} : loc'[q] = loc[q]
      BY <1>0, <1>1 DEF Create, TypeOK
    <2>7. QED
      BY <1>0, <2>1, <2>5, <2>6, WriteKeeps
  <1>2. CASE Amend(p)
    <2> DEFINE r == Amended(me.rec, me.requested, me.scope)
               e == [NewEvent("task.amended") EXCEPT !.revision = r.revision]
    <2>1. /\ Active(me.rec) /\ UNCHANGED loc
          /\ Persist(p, AppendEvent(r, e), "release")
      BY <1>2 DEF Amend
    <2>2. r \in Record /\ r.events = me.rec.events /\ r.state # "absent"
      <3>1. me \in Locals
        BY <1>0 DEF TypeOK
      <3>2. me.requested \in SUBSET Caps /\ me.scope \in SUBSET Paths
        BY <3>1 DEF Locals
      <3>3. QED
        BY <1>0, <2>1, <3>2, AmendedType DEF Active
    <2>3. Extends(me.rec, AppendEvent(r, e))
      BY <1>0, <2>1, <2>2, AppendExtends
    <2>4. QED
      BY <1>0, <2>1, <2>3, WriteKeeps
  <1>3. CASE Cancel(p)
    <2> DEFINE r == [me.rec EXCEPT !.state = "abandoned"]
               e == NewEvent("task.cancelled")
    <2>1. /\ Active(me.rec) /\ UNCHANGED loc
          /\ Persist(p, AppendEvent(r, e), "release")
      BY <1>3 DEF Cancel
    <2>2. r \in Record /\ r.events = me.rec.events /\ r.state # "absent"
      BY <1>0 DEF Record, States, TerminalStates
    <2>3. Extends(me.rec, AppendEvent(r, e))
      BY <1>0, <2>1, <2>2, AppendExtends
    <2>4. QED
      BY <1>0, <2>1, <2>3, WriteKeeps
  <1>4. CASE Finalize(p)
    <2> DEFINE outcome == Outcome(me.issues, me.risk)
               r == [me.rec EXCEPT !.state = outcome]
               e == [NewEvent(TerminalEvent[outcome]) EXCEPT
                        !.revision = me.revision]
    <2>1. /\ Active(me.rec) /\ UNCHANGED loc
          /\ Persist(p, AppendEvent(r, e), "release")
      BY <1>4 DEF Finalize
    <2>2. outcome \in {"completed", "accepted_with_risk"}
      BY <1>4 DEF Finalize, TerminalEvent
    <2>3. r \in Record /\ r.events = me.rec.events /\ r.state # "absent"
      BY <1>0, <2>2 DEF Record, States, TerminalStates
    <2>4. Extends(me.rec, AppendEvent(r, e))
      BY <1>0, <2>1, <2>3, AppendExtends
    <2>5. QED
      BY <1>0, <2>1, <2>4, WriteKeeps
  <1>5. QED
    BY <1>1, <1>2, <1>3, <1>4

LEMMA EventWriteKeeps ==
    ASSUME HistoryInv, ~Presented, NEW p \in Procs,
           \/ RecordActivation(p) \/ RecordGrant(p) \/ RecordAuthorization(p)
           \/ RecordStart(p) \/ RecordFinish(p)
    PROVE  Keeps(p)
  <1>1. /\ TypeOK /\ LockHeld
        /\ {"load_activation", "release", "load_execute", "spawn"}
              \cap Loaded = {}
    BY LoadedPoints DEF HistoryInv, LockInv, TypeInv
  <1>2. /\ pc[p] \in Loaded
        /\ \A q \in Procs \ {p} : loc'[q] = loc[q]
    BY <1>1, LoadedPoints
       DEF RecordActivation, RecordGrant, RecordAuthorization, RecordStart,
           RecordFinish, TypeOK
  <1>3. ASSUME NEW e, NEW x, PersistEvent(p, e, x), x \notin Loaded
        PROVE  Keeps(p)
    BY <1>1, <1>2, <1>3, EventKeeps
  <1>4. CASE RecordActivation(p)
    BY <1>1, <1>3, <1>4 DEF RecordActivation
  <1>5. CASE RecordGrant(p)
    BY <1>1, <1>3, <1>5 DEF RecordGrant
  <1>6. CASE RecordAuthorization(p)
    BY <1>1, <1>3, <1>6 DEF RecordAuthorization
  <1>7. CASE RecordStart(p)
    BY <1>1, <1>3, <1>7 DEF RecordStart
  <1>8. CASE RecordFinish(p)
    BY <1>1, <1>3, <1>8 DEF RecordFinish
  <1>9. QED
    BY <1>4, <1>5, <1>6, <1>7, <1>8

LEMMA ProbeKeeps ==
    ASSUME HistoryInv, ~Presented, NEW p \in Procs,
           \/ Grant(p) \/ Authorize(p) \/ ExecuteChecked(p) \/ TakeLease(p)
           \/ PrepareExecution(p) \/ Spawn(p) \/ SpawnFails(p)
           \/ CommandEnds(p) \/ CheckWorkspace(p) \/ CheckDiff(p) \/ Decide(p)
    PROVE  Keeps(p)
  <1>0. /\ TypeOK /\ LockHeld /\ loc \in [Procs -> Locals]
        /\ loc[p].task \in Tasks \/ pc[p] \in {"idle", "release"}
        /\ pc[p] \in Loaded => loc[p].rec = store[loc[p].task]
    BY DEF HistoryInv, LockInv, LoadedIsCurrent, TypeInv, TypeOK, TaskKnown
  <1>1. CASE \/ Grant(p) \/ Authorize(p) \/ ExecuteChecked(p) \/ TakeLease(p)
             \/ PrepareExecution(p) \/ Spawn(p) \/ SpawnFails(p)
             \/ CommandEnds(p) \/ Decide(p)
    <2>1. \/ Goto(p, "load_granted") \/ Goto(p, "load_authorized")
          \/ Goto(p, "execute_lease") \/ Goto(p, "load_leased")
          \/ Goto(p, "load_verify") \/ Goto(p, "load_started")
          \/ Goto(p, "running") \/ Goto(p, "load_finished")
          \/ Goto(p, "load_finalize")
      <3>1. CASE TakeLease(p)
        BY <3>1 DEF TakeLease, LeasePoints, AfterLease
      <3>2. CASE Authorize(p)
        BY <3>2 DEF Authorize
      <3>3. CASE CommandEnds(p)
        BY <3>3 DEF CommandEnds
      <3>4. CASE \/ Grant(p) \/ ExecuteChecked(p) \/ PrepareExecution(p)
                 \/ Spawn(p) \/ SpawnFails(p) \/ Decide(p)
        BY <3>4 DEF Grant, ExecuteChecked, PrepareExecution, Spawn, SpawnFails,
                    Decide
      <3>5. QED
        BY <1>1, <3>1, <3>2, <3>3, <3>4
    <2>2. {"load_granted", "load_authorized", "execute_lease", "load_leased",
           "load_verify", "load_started", "running", "load_finished",
           "load_finalize"} \cap Loaded = {}
      BY LoadedPoints
    <2>3. pc[p] \notin Unlocked /\ UNCHANGED <<store, lock>>
      BY <1>1
         DEF Grant, Authorize, ExecuteChecked, TakeLease, LeasePoints,
             PrepareExecution, Spawn, SpawnFails, CommandEnds, Decide,
             Unlocked, disk, locks
    <2>4. \A q \in Procs \ {p} : loc'[q] = loc[q]
      BY <1>0, <1>1
         DEF Grant, Authorize, ExecuteChecked, TakeLease, PrepareExecution,
             Spawn, SpawnFails, CommandEnds, Decide
    <2>5. QED
      BY <1>0, <2>1, <2>2, <2>3, <2>4, QuietKeeps
  <1>2. CASE CheckWorkspace(p) \/ CheckDiff(p)
    <2>1. PICK x : Goto(p, x)
      BY <1>2 DEF CheckWorkspace, CheckDiff
    <2>2. pc[p] \in Loaded /\ pc[p] \notin Unlocked /\ UNCHANGED <<store, lock>>
      BY <1>2, LoadedPoints
         DEF CheckWorkspace, CheckDiff, Unlocked, disk, locks
    <2>3. loc'[p].rec = loc[p].rec /\ loc'[p].task = loc[p].task
      BY <1>0, <1>2 DEF CheckWorkspace, CheckDiff, Locals
    <2>4. \A q \in Procs \ {p} : loc'[q] = loc[q]
      BY <1>0, <1>2 DEF CheckWorkspace, CheckDiff
    <2>5. QED
      BY <1>0, <2>1, <2>2, <2>3, <2>4, QuietKeeps
  <1>3. QED
    BY <1>1, <1>2

LEMMA AdvanceKeeps ==
    ASSUME HistoryInv, ~Presented, NEW p \in Procs, Advance(p)
    PROVE  Keeps(p)
  <1>0. TypeInv /\ TypeOK /\ LockHeld
    BY DEF HistoryInv, LockInv, TypeInv
  <1>1. ASSUME GiveUp(p)
        PROVE  Keeps(p)
    BY <1>0, <1>1, GiveUpKeeps
  <1>2. QED
    BY <1>0, <1>1, LoadKeeps, StopKeeps, RecordWriteKeeps, EventWriteKeeps,
       ProbeKeeps
       DEF Advance, LoadMissing, RejectTerminal, CreateExisting, StartDone,
           AmendBounded, GrantRefused, Deny, ExecutionRejected, LeaseConflict,
           ArtifactCollision, SandboxUnavailable, Reject

----------------------------------------------------------------------------
(* The theorems *)

LEMMA EnvironmentQuiet ==
    ASSUME Environment \/ UNCHANGED vars
    PROVE  UNCHANGED <<store, lock, pc, loc>>
  BY DEF Environment, OrphanEnds, Commit, Edit, LoseArtifact, Tick, vars,
         disk, locks

LEMMA HistoryStep ==
    ASSUME ~Presented, HistoryInv, [Next]_vars
    PROVE  HistoryInv' /\ AppendOnly
  <1>0. TypeInv' /\ TypeOK /\ TypeOK'
    BY NextTypeInv DEF HistoryInv, TypeInv
  <1>1. ASSUME NEW p \in Procs,
               Invoke(p) \/ Advance(p) \/ Confirm(p) \/ Decline(p) \/ Crash(p)
        PROVE  LockInv' /\ AppendOnly
    <2>1. Keeps(p)
      BY <1>0, <1>1, InvokeKeeps, AdvanceKeeps, StopKeeps
    <2>2. QED
      BY <1>0, <2>1, KeepsLockInv, KeepsAppends
  <1>2. ASSUME Environment \/ UNCHANGED vars
        PROVE  LockInv' /\ AppendOnly
    <2>1. UNCHANGED <<store, lock, pc, loc>>
      BY <1>2, EnvironmentQuiet
    <2>2. LockInv'
      BY <2>1
         DEF HistoryInv, LockInv, LockHeld, LoadedIsCurrent, AbsentEmpty
    <2>3. QED
      BY <1>0, <2>1, <2>2, SameStoreAppends
  <1>3. CASE Next
    BY <1>0, <1>1, <1>2, <1>3 DEF Next, HistoryInv
  <1>4. QED
    BY <1>0, <1>2, <1>3 DEF HistoryInv

LEMMA HistoryInit == Init => HistoryInv
  <1>1. Init => LockHeld /\ LoadedIsCurrent /\ AbsentEmpty
    BY LoadedPoints
       DEF Init, LockHeld, LoadedIsCurrent, AbsentEmpty, Unlocked, NoRecord
  <1>2. QED
    BY <1>1, InitTypeInv DEF HistoryInv, LockInv

LEMMA LockDiscipline == Spec => [](LockHeld /\ LoadedIsCurrent)
  <1>1. CASE ~Presented
    <2>1. HistoryInv /\ [Next]_vars => HistoryInv'
      BY <1>1, HistoryStep
    <2>2. HistoryInv => LockHeld /\ LoadedIsCurrent
      BY DEF HistoryInv, LockInv
    <2>3. QED
      BY <2>1, <2>2, HistoryInit, PTL DEF Spec
  <1>2. CASE Presented
    <2>1. LockHeld /\ LoadedIsCurrent
      BY <1>2 DEF LockHeld, LoadedIsCurrent
    <2>2. QED
      BY <2>1, PTL
  <1>3. QED
    BY <1>1, <1>2

(* An invocation inside an operation holds the lock of the clone, so two   *)
(* are never inside one at the same time.                                  *)
THEOREM LockIsHeld == Spec => []LockHeld
  BY LockDiscipline, PTL

(* What an invocation has read is what is on disk when it decides and when *)
(* it writes: nothing another invocation did can be lost.                  *)
THEOREM ReadsAreCurrent == Spec => []LoadedIsCurrent
  BY LockDiscipline, PTL

(* Where commands are only run through TaskService, a history only ever    *)
(* grows, by appending, and nothing about a task changes once its state is *)
(* terminal.                                                               *)
THEOREM HistoryGrows ==
    "execute" \notin Operations => (Spec => HistoryAppendOnly)
  <1> SUFFICES ASSUME ~Presented
               PROVE  Spec => HistoryAppendOnly
    BY DEF Presented
  <1>1. HistoryInv /\ [Next]_vars => HistoryInv'
    BY HistoryStep
  <1>2. HistoryInv /\ [Next]_vars => [AppendOnly]_vars
    BY HistoryStep
  <1>3. QED
    BY <1>1, <1>2, HistoryInit, PTL DEF Spec, HistoryAppendOnly, AppendOnly

----------------------------------------------------------------------------
(* The workspace lease *)


LeasedPoints ==
    {"load_leased", "leased", "load_started", "started", "spawn", "running",
     "load_finished", "finished", "load_verify", "check_workspace",
     "check_diff", "decide", "load_finalize", "finalize"}

LeaseHeld == \A p \in Procs : pc[p] \in LeasedPoints => lease = p

(* Whoever waits for a command is at that point of Executor._run.          *)
OwnersRun ==
    \A c \in children :
        c.owner # NoProc => c.owner \in Procs /\ pc[c.owner] = "running"

LeaseInv == TypeInv /\ LeaseHeld /\ OwnersRun /\ OneSupervisedCommand

(* A step of p: the lease changes hands only from or to p, and p ends up   *)
(* past __enter__ only with the lease, and with at most one command.       *)
LeaseStep(p) ==
    /\ \A q \in Procs \ {p} : pc'[q] = pc[q]
    /\ lease' # lease => lease \in {NoProc, p}
    /\ pc'[p] \in LeasedPoints => lease' = p
    /\ \A c \in children' :
          \/ c.owner = NoProc
          \/ c \in children /\ c.owner # p
          \/ c.owner = p /\ pc'[p] = "running"
    /\ \A c, d \in children' : c.owner = p /\ d.owner = p => c = d

LEMMA LeaseStepInv ==
    ASSUME LeaseInv, TypeInv', NEW p \in Procs, LeaseStep(p)
    PROVE  LeaseInv'
  <1>1. LeaseHeld'
    <2> SUFFICES ASSUME NEW q \in Procs, pc'[q] \in LeasedPoints
                 PROVE  lease' = q
      BY DEF LeaseHeld
    <2>1. CASE q = p
      BY <2>1 DEF LeaseStep
    <2>2. CASE q # p
      <3>1. pc[q] \in LeasedPoints
        BY <2>2 DEF LeaseStep
      <3>2. lease = q
        BY <3>1 DEF LeaseInv, LeaseHeld
      <3>3. lease \notin {NoProc, p}
        BY <2>2, <3>2, KernelAssumption
      <3>4. QED
        BY <3>2, <3>3 DEF LeaseStep
    <2>3. QED
      BY <2>1, <2>2
  <1>2. OwnersRun'
    BY DEF LeaseInv, LeaseStep, OwnersRun
  <1>3. OneSupervisedCommand'
    <2> SUFFICES ASSUME NEW c \in children', NEW d \in children',
                        c.owner # NoProc, d.owner # NoProc
                 PROVE  c = d
      BY DEF OneSupervisedCommand
    <2>1. lease' = c.owner /\ lease' = d.owner
      BY <1>1, <1>2 DEF LeaseHeld, OwnersRun, LeasedPoints
    <2>2. CASE c.owner = p
      BY <2>1, <2>2 DEF LeaseStep
    <2>3. CASE c.owner # p
      <3>1. c \in children /\ d \in children
        BY <2>1, <2>3 DEF LeaseStep
      <3>2. QED
        BY <3>1 DEF LeaseInv, OneSupervisedCommand
    <2>4. QED
      BY <2>2, <2>3
  <1>4. QED
    BY <1>1, <1>2, <1>3 DEF LeaseInv

(* A step that starts, ends and leases nothing.                            *)
LEMMA CalmStep ==
    ASSUME LeaseInv, NEW p \in Procs, NEW x, Goto(p, x),
           UNCHANGED <<lease, children>>,
           pc[p] # "running", x \in LeasedPoints => pc[p] \in LeasedPoints
    PROVE  LeaseStep(p)
  <1>1. /\ pc'[p] = x
        /\ \A q \in Procs \ {p} : pc'[q] = pc[q]
    BY DEF Goto, LeaseInv, TypeInv, TypeOK
  <1>2. \A c \in children : c.owner # p
    BY KernelAssumption DEF LeaseInv, OwnersRun
  <1>3. x \in LeasedPoints => lease' = p
    BY DEF LeaseInv, LeaseHeld
  <1>4. QED
    BY <1>1, <1>2, <1>3 DEF LeaseStep

LEMMA InvokeCalm ==
    ASSUME LeaseInv, NEW p \in Procs, Invoke(p) \/ Confirm(p)
    PROVE  LeaseStep(p)
  <1>1. ASSUME NEW op, NEW x, NEW l, Begin(p, op, x, l), x \notin LeasedPoints
        PROVE  LeaseStep(p)
    BY <1>1, CalmStep DEF Begin
  <1>2. {"load_create", "load_amend", "load_cancel", "load_authorize",
         "load_execute", "load_target", "planned", "load_grant"}
            \cap LeasedPoints = {}
    BY DEF LeasedPoints
  <1>3. ASSUME NEW t, NEW c, NEW uses, PlanApproval(p, t, c, uses)
        PROVE  LeaseStep(p)
    BY <1>2, <1>3, CalmStep DEF PlanApproval, locks
  <1>4. CASE Confirm(p)
    BY <1>2, <1>4, CalmStep DEF Confirm
  <1>5. ASSUME NEW t, NEW auth, BeginExecute(p, t, auth)
        PROVE  LeaseStep(p)
    BY <1>2, <1>5, CalmStep DEF BeginExecute, locks
  <1>6. CASE Invoke(p)
    BY <1>1, <1>2, <1>3, <1>5, <1>6
       DEF Invoke, BeginStart, BeginAmend, BeginCancel, BeginRun, BeginVerify
  <1>7. QED
    BY <1>4, <1>6

LEMMA StopLease ==
    ASSUME LeaseInv, NEW p \in Procs, Release(p) \/ Crash(p)
    PROVE  LeaseStep(p)
  <1>0. "idle" \notin LeasedPoints
    BY DEF LeasedPoints
  <1>1. /\ pc'[p] = "idle"
        /\ \A q \in Procs \ {p} : pc'[q] = pc[q]
        /\ lease' = IF lease = p THEN NoProc ELSE lease
    BY DEF Release, Crash, Goto, LeaseInv, TypeInv, TypeOK
  <1>2. \A c \in children' : c.owner = NoProc \/ (c \in children /\ c.owner # p)
    <2>1. CASE Release(p)
      BY <2>1 DEF Release, LeaseInv, OwnersRun
    <2>2. CASE Crash(p)
      <3>1. PICK survives \in {TRUE} \cup {~loc[p].rec.enforced} :
               children' = (children \ OwnChildren(p)) \cup
                  {[c EXCEPT !.owner = NoProc] :
                      c \in {d \in OwnChildren(p) : survives}}
        BY <2>2 DEF Crash
      <3>2. \A c \in OwnChildren(p) : [c EXCEPT !.owner = NoProc].owner = NoProc
        BY DEF OwnChildren, LeaseInv, TypeInv, TypeOK, Child
      <3>3. QED
        BY <3>1, <3>2 DEF OwnChildren
    <2>3. QED
      BY <2>1, <2>2
  <1>3. QED
    BY <1>0, <1>1, <1>2, KernelAssumption DEF LeaseStep

LEMMA RunLease ==
    ASSUME LeaseInv, NEW p \in Procs,
           TakeLease(p) \/ Spawn(p) \/ CommandEnds(p)
    PROVE  LeaseStep(p)
  <1>0. /\ pc \in [Procs -> Points] /\ loc \in [Procs -> Locals]
        /\ p # NoProc
    BY KernelAssumption DEF LeaseInv, TypeInv, TypeOK
  <1>1. CASE TakeLease(p)
    <2>1. \A c \in children : c.owner # p
      BY <1>0, <1>1 DEF TakeLease, LeasePoints, LeaseInv, OwnersRun
    <2>2. QED
      BY <1>0, <1>1, <2>1 DEF TakeLease, Goto, LeaseStep
  <1>2. CASE Spawn(p)
    <2> DEFINE c0 == [task |-> loc[p].task, cap |-> loc[p].cap, owner |-> p]
    <2>1. \A c \in children : c.owner # p
      BY <1>0, <1>2 DEF Spawn, LeaseInv, OwnersRun
    <2>2. children' = children \cup {c0} /\ c0.owner = p
      BY <1>2 DEF Spawn
    <2>3. lease = p /\ lease' = lease
      BY <1>2 DEF Spawn, LeaseInv, LeaseHeld, LeasedPoints, locks
    <2>4. pc'[p] = "running" /\ \A q \in Procs \ {p} : pc'[q] = pc[q]
      BY <1>0, <1>2 DEF Spawn, Goto
    <2>5. QED
      BY <2>1, <2>2, <2>3, <2>4 DEF LeaseStep
  <1>3. CASE CommandEnds(p)
    <2>1. children' = {c \in children : c.owner # p}
      BY <1>3 DEF CommandEnds, OwnChildren
    <2>2. lease = p /\ lease' = lease
      BY <1>3 DEF CommandEnds, LeaseInv, LeaseHeld, LeasedPoints, locks
    <2>3. \A q \in Procs \ {p} : pc'[q] = pc[q]
      BY <1>0, <1>3 DEF CommandEnds, Goto
    <2>4. QED
      BY <2>1, <2>2, <2>3 DEF LeaseStep
  <1>4. QED
    BY <1>1, <1>2, <1>3

LEMMA GiveUpCalm ==
    ASSUME LeaseInv, NEW p \in Procs, GiveUp(p), pc[p] # "running"
    PROVE  LeaseStep(p)
  <1>1. "release" \notin LeasedPoints
    BY DEF LeasedPoints
  <1>2. QED
    BY <1>1, CalmStep DEF GiveUp, locks

LEMMA LoadCalm ==
    ASSUME LeaseInv, NEW p \in Procs, Load(p)
    PROVE  LeaseStep(p)
  <1>1. pc[p] \in LoadPoints /\ pc[p] # "running"
    BY DEF Load, LoadPoints, AfterLoad
  <1>2. AfterLoad[pc[p]] \in LeasedPoints => pc[p] \in LeasedPoints
    BY <1>1 DEF LoadPoints, AfterLoad, LeasedPoints
  <1>3. QED
    BY <1>1, <1>2, CalmStep DEF Load, locks

(* The writes: none but the end of a command moves past the lease.         *)
LEMMA WriteCalm ==
    ASSUME LeaseInv, NEW p \in Procs,
           \/ Create(p) \/ RecordActivation(p) \/ Amend(p) \/ Cancel(p)
           \/ RecordGrant(p) \/ RecordAuthorization(p) \/ RecordStart(p)
           \/ RecordFinish(p) \/ Finalize(p)
    PROVE  LeaseStep(p)
  <1>1. {"load_activation", "release", "load_execute"} \cap LeasedPoints = {}
    BY DEF LeasedPoints
  <1>2. ASSUME NEW x, NEW r, Persist(p, r, x), pc[p] # "running",
               x \in LeasedPoints => pc[p] \in LeasedPoints
        PROVE  LeaseStep(p)
    BY <1>2, CalmStep DEF Persist, locks
  <1>3. CASE Create(p)
    BY <1>1, <1>2, <1>3 DEF Create
  <1>4. CASE Amend(p)
    BY <1>1, <1>2, <1>4 DEF Amend
  <1>5. CASE Cancel(p)
    BY <1>1, <1>2, <1>5 DEF Cancel
  <1>6. CASE Finalize(p)
    BY <1>1, <1>2, <1>6 DEF Finalize
  <1>7. CASE RecordStart(p)
    <2>1. pc[p] = "started" /\ pc[p] \in LeasedPoints
      BY <1>7 DEF RecordStart, LeasedPoints
    <2>2. QED
      BY <1>2, <1>7, <2>1 DEF RecordStart, PersistEvent
  <1>8. CASE RecordActivation(p)
    BY <1>1, <1>2, <1>8 DEF RecordActivation, PersistEvent
  <1>9. CASE RecordGrant(p)
    BY <1>1, <1>2, <1>9 DEF RecordGrant, PersistEvent
  <1>10. CASE RecordAuthorization(p)
    BY <1>1, <1>2, <1>10 DEF RecordAuthorization, PersistEvent
  <1>11. CASE RecordFinish(p)
    BY <1>1, <1>2, <1>11 DEF RecordFinish, PersistEvent
  <1>12. QED
    BY <1>3, <1>4, <1>5, <1>6, <1>7, <1>8, <1>9, <1>10, <1>11

LEMMA ProbeCalm ==
    ASSUME LeaseInv, NEW p \in Procs,
           \/ Grant(p) \/ Authorize(p) \/ ExecuteChecked(p)
           \/ PrepareExecution(p) \/ SpawnFails(p)
           \/ CheckWorkspace(p) \/ CheckDiff(p) \/ Decide(p)
    PROVE  LeaseStep(p)
  <1>1. CASE Grant(p) \/ Authorize(p) \/ ExecuteChecked(p)
    <2>1. {"load_granted", "load_authorized", "execute_lease"}
             \cap LeasedPoints = {}
      BY DEF LeasedPoints
    <2>2. QED
      BY <1>1, <2>1, CalmStep DEF Grant, Authorize, ExecuteChecked, locks
  <1>2. CASE \/ PrepareExecution(p) \/ SpawnFails(p)
             \/ CheckWorkspace(p) \/ CheckDiff(p) \/ Decide(p)
    <2>1. /\ pc[p] \in LeasedPoints /\ pc[p] # "running"
          /\ UNCHANGED <<lease, children>>
      BY <1>2 DEF PrepareExecution, SpawnFails, CheckWorkspace, CheckDiff,
                  Decide, LeasedPoints, locks
    <2>2. QED
      BY <1>2, <2>1, CalmStep
         DEF PrepareExecution, SpawnFails, CheckWorkspace, CheckDiff, Decide
  <1>3. QED
    BY <1>1, <1>2

LEMMA AdvanceLease ==
    ASSUME LeaseInv, NEW p \in Procs, Advance(p)
    PROVE  LeaseStep(p)
  <1>1. CASE \/ LoadMissing(p) \/ RejectTerminal(p) \/ CreateExisting(p)
             \/ StartDone(p) \/ AmendBounded(p) \/ GrantRefused(p) \/ Deny(p)
             \/ ExecutionRejected(p) \/ LeaseConflict(p)
             \/ ArtifactCollision(p) \/ SandboxUnavailable(p) \/ Reject(p)
    <2>1. GiveUp(p) /\ pc[p] # "running"
      BY <1>1
         DEF LoadMissing, LoadPoints, AfterLoad, RejectTerminal, WritePoints,
             CreateExisting, StartDone, AmendBounded, GrantRefused, Deny,
             ExecutionRejected, LeaseConflict, LeasePoints,
             ArtifactCollision, SandboxUnavailable, Reject
    <2>2. QED
      BY <2>1, GiveUpCalm
  <1>2. QED
    BY <1>1, LoadCalm, StopLease, WriteCalm, ProbeCalm, RunLease DEF Advance

LEMMA EnvironmentLease ==
    ASSUME LeaseInv, TypeInv', Environment \/ UNCHANGED vars
    PROVE  LeaseInv'
  <1>1. UNCHANGED <<lease, pc>> /\ children' \subseteq children
    BY DEF Environment, OrphanEnds, Commit, Edit, LoseArtifact, Tick, vars,
           disk, locks
  <1>2. QED
    BY <1>1 DEF LeaseInv, LeaseHeld, OwnersRun, OneSupervisedCommand

LEMMA NextLeaseInv == LeaseInv /\ [Next]_vars => LeaseInv'
  <1> SUFFICES ASSUME LeaseInv, [Next]_vars
               PROVE  LeaseInv'
    OBVIOUS
  <1>1. TypeInv'
    BY NextTypeInv DEF LeaseInv
  <1>2. ASSUME NEW p \in Procs,
               Invoke(p) \/ Advance(p) \/ Confirm(p) \/ Decline(p) \/ Crash(p)
        PROVE  LeaseInv'
    <2>1. CASE Decline(p)
      BY <1>1, <2>1, GiveUpCalm, LeaseStepInv DEF Decline
    <2>2. CASE Invoke(p) \/ Advance(p) \/ Confirm(p) \/ Crash(p)
      BY <1>1, <2>2, InvokeCalm, AdvanceLease, StopLease, LeaseStepInv
    <2>3. QED
      BY <1>2, <2>1, <2>2
  <1>3. CASE Environment \/ UNCHANGED vars
    BY <1>1, <1>3, EnvironmentLease
  <1>4. QED
    BY <1>2, <1>3 DEF Next

LEMMA InitLeaseInv == Init => LeaseInv
  <1>1. Init => LeaseHeld /\ OwnersRun /\ OneSupervisedCommand
    BY DEF Init, LeaseHeld, OwnersRun, OneSupervisedCommand, LeasedPoints
  <1>2. QED
    BY <1>1, InitTypeInv DEF LeaseInv

LEMMA Exclusion == Spec => [](OneSupervisedCommand /\ VerifiesAlone)
  <1>1. LeaseInv => OneSupervisedCommand /\ VerifiesAlone
    <2> SUFFICES ASSUME LeaseInv, NEW p \in Procs, NEW c \in children,
                        pc[p] \in {"check_workspace", "check_diff", "decide",
                                   "finalize"}
                 PROVE  c.owner = NoProc
      BY DEF LeaseInv, VerifiesAlone
    <2>1. lease = p
      BY DEF LeaseInv, LeaseHeld, LeasedPoints
    <2>2. ASSUME c.owner # NoProc
          PROVE  FALSE
      <3>1. c.owner \in Procs /\ pc[c.owner] = "running"
        BY <2>2 DEF LeaseInv, OwnersRun
      <3>2. lease = c.owner
        BY <3>1 DEF LeaseInv, LeaseHeld, LeasedPoints
      <3>3. QED
        BY <2>1, <3>1, <3>2
    <2>3. QED
      BY <2>2
  <1>2. QED
    BY InitLeaseInv, NextLeaseInv, <1>1, PTL DEF Spec

(* However many invocations there are, and whichever are killed, at most   *)
(* one command that an invocation waits for runs in the worktree.          *)
THEOREM SupervisedExclusion == Spec => []OneSupervisedCommand
  BY Exclusion, PTL

(* No such command runs while an invocation verifies the worktree.         *)
THEOREM VerificationExclusion == Spec => []VerifiesAlone
  BY Exclusion, PTL

----------------------------------------------------------------------------
(***************************************************************************)
(* What a write of TaskStore may do to a record, and what a record keeps   *)
(* over such writes: authorizations are used once, limits and approvals    *)
(* respected, and a completed task has earned it.  Nothing here is about   *)
(* invocations: TaskGateProofs shows that theirs are writes of this kind.  *)
(***************************************************************************)

Grants(r) == EventsOf(r, "approval.granted")

----------------------------------------------------------------------------
(* What a sound record is *)

StartsSound(r) ==
    \A i \in EventsOf(r, "command.started") :
        /\ r.events[i].auth \in
               EventsFor(r, "command.authorized", r.events[i].cap)
        /\ r.events[i].auth < i
        /\ StartsOf(r, r.events[i].auth) = {i}

FinishesSound(r) ==
    \A i \in EventsOf(r, "command.finished") :
        /\ FinishesOf(r, r.events[i].auth) = {i}
        /\ \E j \in StartsOf(r, r.events[i].auth) :
               /\ j < i
               /\ r.events[j].attempt = r.events[i].attempt
               /\ r.events[j].cap = r.events[i].cap

(* What an authorization is charged to: the grant of position i. *)
ChargedTo(r, i, c, approval) ==
    /\ i \in EventsFor(r, "approval.granted", c)
    /\ r.events[i].approval = approval

(* No authorization is dated in the future. *)
Dated(r, time) ==
    \A j \in EventsOf(r, "command.authorized") : r.events[j].time <= time

AuthorizationsSound(r) ==
    \A j \in EventsOf(r, "command.authorized") :
        /\ r.events[j].cap \in r.requested
        /\ r.events[j].revision <= r.revision
        /\ IF r.events[j].cap \in NeedsApproval
           THEN \E i \in DOMAIN r.events :
                    /\ i < j
                    /\ ChargedTo(r, i, r.events[j].cap, r.events[j].approval)
           ELSE r.events[j].approval = 0

(* Approval ids are not reused, and nobody's id is 0. *)
GrantsSound(r) ==
    \A i \in Grants(r) :
        /\ r.events[i].approval # 0
        /\ \A j \in Grants(r) : r.events[i].approval = r.events[j].approval => i = j
        /\ Cardinality(UsesOf(r, r.events[i].approval)) <= r.events[i].uses
        /\ \A j, k \in LateUsesOf(r, i) : j = k

LimitsSound(r) ==
    /\ Cardinality(EventsOf(r, "command.authorized")) <= r.max_commands
    /\ \A c \in Caps :
         /\ Cardinality(EventsFor(r, "command.authorized", c)) <= MaxExecutions[c]
         /\ Cardinality(EventsFor(r, "command.started", c)) <= r.retry + 1

(* Everything the Verifier asks for, by the record alone. *)
Clean(r) ==
    /\ \A c \in r.requested : Earned(r, c)
    /\ Incomplete(r) = {}
    /\ \A i \in EventsOf(r, "command.authorized") :
           r.events[i].cap \in HighRisk => r.events[i].approval # 0

OutcomeSound(r) ==
    /\ r.state = "absent" => r.requested = {} /\ r.events = <<>>
    /\ r.state = "completed" => Clean(r)

Sound(r) ==
    /\ StartsSound(r) /\ FinishesSound(r) /\ AuthorizationsSound(r)
    /\ GrantsSound(r) /\ LimitsSound(r) /\ OutcomeSound(r)

----------------------------------------------------------------------------
(* What a write may do to a record *)

Adds(r, s, e) == e \in Event /\ s \in Record /\ s.events = Append(r.events, e)

SameEnvelope(r, s) ==
    /\ s.requested = r.requested /\ s.revision = r.revision
    /\ s.retry = r.retry /\ s.max_commands = r.max_commands

Opens(r, s, e) ==
    /\ r.state = "absent"
    /\ s.state = "draft"
    /\ s.requested # {}
    /\ e.type = "task.created"

Amends(r, s, e) ==
    /\ s.state = "draft"
    /\ r.requested \subseteq s.requested
    /\ s.revision = r.revision + 1
    /\ s.retry = r.retry
    /\ s.max_commands = r.max_commands
    /\ e.type = "task.amended"

NotesActivation(r, s, e) ==
    /\ s.state = "draft"
    /\ SameEnvelope(r, s)
    /\ e.type = "module.activation"

NotesGrant(r, s, e) ==
    /\ s.state = "draft"
    /\ SameEnvelope(r, s)
    /\ e.type = "approval.granted"
    /\ e.approval # 0
    /\ \A i \in Grants(r) : r.events[i].approval # e.approval

(* An authorization of c at a revision may be recorded. *)
MayAuthorize(r, c, revision, approval) ==
    /\ c \in r.requested
    /\ revision <= r.revision
    /\ WithinBudget(r, c)
    /\ IF c \in NeedsApproval
       THEN \E i \in DOMAIN r.events :
                /\ ChargedTo(r, i, c, approval)
                /\ Cardinality(UsesOf(r, approval)) < r.events[i].uses
                /\ LateUsesOf(r, i) = {}
       ELSE approval = 0

Authorizes(r, s, e) ==
    /\ s.state = "draft"
    /\ SameEnvelope(r, s)
    /\ e.type = "command.authorized"
    /\ MayAuthorize(r, e.cap, e.revision, e.approval)

WithinRetry(r, c) == Cardinality(EventsFor(r, "command.started", c)) <= r.retry

Starts(r, s, e) ==
    /\ s.state = "draft"
    /\ SameEnvelope(r, s)
    /\ e.type = "command.started"
    /\ ValidAuthorization(r, e.cap, e.auth)
    /\ WithinRetry(r, e.cap)

(* A command of c was started with this authorization and has not ended. *)
MayFinish(r, c, auth, attempt) ==
    /\ FinishesOf(r, auth) = {}
    /\ \E j \in StartsOf(r, auth) :
           r.events[j].attempt = attempt /\ r.events[j].cap = c

Finishes(r, s, e) ==
    /\ s.state = "draft"
    /\ SameEnvelope(r, s)
    /\ e.type = "command.finished"
    /\ MayFinish(r, e.cap, e.auth, e.attempt)

Ends(r, s, e) ==
    /\ s.state \in TerminalStates
    /\ SameEnvelope(r, s)
    /\ s.state = "completed" => Clean(r)
    /\ e.type \in {"task.cancelled", "task.completed", "task.accepted_with_risk"}

Writes(r, s, e) ==
    /\ Adds(r, s, e)
    /\ \/ Opens(r, s, e)
       \/ /\ r.state = "draft"
          /\ \/ Amends(r, s, e) \/ NotesActivation(r, s, e) \/ NotesGrant(r, s, e)
             \/ Authorizes(r, s, e) \/ Starts(r, s, e) \/ Finishes(r, s, e)
             \/ Ends(r, s, e)

----------------------------------------------------------------------------
(* Reading a history that one event was added to *)

LEMMA AddedAt ==
    ASSUME NEW r \in Record, NEW s, NEW e, Adds(r, s, e)
    PROVE  /\ Len(r.events) \in Nat
           /\ DOMAIN r.events = 1..Len(r.events)
           /\ DOMAIN s.events = 1..(Len(r.events) + 1)
           /\ \A i \in DOMAIN r.events : s.events[i] = r.events[i]
           /\ s.events[Len(r.events) + 1] = e
  <1>1. r.events \in Seq(Event) /\ e \in Event
    BY DEF Record, Adds
  <1>2. QED
    BY <1>1, AppendProperties DEF Adds

LEMMA AddedBefore ==
    ASSUME NEW r \in Record, NEW s, NEW e, Adds(r, s, e), NEW type,
           NEW i \in EventsOf(r, type)
    PROVE  /\ s.events[i] = r.events[i]
           /\ i \in Nat /\ i < Len(r.events) + 1 /\ i # Len(r.events) + 1
  BY AddedAt DEF EventsOf

(* Positions of the kind of e gain the last one, others gain nothing. *)
LEMMA AddedOf ==
    ASSUME NEW r \in Record, NEW s, NEW e, Adds(r, s, e), NEW type
    PROVE  EventsOf(s, type) =
               IF e.type = type THEN EventsOf(r, type) \cup {Len(r.events) + 1}
               ELSE EventsOf(r, type)
  BY AddedAt DEF EventsOf

LEMMA AddedFor ==
    ASSUME NEW r \in Record, NEW s, NEW e, Adds(r, s, e), NEW type, NEW c
    PROVE  /\ e.type = type /\ e.cap = c =>
                  EventsFor(s, type, c) = EventsFor(r, type, c) \cup {Len(r.events) + 1}
           /\ e.type # type \/ e.cap # c =>
                  EventsFor(s, type, c) = EventsFor(r, type, c)
           /\ Len(r.events) + 1 \notin EventsFor(r, type, c)
  <1> DEFINE n == Len(r.events) + 1
  <1>1. s.events[n] = e
    BY AddedAt
  <1>2. \A i \in EventsOf(r, type) : s.events[i] = r.events[i] /\ i # n
    BY AddedBefore
  <1>3. EventsOf(s, type) = IF e.type = type THEN EventsOf(r, type) \cup {n}
                            ELSE EventsOf(r, type)
    BY AddedOf
  <1> HIDE DEF n
  <1>4. /\ e.type = type /\ e.cap = c =>
                EventsFor(s, type, c) = EventsFor(r, type, c) \cup {n}
        /\ e.type # type \/ e.cap # c =>
                EventsFor(s, type, c) = EventsFor(r, type, c)
        /\ n \notin EventsFor(r, type, c)
    BY <1>1, <1>2, <1>3 DEF EventsFor
  <1>5. QED
    BY <1>4 DEF n

LEMMA AddedUses ==
    ASSUME NEW r \in Record, NEW s, NEW e, Adds(r, s, e), NEW id
    PROVE  /\ e.type = "command.authorized" /\ e.approval = id =>
                  UsesOf(s, id) = UsesOf(r, id) \cup {Len(r.events) + 1}
           /\ e.type # "command.authorized" \/ e.approval # id =>
                  UsesOf(s, id) = UsesOf(r, id)
           /\ IsFiniteSet(UsesOf(r, id)) /\ Len(r.events) + 1 \notin UsesOf(r, id)
  <1> DEFINE n == Len(r.events) + 1
             A(h) == EventsOf(h, "command.authorized")
  <1>1. s.events[n] = e
    BY AddedAt
  <1>2. \A i \in A(r) : s.events[i] = r.events[i] /\ i # n
    BY AddedBefore
  <1>3. A(s) = IF e.type = "command.authorized" THEN A(r) \cup {n} ELSE A(r)
    BY AddedOf
  <1>4. IsFiniteSet(A(r)) /\ UsesOf(r, id) \subseteq A(r)
    BY EventsOfFinite DEF UsesOf
  <1>5. IsFiniteSet(UsesOf(r, id))
    BY <1>4, FS_Subset
  <1> HIDE DEF n
  <1>6. /\ e.type = "command.authorized" /\ e.approval = id =>
                UsesOf(s, id) = UsesOf(r, id) \cup {n}
        /\ e.type # "command.authorized" \/ e.approval # id =>
                UsesOf(s, id) = UsesOf(r, id)
        /\ n \notin UsesOf(r, id)
    BY <1>1, <1>2, <1>3 DEF UsesOf
  <1>7. QED
    BY <1>5, <1>6 DEF n

LEMMA AddedOfAuth ==
    ASSUME NEW r \in Record, NEW s, NEW e, Adds(r, s, e), NEW auth
    PROVE  /\ e.type = "command.started" /\ e.auth = auth =>
                  StartsOf(s, auth) = StartsOf(r, auth) \cup {Len(r.events) + 1}
           /\ e.type # "command.started" \/ e.auth # auth =>
                  StartsOf(s, auth) = StartsOf(r, auth)
           /\ e.type = "command.finished" /\ e.auth = auth =>
                  FinishesOf(s, auth) = FinishesOf(r, auth) \cup {Len(r.events) + 1}
           /\ e.type # "command.finished" \/ e.auth # auth =>
                  FinishesOf(s, auth) = FinishesOf(r, auth)
  <1> DEFINE n == Len(r.events) + 1
  <1>1. s.events[n] = e
    BY AddedAt
  <1>2. ASSUME NEW type
        PROVE  /\ \A i \in EventsOf(r, type) : s.events[i] = r.events[i] /\ i # n
               /\ EventsOf(s, type) = IF e.type = type
                                      THEN EventsOf(r, type) \cup {n}
                                      ELSE EventsOf(r, type)
    BY AddedOf, AddedBefore
  <1> HIDE DEF n
  <1>3. /\ e.type = "command.started" /\ e.auth = auth =>
                StartsOf(s, auth) = StartsOf(r, auth) \cup {n}
        /\ e.type # "command.started" \/ e.auth # auth =>
                StartsOf(s, auth) = StartsOf(r, auth)
    BY <1>1, <1>2 DEF StartsOf
  <1>4. /\ e.type = "command.finished" /\ e.auth = auth =>
                FinishesOf(s, auth) = FinishesOf(r, auth) \cup {n}
        /\ e.type # "command.finished" \/ e.auth # auth =>
                FinishesOf(s, auth) = FinishesOf(r, auth)
    BY <1>1, <1>2 DEF FinishesOf
  <1>5. QED
    BY <1>3, <1>4 DEF n

(* The latest evidence of a capability only changes when one of its        *)
(* commands finishes.                                                      *)
LEMMA AddedEvidence ==
    ASSUME NEW r \in Record, NEW s, NEW e, Adds(r, s, e), NEW c,
           e.type # "command.finished" \/ e.cap # c,
           EventsFor(r, "command.finished", c) # {}
    PROVE  /\ EventsFor(s, "command.finished", c) # {}
           /\ LatestEvidence(s, c) = LatestEvidence(r, c)
  BY AddedFor DEF LatestEvidence

LEMMA OneMore ==
    ASSUME NEW S, IsFiniteSet(S), NEW x, x \notin S
    PROVE  Cardinality(S) \in Nat /\ Cardinality(S \cup {x}) = Cardinality(S) + 1
  BY FS_AddElement, FS_CardinalityType

(* How many events there are of a kind, and for a capability. *)
LEMMA AddedCount ==
    ASSUME NEW r \in Record, NEW s, NEW e, Adds(r, s, e), NEW type
    PROVE  /\ Cardinality(EventsOf(r, type)) \in Nat
           /\ Cardinality(EventsOf(s, type)) =
                  IF e.type = type THEN Cardinality(EventsOf(r, type)) + 1
                  ELSE Cardinality(EventsOf(r, type))
  <1> DEFINE n == Len(r.events) + 1
  <1>1. IsFiniteSet(EventsOf(r, type)) /\ Cardinality(EventsOf(r, type)) \in Nat
    BY EventsOfFinite, FS_CardinalityType
  <1>2. n \notin EventsOf(r, type)
    BY AddedBefore
  <1>3. Cardinality(EventsOf(r, type) \cup {n}) = Cardinality(EventsOf(r, type)) + 1
    BY <1>1, <1>2, OneMore
  <1>4. CASE e.type = type
    <2>1. EventsOf(s, type) = EventsOf(r, type) \cup {n}
      BY <1>4, AddedOf
    <2>2. QED
      BY <1>1, <1>3, <1>4, <2>1
  <1>5. CASE e.type # type
    <2>1. EventsOf(s, type) = EventsOf(r, type)
      BY <1>5, AddedOf
    <2>2. QED
      BY <1>1, <1>5, <2>1
  <1>6. QED
    BY <1>4, <1>5

LEMMA AddedCountFor ==
    ASSUME NEW r \in Record, NEW s, NEW e, Adds(r, s, e), NEW type, NEW c
    PROVE  /\ Cardinality(EventsFor(r, type, c)) \in Nat
           /\ Cardinality(EventsFor(s, type, c)) =
                  IF e.type = type /\ e.cap = c
                  THEN Cardinality(EventsFor(r, type, c)) + 1
                  ELSE Cardinality(EventsFor(r, type, c))
  <1> DEFINE n == Len(r.events) + 1
  <1>1. IsFiniteSet(EventsFor(r, type, c))
    <2>1. EventsFor(r, type, c) \subseteq EventsOf(r, type)
      BY DEF EventsFor
    <2>2. QED
      BY <2>1, EventsOfFinite, FS_Subset
  <1>2. n \notin EventsFor(r, type, c)
    BY AddedFor
  <1>3. /\ Cardinality(EventsFor(r, type, c)) \in Nat
        /\ Cardinality(EventsFor(r, type, c) \cup {n}) =
               Cardinality(EventsFor(r, type, c)) + 1
    BY <1>1, <1>2, OneMore
  <1>4. CASE e.type = type /\ e.cap = c
    <2>1. EventsFor(s, type, c) = EventsFor(r, type, c) \cup {n}
      BY <1>4, AddedFor
    <2>2. QED
      BY <1>3, <1>4, <2>1
  <1>5. CASE e.type # type \/ e.cap # c
    <2>1. EventsFor(s, type, c) = EventsFor(r, type, c)
      BY <1>5, AddedFor
    <2>2. QED
      BY <1>3, <1>5, <2>1
  <1>6. QED
    BY <1>4, <1>5

(* A set that was read before the event was added is still there. *)
LEMMA AddedKeeps ==
    ASSUME NEW r \in Record, NEW s, NEW e, Adds(r, s, e), NEW type, NEW c
    PROVE  /\ EventsOf(r, type) \subseteq EventsOf(s, type)
           /\ EventsFor(r, type, c) \subseteq EventsFor(s, type, c)
  <1>1. EventsOf(r, type) \subseteq EventsOf(s, type)
    BY AddedOf
  <1>2. \A i \in EventsOf(r, type) : s.events[i] = r.events[i]
    BY AddedBefore
  <1>3. QED
    BY <1>1, <1>2 DEF EventsFor

----------------------------------------------------------------------------
(* A non-empty set of positions has a last one *)

LEMMA NaturalsOrdered == \E R : /\ IsWellFoundedOn(R, Nat)
                                /\ \A x, y \in Nat : x < y => <<x, y>> \in R
  <1>1. \A x, y \in Nat : x < y => <<x, y>> \in OpToRel(<, Nat)
    BY DEF OpToRel
  <1>2. QED
    BY <1>1, NatLessThanWellFounded, Zenon

LEMMA SmallestOf ==
    ASSUME NEW S, S \subseteq Nat, S # {}
    PROVE  \E x \in S : \A y \in S : x <= y
  <1>1. PICK R : /\ IsWellFoundedOn(R, Nat)
                 /\ \A x, y \in Nat : x < y => <<x, y>> \in R
    BY NaturalsOrdered
  <1>3. \E x \in S : \A y \in S : ~ (<<y, x>> \in R)
    <2>1. IsWellFoundedOn(R, Nat)
      BY <1>1
    <2>2. QED
      BY <2>1, WFMin
  <1>4. PICK x \in S : \A y \in S : ~ (<<y, x>> \in R)
    BY <1>3
  <1>5. ASSUME NEW y \in S PROVE x <= y
    <2>1. x \in Nat /\ y \in Nat
      OBVIOUS
    <2>2. y < x => <<y, x>> \in R
      BY <1>1, <2>1
    <2>3. ~ (y < x)
      BY <1>4, <2>2
    <2>4. QED
      BY <2>1, <2>3
  <1>6. QED
    BY <1>5

LEMMA LargestOf ==
    ASSUME NEW n \in Nat, NEW S, S \subseteq 1..n, S # {}
    PROVE  \E x \in S : \A y \in S : y <= x
  <1> DEFINE T == {n - x : x \in S}
  <1>1. T \subseteq Nat /\ T # {}
    <2>1. \A x \in S : n - x \in Nat
      OBVIOUS
    <2>2. PICK x \in S : TRUE
      OBVIOUS
    <2>3. n - x \in T
      OBVIOUS
    <2>4. QED
      BY <2>1, <2>3
  <1>2. PICK d \in T : \A y \in T : d <= y
    BY <1>1, SmallestOf
  <1>3. PICK x \in S : d = n - x
    BY <1>2
  <1>4. QED
    BY <1>2, <1>3
(* The latest evidence is evidence: the choice of the Verifier is defined. *)
LEMMA LatestIsEvidence ==
    ASSUME NEW r \in Record, NEW c, EventsFor(r, "command.finished", c) # {}
    PROVE  LatestEvidence(r, c) \in EventsFor(r, "command.finished", c)
  <1> DEFINE F == EventsFor(r, "command.finished", c)
  <1>1. r.events \in Seq(Event)
    BY DEF Record
  <1>2. Len(r.events) \in Nat /\ F \subseteq 1..Len(r.events)
    BY <1>1 DEF EventsFor, EventsOf
  <1>3. \E x \in F : \A y \in F : y <= x
    BY <1>2, LargestOf
  <1>4. QED
    BY <1>3 DEF LatestEvidence

----------------------------------------------------------------------------
(* Every write keeps every part of soundness *)

LEMMA WriteTypes ==
    ASSUME NEW r, NEW s, NEW e, Writes(r, s, e)
    PROVE  /\ Adds(r, s, e)
           /\ e.type = "command.started" => Starts(r, s, e)
           /\ e.type = "command.finished" => Finishes(r, s, e)
           /\ e.type = "command.authorized" => Authorizes(r, s, e)
           /\ e.type = "approval.granted" => NotesGrant(r, s, e)
  BY DEF Writes, Opens, Amends, NotesActivation, NotesGrant, Authorizes, Starts,
         Finishes, Ends

LEMMA StartsKept ==
    ASSUME NEW r \in Record, NEW s, NEW e, Adds(r, s, e), StartsSound(r),
           e.type = "command.started" => ValidAuthorization(r, e.cap, e.auth)
    PROVE  StartsSound(s)
  <1> DEFINE n == Len(r.events) + 1
             St(h) == EventsOf(h, "command.started")
  <1>0. Adds(r, s, e)
    OBVIOUS
  <1>1. /\ s.events[n] = e
        /\ St(s) = IF e.type = "command.started" THEN St(r) \cup {n} ELSE St(r)
        /\ \A i \in St(r) : s.events[i] = r.events[i] /\ i # n
    BY <1>0, AddedAt, AddedOf, AddedBefore
  <1>2. ASSUME NEW i \in St(r)
        PROVE  /\ s.events[i].auth \in
                      EventsFor(s, "command.authorized", s.events[i].cap)
               /\ s.events[i].auth < i
               /\ StartsOf(r, s.events[i].auth) = {i}
    BY <1>0, <1>1, AddedKeeps DEF StartsSound
  <1>3. CASE e.type # "command.started"
    <2>1. \A auth : StartsOf(s, auth) = StartsOf(r, auth)
      BY <1>0, <1>3, AddedOfAuth
    <2>2. QED
      BY <1>1, <1>2, <1>3, <2>1 DEF StartsSound
  <1>4. CASE e.type = "command.started"
    <2>1. e.auth \in EventsFor(r, "command.authorized", e.cap) /\ ~Consumed(r, e.auth)
      BY <1>4 DEF ValidAuthorization
    <2>2. /\ e.auth \in EventsFor(s, "command.authorized", e.cap)
          /\ e.auth < n
      <3>1. e.auth \in EventsOf(r, "command.authorized")
        BY <2>1 DEF EventsFor
      <3>2. e.auth < n
        BY <1>0, <3>1, AddedBefore
      <3>3. QED
        BY <1>0, <2>1, <3>2, AddedKeeps
    <2>3. StartsOf(r, e.auth) = {}
      BY <2>1 DEF StartsOf, Consumed
    <2>4. StartsOf(s, e.auth) = {n}
      <3>1. StartsOf(s, e.auth) = StartsOf(r, e.auth) \cup {n}
        BY <1>4, AddedOfAuth
      <3>2. QED
        BY <2>3, <3>1
    <2>5. \A auth : auth # e.auth => StartsOf(s, auth) = StartsOf(r, auth)
      BY <1>0, AddedOfAuth
    <2>6. ASSUME NEW i \in St(r)
          PROVE  s.events[i].auth # e.auth
      BY <1>2, <2>3, <2>6
    <2>7. QED
      BY <1>1, <1>2, <1>4, <2>2, <2>4, <2>5, <2>6 DEF StartsSound
  <1>5. QED
    BY <1>3, <1>4

LEMMA FinishesKept ==
    ASSUME NEW r \in Record, NEW s, NEW e, Writes(r, s, e), FinishesSound(r)
    PROVE  FinishesSound(s)
  <1> DEFINE n == Len(r.events) + 1
             Fi(h) == EventsOf(h, "command.finished")
  <1>0. Adds(r, s, e)
    BY WriteTypes
  <1>1. /\ s.events[n] = e
        /\ Fi(s) = IF e.type = "command.finished" THEN Fi(r) \cup {n} ELSE Fi(r)
        /\ \A i \in Fi(r) : s.events[i] = r.events[i] /\ i # n
    <2>1. s.events[n] = e
      BY <1>0, AddedAt
    <2>2. QED
      BY <1>0, <2>1, AddedOf, AddedBefore
  <1>2. ASSUME NEW auth, NEW j \in StartsOf(r, auth)
        PROVE  j \in StartsOf(s, auth) /\ s.events[j] = r.events[j] /\ j < n
    <2>1. j \in EventsOf(r, "command.started") /\ r.events[j].auth = auth
      BY DEF StartsOf
    <2>2. s.events[j] = r.events[j] /\ j < n
      BY <1>0, <2>1, AddedBefore
    <2>3. j \in EventsOf(s, "command.started")
      BY <1>0, <2>1, AddedOf
    <2>4. QED
      BY <2>1, <2>2, <2>3 DEF StartsOf
  <1>3. ASSUME NEW i \in Fi(r)
        PROVE  /\ FinishesOf(r, s.events[i].auth) = {i}
               /\ \E j \in StartsOf(s, s.events[i].auth) :
                      /\ j < i
                      /\ s.events[j].attempt = s.events[i].attempt
                      /\ s.events[j].cap = s.events[i].cap
    BY <1>1, <1>2 DEF FinishesSound
  <1>4. CASE e.type # "command.finished"
    <2>1. \A auth : FinishesOf(s, auth) = FinishesOf(r, auth)
      BY <1>0, <1>4, AddedOfAuth
    <2>2. QED
      BY <1>1, <1>3, <1>4, <2>1 DEF FinishesSound
  <1>5. CASE e.type = "command.finished"
    <2>1. MayFinish(r, e.cap, e.auth, e.attempt)
      BY <1>5, WriteTypes DEF Finishes
    <2>2. FinishesOf(s, e.auth) = {n}
      <3>1. FinishesOf(r, e.auth) = {}
        BY <2>1 DEF MayFinish
      <3>2. QED
        BY <1>0, <1>5, <3>1, AddedOfAuth
    <2>3. \E j \in StartsOf(s, e.auth) :
              /\ j < n
              /\ s.events[j].attempt = e.attempt
              /\ s.events[j].cap = e.cap
      BY <1>2, <2>1 DEF MayFinish
    <2>4. \A auth : auth # e.auth => FinishesOf(s, auth) = FinishesOf(r, auth)
      BY <1>0, AddedOfAuth
    <2>5. ASSUME NEW i \in Fi(r)
          PROVE  s.events[i].auth # e.auth
      BY <1>3, <2>1, <2>5 DEF MayFinish
    <2>6. QED
      BY <1>1, <1>3, <1>5, <2>2, <2>3, <2>4, <2>5 DEF FinishesSound
  <1>6. QED
    BY <1>4, <1>5

(* No write forgets a capability or goes back to an earlier revision. *)
LEMMA EnvelopeGrows ==
    ASSUME NEW r \in Record, NEW s, NEW e, Writes(r, s, e), OutcomeSound(r)
    PROVE  /\ EventsOf(r, "command.authorized") # {} =>
                  /\ r.requested \subseteq s.requested
                  /\ r.revision <= s.revision
           /\ r.state # "absent" =>
                  s.retry = r.retry /\ s.max_commands = r.max_commands
  <1>1. r.revision \in Nat
    BY DEF Record
  <1>2. r.state = "absent" => EventsOf(r, "command.authorized") = {}
    BY DEF OutcomeSound, EventsOf
  <1>3. QED
    BY <1>1, <1>2
       DEF Writes, Opens, Amends, NotesActivation, NotesGrant, Authorizes,
           Starts, Finishes, Ends, SameEnvelope

LEMMA AuthorizationsKept ==
    ASSUME NEW r \in Record, NEW s, NEW e, Writes(r, s, e),
           OutcomeSound(r), AuthorizationsSound(r)
    PROVE  AuthorizationsSound(s)
  <1> DEFINE n == Len(r.events) + 1
             A(h) == EventsOf(h, "command.authorized")
  <1>0. Adds(r, s, e)
    BY WriteTypes
  <1>1. /\ s.events[n] = e
        /\ A(s) = IF e.type = "command.authorized" THEN A(r) \cup {n} ELSE A(r)
    BY <1>0, AddedAt, AddedOf
  <1>2. ASSUME NEW i \in DOMAIN r.events
        PROVE  i \in DOMAIN s.events /\ s.events[i] = r.events[i] /\ i < n
    BY <1>0, AddedAt
  <1>3. ASSUME NEW i \in DOMAIN r.events, NEW c, NEW approval,
               ChargedTo(r, i, c, approval)
        PROVE  ChargedTo(s, i, c, approval)
    BY <1>0, <1>2, <1>3, AddedKeeps DEF ChargedTo
  <1>4. ASSUME NEW j \in A(r)
        PROVE  /\ s.events[j].cap \in s.requested
               /\ s.events[j].revision <= s.revision
               /\ IF s.events[j].cap \in NeedsApproval
                  THEN \E i \in DOMAIN s.events :
                           /\ i < j
                           /\ ChargedTo(s, i, s.events[j].cap,
                                        s.events[j].approval)
                  ELSE s.events[j].approval = 0
    <2>1. s.events[j] = r.events[j] /\ j \in DOMAIN r.events
      BY <1>0, AddedBefore DEF EventsOf
    <2>2. r.requested \subseteq s.requested /\ r.revision <= s.revision
      BY EnvelopeGrows
    <2>3. r.events[j].revision \in Nat /\ r.revision \in Nat /\ s.revision \in Nat
      BY <1>0, <2>1, EventAt DEF Event, Record, Adds
    <2>4. /\ r.events[j].cap \in r.requested
          /\ r.events[j].revision <= r.revision
      BY DEF AuthorizationsSound
    <2>5. CASE r.events[j].cap \in NeedsApproval
      <3>1. PICK i \in DOMAIN r.events :
                /\ i < j
                /\ ChargedTo(r, i, r.events[j].cap, r.events[j].approval)
        BY <2>5 DEF AuthorizationsSound
      <3>2. i \in DOMAIN s.events
            /\ ChargedTo(s, i, s.events[j].cap, s.events[j].approval)
        BY <1>2, <1>3, <2>1, <3>1
      <3>3. QED
        BY <2>1, <2>2, <2>3, <2>4, <2>5, <3>1, <3>2
    <2>6. CASE r.events[j].cap \notin NeedsApproval
      <3>1. r.events[j].approval = 0
        BY <2>6 DEF AuthorizationsSound
      <3>2. QED
        BY <2>1, <2>2, <2>3, <2>4, <2>6, <3>1
    <2>7. QED
      BY <2>5, <2>6
  <1>5. CASE e.type # "command.authorized"
    BY <1>1, <1>4, <1>5 DEF AuthorizationsSound
  <1>6. CASE e.type = "command.authorized"
    <2>1. /\ MayAuthorize(r, e.cap, e.revision, e.approval)
          /\ s.requested = r.requested /\ s.revision = r.revision
      BY <1>6, WriteTypes DEF Authorizes, SameEnvelope
    <2>2. CASE e.cap \in NeedsApproval
      <3>1. PICK i \in DOMAIN r.events : ChargedTo(r, i, e.cap, e.approval)
        BY <2>1, <2>2 DEF MayAuthorize
      <3>2. i \in DOMAIN s.events /\ i < n /\ ChargedTo(s, i, e.cap, e.approval)
        BY <1>2, <1>3, <3>1
      <3>3. QED
        BY <1>1, <1>4, <1>6, <2>1, <2>2, <3>2 DEF AuthorizationsSound, MayAuthorize
    <2>3. CASE e.cap \notin NeedsApproval
      <3>1. e.approval = 0
        BY <2>1, <2>3 DEF MayAuthorize
      <3>2. QED
        BY <1>1, <1>4, <1>6, <2>1, <2>3, <3>1 DEF AuthorizationsSound, MayAuthorize
    <2>4. QED
      BY <2>2, <2>3
  <1>7. QED
    BY <1>5, <1>6

(* Nothing was charged to an approval that was not granted. *)
LEMMA UngrantedUnused ==
    ASSUME NEW r \in Record, AuthorizationsSound(r), NEW id, id # 0,
           \A i \in Grants(r) : r.events[i].approval # id
    PROVE  UsesOf(r, id) = {}
  BY DEF AuthorizationsSound, ChargedTo, UsesOf, Grants, EventsFor

LEMMA GrantsKept ==
    ASSUME NEW r \in Record, NEW s, NEW e, Writes(r, s, e),
           AuthorizationsSound(r), GrantsSound(r)
    PROVE  GrantsSound(s)
  <1> DEFINE n == Len(r.events) + 1
             Uses(h, id) == Cardinality(UsesOf(h, id))
  <1>0. Adds(r, s, e)
    BY WriteTypes
  <1>1. /\ s.events[n] = e
        /\ Grants(s) = IF e.type = "approval.granted" THEN Grants(r) \cup {n} ELSE Grants(r)
        /\ \A i \in Grants(r) : s.events[i] = r.events[i] /\ i # n
    BY <1>0, AddedAt, AddedOf, AddedBefore DEF Grants
  <1>2. ASSUME NEW id
        PROVE  \A j \in UsesOf(r, id) : s.events[j] = r.events[j]
    BY <1>0, AddedBefore DEF UsesOf
  <1>3. ASSUME NEW i \in Grants(r),
               UsesOf(s, r.events[i].approval) = UsesOf(r, r.events[i].approval)
        PROVE  LateUsesOf(s, i) = LateUsesOf(r, i)
    BY <1>1, <1>2, <1>3 DEF LateUsesOf
  <1>4. CASE e.type \notin {"approval.granted", "command.authorized"}
    <2>1. \A id : UsesOf(s, id) = UsesOf(r, id)
      BY <1>0, <1>4, AddedUses
    <2>2. QED
      BY <1>1, <1>3, <1>4, <2>1 DEF GrantsSound
  <1>5. CASE e.type = "approval.granted"
    <2>1. e.approval # 0 /\ \A i \in Grants(r) : r.events[i].approval # e.approval
      BY <1>5, WriteTypes DEF NotesGrant
    <2>2. \A id : UsesOf(s, id) = UsesOf(r, id)
      BY <1>0, <1>5, AddedUses
    <2>3. UsesOf(s, e.approval) = {}
      BY <2>1, <2>2, UngrantedUnused
    <2>4. Uses(s, e.approval) = 0 /\ e.uses \in Nat
      BY <1>0, <2>3, FS_EmptySet DEF Adds, Event
    <2>5. Uses(s, e.approval) <= e.uses /\ LateUsesOf(s, n) = {}
      BY <1>1, <2>3, <2>4 DEF LateUsesOf
    <2>6. \A i \in Grants(r) :
              /\ LateUsesOf(s, i) = LateUsesOf(r, i)
              /\ Uses(s, r.events[i].approval) = Uses(r, r.events[i].approval)
      BY <1>3, <2>2
    <2> HIDE DEF n, Uses
    <2>7. QED
      BY <1>1, <1>5, <2>1, <2>5, <2>6 DEF GrantsSound, Uses
  <1>6. CASE e.type = "command.authorized"
    <2>1. MayAuthorize(r, e.cap, e.revision, e.approval)
      BY <1>6, WriteTypes DEF Authorizes
    <2>2. \A id : id # e.approval => UsesOf(s, id) = UsesOf(r, id)
      BY <1>0, AddedUses
    <2>3. /\ UsesOf(s, e.approval) = UsesOf(r, e.approval) \cup {n}
          /\ IsFiniteSet(UsesOf(r, e.approval)) /\ n \notin UsesOf(r, e.approval)
      BY <1>0, <1>6, AddedUses
    <2>4. ASSUME NEW i \in Grants(r), r.events[i].approval = e.approval
          PROVE  /\ Uses(s, e.approval) <= r.events[i].uses
                 /\ LateUsesOf(s, i) \subseteq {n}
      <3>1. e.cap \in NeedsApproval
        BY <2>1, <2>4 DEF MayAuthorize, GrantsSound
      <3>2. PICK k \in DOMAIN r.events :
                /\ ChargedTo(r, k, e.cap, e.approval)
                /\ Uses(r, e.approval) < r.events[k].uses
                /\ LateUsesOf(r, k) = {}
        BY <2>1, <3>1 DEF MayAuthorize
      <3>3. k \in Grants(r) /\ r.events[k].approval = e.approval
        BY <3>2 DEF ChargedTo, EventsFor, Grants
      <3>4. k = i
        BY <2>4, <3>3 DEF GrantsSound
      <3>5. Uses(s, e.approval) = Uses(r, e.approval) + 1
        BY <2>3, OneMore
      <3>6. Uses(r, e.approval) \in Nat /\ r.events[i].uses \in Nat
        BY <1>0, <3>2, <3>4, AddedUses, FS_CardinalityType, EventAt DEF Event
      <3>7. ASSUME NEW j \in LateUsesOf(s, i), j # n
            PROVE  FALSE
        <4>1. s.events[i] = r.events[i] /\ s.events[i].approval = e.approval
          BY <1>1, <2>4
        <4>2. j \in UsesOf(r, e.approval)
          BY <2>3, <3>7, <4>1 DEF LateUsesOf
        <4>3. j \in LateUsesOf(r, i)
          BY <1>2, <2>4, <4>1, <4>2 DEF LateUsesOf
        <4>4. QED
          BY <3>2, <3>4, <4>3
      <3>8. QED
        BY <3>2, <3>4, <3>5, <3>6, <3>7
    <2>5. ASSUME NEW i \in Grants(r)
          PROVE  /\ Uses(s, r.events[i].approval) <= r.events[i].uses
                 /\ \A j, k \in LateUsesOf(s, i) : j = k
      <3>1. CASE r.events[i].approval = e.approval
        BY <2>4, <3>1
      <3>2. CASE r.events[i].approval # e.approval
        <4>1. UsesOf(s, r.events[i].approval) = UsesOf(r, r.events[i].approval)
          BY <2>2, <3>2
        <4>2. LateUsesOf(s, i) = LateUsesOf(r, i)
          BY <1>3, <4>1
        <4>3. QED
          BY <4>1, <4>2 DEF GrantsSound
      <3>3. QED
        BY <3>1, <3>2
    <2> HIDE DEF n
    <2>6. QED
      BY <1>1, <1>6, <2>5 DEF GrantsSound
  <1>7. QED
    BY <1>4, <1>5, <1>6

LEMMA LimitsKept ==
    ASSUME NEW r \in Record, NEW s, NEW e, Writes(r, s, e),
           OutcomeSound(r), LimitsSound(r)
    PROVE  LimitsSound(s)
  <1> DEFINE Auths(h) == Cardinality(EventsOf(h, "command.authorized"))
             AuthsFor(h, c) == Cardinality(EventsFor(h, "command.authorized", c))
             StartsFor(h, c) == Cardinality(EventsFor(h, "command.started", c))
  <1>0. Adds(r, s, e)
    BY WriteTypes
  <1>1. \A c \in Caps : MaxExecutions[c] \in Nat
    BY LimitsAssumption
  <1>2. r.retry \in Nat /\ s.retry \in Nat /\ s.max_commands \in Nat
    BY <1>0 DEF Record, Adds
  <1>3. CASE r.state = "absent"
    <2>1. e.type = "task.created" /\ r.events = <<>>
      BY <1>3 DEF Writes, Opens, OutcomeSound
    <2>2. Auths(r) = 0 /\ \A c : AuthsFor(r, c) = 0 /\ StartsFor(r, c) = 0
      BY <2>1, FS_EmptySet DEF EventsOf, EventsFor
    <2>3. Auths(s) = 0 /\ \A c : AuthsFor(s, c) = 0 /\ StartsFor(s, c) = 0
      BY <1>0, <2>1, <2>2, AddedCount, AddedCountFor
    <2>4. QED
      BY <1>1, <1>2, <2>3 DEF LimitsSound
  <1>4. CASE r.state # "absent"
    <2>1. s.retry = r.retry /\ s.max_commands = r.max_commands
      BY <1>4, EnvelopeGrows
    <2>2. Auths(s) <= s.max_commands
      <3>1. CASE e.type = "command.authorized"
        <4>1. Auths(r) < r.max_commands
          BY <3>1, WriteTypes DEF Authorizes, MayAuthorize, WithinBudget
        <4>2. Auths(r) \in Nat /\ Auths(s) = Auths(r) + 1
          BY <1>0, <3>1, AddedCount
        <4>3. QED
          BY <1>2, <2>1, <4>1, <4>2
      <3>2. CASE e.type # "command.authorized"
        BY <1>0, <2>1, <3>2, AddedCount DEF LimitsSound
      <3>3. QED
        BY <3>1, <3>2
    <2>3. ASSUME NEW c \in Caps
          PROVE  AuthsFor(s, c) <= MaxExecutions[c]
      <3>1. CASE e.type = "command.authorized" /\ e.cap = c
        <4>1. AuthsFor(r, c) < MaxExecutions[c]
          BY <3>1, WriteTypes DEF Authorizes, MayAuthorize, WithinBudget
        <4>2. AuthsFor(r, c) \in Nat /\ AuthsFor(s, c) = AuthsFor(r, c) + 1
          BY <1>0, <3>1, AddedCountFor
        <4>3. QED
          BY <1>1, <4>1, <4>2
      <3>2. CASE e.type # "command.authorized" \/ e.cap # c
        BY <1>0, <3>2, AddedCountFor DEF LimitsSound
      <3>3. QED
        BY <3>1, <3>2
    <2>4. ASSUME NEW c \in Caps
          PROVE  StartsFor(s, c) <= s.retry + 1
      <3>1. CASE e.type = "command.started" /\ e.cap = c
        <4>1. StartsFor(r, c) <= r.retry
          BY <3>1, WriteTypes DEF Starts, WithinRetry
        <4>2. StartsFor(r, c) \in Nat /\ StartsFor(s, c) = StartsFor(r, c) + 1
          BY <1>0, <3>1, AddedCountFor
        <4>3. QED
          BY <1>2, <2>1, <4>1, <4>2
      <3>2. CASE e.type # "command.started" \/ e.cap # c
        BY <1>0, <2>1, <3>2, AddedCountFor DEF LimitsSound
      <3>3. QED
        BY <3>1, <3>2
    <2>5. QED
      BY <2>2, <2>3, <2>4 DEF LimitsSound
  <1>5. QED
    BY <1>3, <1>4

(* Evidence refers to an authorization of its own capability. *)
LEMMA EvidenceAuthorized ==
    ASSUME NEW r, StartsSound(r), FinishesSound(r), NEW c,
           NEW i \in EventsFor(r, "command.finished", c)
    PROVE  r.events[i].auth \in EventsFor(r, "command.authorized", c)
  <1>1. i \in EventsOf(r, "command.finished") /\ r.events[i].cap = c
    BY DEF EventsFor
  <1>2. PICK j \in StartsOf(r, r.events[i].auth) : r.events[j].cap = c
    BY <1>1 DEF FinishesSound
  <1>3. j \in EventsOf(r, "command.started") /\ r.events[j].auth = r.events[i].auth
    BY DEF StartsOf
  <1>4. QED
    BY <1>2, <1>3 DEF StartsSound

(* What a capability has earned, it keeps until one of its commands        *)
(* finishes or the revision changes.                                       *)
LEMMA EarnedUnchanged ==
    ASSUME NEW r \in Record, NEW s, NEW e, Adds(r, s, e),
           StartsSound(r), FinishesSound(r), NEW c,
           e.type # "command.finished" \/ e.cap # c, s.revision = r.revision
    PROVE  Earned(s, c) <=> Earned(r, c)
  <1> DEFINE F(h) == EventsFor(h, "command.finished", c)
             A(h) == EventsFor(h, "command.authorized", c)
             i == LatestEvidence(r, c)
             a == r.events[i].auth
  <1>1. F(s) = F(r)
    BY AddedFor
  <1>2. CASE F(r) = {}
    BY <1>1, <1>2 DEF Earned
  <1>3. CASE F(r) # {}
    <2>1. LatestEvidence(s, c) = i
      BY <1>3, AddedEvidence
    <2>2. i \in F(r)
      BY <1>3, LatestIsEvidence
    <2>3. s.events[i] = r.events[i]
      BY <2>2, AddedBefore DEF EventsFor
    <2>4. a \in A(r)
      BY <2>2, EvidenceAuthorized
    <2>5. a \in A(s)
      BY <2>4, AddedKeeps
    <2>6. s.events[a] = r.events[a]
      BY <2>4, AddedBefore DEF EventsFor
    <2> HIDE DEF i
    <2>7. QED
      BY <1>1, <1>3, <2>1, <2>3, <2>4, <2>5, <2>6 DEF Earned, i
  <1>4. QED
    BY <1>2, <1>3

LEMMA EndKeepsClean ==
    ASSUME NEW r \in Record, NEW s, NEW e, Adds(r, s, e), SameEnvelope(r, s),
           StartsSound(r), FinishesSound(r), Clean(r),
           e.type \notin {"command.authorized", "command.started", "command.finished"}
    PROVE  Clean(s)
  <1> DEFINE St(h) == EventsOf(h, "command.started")
             Fi(h) == EventsOf(h, "command.finished")
             A(h) == EventsOf(h, "command.authorized")
  <1>1. St(s) = St(r) /\ Fi(s) = Fi(r) /\ A(s) = A(r)
    BY AddedOf
  <1>2. /\ \A i \in St(r) : s.events[i] = r.events[i]
        /\ \A i \in Fi(r) : s.events[i] = r.events[i]
        /\ \A i \in A(r) : s.events[i] = r.events[i]
    BY AddedBefore
  <1>3. \A c \in s.requested : Earned(s, c)
    <2>1. \A c : Earned(s, c) <=> Earned(r, c)
      BY EarnedUnchanged DEF SameEnvelope
    <2>2. QED
      BY <2>1 DEF Clean, SameEnvelope
  <1>4. Incomplete(s) = Incomplete(r)
    BY <1>1, <1>2 DEF Incomplete
  <1>5. QED
    BY <1>1, <1>2, <1>3, <1>4 DEF Clean

LEMMA OutcomeKept ==
    ASSUME NEW r \in Record, NEW s, NEW e, Writes(r, s, e), Sound(r)
    PROVE  OutcomeSound(s)
  <1>1. s.state \in {"draft"} \cup TerminalStates
    BY DEF Writes, Opens, Amends, NotesActivation, NotesGrant, Authorizes,
           Starts, Finishes, Ends
  <1>2. ASSUME s.state = "completed"
        PROVE  Clean(s)
    <2>1. Ends(r, s, e)
      BY <1>2 DEF Writes, Opens, Amends, NotesActivation, NotesGrant,
                  Authorizes, Starts, Finishes
    <2>2. QED
      BY <1>2, <2>1, WriteTypes, EndKeepsClean DEF Ends, Sound
  <1>3. QED
    BY <1>1, <1>2 DEF OutcomeSound, TerminalStates

LEMMA SoundKept ==
    ASSUME NEW r \in Record, NEW s, NEW e, Writes(r, s, e), Sound(r)
    PROVE  Sound(s)
  <1>1. /\ Adds(r, s, e)
        /\ e.type = "command.started" => ValidAuthorization(r, e.cap, e.auth)
    BY WriteTypes DEF Starts
  <1>2. StartsSound(s)
    BY <1>1, StartsKept DEF Sound
  <1>3. QED
    BY <1>2, FinishesKept, AuthorizationsKept, GrantsKept, LimitsKept,
       OutcomeKept DEF Sound

----------------------------------------------------------------------------
(* A task that does not exist is sound *)

LEMMA AbsentSound == Sound(NoRecord)
  <1>1. /\ \A type : EventsOf(NoRecord, type) = {}
        /\ \A type, c : EventsFor(NoRecord, type, c) = {}
        /\ NoRecord.max_commands = 0 /\ NoRecord.retry = 0
        /\ NoRecord.state = "absent" /\ NoRecord.requested = {}
        /\ NoRecord.events = <<>>
    BY DEF NoRecord, EventsOf, EventsFor
  <1>2. \A c \in Caps : MaxExecutions[c] \in Nat
    BY LimitsAssumption
  <1>3. StartsSound(NoRecord) /\ FinishesSound(NoRecord)
    BY <1>1 DEF StartsSound, FinishesSound
  <1>4. AuthorizationsSound(NoRecord) /\ GrantsSound(NoRecord)
    BY <1>1 DEF AuthorizationsSound, GrantsSound, Grants
  <1>5. LimitsSound(NoRecord)
    <2>1. Cardinality(EventsOf(NoRecord, "command.authorized")) = 0
      BY <1>1, FS_EmptySet
    <2>2. \A type, c : Cardinality(EventsFor(NoRecord, type, c)) = 0
      BY <1>1, FS_EmptySet
    <2>3. QED
      BY <1>1, <1>2, <2>1, <2>2 DEF LimitsSound
  <1>6. OutcomeSound(NoRecord)
    BY <1>1 DEF OutcomeSound
  <1>7. QED
    BY <1>3, <1>4, <1>5, <1>6 DEF Sound

----------------------------------------------------------------------------
(* What the Verifier finds *)

LEMMA PassedIsEarned ==
    ASSUME NEW r, NEW c, NEW files, AcceptanceStatus(r, c, files) = "passed"
    PROVE  Earned(r, c)
  <1> DEFINE i == LatestEvidence(r, c)
  <1>1. EventsFor(r, "command.finished", c) # {}
    BY DEF AcceptanceStatus
  <1>2. Trusted(r, c, i)
    BY <1>1 DEF AcceptanceStatus
  <1>3. ~Stale(r, i)
    BY <1>1, <1>2 DEF AcceptanceStatus
  <1>4. r.events[i].status = "succeeded"
    BY <1>1, <1>2, <1>3 DEF AcceptanceStatus
  <1>5. QED
    BY <1>1, <1>2, <1>3, <1>4 DEF Earned, Trusted, Stale

(* A record without issues is clean, whatever files are left. *)
LEMMA NoIssuesClean ==
    ASSUME NEW r, NEW files, RecordIssues(r, files) = {}
    PROVE  Clean(r)
  <1>1. \A code : code \notin RecordIssues(r, files)
    OBVIOUS
  <1>2. Incomplete(r) = {}
    <2>1. "command_incomplete" \notin RecordIssues(r, files)
      BY <1>1
    <2>2. QED
      BY <2>1 DEF RecordIssues, Waivable
  <1>3. \A i \in EventsOf(r, "command.authorized") :
            r.events[i].cap \in HighRisk => r.events[i].approval # 0
    <2>1. "unapproved_high_risk_operation" \notin RecordIssues(r, files)
      BY <1>1
    <2>2. QED
      BY <2>1 DEF RecordIssues, NonWaivable
  <1>4. ASSUME NEW c \in r.requested
        PROVE  Earned(r, c)
    <2>1. AcceptanceStatus(r, c, files) # "untrusted"
      <3>1. "untrusted_evidence" \notin RecordIssues(r, files)
        BY <1>1
      <3>2. QED
        BY <3>1 DEF RecordIssues, NonWaivable
    <2>2. AcceptanceStatus(r, c, files) \notin {"missing", "stale", "failed"}
      <3>1. "required_acceptance_failed" \notin RecordIssues(r, files)
        BY <1>1
      <3>2. QED
        BY <3>1 DEF RecordIssues, Waivable
    <2>3. AcceptanceStatus(r, c, files) \in
              {"missing", "untrusted", "stale", "passed", "failed"}
      BY DEF AcceptanceStatus
    <2>4. QED
      BY <2>1, <2>2, <2>3, PassedIsEarned
  <1>5. QED
    BY <1>2, <1>3, <1>4 DEF Clean
=============================================================================
