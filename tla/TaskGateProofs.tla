--------------------------- MODULE TaskGateProofs ---------------------------
(***************************************************************************)
(* Under the operation lock every write of a record is one TaskKernelProofs *)
(* knows to be sound, because what an invocation found out about a record  *)
(* is still true when it writes.  So limits and approvals are respected    *)
(* and a completed task has earned it, for any number of invocations,      *)
(* tasks and capabilities, and the kernel implements the completion gate:  *)
(* as long as nobody calls Executor.execute beside TaskService.            *)
(*                                                                         *)
(* The last part needs no such hypothesis: that an authorization is used   *)
(* once rests on the workspace lease.                                      *)
(***************************************************************************)
EXTENDS TaskKernelProofs

(* What an invocation at point x with locals l has found out about the     *)
(* record r of its task, and relies on when it writes.                     *)
KnowsAt(x, l, r) ==
    /\ x \in {"load_create", "create"} => l.requested # {}
    /\ x \in {"load_authorized", "authorized"} =>
           MayAuthorize(r, l.cap, l.revision, l.approval)
    /\ x \in {"load_execute", "execute", "execute_lease", "load_leased",
              "leased", "load_started", "started"} =>
           WithinRetry(r, l.cap)
    /\ x \in {"load_started", "started"} => ValidAuthorization(r, l.cap, l.auth)
    /\ x \in {"spawn", "running", "load_finished", "finished"} =>
           MayFinish(r, l.cap, l.auth, l.attempt)
    /\ x \in {"load_finalize", "finalize"} /\ l.issues = {} => Clean(r)

Knows(p) == KnowsAt(pc[p], loc[p], store[loc[p].task])

(* Points of an invocation that was given an id for a new approval.        *)
Granting == {"planned", "load_grant", "grant", "load_granted", "granted"}

(* Nobody else has that id: not a grant on disk, not another invocation.   *)
FreshApprovals ==
    /\ \A t \in Tasks : \A i \in Grants(store[t]) :
           store[t].events[i].approval \in 1..planned
    /\ \A p \in Procs : pc[p] \in Granting =>
           /\ loc[p].approval \in 1..planned
           /\ \A t \in Tasks : \A i \in Grants(store[t]) :
                  store[t].events[i].approval # loc[p].approval
           /\ \A q \in Procs \ {p} :
                  pc[q] \in Granting => loc[q].approval # loc[p].approval

(* The clock is never behind what was dated by it.                         *)
DatedInv == \A t \in Tasks : Dated(store[t], now)

SoundInv ==
    /\ \A t \in Tasks : Sound(store[t])
    /\ DatedInv
    /\ \A p \in Procs : Knows(p)
    /\ FreshApprovals

GateInv == HistoryInv /\ SoundInv

(* What a step of p owes the others: it writes only what it found out to   *)
(* be right, and gives no new approval an id that somebody has.            *)
Changes(p, e) ==
    LET t == loc[p].task
    IN  /\ t \in Tasks
        /\ store' = [store EXCEPT ![t] = store'[t]]
        /\ Writes(store[t], store'[t], e)
        /\ e.type = "approval.granted" =>
               /\ pc[p] \in Granting /\ pc'[p] \notin Granting
               /\ e.approval = loc[p].approval
        /\ e.type = "command.authorized" => e.time = now

Learns(p) ==
    /\ KnowsAt(pc'[p], loc'[p], store'[loc'[p].task])
    /\ planned' = planned /\ now' = now
    /\ pc'[p] \in Granting =>
           pc[p] \in Granting /\ loc'[p].approval = loc[p].approval
    /\ UNCHANGED store \/ \E e : Changes(p, e)

----------------------------------------------------------------------------
(* A step that Keeps the lock discipline and Learns keeps the invariant *)

LEMMA LearnsSound ==
    ASSUME GateInv, NEW p \in Procs, Learns(p)
    PROVE  \A t \in Tasks : Sound(store'[t])
  <1> SUFFICES ASSUME NEW t \in Tasks
               PROVE  Sound(store'[t])
    OBVIOUS
  <1>0. store \in [Tasks -> Record] /\ Sound(store[t])
    BY DEF GateInv, SoundInv, HistoryInv, TypeInv, TypeOK
  <1>1. ASSUME NEW e, Changes(p, e), t = loc[p].task
        PROVE  Sound(store'[t])
    BY <1>0, <1>1, SoundKept DEF Changes
  <1>2. ASSUME NEW e, Changes(p, e), t # loc[p].task
        PROVE  Sound(store'[t])
    BY <1>0, <1>2 DEF Changes
  <1>3. QED
    BY <1>0, <1>1, <1>2 DEF Learns

LEMMA LearnsDated ==
    ASSUME GateInv, NEW p \in Procs, Learns(p)
    PROVE  DatedInv'
  <1> SUFFICES ASSUME NEW t \in Tasks
               PROVE  Dated(store'[t], now')
    BY DEF DatedInv
  <1>0. store[t] \in Record /\ Dated(store[t], now) /\ now' = now /\ now \in Nat
    BY DEF GateInv, SoundInv, DatedInv, HistoryInv, TypeInv, TypeOK, Learns
  <1>1. ASSUME NEW e, Changes(p, e), t = loc[p].task
        PROVE  Dated(store'[t], now')
    <2>1. Adds(store[t], store'[t], e)
      BY <1>1, WriteTypes DEF Changes
    <2>2. ASSUME NEW j \in EventsOf(store'[t], "command.authorized")
          PROVE  store'[t].events[j].time <= now
      <3>1. CASE j \in EventsOf(store[t], "command.authorized")
        BY <1>0, <2>1, <3>1, AddedBefore DEF Dated
      <3>2. CASE j \notin EventsOf(store[t], "command.authorized")
        <4>1. j = Len(store[t].events) + 1 /\ e.type = "command.authorized"
          BY <1>0, <2>1, <2>2, <3>2, AddedOf
        <4>2. store'[t].events[j] = e
          BY <1>0, <2>1, <4>1, AddedAt
        <4>3. QED
          BY <1>0, <1>1, <4>1, <4>2 DEF Changes
      <3>3. QED
        BY <3>1, <3>2
    <2>3. QED
      BY <1>0, <2>2 DEF Dated
  <1>2. CASE t # loc[p].task \/ UNCHANGED store
    <2>1. store'[t] = store[t]
      BY <1>2 DEF Learns, Changes, GateInv, HistoryInv, TypeInv, TypeOK
    <2>2. QED
      BY <1>0, <2>1
  <1>3. QED
    BY <1>1, <1>2 DEF Learns

LEMMA LearnsKnown ==
    ASSUME ~Presented, GateInv, NEW p \in Procs, Keeps(p), Learns(p)
    PROVE  \A q \in Procs : KnowsAt(pc'[q], loc'[q], store'[loc'[q].task])
  <1> SUFFICES ASSUME NEW q \in Procs
               PROVE  KnowsAt(pc'[q], loc'[q], store'[loc'[q].task])
    OBVIOUS
  <1>1. CASE q = p
    BY <1>1 DEF Learns
  <1>2. CASE q # p
    <2>1. pc'[q] = pc[q] /\ loc'[q] = loc[q]
      BY <1>2 DEF Keeps
    <2>2. CASE pc[q] \in Unlocked
      BY <2>1, <2>2 DEF KnowsAt, Unlocked
    <2>3. CASE pc[q] \notin Unlocked
      <3>1. lock = q
        BY <2>3 DEF GateInv, HistoryInv, LockInv, LockHeld
      <3>2. store' = store
        BY <1>2, <3>1 DEF Keeps
      <3>3. QED
        BY <2>1, <3>2 DEF GateInv, SoundInv, Knows
    <2>4. QED
      BY <2>2, <2>3
  <1>3. QED
    BY <1>1, <1>2

LEMMA AddedGrant ==
    ASSUME NEW r \in Record, NEW s, NEW e, Adds(r, s, e), NEW i \in Grants(s)
    PROVE  \/ i \in Grants(r) /\ s.events[i] = r.events[i]
           \/ e.type = "approval.granted" /\ s.events[i] = e
  <1>1. CASE i \in Grants(r)
    BY <1>1, AddedBefore DEF Grants
  <1>2. CASE i \notin Grants(r)
    <2>1. i = Len(r.events) + 1 /\ e.type = "approval.granted"
      BY <1>2, AddedOf DEF Grants
    <2>2. QED
      BY <2>1, AddedAt
  <1>3. QED
    BY <1>1, <1>2

(* The ids in use after a write of p. *)
LEMMA GrantsAfter ==
    ASSUME GateInv, NEW p \in Procs, Learns(p), NEW t \in Tasks,
           NEW i \in Grants(store'[t])
    PROVE  \/ /\ i \in Grants(store[t])
              /\ store'[t].events[i] = store[t].events[i]
           \/ /\ pc[p] \in Granting /\ pc'[p] \notin Granting
              /\ store'[t].events[i].approval = loc[p].approval
  <1>0. store \in [Tasks -> Record]
    BY DEF GateInv, HistoryInv, TypeInv, TypeOK
  <1>1. CASE store'[t] = store[t]
    BY <1>1
  <1>2. CASE store'[t] # store[t]
    <2>1. PICK e : Changes(p, e)
      BY <1>2 DEF Learns
    <2>2. t = loc[p].task
      BY <1>0, <1>2, <2>1 DEF Changes
    <2>3. Adds(store[t], store'[t], e)
      BY <2>1, <2>2, WriteTypes DEF Changes
    <2>4. CASE i \in Grants(store[t]) /\ store'[t].events[i] = store[t].events[i]
      BY <2>4
    <2>5. CASE e.type = "approval.granted" /\ store'[t].events[i] = e
      BY <2>1, <2>5 DEF Changes
    <2>6. QED
      BY <1>0, <2>3, <2>4, <2>5, AddedGrant
  <1>3. QED
    BY <1>1, <1>2

LEMMA LearnsFresh ==
    ASSUME GateInv, NEW p \in Procs, Learns(p),
           \A q \in Procs \ {p} : pc'[q] = pc[q] /\ loc'[q] = loc[q]
    PROVE  FreshApprovals'
  <1>0. FreshApprovals /\ planned' = planned
    BY DEF GateInv, SoundInv, Learns
  <1>1. ASSUME NEW q \in Procs, pc'[q] \in Granting
        PROVE  pc[q] \in Granting /\ loc'[q].approval = loc[q].approval
    BY <1>1 DEF Learns
  <1>2. ASSUME NEW t \in Tasks, NEW i \in Grants(store'[t])
        PROVE  store'[t].events[i].approval \in 1..planned
    BY <1>0, GrantsAfter DEF FreshApprovals
  <1>3. ASSUME NEW q \in Procs, pc'[q] \in Granting,
               NEW t \in Tasks, NEW i \in Grants(store'[t])
        PROVE  store'[t].events[i].approval # loc'[q].approval
    <2>1. pc[q] \in Granting /\ loc'[q].approval = loc[q].approval
      BY <1>1, <1>3
    <2>2. CASE i \in Grants(store[t]) /\ store'[t].events[i] = store[t].events[i]
      BY <1>0, <2>1, <2>2 DEF FreshApprovals
    <2>3. CASE /\ pc[p] \in Granting /\ pc'[p] \notin Granting
               /\ store'[t].events[i].approval = loc[p].approval
      <3>1. q # p
        BY <1>3, <2>3
      <3>2. QED
        BY <1>0, <2>1, <2>3, <3>1 DEF FreshApprovals
    <2>4. QED
      BY <2>2, <2>3, GrantsAfter
  <1>4. ASSUME NEW q \in Procs, pc'[q] \in Granting
        PROVE  /\ loc'[q].approval \in 1..planned
               /\ \A k \in Procs \ {q} :
                      pc'[k] \in Granting => loc'[k].approval # loc'[q].approval
    BY <1>0, <1>1, <1>4 DEF FreshApprovals
  <1>5. QED
    BY <1>0, <1>2, <1>3, <1>4 DEF FreshApprovals

LEMMA LearnsInv ==
    ASSUME ~Presented, GateInv, NEW p \in Procs, Keeps(p), Learns(p)
    PROVE  SoundInv'
  <1>1. \A t \in Tasks : Sound(store'[t])
    BY LearnsSound
  <1>2. \A q \in Procs : KnowsAt(pc'[q], loc'[q], store'[loc'[q].task])
    BY LearnsKnown
  <1>3. FreshApprovals'
    BY LearnsFresh DEF Keeps
  <1>4. QED
    BY <1>1, <1>2, <1>3, LearnsDated DEF SoundInv, Knows

----------------------------------------------------------------------------
(* Every step Learns: steps that do not write *)

LEMMA IdleLearns ==
    ASSUME TypeOK, NEW p \in Procs, NEW x \in {"idle", "release"}, Goto(p, x),
           UNCHANGED <<store, planned, now>>
    PROVE  Learns(p)
  <1>1. pc'[p] = x
    BY DEF Goto, TypeOK
  <1>2. QED
    BY <1>1 DEF Learns, KnowsAt, Granting

LEMMA GiveUpLearns ==
    ASSUME TypeOK, NEW p \in Procs, GiveUp(p)
    PROVE  Learns(p)
  BY IdleLearns DEF GiveUp, disk, environment

LEMMA StopLearns ==
    ASSUME TypeOK, NEW p \in Procs, Release(p) \/ Crash(p)
    PROVE  Learns(p)
  BY IdleLearns DEF Release, Crash, disk, environment

LEMMA BeginLearns ==
    ASSUME TypeOK, NEW p \in Procs, NEW op, NEW x, NEW l, Begin(p, op, x, l),
           x \notin Granting, KnowsAt(x, l, store[l.task])
    PROVE  Learns(p)
  <1>1. pc'[p] = x /\ loc'[p] = l /\ UNCHANGED <<store, planned, now>>
    BY DEF Begin, Goto, TypeOK, disk, environment
  <1>2. QED
    BY <1>1 DEF Learns

(* Every invocation but plan_approval. *)
LEMMA InvokeLearns ==
    ASSUME TypeOK, ~Presented, NEW p \in Procs, Invoke(p),
           ~\E t \in Tasks, c \in Caps, uses \in 1..MaxUses :
               PlanApproval(p, t, c, uses)
    PROVE  Learns(p)
  <1>1. ASSUME NEW t, NEW caps \in (SUBSET Caps) \ {{}}, NEW scope, NEW retry,
               BeginStart(p, t, caps, scope, retry)
        PROVE  Learns(p)
    <2> DEFINE l == [NoLocals EXCEPT !.task = t, !.requested = caps,
                                     !.scope = scope, !.retry = retry]
    <2>1. NoLocals \in Locals
      BY NoLocalsType
    <2>2. l.requested # {}
      <3>1. l.requested = caps
        BY <2>1 DEF Locals
      <3>2. caps # {}
        OBVIOUS
      <3> HIDE DEF l
      <3>3. QED
        BY <3>1, <3>2
    <2>3. Begin(p, "start", "load_create", l)
      BY <1>1 DEF BeginStart
    <2> HIDE DEF l
    <2>4. KnowsAt("load_create", l, store[l.task])
      BY <2>2 DEF KnowsAt
    <2>5. QED
      BY <2>3, <2>4, BeginLearns DEF Granting
  <1>2. ASSUME NEW op, NEW l, NEW x \in {"load_amend", "load_cancel",
                                         "load_authorize", "load_target"},
               Begin(p, op, x, l)
        PROVE  Learns(p)
    <2>1. KnowsAt(x, l, store[l.task])
      BY DEF KnowsAt
    <2>2. QED
      BY <1>2, <2>1, BeginLearns DEF Granting
  <1>3. ASSUME NEW t, NEW auth, BeginExecute(p, t, auth)
        PROVE  Learns(p)
    BY <1>3 DEF BeginExecute, Presented
  <1>4. QED
    BY <1>1, <1>2, <1>3
       DEF Invoke, BeginAmend, BeginCancel, BeginRun, BeginVerify

LEMMA ConfirmLearns ==
    ASSUME TypeOK, NEW p \in Procs, Confirm(p)
    PROVE  Learns(p)
  <1>1. /\ pc[p] = "planned" /\ pc'[p] = "load_grant"
        /\ loc' = loc /\ UNCHANGED <<store, planned, now>>
    BY DEF Confirm, Goto, TypeOK, disk, environment
  <1>2. QED
    BY <1>1 DEF Learns, KnowsAt, Granting

(* A read changes what p has seen, not what it has found out. *)
LEMMA LoadLearns ==
    ASSUME TypeOK, NEW p \in Procs, Knows(p), Load(p)
    PROVE  Learns(p)
  <1> DEFINE l == loc[p]
             k == [l EXCEPT !.rec = store[l.task]]
  <1>1. l \in Locals
    BY DEF TypeOK
  <1>2. /\ pc[p] \in LoadPoints /\ pc'[p] = AfterLoad[pc[p]]
        /\ loc'[p] = k /\ UNCHANGED <<store, planned, now>>
    BY DEF Load, Goto, TypeOK, disk, environment
  <1>3. /\ k.task = l.task /\ k.requested = l.requested /\ k.cap = l.cap
        /\ k.revision = l.revision /\ k.approval = l.approval
        /\ k.auth = l.auth /\ k.attempt = l.attempt /\ k.issues = l.issues
    BY <1>1 DEF Locals
  <1> HIDE DEF k, l
  <1>4. KnowsAt(AfterLoad[pc[p]], k, store[k.task])
    <2>1. KnowsAt(pc[p], l, store[l.task])
      BY DEF Knows, l
    <2>2. QED
      BY <1>2, <1>3, <2>1 DEF KnowsAt, LoadPoints, AfterLoad
  <1>5. AfterLoad[pc[p]] \in Granting => pc[p] \in Granting
    BY <1>2 DEF Granting, LoadPoints, AfterLoad
  <1>6. QED
    BY <1>2, <1>3, <1>4, <1>5 DEF Learns, l

(* A step inside an operation that leaves what p needs later as it was. *)
LEMMA MoveLearns ==
    ASSUME TypeOK, NEW p \in Procs, NEW x, NEW l, Goto(p, x),
           loc' = [loc EXCEPT ![p] = l], UNCHANGED <<store, planned, now>>,
           KnowsAt(x, l, store[l.task]),
           x \in Granting => pc[p] \in Granting /\ l.approval = loc[p].approval
    PROVE  Learns(p)
  <1>1. pc'[p] = x /\ loc'[p] = l
    BY DEF Goto, TypeOK
  <1>2. QED
    BY <1>1 DEF Learns

LEMMA GrantLearns ==
    ASSUME TypeOK, NEW p \in Procs, Grant(p)
    PROVE  Learns(p)
  <1>1. pc[p] = "grant" /\ pc'[p] = "load_granted" /\ loc' = loc
        /\ UNCHANGED <<store, planned, now>>
    BY DEF Grant, Goto, TypeOK, disk, environment
  <1>2. QED
    BY <1>1 DEF Learns, KnowsAt, Granting

(* What the gateway lets through may be recorded. *)
LEMMA AuthorizableMay ==
    ASSUME NEW r \in Record, NEW c, NEW h, NEW n \in Nat, Authorizable(r, c, h, n),
           NEW approval \in ApprovalFor(r, c, n), Dated(r, n)
    PROVE  MayAuthorize(r, c, r.revision, approval)
  <1>1. c \in r.requested /\ WithinBudget(r, c)
    BY DEF Authorizable, Permitted
  <1>2. r.revision <= r.revision
    BY DEF Record
  <1>3. CASE c \in NeedsApproval
    <2>1. PICK i \in FirstUsable(r, c, n) : r.events[i].approval = approval
      BY <1>3 DEF ApprovalFor
    <2>2. i \in UsableGrants(r, c, n)
      BY <2>1 DEF FirstUsable
    <2>3. /\ i \in EventsFor(r, "approval.granted", c)
          /\ n < r.events[i].time
          /\ Cardinality(UsesOf(r, approval)) < r.events[i].uses
      BY <2>1, <2>2 DEF UsableGrants
    <2>4. i \in DOMAIN r.events
      BY <2>3 DEF EventsFor, EventsOf
    <2>5. ChargedTo(r, i, c, approval)
      BY <2>1, <2>3 DEF ChargedTo
    <2>6. LateUsesOf(r, i) = {}
      <3>1. SUFFICES ASSUME NEW j \in LateUsesOf(r, i)
                     PROVE  FALSE
        OBVIOUS
      <3>2. j \in EventsOf(r, "command.authorized")
            /\ r.events[j].time >= r.events[i].time
        BY DEF LateUsesOf, UsesOf
      <3>3. r.events[j].time <= n
        BY <3>2 DEF Dated
      <3>4. r.events[j].time \in Nat /\ r.events[i].time \in Nat
        BY <2>4, <3>2, EventAt DEF Event, EventsOf
      <3>5. QED
        BY <2>3, <3>2, <3>3, <3>4
    <2>7. QED
      BY <1>1, <1>2, <1>3, <2>3, <2>4, <2>5, <2>6 DEF MayAuthorize
  <1>4. CASE c \notin NeedsApproval
    BY <1>1, <1>2, <1>4 DEF ApprovalFor, MayAuthorize
  <1>5. QED
    BY <1>3, <1>4

LEMMA AuthorizeLearns ==
    ASSUME GateInv, ~Presented, NEW p \in Procs, Authorize(p)
    PROVE  Learns(p)
  <1> DEFINE me == loc[p]
  <1>0. /\ TypeOK /\ me \in Locals /\ me.rec \in Record /\ me.rec = store[me.task]
        /\ me.task \in Tasks /\ now \in Nat
    BY LoadedPoints
       DEF GateInv, HistoryInv, LockInv, LoadedIsCurrent, TypeInv, TypeOK, TaskKnown,
           Locals, Authorize
  <1>1. PICK approval \in ApprovalFor(me.rec, me.cap, now) :
           loc' = [loc EXCEPT ![p].approval = approval,
                              ![p].revision = me.rec.revision]
    BY DEF Authorize
  <1> DEFINE l == [me EXCEPT !.approval = approval, !.revision = me.rec.revision]
  <1>2. loc' = [loc EXCEPT ![p] = l]
    BY <1>0, <1>1 DEF TypeOK
  <1>3. /\ l.task = me.task /\ l.cap = me.cap /\ l.approval = approval
        /\ l.revision = me.rec.revision
    BY <1>0 DEF Locals
  <1>4. MayAuthorize(me.rec, me.cap, me.rec.revision, approval)
    <2>1. Dated(me.rec, now)
      BY <1>0 DEF GateInv, SoundInv, DatedInv
    <2>2. Authorizable(me.rec, me.cap, head, now)
      BY DEF Authorize
    <2>3. QED
      BY <1>0, <2>1, <2>2, AuthorizableMay
  <1>5. Goto(p, "load_authorized") /\ UNCHANGED <<store, planned, now>>
    BY DEF Authorize, disk, environment
  <1> HIDE DEF l, me
  <1>6. KnowsAt("load_authorized", l, store[l.task])
    BY <1>0, <1>3, <1>4 DEF KnowsAt
  <1>7. QED
    BY <1>0, <1>2, <1>5, <1>6, MoveLearns DEF Granting

(* Steps of the executor and of the verifier that p only moves by, or that *)
(* change nothing it relies on.                                            *)
LEMMA PassLearns ==
    ASSUME TypeOK, NEW p \in Procs, Knows(p),
           ExecuteChecked(p) \/ TakeLease(p) \/ Spawn(p)
    PROVE  Learns(p)
  <1>1. loc' = loc /\ UNCHANGED <<store, planned, now>>
    BY DEF ExecuteChecked, TakeLease, Spawn, disk, environment
  <1>2. \/ pc[p] = "execute" /\ pc'[p] = "execute_lease"
        \/ pc[p] = "execute_lease" /\ pc'[p] = "load_leased"
        \/ pc[p] = "verify_lease" /\ pc'[p] = "load_verify"
        \/ pc[p] = "spawn" /\ pc'[p] = "running"
    BY DEF ExecuteChecked, TakeLease, Spawn, Goto, TypeOK, LeasePoints, AfterLease
  <1>3. KnowsAt(pc[p], loc[p], store[loc[p].task])
    BY DEF Knows
  <1>4. KnowsAt(pc'[p], loc[p], store[loc[p].task])
    BY <1>2, <1>3 DEF KnowsAt
  <1>5. pc'[p] \notin Granting
    BY <1>2 DEF Granting
  <1>6. QED
    BY <1>1, <1>4, <1>5 DEF Learns

LEMMA StatusLearns ==
    ASSUME TypeOK, NEW p \in Procs, Knows(p), SpawnFails(p) \/ CommandEnds(p)
    PROVE  Learns(p)
  <1> DEFINE me == loc[p]
  <1>1. PICK status : loc' = [loc EXCEPT ![p].status = status]
    BY DEF SpawnFails, CommandEnds
  <1> DEFINE l == [me EXCEPT !.status = status]
  <1>2. me \in Locals
    BY DEF TypeOK
  <1>3. loc' = [loc EXCEPT ![p] = l]
    BY <1>1 DEF TypeOK
  <1>4. /\ l.task = me.task /\ l.cap = me.cap /\ l.auth = me.auth
        /\ l.attempt = me.attempt
    BY <1>2 DEF Locals
  <1>5. /\ pc[p] \in {"spawn", "running"} /\ Goto(p, "load_finished")
        /\ UNCHANGED <<store, planned, now>>
    BY DEF SpawnFails, CommandEnds, disk, environment
  <1>6. KnowsAt(pc[p], me, store[me.task])
    BY DEF Knows
  <1> HIDE DEF l, me
  <1>7. KnowsAt("load_finished", l, store[l.task])
    BY <1>4, <1>5, <1>6 DEF KnowsAt
  <1>8. QED
    BY <1>3, <1>5, <1>7, MoveLearns DEF Granting

LEMMA PrepareLearns ==
    ASSUME HistoryInv, ~Presented, NEW p \in Procs, Knows(p), PrepareExecution(p)
    PROVE  Learns(p)
  <1> DEFINE me == loc[p]
             l == [me EXCEPT !.attempt = NextAttempt(p)]
  <1>0. /\ TypeOK /\ me \in Locals /\ me.rec = store[me.task]
    BY LoadedPoints
       DEF HistoryInv, LockInv, LoadedIsCurrent, TypeInv, TypeOK, PrepareExecution
  <1>1. loc' = [loc EXCEPT ![p] = l]
    BY <1>0 DEF PrepareExecution, TypeOK
  <1>2. l.task = me.task /\ l.cap = me.cap /\ l.auth = me.auth
    BY <1>0 DEF Locals
  <1>3. /\ pc[p] = "leased" /\ Goto(p, "load_started")
        /\ UNCHANGED <<store, planned, now>>
    BY DEF PrepareExecution, environment
  <1>4. ValidAuthorization(me.rec, me.cap, me.auth)
    BY DEF PrepareExecution, Executable
  <1>5. KnowsAt(pc[p], me, store[me.task])
    BY DEF Knows
  <1> HIDE DEF l, me
  <1>6. KnowsAt("load_started", l, store[l.task])
    BY <1>0, <1>2, <1>3, <1>4, <1>5 DEF KnowsAt
  <1>7. QED
    BY <1>0, <1>1, <1>3, <1>6, MoveLearns DEF Granting

LEMMA CheckLearns ==
    ASSUME TypeOK, NEW p \in Procs, CheckWorkspace(p) \/ CheckDiff(p)
    PROVE  Learns(p)
  <1>1. pc'[p] \in {"check_diff", "decide"} /\ UNCHANGED <<store, planned, now>>
    BY DEF CheckWorkspace, CheckDiff, Goto, TypeOK, disk, environment
  <1>2. QED
    BY <1>1 DEF Learns, KnowsAt, Granting

(* The Verifier completes a task on issues it found under the lock. *)
LEMMA DecideLearns ==
    ASSUME HistoryInv, ~Presented, NEW p \in Procs, Decide(p)
    PROVE  Learns(p)
  <1> DEFINE me == loc[p]
             l == [me EXCEPT !.issues = AllIssues(p),
                             !.revision = me.rec.revision]
  <1>0. /\ TypeOK /\ me \in Locals /\ me.rec = store[me.task]
    BY LoadedPoints
       DEF HistoryInv, LockInv, LoadedIsCurrent, TypeInv, TypeOK, Decide
  <1>1. loc' = [loc EXCEPT ![p] = l]
    BY <1>0 DEF Decide, TypeOK
  <1>2. l.task = me.task /\ l.issues = AllIssues(p)
    BY <1>0 DEF Locals
  <1>3. Goto(p, "load_finalize") /\ UNCHANGED <<store, planned, now>>
    BY DEF Decide, disk, environment
  <1>4. AllIssues(p) = {} => Clean(me.rec)
    <2>1. AllIssues(p) = {} => RecordIssues(me.rec, artifacts[me.task]) = {}
      BY DEF AllIssues
    <2>2. QED
      BY <2>1, NoIssuesClean
  <1> HIDE DEF l, me
  <1>5. KnowsAt("load_finalize", l, store[l.task])
    BY <1>0, <1>2, <1>4 DEF KnowsAt
  <1>6. QED
    BY <1>0, <1>1, <1>3, <1>5, MoveLearns DEF Granting

----------------------------------------------------------------------------
(* Every step Learns: the writes of TaskStore *)

LEMMA AppendAdds ==
    ASSUME NEW r \in Record, NEW e \in Event
    PROVE  LET s == AppendEvent(r, e)
           IN  /\ s \in Record /\ s.events = Append(r.events, e)
               /\ Adds(r, s, e) /\ SameEnvelope(r, s) /\ s.state = r.state
  <1> DEFINE s == AppendEvent(r, e)
  <1>1. s \in Record
    BY AppendEventType
  <1>2. /\ s.events = Append(r.events, e)
        /\ s.state = r.state /\ s.requested = r.requested
        /\ s.revision = r.revision /\ s.retry = r.retry
        /\ s.max_commands = r.max_commands
    BY DEF AppendEvent, Record
  <1>3. QED
    BY <1>1, <1>2 DEF Adds, SameEnvelope

LEMMA ActiveIsDraft ==
    ASSUME NEW r \in Record, Active(r)
    PROVE  r.state = "draft"
  BY DEF Record, States, Active

(* A write of p that is one TaskKernelProofs knows. *)
LEMMA WriteLearns ==
    ASSUME HistoryInv, ~Presented, NEW p \in Procs, pc[p] \in Loaded,
           NEW s, NEW x, NEW e, Persist(p, s, x), Writes(loc[p].rec, s, e),
           x \notin Granting,
           e.type = "approval.granted" =>
               pc[p] \in Granting /\ e.approval = loc[p].approval,
           e.type = "command.authorized" => e.time = now,
           loc'[p].task = loc[p].task,
           KnowsAt(x, loc'[p], s)
    PROVE  Learns(p)
  <1> DEFINE t == loc[p].task
  <1>1. /\ TypeOK /\ t \in Tasks /\ loc[p].rec = store[t]
    BY LoadedPoints
       DEF HistoryInv, LockInv, LoadedIsCurrent, TypeInv, TypeOK, TaskKnown
  <1>2. /\ store' = [store EXCEPT ![t] = s] /\ store'[t] = s
        /\ pc'[p] = x /\ planned' = planned /\ now' = now
    BY <1>1 DEF Persist, Goto, TypeOK, environment
  <1>3. store' = [store EXCEPT ![t] = store'[t]]
    BY <1>2
  <1>4. Changes(p, e)
    BY <1>1, <1>2, <1>3 DEF Changes
  <1>5. KnowsAt(pc'[p], loc'[p], store'[loc'[p].task])
    BY <1>2
  <1>6. QED
    BY <1>2, <1>4, <1>5 DEF Learns

LEMMA CreateLearns ==
    ASSUME HistoryInv, ~Presented, NEW p \in Procs, Knows(p), Create(p)
    PROVE  Learns(p)
  <1> DEFINE me == loc[p]
             e == NewEvent("task.created")
  <1>0. /\ TypeOK /\ me \in Locals /\ me.rec \in Record /\ me.task \in Tasks
        /\ pc[p] \in Loaded /\ me.rec = store[me.task] /\ me.rec.events = <<>>
    BY LoadedPoints
       DEF HistoryInv, LockInv, LoadedIsCurrent, AbsentEmpty, TypeInv, TypeOK,
           TaskKnown, Locals, Create
  <1>1. PICK mode \in Modes : Persist(p, Created(p, mode), "load_activation")
    BY DEF Create
  <1> DEFINE s == Created(p, mode)
  <1>2. TypeOK'
    BY StartType DEF HistoryInv, TypeInv
  <1>3. s \in Record
    BY <1>0, <1>1, <1>2 DEF Persist, TypeOK
  <1>4. e \in Event /\ e.type = "task.created"
    <2>1. e \in Event
      BY NewEventType DEF EventTypes
    <2>2. QED
      BY <2>1 DEF NewEvent
  <1>5. s.events = Append(me.rec.events, e)
    BY <1>0 DEF Created
  <1>6. me.requested # {}
    BY DEF Knows, KnowsAt, Create
  <1>7. me.rec.state = "absent" /\ s.state = "draft" /\ s.requested = me.requested
    BY DEF Create, Created
  <1>8. Writes(me.rec, s, e)
    BY <1>3, <1>4, <1>5, <1>6, <1>7 DEF Writes, Adds, Opens
  <1>9. loc'[p].task = me.task
    BY <1>0 DEF Create, TypeOK, Locals
  <1>10. KnowsAt("load_activation", loc'[p], s) /\ "load_activation" \notin Granting
    BY DEF KnowsAt, Granting
  <1>11. e.type # "approval.granted" /\ e.type # "command.authorized"
    BY <1>4
  <1> HIDE DEF e, s
  <1>12. QED
    BY <1>0, <1>1, <1>8, <1>9, <1>10, <1>11, WriteLearns DEF s

LEMMA AmendLearns ==
    ASSUME HistoryInv, ~Presented, NEW p \in Procs, Amend(p)
    PROVE  Learns(p)
  <1> DEFINE me == loc[p]
             r == Amended(me.rec, me.requested, me.scope)
             e == [NewEvent("task.amended") EXCEPT !.revision = r.revision]
             s == AppendEvent(r, e)
  <1>0. /\ TypeOK /\ me \in Locals /\ me.rec \in Record /\ pc[p] \in Loaded
    BY LoadedPoints
       DEF HistoryInv, LockInv, LoadedIsCurrent, TypeInv, TypeOK, Locals, Amend
  <1>1. Active(me.rec) /\ Persist(p, s, "release") /\ UNCHANGED loc
    BY DEF Amend
  <1>2. me.requested \in SUBSET Caps /\ me.scope \in SUBSET Paths
    BY <1>0 DEF Locals
  <1>3. r \in Record /\ r.events = me.rec.events
    BY <1>0, <1>2, AmendedType
  <1>4. /\ r.state = me.rec.state /\ r.retry = me.rec.retry
        /\ r.max_commands = me.rec.max_commands
        /\ r.revision = me.rec.revision + 1
        /\ me.rec.requested \subseteq r.requested
    BY <1>0 DEF Amended, Record
  <1>5. e \in Event /\ e.type = "task.amended"
    <2>1. NewEvent("task.amended") \in Event
      BY NewEventType DEF EventTypes
    <2>2. r.revision \in Nat
      BY <1>3 DEF Record
    <2>3. NewEvent("task.amended").type = "task.amended"
      BY DEF NewEvent
    <2>4. QED
      BY <2>1, <2>2, <2>3 DEF Event
  <1> HIDE DEF r, e
  <1>6. /\ s \in Record /\ s.events = Append(r.events, e)
        /\ SameEnvelope(r, s) /\ s.state = r.state
    BY <1>3, <1>5, AppendAdds
  <1> HIDE DEF s
  <1>7. me.rec.state = "draft"
    BY <1>0, <1>1, ActiveIsDraft
  <1>8. Adds(me.rec, s, e)
    BY <1>3, <1>5, <1>6 DEF Adds
  <1>9. Amends(me.rec, s, e)
    BY <1>4, <1>5, <1>6, <1>7 DEF Amends, SameEnvelope
  <1>10. Writes(me.rec, s, e)
    BY <1>7, <1>8, <1>9 DEF Writes
  <1>11. KnowsAt("release", loc'[p], s) /\ "release" \notin Granting
    BY DEF KnowsAt, Granting
  <1>12. QED
    BY <1>0, <1>1, <1>5, <1>10, <1>11, WriteLearns

(* Cancel and finalize: the terminal writes. *)
LEMMA EndLearns ==
    ASSUME HistoryInv, ~Presented, NEW p \in Procs, pc[p] \in Loaded,
           Active(loc[p].rec), NEW outcome \in TerminalStates,
           outcome = "completed" => Clean(loc[p].rec),
           NEW e \in Event,
           e.type \in {"task.cancelled", "task.completed", "task.accepted_with_risk"},
           Persist(p, AppendEvent([loc[p].rec EXCEPT !.state = outcome], e), "release"),
           UNCHANGED loc
    PROVE  Learns(p)
  <1> DEFINE r == loc[p].rec
             f == [r EXCEPT !.state = outcome]
             s == AppendEvent(f, e)
  <1>1. r \in Record
    BY DEF HistoryInv, TypeInv, TypeOK, Locals
  <1>2. /\ f \in Record /\ f.state = outcome /\ f.events = r.events
        /\ SameEnvelope(r, f)
    BY <1>1 DEF Record, States, SameEnvelope
  <1> HIDE DEF f
  <1>3. /\ s \in Record /\ s.events = Append(f.events, e)
        /\ SameEnvelope(f, s) /\ s.state = f.state
    BY <1>2, AppendAdds
  <1>4. Persist(p, s, "release")
    BY DEF f
  <1> HIDE DEF s
  <1>5. r.state = "draft"
    BY <1>1, ActiveIsDraft
  <1>6. Adds(r, s, e)
    BY <1>2, <1>3 DEF Adds
  <1>7. Ends(r, s, e)
    BY <1>2, <1>3 DEF Ends, SameEnvelope
  <1>8. Writes(r, s, e)
    BY <1>5, <1>6, <1>7 DEF Writes
  <1>9. KnowsAt("release", loc'[p], s) /\ "release" \notin Granting
    BY DEF KnowsAt, Granting
  <1>10. QED
    BY <1>4, <1>8, <1>9, WriteLearns

LEMMA CancelLearns ==
    ASSUME HistoryInv, ~Presented, NEW p \in Procs, Cancel(p)
    PROVE  Learns(p)
  <1> DEFINE e == NewEvent("task.cancelled")
  <1>1. e \in Event /\ e.type = "task.cancelled"
    <2>1. e \in Event
      BY NewEventType DEF EventTypes
    <2>2. QED
      BY <2>1 DEF NewEvent
  <1>2. /\ pc[p] \in Loaded /\ Active(loc[p].rec) /\ UNCHANGED loc
        /\ Persist(p, AppendEvent([loc[p].rec EXCEPT !.state = "abandoned"], e),
                   "release")
    BY LoadedPoints DEF Cancel
  <1> HIDE DEF e
  <1>3. "abandoned" \in TerminalStates
    BY DEF TerminalStates
  <1>4. QED
    BY <1>1, <1>2, <1>3, EndLearns

LEMMA FinalizeLearns ==
    ASSUME HistoryInv, ~Presented, NEW p \in Procs, Knows(p), Finalize(p)
    PROVE  Learns(p)
  <1> DEFINE me == loc[p]
             outcome == Outcome(me.issues, me.risk)
             e == [NewEvent(TerminalEvent[outcome]) EXCEPT !.revision = me.revision]
  <1>0. /\ me \in Locals /\ pc[p] \in Loaded /\ me.rec = store[me.task]
    BY LoadedPoints
       DEF HistoryInv, LockInv, LoadedIsCurrent, TypeInv, TypeOK, Finalize
  <1>1. /\ Active(me.rec) /\ UNCHANGED loc
        /\ Persist(p, AppendEvent([me.rec EXCEPT !.state = outcome], e), "release")
    BY DEF Finalize
  <1>2. outcome \in {"completed", "accepted_with_risk"}
    BY DEF Finalize, TerminalEvent
  <1>3. outcome = "completed" => me.issues = {}
    BY DEF Outcome
  <1>4. outcome = "completed" => Clean(me.rec)
    BY <1>0, <1>3 DEF Knows, KnowsAt, Finalize
  <1>5. TerminalEvent[outcome] \in {"task.completed", "task.accepted_with_risk"}
    BY <1>2 DEF TerminalEvent
  <1> HIDE DEF outcome
  <1>6. /\ e \in Event
        /\ e.type \in {"task.cancelled", "task.completed", "task.accepted_with_risk"}
    <2>1. NewEvent(TerminalEvent[outcome]) \in Event
      BY <1>5, NewEventType DEF EventTypes
    <2>2. NewEvent(TerminalEvent[outcome]).type = TerminalEvent[outcome]
      BY DEF NewEvent
    <2>3. me.revision \in Nat
      BY <1>0 DEF Locals
    <2>4. QED
      BY <1>5, <2>1, <2>2, <2>3 DEF Event
  <1>7. outcome \in TerminalStates
    BY <1>2 DEF TerminalStates
  <1> HIDE DEF e
  <1>8. QED
    BY <1>0, <1>1, <1>4, <1>6, <1>7, EndLearns

(* An event appended to the record that was read. *)
LEMMA EventWrite ==
    ASSUME TypeOK, NEW p \in Procs, NEW x, NEW e \in Event, PersistEvent(p, e, x)
    PROVE  LET r == loc[p].rec
               s == AppendEvent(r, e)
           IN  /\ r \in Record /\ r.state = "draft" /\ s.state = "draft"
               /\ Adds(r, s, e) /\ SameEnvelope(r, s) /\ Persist(p, s, x)
  <1>1. loc[p].rec \in Record
    BY DEF TypeOK, Locals
  <1>2. loc[p].rec.state = "draft"
    BY <1>1, ActiveIsDraft DEF PersistEvent
  <1>3. QED
    BY <1>1, <1>2, AppendAdds DEF PersistEvent

LEMMA ActivationLearns ==
    ASSUME HistoryInv, ~Presented, NEW p \in Procs, RecordActivation(p)
    PROVE  Learns(p)
  <1> DEFINE e == NewEvent("module.activation")
             r == loc[p].rec
             s == AppendEvent(r, e)
  <1>0. /\ TypeOK /\ loc[p] \in Locals /\ pc[p] \in Loaded
        /\ PersistEvent(p, e, "load_activation")
    BY LoadedPoints DEF HistoryInv, TypeInv, TypeOK, RecordActivation
  <1>1. e \in Event /\ e.type = "module.activation"
    <2>1. e \in Event
      BY NewEventType DEF EventTypes
    <2>2. QED
      BY <2>1 DEF NewEvent
  <1>2. loc'[p].task = loc[p].task
    BY <1>0 DEF RecordActivation, TypeOK, Locals
  <1> HIDE DEF e
  <1>3. /\ r.state = "draft" /\ s.state = "draft" /\ Adds(r, s, e)
        /\ SameEnvelope(r, s) /\ Persist(p, s, "load_activation")
    BY <1>0, <1>1, EventWrite
  <1> HIDE DEF s
  <1>4. Writes(r, s, e)
    BY <1>1, <1>3 DEF Writes, NotesActivation
  <1>5. KnowsAt("load_activation", loc'[p], s) /\ "load_activation" \notin Granting
    BY DEF KnowsAt, Granting
  <1>6. QED
    BY <1>0, <1>1, <1>2, <1>3, <1>4, <1>5, WriteLearns

LEMMA RecordGrantLearns ==
    ASSUME GateInv, ~Presented, NEW p \in Procs, RecordGrant(p)
    PROVE  Learns(p)
  <1> DEFINE me == loc[p]
             e == [NewEvent("approval.granted") EXCEPT
                      !.cap = me.cap, !.approval = me.approval,
                      !.uses = me.uses, !.time = me.expires]
             r == me.rec
             s == AppendEvent(r, e)
  <1>0. /\ HistoryInv /\ TypeOK /\ me \in Locals /\ pc[p] = "granted"
        /\ pc[p] \in Loaded /\ r = store[me.task] /\ me.task \in Tasks
        /\ PersistEvent(p, e, "release") /\ UNCHANGED loc
    BY LoadedPoints
       DEF GateInv, HistoryInv, LockInv, LoadedIsCurrent, TypeInv, TypeOK,
           TaskKnown, RecordGrant
  <1>1. e \in Event /\ e.type = "approval.granted" /\ e.approval = me.approval
    <2>1. NewEvent("approval.granted") \in Event
      BY NewEventType DEF EventTypes
    <2>2. NewEvent("approval.granted").type = "approval.granted"
      BY DEF NewEvent
    <2>3. QED
      BY <1>0, <2>1, <2>2 DEF Event, Locals
  <1> HIDE DEF e
  <1>2. /\ r.state = "draft" /\ s.state = "draft" /\ Adds(r, s, e)
        /\ SameEnvelope(r, s) /\ Persist(p, s, "release")
    BY <1>0, <1>1, EventWrite
  <1> HIDE DEF s
  <1>3. /\ e.approval # 0
        /\ \A i \in Grants(r) : r.events[i].approval # e.approval
    <2>1. pc[p] \in Granting
      BY <1>0 DEF Granting
    <2>2. planned \in Nat
      BY <1>0 DEF TypeOK
    <2>3. me.approval \in 1..planned
      BY <2>1 DEF GateInv, SoundInv, FreshApprovals
    <2>4. \A i \in Grants(r) : r.events[i].approval # me.approval
      BY <1>0, <2>1 DEF GateInv, SoundInv, FreshApprovals
    <2>5. QED
      BY <1>1, <2>2, <2>3, <2>4
  <1>4. Writes(r, s, e)
    BY <1>1, <1>2, <1>3 DEF Writes, NotesGrant
  <1>5. KnowsAt("release", loc'[p], s) /\ "release" \notin Granting
        /\ pc[p] \in Granting
    BY <1>0 DEF KnowsAt, Granting
  <1>6. QED
    BY <1>0, <1>1, <1>2, <1>4, <1>5, WriteLearns

(* Recording an authorization leaves room for the start it is for. *)
LEMMA RetryLeft ==
    ASSUME NEW r \in Record, NEW s, NEW e, Adds(r, s, e), SameEnvelope(r, s),
           e.type = "command.authorized", NEW c, WithinBudget(r, c)
    PROVE  WithinRetry(s, c)
  <1>1. /\ Cardinality(EventsFor(r, "command.started", c)) \in Nat
        /\ Cardinality(EventsFor(s, "command.started", c)) =
               Cardinality(EventsFor(r, "command.started", c))
    BY AddedCountFor
  <1>2. Cardinality(EventsFor(r, "command.started", c)) < r.retry + 1
    BY DEF WithinBudget
  <1>3. r.retry \in Nat /\ s.retry = r.retry
    BY DEF Record, SameEnvelope
  <1>4. QED
    BY <1>1, <1>2, <1>3 DEF WithinRetry

LEMMA RecordAuthorizationLearns ==
    ASSUME HistoryInv, ~Presented, NEW p \in Procs, Knows(p), RecordAuthorization(p)
    PROVE  Learns(p)
  <1> DEFINE me == loc[p]
             e == [NewEvent("command.authorized") EXCEPT
                      !.cap = me.cap, !.revision = me.revision,
                      !.approval = me.approval, !.time = now]
             r == me.rec
             s == AppendEvent(r, e)
             l == [me EXCEPT !.auth = Len(r.events) + 1]
  <1>0. /\ TypeOK /\ me \in Locals /\ pc[p] = "authorized"
        /\ pc[p] \in Loaded /\ r = store[me.task] /\ r \in Record
        /\ PersistEvent(p, e, "load_execute") /\ loc'[p] = l
    BY LoadedPoints
       DEF HistoryInv, LockInv, LoadedIsCurrent, TypeInv, TypeOK,
           TaskKnown, RecordAuthorization, Locals
  <1>1. l.task = me.task /\ l.cap = me.cap
    BY <1>0 DEF Locals
  <1> HIDE DEF l
  <1>2. /\ e \in Event /\ e.type = "command.authorized" /\ e.cap = me.cap
        /\ e.revision = me.revision /\ e.approval = me.approval
        /\ e.time = now
    <2>1. NewEvent("command.authorized") \in Event
      BY NewEventType DEF EventTypes
    <2>2. NewEvent("command.authorized").type = "command.authorized"
      BY DEF NewEvent
    <2>3. now \in Nat
      BY <1>0 DEF TypeOK
    <2>4. QED
      BY <1>0, <2>1, <2>2, <2>3 DEF Event, Locals
  <1> HIDE DEF e
  <1>3. /\ r.state = "draft" /\ s.state = "draft" /\ Adds(r, s, e)
        /\ SameEnvelope(r, s) /\ Persist(p, s, "load_execute")
    BY <1>0, <1>2, EventWrite
  <1> HIDE DEF s
  <1>4. MayAuthorize(r, me.cap, me.revision, me.approval)
    BY <1>0 DEF Knows, KnowsAt
  <1>5. Writes(r, s, e)
    BY <1>2, <1>3, <1>4 DEF Writes, Authorizes
  <1>6. WithinRetry(s, me.cap)
    BY <1>0, <1>2, <1>3, <1>4, RetryLeft DEF MayAuthorize
  <1>7. KnowsAt("load_execute", l, s) /\ "load_execute" \notin Granting
    BY <1>1, <1>6 DEF KnowsAt, Granting
  <1>8. QED
    BY <1>0, <1>1, <1>2, <1>3, <1>5, <1>7, WriteLearns

(* A command that was started may finish, once. *)
LEMMA StartedMayFinish ==
    ASSUME NEW r \in Record, NEW s, NEW e, Adds(r, s, e), Starts(r, s, e),
           FinishesSound(r)
    PROVE  MayFinish(s, e.cap, e.auth, e.attempt)
  <1> DEFINE n == Len(r.events) + 1
  <1>1. e.type = "command.started" /\ s.events[n] = e
    BY AddedAt DEF Starts
  <1>2. StartsOf(r, e.auth) = {}
    BY DEF Starts, ValidAuthorization, Consumed, StartsOf
  <1>3. FinishesOf(r, e.auth) = {}
    BY <1>2 DEF FinishesSound, FinishesOf
  <1>4. FinishesOf(s, e.auth) = {}
    BY <1>1, <1>3, AddedOfAuth
  <1>5. n \in StartsOf(s, e.auth)
    BY <1>1, AddedOfAuth
  <1>6. QED
    BY <1>1, <1>4, <1>5 DEF MayFinish

LEMMA RecordStartLearns ==
    ASSUME GateInv, ~Presented, NEW p \in Procs, RecordStart(p)
    PROVE  Learns(p)
  <1> DEFINE me == loc[p]
             e == [NewEvent("command.started") EXCEPT
                      !.cap = me.cap, !.auth = me.auth, !.attempt = me.attempt]
             r == me.rec
             s == AppendEvent(r, e)
  <1>0. /\ HistoryInv /\ TypeOK /\ me \in Locals /\ pc[p] = "started"
        /\ pc[p] \in Loaded /\ r = store[me.task] /\ me.task \in Tasks
        /\ PersistEvent(p, e, "spawn") /\ UNCHANGED loc
    BY LoadedPoints
       DEF GateInv, HistoryInv, LockInv, LoadedIsCurrent, TypeInv, TypeOK,
           TaskKnown, RecordStart
  <1>1. /\ e \in Event /\ e.type = "command.started" /\ e.cap = me.cap
        /\ e.auth = me.auth /\ e.attempt = me.attempt
    <2>1. NewEvent("command.started") \in Event
      BY NewEventType DEF EventTypes
    <2>2. NewEvent("command.started").type = "command.started"
      BY DEF NewEvent
    <2>3. QED
      BY <1>0, <2>1, <2>2 DEF Event, Locals
  <1> HIDE DEF e
  <1>2. /\ r \in Record /\ r.state = "draft" /\ s.state = "draft" /\ Adds(r, s, e)
        /\ SameEnvelope(r, s) /\ Persist(p, s, "spawn")
    BY <1>0, <1>1, EventWrite
  <1> HIDE DEF s
  <1>3. /\ WithinRetry(r, me.cap)
        /\ ValidAuthorization(r, me.cap, me.auth)
    BY <1>0 DEF GateInv, SoundInv, Knows, KnowsAt
  <1>4. Starts(r, s, e)
    BY <1>1, <1>2, <1>3 DEF Starts
  <1>5. Writes(r, s, e)
    BY <1>2, <1>4 DEF Writes
  <1>6. FinishesSound(r)
    BY <1>0 DEF GateInv, SoundInv, Sound
  <1>7. MayFinish(s, me.cap, me.auth, me.attempt)
    BY <1>1, <1>2, <1>4, <1>6, StartedMayFinish
  <1>8. KnowsAt("spawn", loc'[p], s) /\ "spawn" \notin Granting
    BY <1>0, <1>7 DEF KnowsAt, Granting
  <1>9. QED
    BY <1>0, <1>1, <1>2, <1>5, <1>8, WriteLearns

LEMMA RecordFinishLearns ==
    ASSUME HistoryInv, ~Presented, NEW p \in Procs, Knows(p), RecordFinish(p)
    PROVE  Learns(p)
  <1> DEFINE me == loc[p]
             e == [NewEvent("command.finished") EXCEPT
                      !.cap = me.cap, !.auth = me.auth,
                      !.attempt = me.attempt, !.status = me.status]
             r == me.rec
             s == AppendEvent(r, e)
  <1>0. /\ TypeOK /\ me \in Locals /\ pc[p] = "finished"
        /\ pc[p] \in Loaded /\ r = store[me.task]
        /\ PersistEvent(p, e, "release") /\ UNCHANGED loc
    BY LoadedPoints
       DEF HistoryInv, LockInv, LoadedIsCurrent, TypeInv, TypeOK, RecordFinish
  <1>1. /\ e \in Event /\ e.type = "command.finished" /\ e.cap = me.cap
        /\ e.auth = me.auth /\ e.attempt = me.attempt
    <2>1. NewEvent("command.finished") \in Event
      BY NewEventType DEF EventTypes
    <2>2. NewEvent("command.finished").type = "command.finished"
      BY DEF NewEvent
    <2>3. QED
      BY <1>0, <2>1, <2>2 DEF Event, Locals
  <1> HIDE DEF e
  <1>2. /\ r.state = "draft" /\ s.state = "draft" /\ Adds(r, s, e)
        /\ SameEnvelope(r, s) /\ Persist(p, s, "release")
    BY <1>0, <1>1, EventWrite
  <1> HIDE DEF s
  <1>3. MayFinish(r, me.cap, me.auth, me.attempt)
    BY <1>0 DEF Knows, KnowsAt
  <1>4. Writes(r, s, e)
    BY <1>1, <1>2, <1>3 DEF Writes, Finishes
  <1>5. KnowsAt("release", loc'[p], s) /\ "release" \notin Granting
    BY DEF KnowsAt, Granting
  <1>6. QED
    BY <1>0, <1>1, <1>2, <1>4, <1>5, WriteLearns

----------------------------------------------------------------------------
(* The inductive invariant *)

(* A new approval gets an id nobody has. *)
LEMMA PlanSound ==
    ASSUME GateInv, NEW p \in Procs, NEW t \in Tasks, NEW c, NEW uses,
           PlanApproval(p, t, c, uses)
    PROVE  SoundInv'
  <1>0. /\ TypeOK /\ planned \in Nat /\ SoundInv /\ FreshApprovals
    BY DEF GateInv, SoundInv, HistoryInv, TypeInv, TypeOK
  <1> DEFINE l == [NoLocals EXCEPT !.task = t, !.cap = c, !.uses = uses,
                                   !.approval = planned + 1,
                                   !.expires = now + 1]
  <1>1. /\ store' = store /\ planned' = planned + 1
        /\ pc'[p] = "planned" /\ loc'[p] = l
        /\ \A q \in Procs \ {p} : pc'[q] = pc[q] /\ loc'[q] = loc[q]
    BY <1>0 DEF PlanApproval, Goto, TypeOK, disk, environment
  <1>2. l.approval = planned + 1
    BY DEF NoLocals
  <1> HIDE DEF l
  <1>3. \A q \in Procs : Knows(q)'
    <2> SUFFICES ASSUME NEW q \in Procs
                 PROVE  KnowsAt(pc'[q], loc'[q], store'[loc'[q].task])
      BY DEF Knows
    <2>1. CASE q = p
      BY <1>1, <2>1 DEF KnowsAt
    <2>2. CASE q # p
      BY <1>0, <1>1, <2>2 DEF SoundInv, Knows
    <2>3. QED
      BY <2>1, <2>2
  <1>4. ASSUME NEW u \in Tasks, NEW i \in Grants(store[u])
        PROVE  /\ store[u].events[i].approval \in 1..(planned + 1)
               /\ store[u].events[i].approval # planned + 1
    <2>1. store[u].events[i].approval \in 1..planned
      BY <1>0 DEF FreshApprovals
    <2>2. QED
      BY <1>0, <2>1
  <1>5. ASSUME NEW q \in Procs \ {p}, pc[q] \in Granting
        PROVE  /\ loc[q].approval \in 1..(planned + 1)
               /\ loc[q].approval # planned + 1
    <2>1. loc[q].approval \in 1..planned
      BY <1>0, <1>5 DEF FreshApprovals
    <2>2. QED
      BY <1>0, <2>1
  <1>6. planned + 1 \in 1..(planned + 1)
    BY <1>0
  <1>7. FreshApprovals'
    <2>1. \A u \in Tasks : \A i \in Grants(store'[u]) :
              store'[u].events[i].approval \in 1..planned'
      BY <1>1, <1>4
    <2>2. ASSUME NEW q \in Procs, pc'[q] \in Granting
          PROVE  /\ loc'[q].approval \in 1..planned'
                 /\ \A u \in Tasks : \A i \in Grants(store'[u]) :
                        store'[u].events[i].approval # loc'[q].approval
                 /\ \A k \in Procs \ {q} :
                        pc'[k] \in Granting => loc'[k].approval # loc'[q].approval
      <3>1. CASE q = p
        BY <1>1, <1>2, <1>4, <1>5, <1>6, <3>1
      <3>2. CASE q # p
        <4>1. pc[q] \in Granting /\ loc'[q] = loc[q]
          BY <1>1, <2>2, <3>2
        <4>2. loc'[q].approval \in 1..planned'
          BY <1>1, <1>5, <3>2, <4>1
        <4>3. \A u \in Tasks : \A i \in Grants(store'[u]) :
                  store'[u].events[i].approval # loc'[q].approval
          BY <1>0, <1>1, <4>1 DEF FreshApprovals
        <4>4. ASSUME NEW k \in Procs \ {q}, pc'[k] \in Granting
              PROVE  loc'[k].approval # loc'[q].approval
          <5>1. CASE k = p
            BY <1>1, <1>2, <1>5, <3>2, <4>1, <5>1
          <5>2. CASE k # p
            BY <1>0, <1>1, <4>1, <4>4, <5>2 DEF FreshApprovals
          <5>3. QED
            BY <5>1, <5>2
        <4>5. QED
          BY <4>2, <4>3, <4>4
      <3>3. QED
        BY <3>1, <3>2
    <2>3. QED
      BY <2>1, <2>2 DEF FreshApprovals
  <1>8. \A u \in Tasks : Sound(store'[u])
    BY <1>0, <1>1 DEF SoundInv
  <1>9. DatedInv'
    <2>1. now' = now
      BY DEF PlanApproval, environment
    <2>2. QED
      BY <1>0, <1>1, <2>1 DEF SoundInv, DatedInv
  <1>10. QED
    BY <1>3, <1>7, <1>8, <1>9 DEF SoundInv

LEMMA AdvanceLearns ==
    ASSUME GateInv, ~Presented, NEW p \in Procs, Advance(p)
    PROVE  Learns(p)
  <1>0. TypeOK /\ HistoryInv /\ Knows(p)
    BY DEF GateInv, SoundInv, HistoryInv, TypeInv
  <1>1. ASSUME GiveUp(p)
        PROVE  Learns(p)
    BY <1>0, <1>1, GiveUpLearns
  <1>2. CASE \/ Load(p) \/ Release(p) \/ Grant(p) \/ Authorize(p)
             \/ ExecuteChecked(p) \/ TakeLease(p) \/ PrepareExecution(p)
             \/ Spawn(p) \/ SpawnFails(p) \/ CommandEnds(p)
             \/ CheckWorkspace(p) \/ CheckDiff(p) \/ Decide(p)
    BY <1>0, <1>2, LoadLearns, StopLearns, GrantLearns, AuthorizeLearns,
       PassLearns, PrepareLearns, StatusLearns, CheckLearns, DecideLearns
  <1>3. CASE \/ Create(p) \/ Amend(p) \/ Cancel(p) \/ Finalize(p)
             \/ RecordActivation(p) \/ RecordGrant(p) \/ RecordAuthorization(p)
             \/ RecordStart(p) \/ RecordFinish(p)
    BY <1>0, <1>3, CreateLearns, AmendLearns, CancelLearns, FinalizeLearns,
       ActivationLearns, RecordGrantLearns, RecordAuthorizationLearns,
       RecordStartLearns, RecordFinishLearns
  <1>4. QED
    BY <1>1, <1>2, <1>3
       DEF Advance, LoadMissing, RejectTerminal, CreateExisting, StartDone,
           AmendBounded, GrantRefused, Deny, ExecutionRejected, LeaseConflict,
           ArtifactCollision, SandboxUnavailable, Reject

LEMMA ProcessSound ==
    ASSUME ~Presented, GateInv, NEW p \in Procs,
           Invoke(p) \/ Advance(p) \/ Confirm(p) \/ Decline(p) \/ Crash(p)
    PROVE  SoundInv'
  <1>0. TypeOK /\ HistoryInv
    BY DEF GateInv, HistoryInv, TypeInv
  <1>1. Keeps(p)
    BY <1>0, InvokeKeeps, AdvanceKeeps, StopKeeps
  <1>2. CASE \E t \in Tasks, c \in Caps, uses \in 1..MaxUses :
                 PlanApproval(p, t, c, uses)
    BY <1>2, PlanSound
  <1>3. CASE ~\E t \in Tasks, c \in Caps, uses \in 1..MaxUses :
                 PlanApproval(p, t, c, uses)
    <2>1. Learns(p)
      BY <1>0, <1>3, InvokeLearns, AdvanceLearns, ConfirmLearns, GiveUpLearns,
         StopLearns DEF Decline
    <2>2. QED
      BY <1>1, <2>1, LearnsInv
  <1>4. QED
    BY <1>2, <1>3

LEMMA QuietSound ==
    ASSUME GateInv, Environment \/ UNCHANGED vars
    PROVE  SoundInv'
  <1>1. UNCHANGED <<store, pc, loc>>
    BY EnvironmentQuiet
  <1>2. UNCHANGED planned
    BY DEF Environment, OrphanEnds, Commit, Edit, LoseArtifact, Tick, vars
  <1>3. \A p \in Procs : Knows(p)'
    BY <1>1 DEF GateInv, SoundInv, Knows
  <1>4. FreshApprovals'
    BY <1>1, <1>2 DEF GateInv, SoundInv, FreshApprovals
  <1>5. \A t \in Tasks : Sound(store'[t])
    BY <1>1 DEF GateInv, SoundInv
  <1>6. DatedInv'
    <2>1. /\ \A t \in Tasks : store[t] \in Record /\ Dated(store[t], now)
          /\ now \in Nat
      BY DEF GateInv, SoundInv, DatedInv, HistoryInv, TypeInv, TypeOK
    <2>2. now' = now \/ now' = now + 1
      BY DEF Environment, OrphanEnds, Commit, Edit, LoseArtifact, Tick, vars,
             environment
    <2>3. ASSUME NEW t \in Tasks,
                 NEW j \in EventsOf(store[t], "command.authorized")
          PROVE  store[t].events[j].time <= now'
      <3>1. store[t].events[j].time \in Nat
        BY <2>1, EventAt DEF Event, EventsOf
      <3>2. store[t].events[j].time <= now
        BY <2>1 DEF Dated
      <3>3. QED
        BY <2>1, <2>2, <3>1, <3>2
    <2>4. QED
      BY <1>1, <2>3 DEF DatedInv, Dated
  <1>7. QED
    BY <1>3, <1>4, <1>5, <1>6 DEF SoundInv

LEMMA GateStep ==
    ASSUME ~Presented, GateInv, [Next]_vars
    PROVE  GateInv'
  <1>1. HistoryInv'
    BY HistoryStep DEF GateInv
  <1>2. SoundInv'
    BY ProcessSound, QuietSound DEF Next
  <1>3. QED
    BY <1>1, <1>2 DEF GateInv

LEMMA GateInit == Init => GateInv
  <1> SUFFICES ASSUME Init
               PROVE  GateInv
    OBVIOUS
  <1>1. \A t \in Tasks : store[t] = NoRecord
    BY DEF Init
  <1>2. \A p \in Procs : pc[p] = "idle"
    BY DEF Init
  <1>3. \A t \in Tasks : Sound(store[t])
    BY <1>1, AbsentSound
  <1>4. \A p \in Procs : Knows(p)
    BY <1>2 DEF Knows, KnowsAt
  <1>5. FreshApprovals
    <2>1. Grants(NoRecord) = {}
      BY DEF Grants, EventsOf, NoRecord
    <2>2. \A p \in Procs : pc[p] \notin Granting
      BY <1>2 DEF Granting
    <2>3. QED
      BY <1>1, <2>1, <2>2 DEF FreshApprovals
  <1>6. DatedInv
    <2>1. EventsOf(NoRecord, "command.authorized") = {}
      BY DEF EventsOf, NoRecord
    <2>2. QED
      BY <1>1, <2>1 DEF DatedInv, Dated
  <1>7. QED
    BY <1>3, <1>4, <1>5, <1>6, HistoryInit DEF GateInv, SoundInv

LEMMA GateInvariant == ~Presented => (Spec => []GateInv)
  <1> SUFFICES ASSUME ~Presented
               PROVE  Spec => []GateInv
    OBVIOUS
  <1>1. GateInv /\ [Next]_vars => GateInv'
    BY GateStep
  <1>2. QED
    BY <1>1, GateInit, PTL DEF Spec

----------------------------------------------------------------------------
(* The theorems *)

(* A command that needs an approval was authorized by a grant recorded     *)
(* before, for its capability and unexpired, and no grant is charged more  *)
(* often than it says.                                                     *)
THEOREM ApprovalsAreRespected ==
    "execute" \notin Operations => (Spec => []ApprovalsRespected)
  <1> SUFFICES ASSUME ~Presented
               PROVE  Spec => []ApprovalsRespected
    BY DEF Presented
  <1>1. GateInv => ApprovalsRespected
    BY DEF GateInv, SoundInv, Sound, AuthorizationsSound, GrantsSound, Grants,
           ChargedTo, ApprovalsRespected
  <1>2. QED
    BY <1>1, GateInvariant, PTL

(* The limits of a capability, the retry budget and the command budget     *)
(* bound the whole history of a task, over crashes and amendments, as long *)
(* as nobody presents an old authorization again, which TaskService does   *)
(* not.                                                                    *)
THEOREM BudgetsAreRespected ==
    "execute" \notin Operations => (Spec => []BudgetsRespected)
  <1> SUFFICES ASSUME ~Presented
               PROVE  Spec => []BudgetsRespected
    BY DEF Presented
  <1>1. GateInv => BudgetsRespected
    BY DEF GateInv, SoundInv, Sound, LimitsSound, BudgetsRespected
  <1>2. QED
    BY <1>1, GateInvariant, PTL

(* A completed task has every requested capability earned at its final     *)
(* revision, no interrupted command in its history and no high-risk        *)
(* command without an approval.                                            *)
THEOREM CompletionIsEarned ==
    "execute" \notin Operations => (Spec => []CompletedIsEarned)
  <1> SUFFICES ASSUME ~Presented
               PROVE  Spec => []CompletedIsEarned
    BY DEF Presented
  <1>1. GateInv => CompletedIsEarned
    BY DEF GateInv, SoundInv, Sound, OutcomeSound, Clean, CompletedIsEarned
  <1>2. QED
    BY <1>1, GateInvariant, PTL

----------------------------------------------------------------------------
(* The refinement: seen through TaskProperties, a write of a record is one *)
(* step of CompletionGate, or none.                                        *)

(* What the gate sees of a write *)

SameEvidence(r, s) ==
    PassedOf(s) = PassedOf(r) /\ OutstandingOf(s) = OutstandingOf(r)

ViewsOpen(r, s) ==
    /\ PhaseOf(r) = "absent" /\ PhaseOf(s) = "open"
    /\ s.requested \in (SUBSET Caps) \ {{}}
    /\ SameEvidence(r, s)

ViewsAmend(r, s) ==
    /\ PhaseOf(r) = "open" /\ PhaseOf(s) = "open"
    /\ r.requested \subseteq s.requested /\ s.requested \subseteq Caps
    /\ PassedOf(s) = {}
    /\ OutstandingOf(s) = OutstandingOf(r)

ViewsNothing(r, s) ==
    /\ PhaseOf(s) = PhaseOf(r) /\ s.requested = r.requested
    /\ SameEvidence(r, s)

ViewsLaunch(r, s) ==
    /\ PhaseOf(r) = "open" /\ PhaseOf(s) = "open" /\ s.requested = r.requested
    /\ PassedOf(s) = PassedOf(r)
    /\ \E a \in (Nat \ {0}) \ OutstandingOf(r) :
           OutstandingOf(s) = OutstandingOf(r) \cup {a}

ViewsReport(r, s) ==
    /\ PhaseOf(r) = "open" /\ PhaseOf(s) = "open" /\ s.requested = r.requested
    /\ \E a \in OutstandingOf(r) : OutstandingOf(s) = OutstandingOf(r) \ {a}
    /\ \E c \in r.requested :
           \/ PassedOf(s) = PassedOf(r) \cup {c}
           \/ PassedOf(s) = PassedOf(r) \ {c}

ViewsEnd(r, s) ==
    /\ PhaseOf(r) = "open" /\ PhaseOf(s) \in TerminalStates
    /\ s.requested = r.requested
    /\ SameEvidence(r, s)
    /\ PhaseOf(s) = "completed" =>
           PassedOf(r) = r.requested /\ OutstandingOf(r) = {}

LEMMA PassedUnchanged ==
    ASSUME NEW r \in Record, NEW s, NEW e, Adds(r, s, e), SameEnvelope(r, s),
           StartsSound(r), FinishesSound(r), e.type # "command.finished"
    PROVE  PassedOf(s) = PassedOf(r)
  <1>1. \A c : Earned(s, c) <=> Earned(r, c)
    BY EarnedUnchanged DEF SameEnvelope
  <1>2. QED
    BY <1>1 DEF PassedOf, SameEnvelope

LEMMA OutstandingUnchanged ==
    ASSUME NEW r \in Record, NEW s, NEW e, Adds(r, s, e),
           e.type \notin {"command.started", "command.finished"}
    PROVE  OutstandingOf(s) = OutstandingOf(r)
  <1> DEFINE St(h) == EventsOf(h, "command.started")
             Fi(h) == EventsOf(h, "command.finished")
  <1>1. St(s) = St(r) /\ Fi(s) = Fi(r)
    BY AddedOf
  <1>2. /\ \A i \in St(r) : s.events[i] = r.events[i]
        /\ \A i \in Fi(r) : s.events[i] = r.events[i]
    BY AddedBefore
  <1>3. Incomplete(s) = Incomplete(r)
    BY <1>1, <1>2 DEF Incomplete
  <1>4. \A i \in Incomplete(r) : s.events[i] = r.events[i]
    BY <1>2 DEF Incomplete
  <1>5. QED
    BY <1>3, <1>4 DEF OutstandingOf

LEMMA OpensViews ==
    ASSUME NEW r \in Record, NEW s, NEW e, Adds(r, s, e), Opens(r, s, e), Sound(r)
    PROVE  ViewsOpen(r, s)
  <1>1. r.requested = {} /\ r.events = <<>> /\ s.state = "draft"
    BY DEF Opens, Sound, OutcomeSound
  <1>2. s.requested \in (SUBSET Caps) \ {{}}
    BY DEF Opens, Adds, Record
  <1>3. OutstandingOf(s) = OutstandingOf(r)
    BY OutstandingUnchanged DEF Opens
  <1>4. PassedOf(r) = {}
    BY <1>1 DEF PassedOf
  <1>5. PassedOf(s) = {}
    <2>1. \A c : EventsFor(r, "command.finished", c) = {}
      BY <1>1 DEF EventsFor, EventsOf
    <2>2. \A c : EventsFor(s, "command.finished", c) = {}
      BY <2>1, AddedFor DEF Opens
    <2>3. QED
      BY <2>2 DEF PassedOf, Earned
  <1>6. PhaseOf(r) = "absent" /\ PhaseOf(s) = "open"
    BY <1>1 DEF Opens, PhaseOf
  <1>7. QED
    BY <1>2, <1>3, <1>4, <1>5, <1>6 DEF ViewsOpen, SameEvidence

(* All evidence there is was authorized at an earlier revision. *)
LEMMA AmendsViews ==
    ASSUME NEW r \in Record, NEW s, NEW e, Adds(r, s, e), r.state = "draft",
           Amends(r, s, e), Sound(r)
    PROVE  ViewsAmend(r, s)
  <1>1. OutstandingOf(s) = OutstandingOf(r)
    BY OutstandingUnchanged DEF Amends
  <1>2. ASSUME NEW c
        PROVE  ~Earned(s, c)
    <2> DEFINE F(h) == EventsFor(h, "command.finished", c)
               i == LatestEvidence(r, c)
               a == r.events[i].auth
    <2>1. F(s) = F(r)
      BY AddedFor DEF Amends
    <2>2. CASE F(r) = {}
      BY <2>1, <2>2 DEF Earned
    <2>3. CASE F(r) # {}
      <3>1. LatestEvidence(s, c) = i
        BY <2>3, AddedEvidence DEF Amends
      <3>2. i \in F(r)
        BY <2>3, LatestIsEvidence
      <3>3. s.events[i] = r.events[i]
        BY <3>2, AddedBefore DEF EventsFor
      <3>4. a \in EventsFor(r, "command.authorized", c)
        BY <3>2, EvidenceAuthorized DEF Sound
      <3>5. a \in EventsOf(r, "command.authorized")
        BY <3>4 DEF EventsFor
      <3>6. s.events[a] = r.events[a] /\ a \in DOMAIN r.events
        <4>1. s.events[a] = r.events[a]
          BY <3>5, AddedBefore
        <4>2. a \in DOMAIN r.events
          BY <3>5 DEF EventsOf
        <4>3. QED
          BY <4>1, <4>2
      <3>7. r.events[a].revision <= r.revision
        BY <3>5 DEF Sound, AuthorizationsSound
      <3>8. r.events[a].revision \in Nat /\ r.revision \in Nat
        BY <3>6, EventAt DEF Event, Record
      <3>9. r.events[a].revision # s.revision
        BY <3>7, <3>8 DEF Amends
      <3> HIDE DEF i
      <3>10. QED
        BY <3>1, <3>3, <3>6, <3>9 DEF Earned
    <2>4. QED
      BY <2>2, <2>3
  <1>3. PassedOf(s) = {}
    BY <1>2 DEF PassedOf
  <1>4. s.requested \subseteq Caps
    BY DEF Adds, Record
  <1>5. QED
    BY <1>1, <1>3, <1>4 DEF Amends, ViewsAmend, PhaseOf

LEMMA NotesViews ==
    ASSUME NEW r \in Record, NEW s, NEW e, Adds(r, s, e), r.state = "draft", Sound(r),
           NotesActivation(r, s, e) \/ NotesGrant(r, s, e) \/ Authorizes(r, s, e)
    PROVE  ViewsNothing(r, s)
  <1>1. /\ s.state = "draft" /\ SameEnvelope(r, s)
        /\ e.type \notin {"command.started", "command.finished"}
    BY DEF NotesActivation, NotesGrant, Authorizes
  <1>2. SameEvidence(r, s)
    BY <1>1, PassedUnchanged, OutstandingUnchanged DEF Sound, SameEvidence
  <1>3. QED
    BY <1>1, <1>2 DEF ViewsNothing, PhaseOf, SameEnvelope

LEMMA EndsViews ==
    ASSUME NEW r \in Record, NEW s, NEW e, Adds(r, s, e), r.state = "draft", Sound(r),
           Ends(r, s, e)
    PROVE  ViewsEnd(r, s)
  <1>1. SameEnvelope(r, s) /\ e.type \notin {"command.started", "command.finished"}
    BY DEF Ends
  <1>2. SameEvidence(r, s)
    BY <1>1, PassedUnchanged, OutstandingUnchanged DEF Sound, SameEvidence
  <1>3. PhaseOf(s) = s.state /\ PhaseOf(s) \in TerminalStates
    BY DEF Ends, PhaseOf, TerminalStates
  <1>4. Clean(r) => PassedOf(r) = r.requested /\ OutstandingOf(r) = {}
    BY DEF Clean, PassedOf, OutstandingOf
  <1>5. QED
    BY <1>1, <1>2, <1>3, <1>4 DEF Ends, ViewsEnd, PhaseOf, SameEnvelope

LEMMA StartsViews ==
    ASSUME NEW r \in Record, NEW s, NEW e, Adds(r, s, e), r.state = "draft", Sound(r),
           Starts(r, s, e)
    PROVE  ViewsLaunch(r, s)
  <1> DEFINE n == Len(r.events) + 1
             St(h) == EventsOf(h, "command.started")
             Fi(h) == EventsOf(h, "command.finished")
  <1>1. /\ e.type = "command.started" /\ s.state = "draft" /\ SameEnvelope(r, s)
        /\ e.auth \in EventsFor(r, "command.authorized", e.cap)
        /\ StartsOf(r, e.auth) = {}
    BY DEF Starts, ValidAuthorization, Consumed, StartsOf
  <1>2. /\ St(s) = St(r) \cup {n} /\ Fi(s) = Fi(r)
        /\ s.events[n] = e
    BY <1>1, AddedOf, AddedAt
  <1>3. /\ \A i \in St(r) : s.events[i] = r.events[i] /\ i # n
        /\ \A i \in Fi(r) : s.events[i] = r.events[i]
    BY AddedBefore
  <1>4. \A j \in Fi(r) : r.events[j].auth # e.auth
    BY <1>1 DEF Sound, FinishesSound
  <1> HIDE DEF n
  <1>5. Incomplete(s) = Incomplete(r) \cup {n}
    BY <1>2, <1>3, <1>4 DEF Incomplete
  <1>6. \A i \in Incomplete(r) : s.events[i] = r.events[i]
    BY <1>3 DEF Incomplete
  <1>7. OutstandingOf(s) = OutstandingOf(r) \cup {e.auth}
    BY <1>2, <1>5, <1>6 DEF OutstandingOf
  <1>8. e.auth \notin OutstandingOf(r)
    BY <1>1 DEF OutstandingOf, Incomplete, StartsOf
  <1>9. e.auth \in Nat \ {0}
    <2>1. e.auth \in DOMAIN r.events
      BY <1>1 DEF EventsFor, EventsOf
    <2>2. QED
      BY <2>1, AddedAt
  <1>10. PassedOf(s) = PassedOf(r)
    BY <1>1, PassedUnchanged DEF Sound
  <1>11. QED
    BY <1>1, <1>7, <1>8, <1>9, <1>10 DEF ViewsLaunch, PhaseOf, SameEnvelope

LEMMA FinishesViews ==
    ASSUME NEW r \in Record, NEW s, NEW e, Adds(r, s, e), r.state = "draft", Sound(r),
           Finishes(r, s, e)
    PROVE  ViewsReport(r, s)
  <1> DEFINE n == Len(r.events) + 1
             St(h) == EventsOf(h, "command.started")
             Fi(h) == EventsOf(h, "command.finished")
  <1>1. /\ e.type = "command.finished" /\ s.state = "draft" /\ SameEnvelope(r, s)
        /\ FinishesOf(r, e.auth) = {}
    BY DEF Finishes, MayFinish
  <1>2. PICK j \in StartsOf(r, e.auth) : r.events[j].cap = e.cap
    BY DEF Finishes, MayFinish
  <1>3. /\ St(s) = St(r) /\ Fi(s) = Fi(r) \cup {n} /\ s.events[n] = e
    BY <1>1, AddedOf, AddedAt
  <1>4. /\ \A i \in St(r) : s.events[i] = r.events[i]
        /\ \A i \in Fi(r) : s.events[i] = r.events[i]
    BY AddedBefore
  <1> HIDE DEF n
  <1>5. Incomplete(s) = {i \in Incomplete(r) : r.events[i].auth # e.auth}
    BY <1>3, <1>4 DEF Incomplete
  <1>6. \A i \in Incomplete(r) : s.events[i] = r.events[i]
    BY <1>4 DEF Incomplete
  <1>7. OutstandingOf(s) = OutstandingOf(r) \ {e.auth}
    BY <1>5, <1>6 DEF OutstandingOf
  <1>8. e.auth \in OutstandingOf(r)
    <2>1. j \in St(r) /\ r.events[j].auth = e.auth
      BY DEF StartsOf
    <2>2. j \in Incomplete(r)
      BY <1>1, <2>1 DEF Incomplete, FinishesOf
    <2>3. QED
      BY <2>1, <2>2 DEF OutstandingOf
  <1>9. e.cap \in r.requested
    <2>1. j \in St(r) /\ r.events[j].auth = e.auth
      BY DEF StartsOf
    <2>2. e.auth \in EventsFor(r, "command.authorized", e.cap)
      BY <1>2, <2>1 DEF Sound, StartsSound
    <2>3. QED
      BY <2>2 DEF Sound, AuthorizationsSound, EventsFor
  <1>10. \/ PassedOf(s) = PassedOf(r) \cup {e.cap}
         \/ PassedOf(s) = PassedOf(r) \ {e.cap}
    <2>1. \A c : c # e.cap => (Earned(s, c) <=> Earned(r, c))
      BY <1>1, EarnedUnchanged DEF Sound, SameEnvelope
    <2>2. s.requested = r.requested
      BY <1>1 DEF SameEnvelope
    <2>3. CASE Earned(s, e.cap)
      BY <1>9, <2>1, <2>2, <2>3 DEF PassedOf
    <2>4. CASE ~Earned(s, e.cap)
      BY <1>9, <2>1, <2>2, <2>4 DEF PassedOf
    <2>5. QED
      BY <2>3, <2>4
  <1>11. QED
    BY <1>1, <1>7, <1>8, <1>9, <1>10 DEF ViewsReport, PhaseOf, SameEnvelope

LEMMA WriteViews ==
    ASSUME NEW r \in Record, NEW s, NEW e, Writes(r, s, e), Sound(r)
    PROVE  \/ ViewsOpen(r, s) \/ ViewsAmend(r, s) \/ ViewsNothing(r, s)
           \/ ViewsLaunch(r, s) \/ ViewsReport(r, s) \/ ViewsEnd(r, s)
  BY OpensViews, AmendsViews, NotesViews, StartsViews, FinishesViews, EndsViews
     DEF Writes

----------------------------------------------------------------------------
(* One record is written: the gate takes a step for its task *)

Phases(f) == [t \in Tasks |-> PhaseOf(f[t])]
Required(f) == [t \in Tasks |-> f[t].requested]
Passed(f) == [t \in Tasks |-> PassedOf(f[t])]
Outstanding(f) == [t \in Tasks |-> OutstandingOf(f[t])]

LEMMA ViewsAre ==
    /\ Gate!vars = <<Phases(store), Required(store), Passed(store), Outstanding(store)>>
    /\ Gate!Next <=> \E t \in Tasks :
           \/ Gate!Open(t) \/ Gate!Amend(t) \/ Gate!Launch(t) \/ Gate!Report(t)
           \/ Gate!Complete(t) \/ Gate!AcceptRisk(t) \/ Gate!Abandon(t)
  BY DEF Gate!vars, Gate!Next, Phases, Required, Passed, Outstanding

LEMMA OneRecord ==
    ASSUME TypeOK, NEW t \in Tasks, store' = [store EXCEPT ![t] = store'[t]]
    PROVE  /\ Phases(store') = [Phases(store) EXCEPT ![t] = PhaseOf(store'[t])]
           /\ Required(store') = [Required(store) EXCEPT ![t] = store'[t].requested]
           /\ Passed(store') = [Passed(store) EXCEPT ![t] = PassedOf(store'[t])]
           /\ Outstanding(store') =
                  [Outstanding(store) EXCEPT ![t] = OutstandingOf(store'[t])]
  <1>1. \A u \in Tasks : u # t => store'[u] = store[u]
    BY DEF TypeOK
  <1>2. QED
    BY <1>1 DEF Phases, Required, Passed, Outstanding

LEMMA OneRecordSame ==
    ASSUME TypeOK, NEW t \in Tasks, store' = [store EXCEPT ![t] = store'[t]]
    PROVE  /\ PhaseOf(store'[t]) = PhaseOf(store[t]) => Phases(store') = Phases(store)
           /\ store'[t].requested = store[t].requested =>
                  Required(store') = Required(store)
           /\ PassedOf(store'[t]) = PassedOf(store[t]) => Passed(store') = Passed(store)
           /\ OutstandingOf(store'[t]) = OutstandingOf(store[t]) =>
                  Outstanding(store') = Outstanding(store)
  <1>1. \A u \in Tasks : u # t => store'[u] = store[u]
    BY DEF TypeOK
  <1>2. QED
    BY <1>1 DEF Phases, Required, Passed, Outstanding

(* The actions of the gate, over the record as the gate sees it. *)
LEMMA OpenImplemented ==
    ASSUME TypeOK, NEW t \in Tasks, store' = [store EXCEPT ![t] = store'[t]],
           ViewsOpen(store[t], store'[t])
    PROVE  Gate!Open(t)
  <1>1. /\ Phases(store') = [Phases(store) EXCEPT ![t] = "open"]
        /\ Required(store') = [Required(store) EXCEPT ![t] = store'[t].requested]
    BY OneRecord DEF ViewsOpen
  <1>2. Passed(store') = Passed(store) /\ Outstanding(store') = Outstanding(store)
    BY OneRecordSame DEF ViewsOpen, SameEvidence
  <1>3. Phases(store)[t] = "absent" /\ store'[t].requested \in (SUBSET Caps) \ {{}}
    BY DEF ViewsOpen, Phases
  <1>4. QED
    BY <1>1, <1>2, <1>3 DEF Gate!Open, Phases, Required, Passed, Outstanding

LEMMA AmendImplemented ==
    ASSUME TypeOK, NEW t \in Tasks, store' = [store EXCEPT ![t] = store'[t]],
           ViewsAmend(store[t], store'[t])
    PROVE  Gate!Amend(t)
  <1> DEFINE R == store'[t].requested
  <1>1. /\ Required(store') = [Required(store) EXCEPT ![t] = R]
        /\ Passed(store') = [Passed(store) EXCEPT ![t] = {}]
    BY OneRecord DEF ViewsAmend
  <1>2. Phases(store') = Phases(store) /\ Outstanding(store') = Outstanding(store)
    BY OneRecordSame DEF ViewsAmend
  <1>3. Phases(store)[t] = "open"
    BY DEF ViewsAmend, Phases
  <1>4. R \in SUBSET Caps /\ Required(store)[t] \cup R = R
    BY DEF ViewsAmend, Required
  <1> HIDE DEF R
  <1>5. Required(store') = [Required(store) EXCEPT ![t] = @ \cup R]
    BY <1>1, <1>4
  <1>6. QED
    BY <1>1, <1>2, <1>3, <1>4, <1>5
       DEF Gate!Amend, Phases, Required, Passed, Outstanding

LEMMA LaunchImplemented ==
    ASSUME Nat \ {0} \subseteq Commands, TypeOK, NEW t \in Tasks,
           store' = [store EXCEPT ![t] = store'[t]],
           ViewsLaunch(store[t], store'[t])
    PROVE  Gate!Launch(t)
  <1>1. PICK a \in (Nat \ {0}) \ OutstandingOf(store[t]) :
            OutstandingOf(store'[t]) = OutstandingOf(store[t]) \cup {a}
    BY DEF ViewsLaunch
  <1>2. /\ Phases(store') = Phases(store) /\ Required(store') = Required(store)
        /\ Passed(store') = Passed(store)
    BY OneRecordSame DEF ViewsLaunch
  <1>3. Phases(store)[t] = "open" /\ Outstanding(store)[t] = OutstandingOf(store[t])
    BY DEF ViewsLaunch, Phases, Outstanding
  <1>4. a \in Commands \ Outstanding(store)[t]
    BY <1>3
  <1>5. Outstanding(store') =
            [Outstanding(store) EXCEPT ![t] = OutstandingOf(store'[t])]
    BY OneRecord
  <1>6. Outstanding(store') = [Outstanding(store) EXCEPT ![t] = @ \cup {a}]
    BY <1>1, <1>3, <1>5
  <1>7. QED
    BY <1>2, <1>3, <1>4, <1>6
       DEF Gate!Launch, Phases, Required, Passed, Outstanding

LEMMA ReportImplemented ==
    ASSUME TypeOK, NEW t \in Tasks, store' = [store EXCEPT ![t] = store'[t]],
           ViewsReport(store[t], store'[t])
    PROVE  Gate!Report(t)
  <1>1. PICK a \in OutstandingOf(store[t]) :
            OutstandingOf(store'[t]) = OutstandingOf(store[t]) \ {a}
    BY DEF ViewsReport
  <1>2. PICK c \in store[t].requested :
            \/ PassedOf(store'[t]) = PassedOf(store[t]) \cup {c}
            \/ PassedOf(store'[t]) = PassedOf(store[t]) \ {c}
    BY DEF ViewsReport
  <1>3. Phases(store') = Phases(store) /\ Required(store') = Required(store)
    BY OneRecordSame DEF ViewsReport
  <1>4. /\ Phases(store)[t] = "open" /\ Required(store)[t] = store[t].requested
        /\ Outstanding(store)[t] = OutstandingOf(store[t])
        /\ Passed(store)[t] = PassedOf(store[t])
    BY DEF ViewsReport, Phases, Required, Passed, Outstanding
  <1>5. /\ Outstanding(store') =
               [Outstanding(store) EXCEPT ![t] = OutstandingOf(store'[t])]
        /\ Passed(store') = [Passed(store) EXCEPT ![t] = PassedOf(store'[t])]
    BY OneRecord
  <1>6. Outstanding(store') = [Outstanding(store) EXCEPT ![t] = @ \ {a}]
    BY <1>1, <1>4, <1>5
  <1>7. \/ Passed(store') = [Passed(store) EXCEPT ![t] = @ \cup {c}]
        \/ Passed(store') = [Passed(store) EXCEPT ![t] = @ \ {c}]
    BY <1>2, <1>4, <1>5
  <1>8. a \in Outstanding(store)[t] /\ c \in Required(store)[t]
    BY <1>4
  <1>9. QED
    BY <1>3, <1>4, <1>6, <1>7, <1>8
       DEF Gate!Report, Phases, Required, Passed, Outstanding

LEMMA EndImplemented ==
    ASSUME TypeOK, NEW t \in Tasks, store' = [store EXCEPT ![t] = store'[t]],
           ViewsEnd(store[t], store'[t])
    PROVE  Gate!Complete(t) \/ Gate!AcceptRisk(t) \/ Gate!Abandon(t)
  <1>1. /\ Required(store') = Required(store) /\ Passed(store') = Passed(store)
        /\ Outstanding(store') = Outstanding(store)
    BY OneRecordSame DEF ViewsEnd, SameEvidence
  <1>2. Phases(store') = [Phases(store) EXCEPT ![t] = PhaseOf(store'[t])]
    BY OneRecord
  <1>3. /\ Phases(store)[t] = "open"
        /\ PhaseOf(store'[t]) = "completed" =>
               Passed(store)[t] = Required(store)[t] /\ Outstanding(store)[t] = {}
    BY DEF ViewsEnd, Phases, Required, Passed, Outstanding
  <1>4. PhaseOf(store'[t]) \in {"completed", "accepted_with_risk", "abandoned"}
    BY DEF ViewsEnd, TerminalStates
  <1>5. CASE PhaseOf(store'[t]) = "completed"
    BY <1>1, <1>2, <1>3, <1>5
       DEF Gate!Complete, Phases, Required, Passed, Outstanding
  <1>6. CASE PhaseOf(store'[t]) = "accepted_with_risk"
    BY <1>1, <1>2, <1>3, <1>6
       DEF Gate!AcceptRisk, Phases, Required, Passed, Outstanding
  <1>7. CASE PhaseOf(store'[t]) = "abandoned"
    BY <1>1, <1>2, <1>3, <1>7
       DEF Gate!Abandon, Phases, Required, Passed, Outstanding
  <1>8. QED
    BY <1>4, <1>5, <1>6, <1>7

LEMMA WriteImplements ==
    ASSUME Nat \ {0} \subseteq Commands, TypeOK, NEW t \in Tasks,
           store' = [store EXCEPT ![t] = store'[t]],
           Sound(store[t]), NEW e, Writes(store[t], store'[t], e)
    PROVE  [Gate!Next]_Gate!vars
  <1>1. store[t] \in Record
    BY DEF TypeOK
  <1>2. CASE ViewsNothing(store[t], store'[t])
    <2>1. /\ Phases(store') = Phases(store) /\ Required(store') = Required(store)
          /\ Passed(store') = Passed(store)
          /\ Outstanding(store') = Outstanding(store)
      BY <1>2, OneRecordSame DEF ViewsNothing, SameEvidence
    <2>2. UNCHANGED Gate!vars
      BY <2>1 DEF Gate!vars, Phases, Required, Passed, Outstanding
    <2>3. QED
      BY <2>2
  <1>3. ASSUME Gate!Open(t) \/ Gate!Amend(t) \/ Gate!Launch(t) \/ Gate!Report(t)
               \/ Gate!Complete(t) \/ Gate!AcceptRisk(t) \/ Gate!Abandon(t)
        PROVE  Gate!Next
    BY <1>3 DEF Gate!Next
  <1>4. QED
    BY <1>1, <1>2, <1>3, WriteViews, OpenImplemented, AmendImplemented,
       LaunchImplemented, ReportImplemented, EndImplemented

LEMMA StepImplements ==
    ASSUME ~Presented, Nat \ {0} \subseteq Commands, GateInv, [Next]_vars
    PROVE  [Gate!Next]_Gate!vars
  <1>0. TypeOK
    BY DEF GateInv, HistoryInv, TypeInv
  <1>1. ASSUME UNCHANGED store
        PROVE  UNCHANGED Gate!vars
    BY <1>1 DEF Gate!vars
  <1>2. ASSUME NEW p \in Procs, Learns(p)
        PROVE  [Gate!Next]_Gate!vars
    <2>1. CASE UNCHANGED store
      BY <1>1, <2>1
    <2>2. ASSUME NEW e, Changes(p, e)
          PROVE  [Gate!Next]_Gate!vars
      <3> DEFINE t == loc[p].task
      <3>1. /\ t \in Tasks /\ store' = [store EXCEPT ![t] = store'[t]]
            /\ Writes(store[t], store'[t], e) /\ Sound(store[t])
        BY <2>2 DEF Changes, GateInv, SoundInv
      <3> HIDE DEF t
      <3>2. QED
        BY <1>0, <3>1, WriteImplements
    <2>3. QED
      BY <1>2, <2>1, <2>2 DEF Learns
  <1>3. ASSUME NEW p \in Procs,
               Invoke(p) \/ Advance(p) \/ Confirm(p) \/ Decline(p) \/ Crash(p)
        PROVE  [Gate!Next]_Gate!vars
    <2>1. CASE \E t \in Tasks, c \in Caps, uses \in 1..MaxUses :
                   PlanApproval(p, t, c, uses)
      BY <1>1, <2>1 DEF PlanApproval, disk, environment
    <2>2. CASE ~\E t \in Tasks, c \in Caps, uses \in 1..MaxUses :
                   PlanApproval(p, t, c, uses)
      <3>1. Learns(p)
        BY <1>0, <1>3, <2>2, InvokeLearns, AdvanceLearns, ConfirmLearns,
           GiveUpLearns, StopLearns DEF Decline
      <3>2. QED
        BY <1>2, <3>1
    <2>3. QED
      BY <2>1, <2>2
  <1>4. CASE Environment \/ UNCHANGED vars
    BY <1>1, <1>4, EnvironmentQuiet
  <1>5. QED
    BY <1>3, <1>4 DEF Next

LEMMA InitImplements == Init => Gate!Init
  <1> SUFFICES ASSUME Init
               PROVE  Gate!Init
    OBVIOUS
  <1>1. \A t \in Tasks : store[t] = NoRecord
    BY DEF Init
  <1>2. PhaseOf(NoRecord) = "absent" /\ NoRecord.requested = {}
    BY DEF NoRecord, PhaseOf
  <1>3. PassedOf(NoRecord) = {}
    BY <1>2 DEF PassedOf
  <1>4. OutstandingOf(NoRecord) = {}
    BY DEF NoRecord, OutstandingOf, Incomplete, EventsOf
  <1>5. QED
    BY <1>1, <1>2, <1>3, <1>4 DEF Gate!Init

(* The kernel implements the completion gate, for any tasks, capabilities  *)
(* and invocations, provided that the gate has a name for every position a *)
(* history can have: a task completes only when all it requires has passed *)
(* since the last amendment and every command launched has reported.       *)
THEOREM KernelImplementsGate ==
    /\ "execute" \notin Operations
    /\ Nat \ {0} \subseteq Commands
    => (Spec => ImplementsGate)
  <1> SUFFICES ASSUME ~Presented, Nat \ {0} \subseteq Commands
               PROVE  Spec => ImplementsGate
    BY DEF Presented
  <1>1. GateInv /\ [Next]_vars => [Gate!Next]_Gate!vars
    BY StepImplements
  <1>2. Spec => []GateInv
    BY GateInvariant
  <1>3. QED
    BY <1>1, <1>2, InitImplements, PTL DEF Spec, ImplementsGate, Gate!Spec
----------------------------------------------------------------------------
(* An authorization is used once even where Executor.execute is called     *)
(* without the operation lock.  A direct execution and an operation under  *)
(* the lock may both have read the record before either writes it, so      *)
(* neither knows what is on disk.  But the operation starts nothing, and   *)
(* the execution authorizes nothing: what is on disk has every start the   *)
(* operation read and no authorization it did not read, and every          *)
(* authorization the execution read and no start it did not read.          *)

(* The points of Executor.execute, and of every other operation.           *)
Executing ==
    {"load_execute", "execute", "execute_lease", "load_leased", "leased",
     "load_started", "started", "spawn", "running", "load_finished", "finished"}

Governed == Points \ (Executing \cup Unlocked)

(* s has every start of r, and r every authorization of s. *)
Follows(s, r) ==
    /\ \A auth : Consumed(r, auth) => Consumed(s, auth)
    /\ \A c : EventsFor(s, "command.authorized", c)
                  \subseteq EventsFor(r, "command.authorized", c)

Whole(r) == StartsSound(r) /\ (r.state = "absent" => r.events = <<>>)

(* What an invocation at x with locals l, and the record r of its task.    *)
UsesAt(x, l, r) ==
    /\ x \in Loaded => Whole(l.rec)
    /\ x \in Loaded \cap Governed => Follows(r, l.rec)
    /\ x \in {"leased", "started", "finished"} => Follows(l.rec, r)
    /\ x = "load_started" => ValidAuthorization(r, l.cap, l.auth)
    /\ x = "started" => ValidAuthorization(l.rec, l.cap, l.auth)

UseInv ==
    /\ LeaseInv
    /\ \A t \in Tasks : Whole(store[t])
    /\ \A p \in Procs : pc[p] \in Governed => lock = p
    /\ \A p \in Procs : UsesAt(pc[p], loc[p], store[loc[p].task])

(* A write of p: one event after the record it read. *)
Appends(p, e) ==
    LET t == loc[p].task
    IN  /\ pc[p] \in Loaded
        /\ store' = [store EXCEPT ![t] = store'[t]]
        /\ Adds(loc[p].rec, store'[t], e)
        /\ store'[t].state # "absent"
        /\ pc[p] \in Governed => e.type # "command.started"
        /\ pc[p] \notin Governed =>
               /\ pc[p] \in {"started", "finished"}
               /\ e.type # "command.authorized"
        /\ e.type = "command.started" =>
               ValidAuthorization(loc[p].rec, e.cap, e.auth)

UseStep(p) ==
    /\ \A q \in Procs \ {p} : pc'[q] = pc[q] /\ loc'[q] = loc[q]
    /\ lock' # lock => lock \in {NoProc, p}
    /\ pc'[p] \in Governed => lock' = p
    /\ UNCHANGED store \/ \E e : Appends(p, e)
    /\ (\A t \in Tasks : Whole(store'[t])) =>
           UsesAt(pc'[p], loc'[p], store'[loc'[p].task])

LEMMA FollowsItself ==
    ASSUME NEW r
    PROVE  Follows(r, r)
  BY DEF Follows

LEMMA FollowsOn ==
    ASSUME NEW r, NEW s, NEW u, Follows(s, r), Follows(u, s)
    PROVE  Follows(u, r)
  BY DEF Follows

(* What may be started stays so in a record with no more starts and no     *)
(* fewer authorizations.                                                   *)
LEMMA StaysValid ==
    ASSUME NEW r, NEW s, Follows(r, s), NEW c, NEW auth,
           ValidAuthorization(r, c, auth)
    PROVE  ValidAuthorization(s, c, auth)
  BY DEF Follows, ValidAuthorization

(* An event that is no start adds no start, and one that is no             *)
(* authorization no authorization.                                         *)
LEMMA AddedFollows ==
    ASSUME NEW r \in Record, NEW s, NEW e, Adds(r, s, e)
    PROVE  /\ e.type # "command.started" => Follows(r, s)
           /\ e.type # "command.authorized" => Follows(s, r)
  <1>1. \A auth : Consumed(r, auth) => Consumed(s, auth)
    BY AddedOf, AddedBefore DEF Consumed
  <1>2. ASSUME e.type # "command.started"
        PROVE  Follows(r, s)
    <2>1. \A auth : Consumed(s, auth) => Consumed(r, auth)
      BY <1>2, AddedOf, AddedBefore DEF Consumed
    <2>2. QED
      BY <2>1, AddedKeeps DEF Follows
  <1>3. ASSUME e.type # "command.authorized"
        PROVE  Follows(s, r)
    BY <1>1, <1>3, AddedFor DEF Follows
  <1>4. QED
    BY <1>2, <1>3

(* What is written is whole, and what the writer had read tells how it     *)
(* differs from what was there.                                            *)
LEMMA WrittenFollows ==
    ASSUME UseInv, TypeInv', NEW p \in Procs, NEW e, Appends(p, e)
    PROVE  LET t == loc[p].task
           IN  /\ t \in Tasks
               /\ Whole(store'[t])
               /\ pc[p] \in Governed => Follows(store[t], store'[t])
               /\ pc[p] \notin Governed => Follows(store'[t], store[t])
  <1> DEFINE t == loc[p].task
             r == loc[p].rec
             s == store'[t]
  <1>1. /\ r \in Record /\ t \in Tasks /\ pc[p] \in Loaded
        /\ Whole(r) /\ Adds(r, s, e) /\ s.state # "absent"
    BY LoadedPoints
       DEF UseInv, UsesAt, LeaseInv, TypeInv, TypeOK, TaskKnown, Locals, Appends
  <1>2. e.type = "command.started" => ValidAuthorization(r, e.cap, e.auth)
    BY DEF Appends
  <1>3. Whole(s)
    <2>1. StartsSound(s)
      BY <1>1, <1>2, StartsKept DEF Whole
    <2>2. QED
      BY <1>1, <2>1 DEF Whole
  <1>4. UsesAt(pc[p], loc[p], store[t])
    BY DEF UseInv
  <1>5. CASE pc[p] \in Governed
    <2>1. e.type # "command.started" /\ Follows(store[t], r)
      BY <1>1, <1>4, <1>5 DEF Appends, UsesAt
    <2>2. Follows(r, s)
      BY <1>1, <2>1, AddedFollows
    <2>3. Follows(store[t], s)
      BY <2>1, <2>2, FollowsOn
    <2>4. QED
      BY <1>1, <1>3, <1>5, <2>3
  <1>6. CASE pc[p] \notin Governed
    <2>1. e.type # "command.authorized" /\ Follows(r, store[t])
      BY <1>4, <1>6 DEF Appends, UsesAt
    <2>2. Follows(s, r)
      BY <1>1, <2>1, AddedFollows
    <2>3. Follows(s, store[t])
      BY <2>1, <2>2, FollowsOn
    <2>4. QED
      BY <1>1, <1>3, <1>6, <2>3
  <1>7. QED
    BY <1>5, <1>6

(* The others still know what they know.                                   *)
LEMMA OthersUse ==
    ASSUME UseInv, TypeInv', NEW p \in Procs, UseStep(p), NEW q \in Procs \ {p}
    PROVE  UsesAt(pc'[q], loc'[q], store'[loc'[q].task])
  <1> DEFINE u == loc[q].task
             x == pc[q]
             l == loc[q]
  <1>0. /\ pc'[q] = x /\ loc'[q] = l /\ q \in Procs
        /\ UsesAt(x, l, store[u])
    BY DEF UseStep, UseInv
  <1>1. CASE store'[u] = store[u]
    BY <1>0, <1>1
  <1>2. ASSUME NEW e, Appends(p, e), u = loc[p].task
        PROVE  UsesAt(x, l, store'[u])
    <2>1. /\ pc[p] \in Governed => Follows(store[u], store'[u])
          /\ pc[p] \notin Governed => Follows(store'[u], store[u])
      BY <1>2, WrittenFollows
    <2>2. CASE pc[p] \in Governed
      <3>1. x \notin Governed
        BY <2>2 DEF UseInv
      <3>2. ASSUME Follows(l.rec, store[u])
            PROVE  Follows(l.rec, store'[u])
        BY <2>1, <2>2, <3>2, FollowsOn
      <3>3. ASSUME ValidAuthorization(store[u], l.cap, l.auth)
            PROVE  ValidAuthorization(store'[u], l.cap, l.auth)
        BY <2>1, <2>2, <3>3, StaysValid
      <3> HIDE DEF u, x, l
      <3>4. QED
        BY <1>0, <3>1, <3>2, <3>3 DEF UsesAt
    <2>3. CASE pc[p] \notin Governed
      <3>1. pc[p] \in {"started", "finished"}
        BY <1>2, <2>3 DEF Appends
      <3>2. lease = p
        BY <3>1 DEF UseInv, LeaseInv, LeaseHeld, LeasedPoints
      <3>3. x \notin {"leased", "load_started", "started", "finished"}
        BY <3>2 DEF UseInv, LeaseInv, LeaseHeld, LeasedPoints
      <3>4. ASSUME Follows(store[u], l.rec)
            PROVE  Follows(store'[u], l.rec)
        BY <2>1, <2>3, <3>4, FollowsOn
      <3> HIDE DEF u, x, l
      <3>5. QED
        BY <1>0, <3>3, <3>4 DEF UsesAt
    <2>4. QED
      BY <2>2, <2>3
  <1>3. ASSUME NEW e, Appends(p, e), u \in Tasks, u # loc[p].task
        PROVE  store'[u] = store[u]
    BY <1>3 DEF Appends, UseInv, LeaseInv, TypeInv, TypeOK
  <1>4. CASE u \notin Tasks
    <2>1. x \in {"idle", "release"}
      BY <1>4 DEF UseInv, LeaseInv, TypeInv, TaskKnown
    <2> HIDE DEF u, x, l
    <2>2. UsesAt(x, l, store'[u])
      BY <2>1, LoadedPoints DEF UsesAt
    <2>3. QED
      BY <1>0, <2>2 DEF u, l
  <1>5. QED
    BY <1>0, <1>1, <1>2, <1>3, <1>4 DEF UseStep

LEMMA UseStepInv ==
    ASSUME UseInv, LeaseInv', NEW p \in Procs, UseStep(p)
    PROVE  UseInv'
  <1>0. TypeInv'
    BY DEF LeaseInv
  <1>1. \A t \in Tasks : Whole(store'[t])
    <2> SUFFICES ASSUME NEW t \in Tasks
                 PROVE  Whole(store'[t])
      OBVIOUS
    <2>1. Whole(store[t])
      BY DEF UseInv
    <2>2. ASSUME NEW e, Appends(p, e)
          PROVE  Whole(store'[t])
      <3>1. CASE t = loc[p].task
        BY <1>0, <2>2, <3>1, WrittenFollows
      <3>2. CASE t # loc[p].task
        <4>1. store'[t] = store[t]
          BY <2>2, <3>2 DEF Appends, UseInv, LeaseInv, TypeInv, TypeOK
        <4>2. QED
          BY <2>1, <4>1
      <3>3. QED
        BY <3>1, <3>2
    <2>3. QED
      BY <2>1, <2>2 DEF UseStep
  <1>2. ASSUME NEW q \in Procs, pc'[q] \in Governed
        PROVE  lock' = q
    <2>1. CASE q = p
      BY <1>2, <2>1 DEF UseStep
    <2>2. CASE q # p
      <3>1. lock = q
        BY <1>2, <2>2 DEF UseStep, UseInv
      <3>2. lock \notin {NoProc, p}
        BY <2>2, <3>1, KernelAssumption
      <3>3. QED
        BY <3>1, <3>2 DEF UseStep
    <2>3. QED
      BY <2>1, <2>2
  <1>3. ASSUME NEW q \in Procs
        PROVE  UsesAt(pc'[q], loc'[q], store'[loc'[q].task])
    BY <1>0, <1>1, OthersUse DEF UseStep
  <1>4. QED
    BY <1>1, <1>2, <1>3 DEF UseInv

----------------------------------------------------------------------------
(* Every step is one *)

(* A step to a point where nothing read is relied on. *)
Careless == Points \ (Loaded \cup {"load_started"})

LEMMA CarelessUses ==
    ASSUME NEW x \in Careless, NEW l, NEW r
    PROVE  UsesAt(x, l, r)
  BY LoadedPoints DEF Careless, UsesAt

LEMMA CarelessPoints ==
    {"idle", "planned", "release", "load_create", "load_activation", "load_amend",
     "load_cancel", "load_grant", "load_granted", "load_authorize",
     "load_authorized", "load_execute", "execute_lease", "load_leased", "spawn",
     "running", "load_finished", "load_target", "load_verify", "load_finalize"}
        \subseteq Careless
  BY LoadedPoints DEF Careless, Points, LoadPoints, AfterLoad

(* A step that writes nothing, to such a point. *)
LEMMA CarelessStep ==
    ASSUME UseInv, NEW p \in Procs, NEW x \in Careless, Goto(p, x),
           \A q \in Procs \ {p} : loc'[q] = loc[q], UNCHANGED store,
           lock' # lock => lock \in {NoProc, p},
           x \in Governed => lock' = p
    PROVE  UseStep(p)
  <1>1. /\ pc'[p] = x
        /\ \A q \in Procs \ {p} : pc'[q] = pc[q]
    BY DEF Goto, UseInv, LeaseInv, TypeInv, TypeOK
  <1>2. QED
    BY <1>1, CarelessUses DEF UseStep

(* One that leaves the lock and what p knows alone, too. *)
LEMMA MoveStep ==
    ASSUME UseInv, NEW p \in Procs, NEW x \in Careless, Goto(p, x),
           UNCHANGED <<store, loc, lock>>, x \in Governed => pc[p] \in Governed
    PROVE  UseStep(p)
  <1>1. x \in Governed => lock' = p
    BY DEF UseInv
  <1>2. QED
    BY <1>1, CarelessStep

LEMMA GiveUpUses ==
    ASSUME UseInv, NEW p \in Procs, GiveUp(p)
    PROVE  UseStep(p)
  <1>1. "release" \in Careless /\ "release" \notin Governed
    BY CarelessPoints DEF Governed, Unlocked
  <1>2. QED
    BY <1>1, MoveStep DEF GiveUp, disk, locks

LEMMA StopUses ==
    ASSUME UseInv, NEW p \in Procs, Release(p) \/ Crash(p)
    PROVE  UseStep(p)
  <1>1. "idle" \in Careless /\ "idle" \notin Governed
    BY CarelessPoints DEF Governed, Unlocked
  <1>2. \A q \in Procs \ {p} : loc'[q] = loc[q]
    BY DEF Release, Crash, UseInv, LeaseInv, TypeInv, TypeOK
  <1>3. QED
    BY <1>1, <1>2, CarelessStep DEF Release, Crash, disk

LEMMA InvokeUses ==
    ASSUME UseInv, NEW p \in Procs, Invoke(p) \/ Confirm(p)
    PROVE  UseStep(p)
  <1>1. ASSUME NEW op, NEW x \in Careless, NEW l, Begin(p, op, x, l)
        PROVE  UseStep(p)
    <2>1. \A q \in Procs \ {p} : loc'[q] = loc[q]
      BY <1>1 DEF Begin, UseInv, LeaseInv, TypeInv, TypeOK
    <2>2. QED
      BY <1>1, <2>1, CarelessStep DEF Begin, Acquire, disk
  <1>2. ASSUME NEW t, NEW c, NEW uses, PlanApproval(p, t, c, uses)
        PROVE  UseStep(p)
    <2>1. "planned" \in Careless /\ "planned" \notin Governed
      BY CarelessPoints DEF Governed, Unlocked
    <2>2. \A q \in Procs \ {p} : loc'[q] = loc[q]
      BY <1>2 DEF PlanApproval, UseInv, LeaseInv, TypeInv, TypeOK
    <2>3. QED
      BY <1>2, <2>1, <2>2, CarelessStep DEF PlanApproval, disk, locks
  <1>3. ASSUME NEW t, NEW auth, BeginExecute(p, t, auth)
        PROVE  UseStep(p)
    <2>1. "load_execute" \in Careless /\ "load_execute" \notin Governed
      BY CarelessPoints DEF Governed, Executing
    <2>2. \A q \in Procs \ {p} : loc'[q] = loc[q]
      BY <1>3 DEF BeginExecute, UseInv, LeaseInv, TypeInv, TypeOK
    <2>3. QED
      BY <1>3, <2>1, <2>2, CarelessStep DEF BeginExecute, disk, locks
  <1>4. CASE Confirm(p)
    <2>1. "load_grant" \in Careless
      BY CarelessPoints
    <2>2. loc' = loc
      BY <1>4 DEF Confirm
    <2>3. QED
      BY <1>4, <2>1, <2>2, CarelessStep DEF Confirm, Acquire, disk
  <1>5. CASE Invoke(p)
    BY <1>1, <1>2, <1>3, <1>5, CarelessPoints
       DEF Invoke, BeginStart, BeginAmend, BeginCancel, BeginRun, BeginVerify
  <1>6. QED
    BY <1>4, <1>5

(* A read: what p has read is what is on disk. *)
LEMMA LoadUses ==
    ASSUME UseInv, NEW p \in Procs, Load(p)
    PROVE  UseStep(p)
  <1> DEFINE l == [loc[p] EXCEPT !.rec = store[loc[p].task]]
             x == AfterLoad[pc[p]]
  <1>1. /\ pc[p] \in LoadPoints /\ pc'[p] = x /\ loc'[p] = l
        /\ \A q \in Procs \ {p} : pc'[q] = pc[q] /\ loc'[q] = loc[q]
        /\ UNCHANGED <<store, lock>>
    BY DEF Load, Goto, UseInv, LeaseInv, TypeInv, TypeOK, disk, locks
  <1>2. /\ loc[p] \in Locals /\ loc[p].task \in Tasks
    BY <1>1 DEF UseInv, LeaseInv, TypeInv, TypeOK, TaskKnown, LoadPoints, AfterLoad
  <1>3. /\ l.rec = store[l.task] /\ l.task \in Tasks /\ l.task = loc[p].task
        /\ l.cap = loc[p].cap /\ l.auth = loc[p].auth
    BY <1>2 DEF Locals
  <1>4. Whole(l.rec) /\ Follows(l.rec, l.rec)
    BY <1>3, FollowsItself DEF UseInv
  <1>5. x = "started" => ValidAuthorization(l.rec, l.cap, l.auth)
    <2>1. x = "started" => pc[p] = "load_started"
      BY <1>1 DEF LoadPoints, AfterLoad
    <2>2. UsesAt(pc[p], loc[p], store[loc[p].task])
      BY DEF UseInv
    <2> HIDE DEF l, x
    <2>3. QED
      BY <1>3, <2>1, <2>2 DEF UsesAt
  <1>6. x # "load_started"
    BY <1>1 DEF LoadPoints, AfterLoad
  <1>7. x \in Governed => lock = p
    <2>1. x \in Governed => pc[p] \in Governed
      BY <1>1 DEF LoadPoints, AfterLoad, Governed, Executing, Unlocked, Points
    <2>2. QED
      BY <2>1 DEF UseInv
  <1> HIDE DEF l, x
  <1>8. UsesAt(x, l, store[l.task])
    BY <1>3, <1>4, <1>5, <1>6 DEF UsesAt
  <1>9. QED
    BY <1>1, <1>7, <1>8 DEF UseStep

(* The steps between a read and a write. *)
LEMMA DecideUses ==
    ASSUME UseInv, NEW p \in Procs,
           \/ Grant(p) \/ Authorize(p) \/ ExecuteChecked(p) \/ TakeLease(p)
           \/ Spawn(p) \/ SpawnFails(p) \/ CommandEnds(p) \/ Decide(p)
    PROVE  UseStep(p)
  <1>0. \A q \in Procs \ {p} : loc'[q] = loc[q]
    BY DEF Grant, Authorize, ExecuteChecked, TakeLease, Spawn, SpawnFails,
           CommandEnds, Decide, UseInv, LeaseInv, TypeInv, TypeOK
  <1>1. \A x \in Executing : x \notin Governed
    BY DEF Governed
  <1>2. pc[p] \in Governed => lock = p
    BY DEF UseInv
  <1>3. CASE Grant(p) \/ Decide(p) \/ Authorize(p)
    <2>1. pc[p] \in Governed
      BY <1>3 DEF Grant, Decide, Authorize, Governed, Executing, Unlocked, Points
    <2>2. PICK x \in {"load_granted", "load_finalize", "load_authorized"} : Goto(p, x)
      BY <1>3 DEF Grant, Decide, Authorize
    <2>3. UNCHANGED <<store, lock>> /\ x \in Careless
      BY <1>3, <2>2, CarelessPoints DEF Grant, Decide, Authorize, disk, locks
    <2>4. QED
      BY <1>0, <1>2, <2>1, <2>2, <2>3, CarelessStep
  <1>4. CASE ExecuteChecked(p) \/ Spawn(p) \/ SpawnFails(p) \/ CommandEnds(p)
    <2>1. PICK x \in {"execute_lease", "running", "load_finished"} : Goto(p, x)
      BY <1>4 DEF ExecuteChecked, Spawn, SpawnFails, CommandEnds
    <2>2. UNCHANGED <<store, lock>> /\ x \in Careless /\ x \notin Governed
      BY <1>1, <1>4, <2>1, CarelessPoints
         DEF ExecuteChecked, Spawn, SpawnFails, CommandEnds, disk, locks, Executing
    <2>3. QED
      BY <1>0, <2>1, <2>2, CarelessStep
  <1>5. CASE TakeLease(p)
    <2>1. /\ Goto(p, AfterLease[pc[p]]) /\ UNCHANGED <<store, loc, lock>>
          /\ pc[p] \in LeasePoints
      BY <1>5 DEF TakeLease, disk
    <2>2. AfterLease[pc[p]] \in Careless
      BY <2>1, CarelessPoints DEF LeasePoints, AfterLease
    <2>3. AfterLease[pc[p]] \in Governed => pc[p] \in Governed
      BY <2>1 DEF LeasePoints, AfterLease, Governed, Executing, Unlocked, Points
    <2>4. QED
      BY <2>1, <2>2, <2>3, MoveStep
  <1>6. QED
    BY <1>3, <1>4, <1>5

LEMMA CheckUses ==
    ASSUME UseInv, NEW p \in Procs, CheckWorkspace(p) \/ CheckDiff(p)
    PROVE  UseStep(p)
  <1> DEFINE t == loc[p].task
  <1>1. PICK issues : loc' = [loc EXCEPT ![p].issues = issues]
    BY DEF CheckWorkspace, CheckDiff, UseInv, LeaseInv, TypeInv, TypeOK
  <1>2. /\ pc[p] \in {"check_workspace", "check_diff"}
        /\ pc'[p] \in {"check_diff", "decide"}
        /\ \A q \in Procs \ {p} : pc'[q] = pc[q] /\ loc'[q] = loc[q]
        /\ UNCHANGED <<store, lock>>
    BY <1>1 DEF CheckWorkspace, CheckDiff, Goto, UseInv, LeaseInv, TypeInv,
                TypeOK, disk, locks
  <1>3. loc'[p].rec = loc[p].rec /\ loc'[p].task = t
    BY <1>1 DEF UseInv, LeaseInv, TypeInv, TypeOK, Locals
  <1>4. {"check_workspace", "check_diff", "decide"} \subseteq Loaded \cap Governed
    BY LoadedPoints DEF Governed, Executing, Unlocked, Points
  <1>5. Whole(loc[p].rec) /\ Follows(store[t], loc[p].rec) /\ lock = p
    BY <1>2, <1>4 DEF UseInv, UsesAt
  <1>6. UsesAt(pc'[p], loc'[p], store[t])
    BY <1>2, <1>3, <1>5 DEF UsesAt
  <1>7. QED
    BY <1>2, <1>3, <1>5, <1>6 DEF UseStep

(* Under the lease the authorization is validated against a record that    *)
(* has every start on disk, so it holds of the record on disk.             *)
LEMMA PrepareUses ==
    ASSUME UseInv, NEW p \in Procs, PrepareExecution(p)
    PROVE  UseStep(p)
  <1> DEFINE t == loc[p].task
             attempt == NextAttempt(p)
  <1>1. /\ pc[p] = "leased" /\ pc'[p] = "load_started"
        /\ \A q \in Procs \ {p} : pc'[q] = pc[q] /\ loc'[q] = loc[q]
        /\ UNCHANGED <<store, lock>>
    BY DEF PrepareExecution, Goto, UseInv, LeaseInv, TypeInv, TypeOK, locks
  <1>2. loc' = [loc EXCEPT ![p].attempt = attempt]
    BY DEF PrepareExecution
  <1> HIDE DEF attempt
  <1>3. /\ loc'[p].task = t /\ loc'[p].cap = loc[p].cap
        /\ loc'[p].auth = loc[p].auth
    BY <1>2 DEF UseInv, LeaseInv, TypeInv, TypeOK, Locals
  <1>4. ValidAuthorization(store[t], loc[p].cap, loc[p].auth)
    <2>1. Follows(loc[p].rec, store[t])
      BY <1>1 DEF UseInv, UsesAt
    <2>2. ValidAuthorization(loc[p].rec, loc[p].cap, loc[p].auth)
      BY DEF PrepareExecution, Executable
    <2>3. QED
      BY <2>1, <2>2, StaysValid
  <1>5. "load_started" \notin Loaded /\ "load_started" \notin Governed
    BY LoadedPoints DEF Governed, Executing
  <1>6. UsesAt("load_started", loc'[p], store[t])
    BY <1>3, <1>4, <1>5 DEF UsesAt
  <1>7. QED
    BY <1>1, <1>3, <1>5, <1>6 DEF UseStep

(* A write of r with the event e, to a point where nothing is relied on. *)
LEMMA WriteUses ==
    ASSUME UseInv, TypeInv', NEW p \in Procs, pc[p] \in Loaded,
           NEW s, NEW x \in Careless, NEW e \in Event, Persist(p, s, x),
           s.events = Append(loc[p].rec.events, e), s.state # "absent",
           \A q \in Procs \ {p} : loc'[q] = loc[q],
           x \in Governed => pc[p] \in Governed,
           \/ /\ pc[p] \in Governed
              /\ e.type # "command.started"
           \/ /\ pc[p] = "finished"
              /\ e.type = "command.finished"
           \/ /\ pc[p] = "started"
              /\ e.type = "command.started" /\ e.cap = loc[p].cap
              /\ e.auth = loc[p].auth
    PROVE  UseStep(p)
  <1> DEFINE t == loc[p].task
  <1>1. /\ store \in [Tasks -> Record] /\ store' \in [Tasks -> Record]
        /\ t \in Tasks
    BY LoadedPoints DEF UseInv, LeaseInv, TypeInv, TypeOK, TaskKnown
  <1>2. /\ store' = [store EXCEPT ![t] = s]
        /\ pc'[p] = x /\ lock' = lock
        /\ \A q \in Procs \ {p} : pc'[q] = pc[q]
    BY DEF Persist, Goto, UseInv, LeaseInv, TypeInv, TypeOK, locks
  <1>3. store'[t] = s /\ s \in Record /\ store' = [store EXCEPT ![t] = store'[t]]
    BY <1>1, <1>2
  <1>4. pc[p] \in Governed => pc[p] \notin {"started", "finished"}
    BY DEF Governed, Executing
  <1>5. e.type = "command.started" =>
            ValidAuthorization(loc[p].rec, e.cap, e.auth)
    BY DEF UseInv, UsesAt
  <1> HIDE DEF t
  <1>6. Appends(p, e)
    BY <1>3, <1>4, <1>5 DEF Appends, Adds, t
  <1>7. x \in Governed => lock' = p
    BY <1>2 DEF UseInv
  <1>8. QED
    BY <1>2, <1>6, <1>7, CarelessUses DEF UseStep

(* What an event appended to r says of the write. *)
LEMMA AppendedEvents ==
    ASSUME NEW r \in Record, NEW e \in Event
    PROVE  /\ AppendEvent(r, e).events = Append(r.events, e)
           /\ AppendEvent(r, e).state = r.state
  BY DEF AppendEvent, Record

LEMMA EventUses ==
    ASSUME UseInv, TypeInv', NEW p \in Procs, pc[p] \in Loaded,
           NEW x \in Careless, NEW e \in Event, PersistEvent(p, e, x),
           \A q \in Procs \ {p} : loc'[q] = loc[q],
           x \in Governed => pc[p] \in Governed,
           \/ /\ pc[p] \in Governed
              /\ e.type # "command.started"
           \/ /\ pc[p] = "finished"
              /\ e.type = "command.finished"
           \/ /\ pc[p] = "started"
              /\ e.type = "command.started" /\ e.cap = loc[p].cap
              /\ e.auth = loc[p].auth
    PROVE  UseStep(p)
  <1>1. loc[p].rec \in Record
    BY DEF UseInv, LeaseInv, TypeInv, TypeOK, Locals
  <1>2. Persist(p, AppendEvent(loc[p].rec, e), x) /\ loc[p].rec.state # "absent"
    BY DEF PersistEvent, Active
  <1>3. QED
    BY <1>1, <1>2, AppendedEvents, WriteUses

(* The writes of operations under the lock start nothing. *)
LEMMA EnvelopeUses ==
    ASSUME UseInv, TypeInv', NEW p \in Procs,
           Create(p) \/ Amend(p) \/ Cancel(p) \/ Finalize(p)
    PROVE  UseStep(p)
  <1> DEFINE me == loc[p]
  <1>0. /\ me \in Locals /\ me.rec \in Record
        /\ \A q \in Procs \ {p} : loc'[q] = loc[q]
    BY DEF UseInv, LeaseInv, TypeInv, TypeOK, Locals, Create, Amend, Cancel, Finalize
  <1>1. pc[p] \in Loaded /\ pc[p] \in Governed
    BY LoadedPoints
       DEF Create, Amend, Cancel, Finalize, Governed, Executing, Unlocked, Points
  <1>2. "release" \in Careless /\ "load_activation" \in Careless
    BY CarelessPoints
  <1>3. ASSUME NEW type \in {"task.created", "task.amended", "task.cancelled",
                             "task.completed", "task.accepted_with_risk"}
        PROVE  NewEvent(type) \in Event /\ NewEvent(type).type = type
    <2>1. type \in EventTypes
      BY DEF EventTypes
    <2>2. QED
      BY <2>1, NewEventType DEF NewEvent
  <1>4. CASE Create(p)
    <2>1. PICK mode \in Modes : Persist(p, Created(p, mode), "load_activation")
      BY <1>4 DEF Create
    <2>2. me.rec.events = <<>>
      BY <1>1, <1>4 DEF Create, UseInv, UsesAt, Whole
    <2>3. /\ Created(p, mode).events = Append(me.rec.events, NewEvent("task.created"))
          /\ Created(p, mode).state # "absent"
      BY <2>2 DEF Created
    <2>4. QED
      BY <1>0, <1>1, <1>2, <1>3, <2>1, <2>3, WriteUses
  <1>5. CASE Amend(p)
    <2> DEFINE r == Amended(me.rec, me.requested, me.scope)
               e == [NewEvent("task.amended") EXCEPT !.revision = r.revision]
    <2>1. r \in Record /\ r.events = me.rec.events
      BY <1>0, AmendedType DEF Locals
    <2>2. r.state = me.rec.state /\ me.rec.state # "absent"
      BY <1>0, <1>5 DEF Amended, Amend, Active, Record
    <2>3. Persist(p, AppendEvent(r, e), "release")
      BY <1>5 DEF Amend
    <2>4. e \in Event /\ e.type = "task.amended"
      BY <1>3, <2>1 DEF Event, Record
    <2> HIDE DEF r, e
    <2>5. QED
      BY <1>0, <1>1, <1>2, <2>1, <2>2, <2>3, <2>4, AppendedEvents, WriteUses
  <1>6. ASSUME NEW outcome \in TerminalStates, NEW e \in Event,
               e.type # "command.started",
               Persist(p, AppendEvent([me.rec EXCEPT !.state = outcome], e), "release")
        PROVE  UseStep(p)
    <2> DEFINE r == [me.rec EXCEPT !.state = outcome]
    <2>1. /\ r \in Record /\ r.events = me.rec.events /\ r.state # "absent"
      BY <1>0 DEF Record, States, TerminalStates
    <2> HIDE DEF r
    <2>2. QED
      BY <1>0, <1>1, <1>2, <1>6, <2>1, AppendedEvents, WriteUses DEF r
  <1>7. CASE Cancel(p)
    BY <1>3, <1>6, <1>7 DEF Cancel, TerminalStates
  <1>8. CASE Finalize(p)
    <2> DEFINE outcome == Outcome(me.issues, me.risk)
               e == [NewEvent(TerminalEvent[outcome]) EXCEPT !.revision = me.revision]
    <2>1. outcome \in {"completed", "accepted_with_risk"}
      BY <1>8 DEF Finalize, TerminalEvent
    <2>2. Persist(p, AppendEvent([me.rec EXCEPT !.state = outcome], e), "release")
      BY <1>8 DEF Finalize
    <2>3. TerminalEvent[outcome] \in {"task.completed", "task.accepted_with_risk"}
      BY <2>1 DEF TerminalEvent
    <2> HIDE DEF outcome
    <2>4. e \in Event /\ e.type = TerminalEvent[outcome]
      BY <1>0, <1>3, <2>3 DEF Event, Locals
    <2>5. outcome \in TerminalStates
      BY <2>1 DEF TerminalStates
    <2> HIDE DEF e
    <2>6. QED
      BY <1>6, <2>2, <2>3, <2>4, <2>5
  <1>9. QED
    BY <1>4, <1>5, <1>7, <1>8

LEMMA RecordUses ==
    ASSUME UseInv, TypeInv', NEW p \in Procs,
           \/ RecordActivation(p) \/ RecordGrant(p) \/ RecordAuthorization(p)
           \/ RecordStart(p) \/ RecordFinish(p)
    PROVE  UseStep(p)
  <1> DEFINE me == loc[p]
  <1>0. /\ me \in Locals /\ now \in Nat
        /\ \A q \in Procs \ {p} : loc'[q] = loc[q]
    BY DEF UseInv, LeaseInv, TypeInv, TypeOK, RecordActivation, RecordGrant,
           RecordAuthorization, RecordStart, RecordFinish
  <1>1. /\ pc[p] \in Loaded
        /\ pc[p] \notin {"started", "finished"} => pc[p] \in Governed
    BY LoadedPoints
       DEF RecordActivation, RecordGrant, RecordAuthorization, RecordStart,
           RecordFinish, Governed, Executing, Unlocked, Points
  <1>2. {"load_activation", "release", "load_execute", "spawn"} \subseteq Careless
    BY CarelessPoints
  <1>3. {"release", "load_execute", "spawn"} \cap Governed = {}
    BY DEF Governed, Executing, Unlocked
  <1>4. ASSUME NEW type \in {"module.activation", "approval.granted",
                             "command.authorized", "command.started",
                             "command.finished"}
        PROVE  NewEvent(type) \in Event /\ NewEvent(type).type = type
    <2>1. type \in EventTypes
      BY DEF EventTypes
    <2>2. QED
      BY <2>1, NewEventType DEF NewEvent
  <1>5. CASE RecordActivation(p)
    BY <1>0, <1>1, <1>2, <1>4, <1>5, EventUses DEF RecordActivation
  <1>6. CASE RecordGrant(p)
    <2> DEFINE e == [NewEvent("approval.granted") EXCEPT
                        !.cap = me.cap, !.approval = me.approval,
                        !.uses = me.uses, !.time = me.expires]
    <2>1. e \in Event /\ e.type = "approval.granted"
      BY <1>0, <1>4 DEF Event, Locals
    <2>2. PersistEvent(p, e, "release") /\ pc[p] = "granted"
      BY <1>6 DEF RecordGrant
    <2> HIDE DEF e
    <2>3. QED
      BY <1>0, <1>1, <1>2, <1>3, <2>1, <2>2, EventUses
  <1>7. CASE RecordAuthorization(p)
    <2> DEFINE e == [NewEvent("command.authorized") EXCEPT
                        !.cap = me.cap, !.revision = me.revision,
                        !.approval = me.approval, !.time = now]
    <2>1. e \in Event /\ e.type = "command.authorized"
      BY <1>0, <1>4 DEF Event, Locals
    <2>2. PersistEvent(p, e, "load_execute") /\ pc[p] = "authorized"
      BY <1>7 DEF RecordAuthorization
    <2> HIDE DEF e
    <2>3. QED
      BY <1>0, <1>1, <1>2, <1>3, <2>1, <2>2, EventUses
  <1>8. CASE RecordStart(p)
    <2> DEFINE e == [NewEvent("command.started") EXCEPT
                        !.cap = me.cap, !.auth = me.auth, !.attempt = me.attempt]
    <2>1. /\ e \in Event /\ e.type = "command.started" /\ e.cap = me.cap
          /\ e.auth = me.auth
      BY <1>0, <1>4 DEF Event, Locals
    <2>2. PersistEvent(p, e, "spawn") /\ pc[p] = "started"
      BY <1>8 DEF RecordStart
    <2> HIDE DEF e
    <2>3. QED
      BY <1>0, <1>1, <1>2, <1>3, <2>1, <2>2, EventUses
  <1>9. CASE RecordFinish(p)
    <2> DEFINE e == [NewEvent("command.finished") EXCEPT
                        !.cap = me.cap, !.auth = me.auth,
                        !.attempt = me.attempt, !.status = me.status]
    <2>1. e \in Event /\ e.type = "command.finished"
      BY <1>0, <1>4 DEF Event, Locals
    <2>2. PersistEvent(p, e, "release") /\ pc[p] = "finished"
      BY <1>9 DEF RecordFinish
    <2> HIDE DEF e
    <2>3. QED
      BY <1>0, <1>1, <1>2, <1>3, <2>1, <2>2, EventUses
  <1>10. QED
    BY <1>5, <1>6, <1>7, <1>8, <1>9

LEMMA AdvanceUses ==
    ASSUME UseInv, TypeInv', NEW p \in Procs, Advance(p)
    PROVE  UseStep(p)
  <1>1. CASE \/ LoadMissing(p) \/ RejectTerminal(p) \/ CreateExisting(p)
             \/ StartDone(p) \/ AmendBounded(p) \/ GrantRefused(p) \/ Deny(p)
             \/ ExecutionRejected(p) \/ LeaseConflict(p)
             \/ ArtifactCollision(p) \/ SandboxUnavailable(p) \/ Reject(p)
    <2>1. GiveUp(p)
      BY <1>1
         DEF LoadMissing, RejectTerminal, CreateExisting, StartDone, AmendBounded,
             GrantRefused, Deny, ExecutionRejected, LeaseConflict,
             ArtifactCollision, SandboxUnavailable, Reject
    <2>2. QED
      BY <2>1, GiveUpUses
  <1>2. QED
    BY <1>1, LoadUses, StopUses, DecideUses, CheckUses, PrepareUses,
       EnvelopeUses, RecordUses DEF Advance

LEMMA NextUseInv == UseInv /\ [Next]_vars => UseInv'
  <1> SUFFICES ASSUME UseInv, [Next]_vars
               PROVE  UseInv'
    OBVIOUS
  <1>1. LeaseInv' /\ TypeInv'
    BY NextLeaseInv DEF UseInv, LeaseInv
  <1>2. ASSUME NEW p \in Procs,
               Invoke(p) \/ Advance(p) \/ Confirm(p) \/ Decline(p) \/ Crash(p)
        PROVE  UseInv'
    <2>1. UseStep(p)
      BY <1>1, <1>2, InvokeUses, AdvanceUses, GiveUpUses, StopUses DEF Decline
    <2>2. QED
      BY <1>1, <2>1, UseStepInv
  <1>3. CASE Environment \/ UNCHANGED vars
    <2>1. UNCHANGED <<store, pc, loc, lock>>
      BY <1>3 DEF Environment, OrphanEnds, Commit, Edit, LoseArtifact, Tick,
                  vars, disk, locks
    <2>2. QED
      BY <1>1, <2>1 DEF UseInv
  <1>4. QED
    BY <1>2, <1>3 DEF Next

LEMMA InitUseInv == Init => UseInv
  <1> SUFFICES ASSUME Init
               PROVE  UseInv
    OBVIOUS
  <1>1. Whole(NoRecord)
    <2>1. NoRecord.events = <<>> /\ EventsOf(NoRecord, "command.started") = {}
      BY DEF NoRecord, EventsOf
    <2>2. QED
      BY <2>1 DEF Whole, StartsSound
  <1>2. /\ \A t \in Tasks : store[t] = NoRecord
        /\ \A p \in Procs : pc[p] = "idle"
    BY DEF Init
  <1>3. "idle" \in Careless /\ "idle" \notin Governed
    BY CarelessPoints DEF Governed, Unlocked
  <1>4. \A p \in Procs : UsesAt(pc[p], loc[p], store[loc[p].task])
    BY <1>2, <1>3, CarelessUses
  <1>5. QED
    BY <1>1, <1>2, <1>3, <1>4, InitLeaseInv DEF UseInv

(* Every start consumes an earlier authorization of its capability that no *)
(* other start of the history consumes, whatever crashes in between,       *)
(* whoever presents an authorization again, and whether or not they hold   *)
(* the operation lock.                                                     *)
THEOREM AuthorizationsUsedOnce == Spec => []AuthorizationsSingleUse
  <1>1. UseInv => AuthorizationsSingleUse
    BY DEF UseInv, Whole, StartsSound, AuthorizationsSingleUse
  <1>2. QED
    BY <1>1, InitUseInv, NextUseInv, PTL DEF Spec
=============================================================================
