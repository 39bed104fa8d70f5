------------------------------ MODULE ModuleProofs ------------------------------
(***************************************************************************)
(* The modules a task begins with, proved for any modules, runtimes,       *)
(* invocations and budget, over edits of manifests and other runtimes at   *)
(* any time: what a task is given fits into its budget and was reviewed,   *)
(* and what Doctor finds in order can begin.  What is recommended of a     *)
(* module, proved for any episodes, tasks, kinds and any cooldown: what a  *)
(* recommendation rests on, and that a rejection is kept to.               *)
(***************************************************************************)
EXTENDS ActivationProperties, RecommendationProperties, FiniteSetTheorems, InductionLemmas

----------------------------------------------------------------------------
(* ModuleActivation                                                        *)

Sources == {"builtin", "local"}

States == {"installed", "enabled", "blocked", "suggested", "activated"}

Decision == [manifest : AnyManifests, source : Sources, state : States]

Locks == [ToSet(ModuleIds) -> LockItem \cup {Absent}]

ActivationTypeOK ==
    /\ shipped \in Shipped
    /\ local \in [ToSet(ModuleIds) -> Manifests \cup {Absent}]
    /\ locked \in Locks
    /\ recorded \in Seq(Decision)
    /\ planPc \in [Invocations -> {"idle", "planned", "listing", "recording"}]
    /\ planLoc \in [Invocations -> [lock : Locks \cup {<<>>}, after : Locks \cup {<<>>},
                          enabled : SUBSET AnyManifests, decisions : Seq(Decision)]]

(* The file of an id is a manifest with that id.                           *)
FilesAreNamed == \A id \in ToSet(ModuleIds) : local[id] # Absent => local[id].id = id

(* What the items enable was shown to a user.                              *)
EnabledWithin(items, shown) ==
    \A id \in ToSet(ModuleIds) :
        IsLocal(items[id]) /\ items[id].enabled => items[id].sha256 \in shown

PlanWasShown(p) ==
    planPc[p] = "planned" =>
        /\ planLoc[p].after \in Locks
        /\ EnabledWithin(planLoc[p].after, reviewed \cup planLoc[p].enabled)

(* Decisions give no more than the budget, and nothing unreviewed.         *)
GiveWithin(decisions, shown) ==
    \A i \in 1 .. Len(decisions) :
        decisions[i].state = "activated" /\ decisions[i].source = "local" =>
            decisions[i].manifest \in shown

(* Who starts the task works from a lock that was reviewed, then from      *)
(* decisions of which the task has the first ones.                         *)
Starting(p) ==
    /\ planPc[p] = "listing" =>
           /\ planLoc[p].lock \in Locks
           /\ EnabledWithin(planLoc[p].lock, reviewed)
           /\ recorded = <<>>
    /\ planPc[p] = "recording" =>
           /\ Len(recorded) < Len(planLoc[p].decisions)
           /\ \A i \in 1 .. Len(recorded) : recorded[i] = planLoc[p].decisions[i]
           /\ Given(planLoc[p].decisions) <= ContextBudget
           /\ GiveWithin(planLoc[p].decisions, reviewed)

Starts == {"listing", "recording"}

OneStart == \A p, q \in Invocations : planPc[p] \in Starts /\ planPc[q] \in Starts => p = q

ActivationInv ==
    /\ ActivationTypeOK
    /\ FilesAreNamed
    /\ EnabledWithin(locked, reviewed)
    /\ \A p \in Invocations : PlanWasShown(p) /\ Starting(p)
    /\ OneStart
    /\ ContextIsSound

----------------------------------------------------------------------------
(* Sequences *)

LEMMA InToSet ==
    ASSUME NEW S, NEW s \in Seq(S), NEW i \in 1 .. Len(s)
    PROVE  s[i] \in ToSet(s) /\ s[i] \in S
  BY DEF ToSet

LEMMA IdsAreIds ==
    ASSUME ActivationAssumption
    PROVE  /\ ModuleIds \in Seq(ToSet(ModuleIds)) /\ Builtins \in Seq(ToSet(ModuleIds)) /\ Builtins # <<>>
           /\ \A i \in 1 .. Len(ModuleIds) : ModuleIds[i] \in ToSet(ModuleIds)
           /\ \A i \in 1 .. Len(Builtins) : Builtins[i] \in ToSet(ModuleIds) /\ Builtins[i] \in ToSet(Builtins)
           /\ Len(Builtins) \in Nat /\ Len(Builtins) > 0
           /\ DOMAIN Builtins = 1 .. Len(Builtins)
  <1>1. ModuleIds \in Seq(ToSet(ModuleIds)) /\ Builtins \in Seq(ToSet(ModuleIds)) /\ Builtins # <<>>
    BY DEF ActivationAssumption
  <1> DEFINE S == ToSet(ModuleIds)
  <1> HIDE DEF S
  <1>2. ModuleIds \in Seq(S) /\ Builtins \in Seq(S)
    BY <1>1 DEF S
  <1>3. /\ \A i \in 1 .. Len(ModuleIds) : ModuleIds[i] \in S
        /\ \A i \in 1 .. Len(Builtins) : Builtins[i] \in S /\ Builtins[i] \in ToSet(Builtins)
    BY <1>2, InToSet
  <1>4. Len(Builtins) \in Nat /\ Len(Builtins) > 0 /\ DOMAIN Builtins = 1 .. Len(Builtins)
    BY <1>1, <1>2
  <1> QED BY <1>1, <1>3, <1>4 DEF S

(* The sum of what decisions give, as a running total.                     *)
IsTotal(h, decisions) ==
    h = [n \in 0 .. Len(decisions) |-> IF n = 0 THEN 0 ELSE h[n - 1] + CostOf(decisions[n])]

LEMMA CostsTyped ==
    ASSUME ActivationAssumption, NEW d \in Decision
    PROVE  CostOf(d) \in Nat
  <1>1. d.manifest \in AnyManifests
    BY DEF Decision
  <1>2. d.manifest.cost \in Nat
    BY <1>1 DEF ActivationAssumption
  <1> QED BY <1>2 DEF CostOf

LEMMA GivenTotals ==
    ASSUME ActivationAssumption, NEW decisions \in Seq(Decision)
    PROVE  \E h \in [0 .. Len(decisions) -> Nat] :
               /\ h[0] = 0
               /\ \A n \in 1 .. Len(decisions) : h[n] = h[n - 1] + CostOf(decisions[n])
               /\ Given(decisions) = h[Len(decisions)]
  <1> DEFINE N == Len(decisions)
             step == [n \in 1 .. N |-> [v \in Nat |-> v + CostOf(decisions[n])]]
  <1>1. N \in Nat /\ \A n \in 1 .. N : CostOf(decisions[n]) \in Nat
    <2>1. N \in Nat /\ \A n \in 1 .. N : decisions[n] \in Decision
      OBVIOUS
    <2> HIDE DEF N
    <2> QED BY <2>1, CostsTyped
  <1>2. step \in [1 .. N -> [Nat -> Nat]]
    BY <1>1
  <1>3. \A n \in 1 .. N, v \in Nat : step[n][v] = v + CostOf(decisions[n])
    OBVIOUS
  <1>4. PICK h \in [0 .. N -> Nat] : h[0] = 0 /\ \A n \in 1 .. N : h[n] = step[n][h[n - 1]]
    <2> DEFINE S == Nat
               base == 0
    <2>1. base \in S /\ step \in [1 .. N -> [S -> S]] /\ N \in Nat
      BY <1>1, <1>2
    <2> HIDE DEF N, step, S, base
    <2>2. \E h \in [0 .. N -> S] : h[0] = base /\ \A n \in 1 .. N : h[n] = step[n][h[n - 1]]
      BY <2>1, Recursion
    <2> QED BY <2>2 DEF S, base
  <1>5. ASSUME NEW n \in 0 .. N
        PROVE  h[n] = IF n = 0 THEN 0 ELSE h[n - 1] + CostOf(decisions[n])
    <2> HIDE DEF step
    <2>1. CASE n = 0
      BY <1>4, <2>1
    <2>2. CASE n # 0
      <3>1. n \in 1 .. N /\ n - 1 \in 0 .. N
        BY <1>1, <2>2
      <3>2. h[n] = step[n][h[n - 1]] /\ h[n - 1] \in Nat
        BY <1>4, <3>1
      <3> QED BY <1>3, <2>2, <3>1, <3>2
    <2> QED BY <2>1, <2>2
  <1>6. IsTotal(h, decisions)
    <2> HIDE DEF N
    <2>1. h = [n \in 0 .. N |-> IF n = 0 THEN 0 ELSE h[n - 1] + CostOf(decisions[n])]
      BY <1>4, <1>5
    <2> QED BY <2>1 DEF IsTotal, N
  <1>7. PICK sum : IsTotal(sum, decisions) /\ Given(decisions) = sum[N]
    <2>1. IsTotal(CHOOSE g : IsTotal(g, decisions), decisions)
      BY <1>6, Zenon
    <2>2. Given(decisions) = (CHOOSE g : IsTotal(g, decisions))[N]
      BY Zenon DEF Given, IsTotal
    <2> QED BY <2>1, <2>2
  <1>8. \A n \in 1 .. N : sum[n] = sum[n - 1] + CostOf(decisions[n])
    <2>1. ASSUME NEW n \in 1 .. N
          PROVE  sum[n] = sum[n - 1] + CostOf(decisions[n])
      <3>1. n \in 0 .. N /\ n # 0
        BY <1>1
      <3>2. sum[n] = IF n = 0 THEN 0 ELSE sum[n - 1] + CostOf(decisions[n])
        BY <1>7, <3>1, Zenon DEF IsTotal
      <3> QED BY <3>1, <3>2
    <2> QED BY <2>1
  <1>9. sum[0] = 0 /\ 0 \in 0 .. N
    BY <1>1, <1>7 DEF IsTotal
  <1> DEFINE T == {n \in 0 .. N : sum[n] \in Nat}
  <1>10. \A n \in 0 .. N : n \in T
    <2>1. 0 \in T
      BY <1>9
    <2>2. ASSUME NEW n \in 1 .. N, n - 1 \in T
          PROVE  n \in T
      <3>1. n \in 0 .. N /\ sum[n - 1] \in Nat /\ CostOf(decisions[n]) \in Nat
        BY <1>1, <2>2
      <3> QED BY <1>8, <3>1
    <2> HIDE DEF T, N
    <2> QED BY <1>1, <2>1, <2>2, Counting
  <1>11. sum \in [0 .. N -> Nat]
    BY <1>7, <1>10 DEF IsTotal
  <1> HIDE DEF T
  <1> QED BY <1>7, <1>8, <1>9, <1>11

(* What the first decisions give is no more than what all of them give,    *)
(* and what one more gives is added.                                       *)
LEMMA GivenOfPrefix ==
    ASSUME ActivationAssumption, NEW all \in Seq(Decision), NEW first \in Seq(Decision),
           Len(first) <= Len(all), \A i \in 1 .. Len(first) : first[i] = all[i]
    PROVE  /\ Given(first) \in Nat /\ Given(all) \in Nat
           /\ Given(first) <= Given(all)
           /\ Len(all) = Len(first) + 1 =>
                  Given(all) = Given(first) + CostOf(all[Len(all)])
  <1> DEFINE N == Len(first)
             M == Len(all)
  <1>1. N \in Nat /\ M \in Nat /\ N <= M
    OBVIOUS
  <1>2. PICK f \in [0 .. N -> Nat] :
               /\ f[0] = 0
               /\ \A n \in 1 .. N : f[n] = f[n - 1] + CostOf(first[n])
               /\ Given(first) = f[N]
    BY GivenTotals
  <1>3. PICK g \in [0 .. M -> Nat] :
               /\ g[0] = 0
               /\ \A n \in 1 .. M : g[n] = g[n - 1] + CostOf(all[n])
               /\ Given(all) = g[M]
    BY GivenTotals
  <1>4. \A n \in 1 .. N : first[n] = all[n]
    OBVIOUS
  <1>5. \A n \in 1 .. M : CostOf(all[n]) \in Nat
    BY CostsTyped
  <1> HIDE DEF N, M
  <1>6. \A n \in 0 .. N : f[n] = g[n]
    <2> DEFINE T == {n \in 0 .. N : f[n] = g[n]}
    <2>1. 0 \in T
      BY <1>1, <1>2, <1>3
    <2>2. ASSUME NEW n \in 1 .. N, n - 1 \in T
          PROVE  n \in T
      <3>1. n \in 0 .. N /\ n \in 1 .. M
        BY <1>1
      <3>2. f[n] = f[n - 1] + CostOf(first[n]) /\ g[n] = g[n - 1] + CostOf(all[n])
        BY <1>2, <1>3, <3>1
      <3>3. f[n - 1] = g[n - 1] /\ first[n] = all[n]
        BY <1>4, <2>2
      <3> QED BY <3>1, <3>2, <3>3
    <2>3. \A n \in 0 .. N : n \in T
      <3> HIDE DEF T
      <3> QED BY <1>1, <2>1, <2>2, Counting
    <2> QED BY <2>3
  <1>7. \A n \in 0 .. M : n >= N => g[N] <= g[n]
    <2> DEFINE T == {n \in 0 .. M : n >= N => g[N] <= g[n]}
    <2>1. 0 \in T
      BY <1>1, <1>3
    <2>2. ASSUME NEW n \in 1 .. M, n - 1 \in T
          PROVE  n \in T
      <3>1. n \in 0 .. M /\ n - 1 \in 0 .. M /\ N \in 0 .. M
        BY <1>1
      <3>2. g[n] = g[n - 1] + CostOf(all[n]) /\ CostOf(all[n]) \in Nat
        BY <1>3, <1>5
      <3>3. g[n] \in Nat /\ g[n - 1] \in Nat /\ g[N] \in Nat
        BY <1>3, <3>1
      <3>4. n - 1 >= N => g[N] <= g[n - 1]
        BY <2>2
      <3>5. n >= N => n - 1 >= N \/ n = N
        BY <1>1
      <3>6. n >= N => g[N] <= g[n]
        <4>1. CASE n = N
          BY <3>3, <4>1
        <4>2. CASE n - 1 >= N
          BY <3>2, <3>3, <3>4, <4>2
        <4> QED BY <3>5, <4>1, <4>2
      <3> QED BY <3>1, <3>6
    <2>3. \A n \in 0 .. M : n \in T
      <3> HIDE DEF T
      <3> QED BY <1>1, <2>1, <2>2, Counting
    <2> QED BY <2>3
  <1>8. N \in 0 .. N /\ M \in 0 .. M /\ M >= N
    BY <1>1
  <1>9. f[N] = g[N] /\ g[N] <= g[M] /\ f[N] \in Nat /\ g[M] \in Nat
    BY <1>2, <1>3, <1>6, <1>7, <1>8
  <1>10. M = N + 1 => g[M] = g[N] + CostOf(all[M])
    <2>1. ASSUME M = N + 1
          PROVE  g[M] = g[N] + CostOf(all[M])
      <3>1. M \in 1 .. M /\ M - 1 = N
        BY <1>1, <2>1
      <3> QED BY <1>3, <3>1
    <2> QED BY <2>1
  <1> QED BY <1>2, <1>3, <1>9, <1>10 DEF N, M

LEMMA NothingGiven ==
    ASSUME ActivationAssumption
    PROVE  Given(<<>>) = 0
  <1>1. <<>> \in Seq(Decision) /\ Len(<<>>) = 0
    OBVIOUS
  <1> QED BY <1>1, GivenTotals

----------------------------------------------------------------------------
(* The list of modules *)

(* What list says of a lock: builtins of the runtime, and the manifests of *)
(* its local items.                                                        *)
LocalIds(items) == {id \in ToSet(ModuleIds) : IsLocal(items[id])}

IsBuiltinStatus(items, status) ==
    \E id \in ToSet(Builtins) : status = BuiltinStatus(items, id)

IsLocalStatus(items, status) ==
    \E id \in LocalIds(items) : status = LocalStatus(items, id)

IsFound(h, items) ==
    h = [n \in 0 .. Len(ModuleIds) |->
            IF n = 0 THEN <<>>
            ELSE IF IsLocal(items[ModuleIds[n]]) THEN Append(h[n - 1], LocalStatus(items, ModuleIds[n]))
            ELSE h[n - 1]]

LEMMA LocalStatusesAreLocal ==
    ASSUME ActivationAssumption, NEW items
    PROVE  LocalStatuses(items) \in Seq({LocalStatus(items, id) : id \in LocalIds(items)})
  <1> DEFINE N == Len(ModuleIds)
             Each == {LocalStatus(items, id) : id \in LocalIds(items)}
             S == Seq(Each)
             base == <<>>
             grown(n, s) == IF IsLocal(items[ModuleIds[n]])
                            THEN Append(s, LocalStatus(items, ModuleIds[n])) ELSE s
             step == [n \in 1 .. N |-> [s \in S |-> grown(n, s)]]
  <1>1. N \in Nat /\ \A n \in 1 .. N : ModuleIds[n] \in ToSet(ModuleIds)
    <2> DEFINE T == ToSet(ModuleIds)
    <2>1. ModuleIds \in Seq(T) /\ \A n \in 1 .. N : ModuleIds[n] \in T
      BY IdsAreIds
    <2> HIDE DEF T
    <2>2. N \in Nat
      BY <2>1
    <2> QED BY <2>1, <2>2 DEF T
  <1>2. ASSUME NEW n \in 1 .. N, NEW s \in S
        PROVE  grown(n, s) \in S
    <2> DEFINE status == LocalStatus(items, ModuleIds[n])
    <2>1. CASE IsLocal(items[ModuleIds[n]])
      <3>1. status \in Each
        BY <1>1, <2>1 DEF LocalIds
      <3>2. Append(s, status) \in S
        <4> HIDE DEF Each, status
        <4> QED BY <3>1
      <3> QED BY <2>1, <3>2
    <2>2. CASE ~IsLocal(items[ModuleIds[n]])
      <3> HIDE DEF S
      <3> QED BY <2>2
    <2> QED BY <2>1, <2>2
  <1>3. base \in S
    <2> HIDE DEF Each
    <2> QED OBVIOUS
  <1> HIDE DEF S, base, grown
  <1>4. step \in [1 .. N -> [S -> S]]
    BY <1>2
  <1>5. PICK h \in [0 .. N -> S] : h[0] = base /\ \A n \in 1 .. N : h[n] = step[n][h[n - 1]]
    <2>1. base \in S /\ step \in [1 .. N -> [S -> S]] /\ N \in Nat
      BY <1>1, <1>3, <1>4
    <2> HIDE DEF Each, step, N
    <2>2. \E h \in [0 .. N -> S] : h[0] = base /\ \A n \in 1 .. N : h[n] = step[n][h[n - 1]]
      BY <2>1, Recursion
    <2> QED BY <2>2
  <1>6. ASSUME NEW n \in 0 .. N
        PROVE  h[n] = IF n = 0 THEN base ELSE grown(n, h[n - 1])
    <2>1. CASE n = 0
      BY <1>5, <2>1
    <2>2. CASE n # 0
      <3>1. n \in 1 .. N /\ n - 1 \in 0 .. N
        BY <1>1, <2>2
      <3>2. h[n] = step[n][h[n - 1]] /\ h[n - 1] \in S
        BY <1>5, <3>1
      <3>3. step[n][h[n - 1]] = grown(n, h[n - 1])
        BY <3>1, <3>2
      <3> HIDE DEF step
      <3> QED BY <2>2, <3>2, <3>3
    <2> QED BY <2>1, <2>2
  <1>7. IsFound(h, items)
    <2>1. h = [n \in 0 .. N |-> IF n = 0 THEN base ELSE grown(n, h[n - 1])]
      <3> HIDE DEF N, step
      <3> QED BY <1>5, <1>6
    <2> QED BY <2>1, Zenon DEF IsFound, N, base, grown
  <1>8. PICK found : IsFound(found, items) /\ LocalStatuses(items) = found[N]
    <2>1. IsFound(CHOOSE g : IsFound(g, items), items)
      BY <1>7, Zenon
    <2>2. LocalStatuses(items) = (CHOOSE g : IsFound(g, items))[N]
      BY Zenon DEF LocalStatuses, IsFound
    <2> QED BY <2>1, <2>2
  <1>9. \A n \in 0 .. N : found[n] = IF n = 0 THEN base ELSE grown(n, found[n - 1])
    BY <1>8, Zenon DEF IsFound, grown, base
  <1> DEFINE T == {n \in 0 .. N : found[n] \in S}
  <1>10. 0 \in T
    <2>1. 0 \in 0 .. N
      BY <1>1
    <2>2. found[0] = base
      BY <1>9, <2>1
    <2> QED BY <1>3, <2>1, <2>2
  <1>11. ASSUME NEW n \in 1 .. N, n - 1 \in T
         PROVE  n \in T
    <2>1. n \in 0 .. N /\ n # 0
      BY <1>1
    <2>2. found[n] = grown(n, found[n - 1])
      BY <1>9, <2>1
    <2>3. found[n - 1] \in S
      BY <1>11
    <2>4. found[n] \in S
      BY <1>2, <2>2, <2>3
    <2> QED BY <2>1, <2>4
  <1>12. N \in T
    <2> HIDE DEF T, N
    <2>1. \A n \in 0 .. N : n \in T
      BY <1>1, <1>10, <1>11, Counting
    <2> QED BY <1>1, <2>1
  <1>13. found[N] \in S
    BY <1>12
  <1> QED BY <1>8, <1>13 DEF S

LEMMA StatusesListed ==
    ASSUME ActivationAssumption, NEW items
    PROVE  /\ Len(Statuses(items)) \in Nat
           /\ Len(Statuses(items)) > 0
           /\ DOMAIN Statuses(items) = 1 .. Len(Statuses(items))
           /\ \A i \in 1 .. Len(Statuses(items)) :
                  \/ IsBuiltinStatus(items, Statuses(items)[i])
                  \/ IsLocalStatus(items, Statuses(items)[i])
  <1> DEFINE Builtin == {BuiltinStatus(items, id) : id \in ToSet(Builtins)}
             Local == {LocalStatus(items, id) : id \in LocalIds(items)}
             first == [i \in DOMAIN Builtins |-> BuiltinStatus(items, Builtins[i])]
             rest == LocalStatuses(items)
             n == Len(Builtins)
  <1>1. n \in Nat /\ n > 0 /\ DOMAIN Builtins = 1 .. n
        /\ \A i \in 1 .. n : Builtins[i] \in ToSet(Builtins)
    BY IdsAreIds
  <1>2. first \in [1 .. n -> Builtin] /\ DOMAIN first = 1 .. n
    BY <1>1
  <1>3. rest \in Seq(Local)
    BY LocalStatusesAreLocal
  <1>4. Statuses(items) = first \o rest
    BY DEF Statuses
  <1>5. /\ \A s \in Builtin : IsBuiltinStatus(items, s)
        /\ \A s \in Local : IsLocalStatus(items, s)
    BY DEF IsBuiltinStatus, IsLocalStatus
  <1> HIDE DEF Builtin, Local, first, rest, n
  <1>6. first \in Seq(Builtin) /\ Len(first) = n
    BY <1>1, <1>2
  <1> DEFINE all == first \o rest
  <1>7. /\ Len(all) = n + Len(rest) /\ Len(rest) \in Nat
        /\ DOMAIN all = 1 .. Len(all)
    BY <1>1, <1>3, <1>6
  <1>8. ASSUME NEW i \in 1 .. Len(all)
        PROVE  all[i] \in Builtin \/ all[i] \in Local
    <2>1. CASE i <= n
      <3>1. all[i] = first[i] /\ i \in 1 .. n
        BY <1>1, <1>3, <1>6, <1>7, <2>1
      <3> QED BY <1>2, <3>1
    <2>2. CASE i > n
      <3>1. all[i] = rest[i - n] /\ i - n \in 1 .. Len(rest)
        BY <1>1, <1>3, <1>6, <1>7, <2>2
      <3> QED BY <1>3, <3>1
    <2> QED BY <1>1, <1>7, <2>1, <2>2
  <1>9. Len(all) \in Nat /\ Len(all) > 0
    BY <1>1, <1>7
  <1> HIDE DEF all
  <1>10. Statuses(items) = all
    BY <1>4 DEF all
  <1> QED BY <1>5, <1>7, <1>8, <1>9, <1>10 DEF all

----------------------------------------------------------------------------
(* Decisions *)

LEMMA Affordable ==
    ASSUME NEW status, NEW traits, NEW available, NEW requested, NEW remaining \in Nat,
           status.manifest.cost \in Nat,
           StateOf(status, traits, available, requested, remaining) = "activated"
    PROVE  status.enabled /\ status.manifest.cost <= remaining
  <1> DEFINE m == status.manifest
  <1>1. CASE ~status.enabled
    BY <1>1 DEF StateOf
  <1>2. CASE /\ status.enabled
             /\ \/ status.policy = "disabled"
                \/ m.excludes \cap traits # {}
                \/ ~(m.applies \subseteq traits)
    BY <1>2 DEF StateOf
  <1>3. CASE /\ status.enabled
             /\ ~(\/ status.policy = "disabled"
                  \/ m.excludes \cap traits # {}
                  \/ ~(m.applies \subseteq traits))
    <2>1. ~(m.cost > remaining)
      BY <1>3 DEF StateOf
    <2> QED BY <1>3, <2>1
  <1> QED BY <1>1, <1>2, <1>3

LEMMA StatesAreStrings ==
    ASSUME NEW status, NEW traits, NEW available, NEW requested, NEW remaining
    PROVE  StateOf(status, traits, available, requested, remaining) \in States
  BY DEF StateOf, States

(* What has been decided so far, and what remains of the budget.           *)
Sofar == [remaining : Nat, decisions : Seq(Decision)]

Balanced(sofar) == Given(sofar.decisions) + sofar.remaining = ContextBudget

Decided(decision, status) ==
    /\ decision.manifest = status.manifest
    /\ decision.source = status.source
    /\ decision.state = "activated" => status.enabled

LEMMA SpendingTyped ==
    ASSUME ActivationAssumption, NEW sofar \in Sofar,
           NEW status, status.manifest \in AnyManifests, status.source \in Sources,
           NEW traits, NEW available, NEW requested
    PROVE  LET d == DecisionOn(status, traits, available, requested, sofar.remaining)
               next == Spending(sofar, d)
           IN  /\ d \in Decision /\ Decided(d, status)
               /\ next \in Sofar
               /\ next.decisions = Append(sofar.decisions, d)
               /\ next.remaining = sofar.remaining - CostOf(d)
  <1> DEFINE d == DecisionOn(status, traits, available, requested, sofar.remaining)
             next == Spending(sofar, d)
             state == StateOf(status, traits, available, requested, sofar.remaining)
  <1>1. sofar.remaining \in Nat /\ sofar.decisions \in Seq(Decision)
    BY DEF Sofar
  <1>2. status.manifest.cost \in Nat
    BY DEF ActivationAssumption
  <1>3. state \in States
    BY StatesAreStrings
  <1>4. state = "activated" => status.enabled /\ status.manifest.cost <= sofar.remaining
    BY <1>1, <1>2, Affordable
  <1> HIDE DEF state
  <1>5. d = [manifest |-> status.manifest, source |-> status.source, state |-> state]
    BY Zenon DEF DecisionOn, state
  <1> HIDE DEF d
  <1>6. d \in Decision /\ Decided(d, status)
    BY <1>3, <1>4, <1>5 DEF Decision, Decided
  <1>7. d.state = state /\ d.manifest = status.manifest
    BY <1>5
  <1>8. CostOf(d) \in Nat /\ sofar.remaining - CostOf(d) \in Nat
    <2>1. CASE state = "activated"
      <3>1. CostOf(d) = status.manifest.cost
        BY <1>7, <2>1 DEF CostOf
      <3> QED BY <1>1, <1>2, <1>4, <2>1, <3>1
    <2>2. CASE state # "activated"
      <3>1. CostOf(d) = 0
        BY <1>7, <2>2 DEF CostOf
      <3> QED BY <1>1, <3>1
    <2> QED BY <2>1, <2>2
  <1>9. next.decisions = Append(sofar.decisions, d)
    BY DEF Spending
  <1>10. next.remaining = sofar.remaining - CostOf(d)
    <2>1. CASE d.state = "activated"
      BY <2>1 DEF Spending, CostOf
    <2>2. CASE d.state # "activated"
      BY <1>1, <2>2 DEF Spending, CostOf
    <2> QED BY <2>1, <2>2
  <1>11. next = [remaining |-> next.remaining, decisions |-> next.decisions]
    BY DEF Spending
  <1> HIDE DEF next
  <1>12. next \in Sofar
    <2>1. Append(sofar.decisions, d) \in Seq(Decision)
      BY <1>1, <1>6
    <2> QED BY <1>8, <1>9, <1>10, <1>11, <2>1 DEF Sofar
  <1> QED BY <1>6, <1>9, <1>10, <1>12 DEF next, d

LEMMA SpendingBalances ==
    ASSUME ActivationAssumption, NEW sofar \in Sofar, NEW d \in Decision,
           NEW next \in Sofar, next.decisions = Append(sofar.decisions, d),
           next.remaining = sofar.remaining - CostOf(d), Balanced(sofar)
    PROVE  Balanced(next)
  <1> DEFINE first == sofar.decisions
             all == next.decisions
  <1>1. first \in Seq(Decision) /\ all \in Seq(Decision) /\ all = Append(first, d)
    BY DEF Sofar
  <1>2. sofar.remaining \in Nat /\ next.remaining \in Nat /\ CostOf(d) \in Nat
    BY CostsTyped DEF Sofar
  <1>3. Given(first) + sofar.remaining = ContextBudget
    BY DEF Balanced
  <1> HIDE DEF first, all
  <1>4. /\ Len(all) = Len(first) + 1 /\ Len(first) \in Nat /\ all[Len(all)] = d
        /\ \A i \in 1 .. Len(first) : first[i] = all[i]
    BY <1>1
  <1>5. Len(first) <= Len(all)
    BY <1>4
  <1>6. Given(first) \in Nat /\ Given(all) \in Nat /\ Given(all) = Given(first) + CostOf(d)
    BY <1>1, <1>4, <1>5, GivenOfPrefix
  <1>7. Given(all) + next.remaining = ContextBudget
    BY <1>2, <1>3, <1>6
  <1> QED BY <1>7 DEF Balanced, all

IsSofar(h, statuses, traits, available, requested) ==
    h = [n \in 0 .. Len(statuses) |->
            IF n = 0 THEN [remaining |-> ContextBudget, decisions |-> <<>>]
            ELSE Spending(h[n - 1],
                          DecisionOn(statuses[n], traits, available, requested,
                                     h[n - 1].remaining))]

(* Each status has its decision, and together they keep to the budget.     *)
LEMMA DecisionsSound ==
    ASSUME ActivationAssumption, NEW statuses, Len(statuses) \in Nat,
           \A n \in 1 .. Len(statuses) :
               statuses[n].manifest \in AnyManifests /\ statuses[n].source \in Sources,
           NEW traits, NEW available, NEW requested
    PROVE  LET decided == Decisions(statuses, traits, available, requested)
           IN  /\ decided \in Seq(Decision)
               /\ Len(decided) = Len(statuses)
               /\ Given(decided) <= ContextBudget
               /\ \A i \in 1 .. Len(statuses) : Decided(decided[i], statuses[i])
  <1> DEFINE N == Len(statuses)
             base == [remaining |-> ContextBudget, decisions |-> <<>>]
             decide(n, v) == DecisionOn(statuses[n], traits, available, requested, v.remaining)
             next(n, v) == Spending(v, decide(n, v))
             step == [n \in 1 .. N |-> [v \in Sofar |-> next(n, v)]]
  <1>1. N \in Nat
    OBVIOUS
  <1>2. base \in Sofar /\ base.decisions = <<>> /\ Balanced(base)
    <2>1. ContextBudget \in Nat
      BY DEF ActivationAssumption
    <2>2. base.remaining = ContextBudget /\ base.decisions = <<>>
      OBVIOUS
    <2>3. <<>> \in Seq(Decision)
      OBVIOUS
    <2>4. base \in Sofar
      BY <2>1, <2>3 DEF Sofar
    <2> HIDE DEF base
    <2>5. Balanced(base)
      BY <2>1, <2>2, NothingGiven DEF Balanced
    <2> QED BY <2>2, <2>4, <2>5
  <1>3. ASSUME NEW n \in 1 .. N, NEW v \in Sofar
        PROVE  /\ decide(n, v) \in Decision /\ Decided(decide(n, v), statuses[n])
               /\ next(n, v) \in Sofar
               /\ next(n, v).decisions = Append(v.decisions, decide(n, v))
               /\ next(n, v).remaining = v.remaining - CostOf(decide(n, v))
    BY SpendingTyped
  <1> HIDE DEF base, decide, next
  <1>4. step \in [1 .. N -> [Sofar -> Sofar]]
    BY <1>3
  <1>5. PICK h \in [0 .. N -> Sofar] : h[0] = base /\ \A n \in 1 .. N : h[n] = step[n][h[n - 1]]
    <2> DEFINE S == Sofar
    <2>1. base \in S /\ step \in [1 .. N -> [S -> S]] /\ N \in Nat
      BY <1>1, <1>2, <1>4
    <2> HIDE DEF step, N, S
    <2>2. \E h \in [0 .. N -> S] : h[0] = base /\ \A n \in 1 .. N : h[n] = step[n][h[n - 1]]
      BY <2>1, Recursion
    <2> QED BY <2>2 DEF S
  <1>6. ASSUME NEW n \in 0 .. N
        PROVE  h[n] = IF n = 0 THEN base ELSE next(n, h[n - 1])
    <2>1. CASE n = 0
      BY <1>5, <2>1
    <2>2. CASE n # 0
      <3>1. n \in 1 .. N /\ n - 1 \in 0 .. N
        BY <1>1, <2>2
      <3>2. h[n] = step[n][h[n - 1]] /\ h[n - 1] \in Sofar
        BY <1>5, <3>1
      <3>3. step[n][h[n - 1]] = next(n, h[n - 1])
        BY <3>1, <3>2
      <3> HIDE DEF step
      <3> QED BY <2>2, <3>2, <3>3
    <2> QED BY <2>1, <2>2
  <1>7. IsSofar(h, statuses, traits, available, requested)
    <2>1. h = [n \in 0 .. N |-> IF n = 0 THEN base ELSE next(n, h[n - 1])]
      <3> HIDE DEF N, step
      <3> QED BY <1>5, <1>6
    <2> QED BY <2>1, Zenon DEF IsSofar, N, base, next, decide
  <1>8. PICK sofar : /\ IsSofar(sofar, statuses, traits, available, requested)
                     /\ Decisions(statuses, traits, available, requested) = sofar[N].decisions
    <2> DEFINE chosen == CHOOSE g : IsSofar(g, statuses, traits, available, requested)
    <2>1. IsSofar(chosen, statuses, traits, available, requested)
      BY <1>7, Zenon
    <2>2. Decisions(statuses, traits, available, requested) = chosen[N].decisions
      BY Zenon DEF Decisions, IsSofar
    <2> HIDE DEF chosen
    <2> QED BY <2>1, <2>2
  <1>9. \A n \in 0 .. N : sofar[n] = IF n = 0 THEN base ELSE next(n, sofar[n - 1])
    BY <1>8, Zenon DEF IsSofar, next, decide, base
  <1> DEFINE Sound(n) == /\ sofar[n] \in Sofar
                         /\ Len(sofar[n].decisions) = n
                         /\ Balanced(sofar[n])
                         /\ \A i \in 1 .. n : Decided(sofar[n].decisions[i], statuses[i])
             T == {n \in 0 .. N : Sound(n)}
  <1>10. 0 \in T
    <2>1. 0 \in 0 .. N
      BY <1>1
    <2>2. sofar[0] = base
      BY <1>9, <2>1
    <2>3. Len(base.decisions) = 0
      BY <1>2
    <2>4. \A i \in 1 .. 0 : Decided(sofar[0].decisions[i], statuses[i])
      OBVIOUS
    <2> QED BY <1>2, <2>1, <2>2, <2>3, <2>4
  <1>11. ASSUME NEW n \in 1 .. N, n - 1 \in T
         PROVE  n \in T
    <2>1. n \in 0 .. N /\ n # 0 /\ n \in Nat /\ n - 1 \in Nat
      BY <1>1
    <2>2. Sound(n - 1)
      BY <1>11
    <2> DEFINE v == sofar[n - 1]
               w == sofar[n]
               d == decide(n, v)
    <2>3. w = next(n, v)
      BY <1>9, <2>1
    <2>4. /\ v \in Sofar /\ Len(v.decisions) = n - 1 /\ Balanced(v)
          /\ \A i \in 1 .. n - 1 : Decided(v.decisions[i], statuses[i])
      BY <2>2
    <2>5. /\ d \in Decision /\ Decided(d, statuses[n]) /\ w \in Sofar
          /\ w.decisions = Append(v.decisions, d)
          /\ w.remaining = v.remaining - CostOf(d)
      BY <1>3, <2>3, <2>4
    <2> HIDE DEF v, w, d
    <2>6. Balanced(w)
      BY <2>4, <2>5, SpendingBalances
    <2>7. v.decisions \in Seq(Decision)
      BY <2>4 DEF Sofar
    <2>8. /\ Len(w.decisions) = n /\ w.decisions[n] = d
          /\ \A i \in 1 .. n - 1 : w.decisions[i] = v.decisions[i]
      BY <2>1, <2>4, <2>5, <2>7
    <2>9. \A i \in 1 .. n : Decided(w.decisions[i], statuses[i])
      <3>1. \A i \in 1 .. n : i = n \/ i \in 1 .. n - 1
        BY <2>1
      <3> QED BY <2>4, <2>5, <2>8, <3>1
    <2>10. Sound(n)
      BY <2>5, <2>6, <2>8, <2>9 DEF w
    <2> HIDE DEF Sound
    <2> QED BY <2>1, <2>10
  <1>12. Sound(N)
    <2>1. \A n \in 0 .. N : n \in T
      <3> HIDE DEF T, N
      <3> QED BY <1>1, <1>10, <1>11, Counting
    <2>2. N \in 0 .. N
      BY <1>1
    <2> HIDE DEF Sound
    <2> QED BY <2>1, <2>2
  <1> DEFINE decided == sofar[N].decisions
  <1>13. decided \in Seq(Decision) /\ sofar[N].remaining \in Nat
    BY <1>12 DEF Sofar
  <1>14. Given(decided) + sofar[N].remaining = ContextBudget
    BY <1>12 DEF Balanced
  <1>15. Given(decided) \in Nat
    <2> HIDE DEF decided
    <2>1. Len(decided) <= Len(decided)
      BY <1>13
    <2> QED BY <1>13, <2>1, GivenOfPrefix
  <1>16. Given(decided) <= ContextBudget
    BY <1>13, <1>14, <1>15
  <1> QED BY <1>8, <1>12, <1>13, <1>16

----------------------------------------------------------------------------
(* What is listed *)

LEMMA ShippedTyped ==
    ASSUME ActivationAssumption, ActivationTypeOK, NEW id \in ToSet(Builtins)
    PROVE  shipped[id] \in AnyManifests /\ shipped[id].id = id /\ id \in ToSet(ModuleIds)
  <1>1. shipped \in Shipped
    BY DEF ActivationTypeOK
  <1>2. ToSet(Builtins) \subseteq ToSet(ModuleIds)
    <2> DEFINE S == ToSet(ModuleIds)
    <2>1. Builtins \in Seq(S)
      BY IdsAreIds
    <2> HIDE DEF S
    <2>2. ToSet(Builtins) \subseteq S
      BY <2>1 DEF ToSet
    <2> QED BY <2>2 DEF S
  <1>3. shipped[id] \in {runtime[i] : runtime \in Shipped, i \in ToSet(ModuleIds)} /\ id \in ToSet(ModuleIds)
    BY <1>1, <1>2
  <1>4. shipped[id] \in {runtime[i] : runtime \in Shipped, i \in ToSet(Builtins)}
    BY <1>1
  <1>5. shipped[id].id = id
    BY <1>1 DEF ActivationAssumption
  <1> QED BY <1>3, <1>4, <1>5 DEF AnyManifests

LEMMA LocalTyped ==
    ASSUME ActivationTypeOK, NEW id \in ToSet(ModuleIds), local[id] # Absent
    PROVE  local[id] \in AnyManifests
  BY DEF ActivationTypeOK, AnyManifests

LEMMA ItemTyped ==
    ASSUME NEW items \in Locks, NEW id \in ToSet(ModuleIds), items[id] # Absent
    PROVE  /\ items[id] \in LockItem
           /\ items[id].source \in Sources /\ items[id].sha256 \in AnyManifests
           /\ items[id].enabled \in BOOLEAN
  BY DEF Locks, LockItem, Sources

(* A list that can be made is of manifests, and what it has of local ones  *)
(* that are enabled is within what was shown.                              *)
LEMMA ListedIsShown ==
    ASSUME ActivationAssumption, ActivationTypeOK, NEW items \in Locks, Listable(items),
           NEW shown, EnabledWithin(items, shown)
    PROVE  LET statuses == Statuses(items)
           IN  /\ Len(statuses) \in Nat /\ Len(statuses) > 0
               /\ \A i \in 1 .. Len(statuses) :
                      /\ statuses[i].manifest \in AnyManifests
                      /\ statuses[i].source \in Sources
                      /\ statuses[i].source = "local" /\ statuses[i].enabled =>
                             statuses[i].manifest \in shown
  <1> DEFINE statuses == Statuses(items)
             Good(s) == /\ s.manifest \in AnyManifests
                        /\ s.source \in Sources
                        /\ s.source = "local" /\ s.enabled => s.manifest \in shown
  <1>1. /\ Len(statuses) \in Nat /\ Len(statuses) > 0
        /\ \A i \in 1 .. Len(statuses) :
               IsBuiltinStatus(items, statuses[i]) \/ IsLocalStatus(items, statuses[i])
    BY StatusesListed
  <1>2. ASSUME NEW s, IsBuiltinStatus(items, s)
        PROVE  Good(s)
    <2>1. PICK id \in ToSet(Builtins) : s = BuiltinStatus(items, id)
      BY <1>2 DEF IsBuiltinStatus
    <2>2. s.manifest = shipped[id] /\ s.source = "builtin"
      BY <2>1 DEF BuiltinStatus
    <2> QED BY <2>2, ShippedTyped DEF Sources
  <1>3. ASSUME NEW s, IsLocalStatus(items, s)
        PROVE  Good(s)
    <2>1. PICK id \in LocalIds(items) : s = LocalStatus(items, id)
      BY <1>3 DEF IsLocalStatus
    <2>2. id \in ToSet(ModuleIds) /\ items[id] # Absent /\ items[id].source = "local"
          /\ IsLocal(items[id])
      BY <2>1 DEF LocalIds, IsLocal
    <2>3. local[id] # Absent /\ local[id] = items[id].sha256
      BY <2>2 DEF Listable, LoadsAsLocked
    <2>4. s.manifest = local[id] /\ s.source = "local" /\ s.enabled = items[id].enabled
      BY <2>1 DEF LocalStatus
    <2>5. items[id].enabled => local[id] \in shown
      BY <2>2, <2>3 DEF EnabledWithin
    <2> QED BY <2>2, <2>3, <2>4, <2>5, LocalTyped DEF Sources
  <1> HIDE DEF Good, statuses
  <1>4. \A i \in 1 .. Len(statuses) : Good(statuses[i])
    BY <1>1, <1>2, <1>3
  <1> QED BY <1>1, <1>4 DEF Good, statuses

(* What Doctor finds in order can be listed as it is pinned.               *)
LEMMA OrderIsListable ==
    ASSUME ActivationAssumption, ActivationTypeOK, FilesAreNamed
    PROVE  DoctorForesees
  <1>1. SUFFICES ASSUME HashesValid
                 PROVE  /\ Listable(locked)
                        /\ \A i \in DOMAIN Statuses(locked) :
                               LET status == Statuses(locked)[i]
                                   item == locked[status.manifest.id]
                               IN  item # Absent /\ item.source = status.source =>
                                       item.sha256 = status.manifest
    BY DEF DoctorForesees
  <1>2. locked \in Locks /\ Absent \notin AnyManifests
    BY DEF ActivationTypeOK, ActivationAssumption
  <1>3. Listable(locked)
    <2>1. SUFFICES ASSUME NEW id \in ToSet(ModuleIds), locked[id] # Absent, locked[id].source = "local"
                   PROVE  LoadsAsLocked(locked[id], id)
      BY DEF Listable
    <2>2. local[id] = locked[id].sha256
      BY <1>1, <2>1 DEF HashesValid
    <2>3. locked[id].sha256 \in AnyManifests
      BY <1>2, <2>1, ItemTyped
    <2> QED BY <1>2, <2>2, <2>3 DEF LoadsAsLocked
  <1> DEFINE Pinned(s) ==
                 locked[s.manifest.id] # Absent /\ locked[s.manifest.id].source = s.source =>
                     locked[s.manifest.id].sha256 = s.manifest
  <1>4. ASSUME NEW s, IsBuiltinStatus(locked, s)
        PROVE  Pinned(s)
    <2>1. PICK id \in ToSet(Builtins) : s = BuiltinStatus(locked, id)
      BY <1>4 DEF IsBuiltinStatus
    <2>2. s.manifest = shipped[id] /\ s.source = "builtin"
      BY <2>1 DEF BuiltinStatus
    <2>3. s.manifest.id = id /\ id \in ToSet(ModuleIds)
      BY <2>2, ShippedTyped
    <2>4. locked[id] # Absent /\ locked[id].source = "builtin" => shipped[id] = locked[id].sha256
      BY <1>1, <2>3 DEF HashesValid
    <2> QED BY <2>2, <2>3, <2>4
  <1>5. ASSUME NEW s, IsLocalStatus(locked, s)
        PROVE  Pinned(s)
    <2>1. PICK id \in LocalIds(locked) : s = LocalStatus(locked, id)
      BY <1>5 DEF IsLocalStatus
    <2>2. id \in ToSet(ModuleIds) /\ locked[id] # Absent /\ locked[id].source = "local"
      BY <2>1 DEF LocalIds, IsLocal
    <2>3. local[id] = locked[id].sha256 /\ local[id] # Absent
      BY <1>3, <2>2 DEF Listable, LoadsAsLocked
    <2>4. s.manifest = local[id]
      BY <2>1 DEF LocalStatus
    <2>5. s.manifest.id = id
      BY <2>2, <2>3, <2>4 DEF FilesAreNamed
    <2> QED BY <2>3, <2>4, <2>5
  <1> HIDE DEF Pinned
  <1>6. \A i \in DOMAIN Statuses(locked) : Pinned(Statuses(locked)[i])
    BY <1>4, <1>5, StatusesListed
  <1> QED BY <1>3, <1>6 DEF Pinned

----------------------------------------------------------------------------
(* What the steps share *)

LEMMA MoreIsShown ==
    ASSUME NEW items, NEW shown, NEW more, shown \subseteq more, EnabledWithin(items, shown)
    PROVE  EnabledWithin(items, more)
  BY DEF EnabledWithin

(* What others have planned or begun stays good while they rest.           *)
LEMMA OthersKeep ==
    ASSUME ActivationInv, NEW q \in Invocations, planPc'[q] = planPc[q], planLoc'[q] = planLoc[q],
           reviewed \subseteq reviewed',
           recorded' = recorded \/ planPc[q] \notin Starts
    PROVE  PlanWasShown(q)' /\ Starting(q)'
  <1>1. PlanWasShown(q) /\ Starting(q)
    BY DEF ActivationInv
  <1>2. PlanWasShown(q)'
    <2>1. SUFFICES ASSUME planPc'[q] = "planned"
                   PROVE  /\ planLoc'[q].after \in Locks
                          /\ EnabledWithin(planLoc'[q].after, reviewed' \cup planLoc'[q].enabled)
      BY DEF PlanWasShown
    <2>2. /\ planLoc[q].after \in Locks
          /\ EnabledWithin(planLoc[q].after, reviewed \cup planLoc[q].enabled)
      BY <1>1, <2>1 DEF PlanWasShown
    <2>3. reviewed \cup planLoc[q].enabled \subseteq reviewed' \cup planLoc[q].enabled
      OBVIOUS
    <2>4. EnabledWithin(planLoc[q].after, reviewed' \cup planLoc[q].enabled)
      BY <2>2, <2>3, MoreIsShown
    <2> QED BY <2>2, <2>4
  <1>3. ASSUME planPc'[q] = "listing"
        PROVE  planLoc'[q].lock \in Locks /\ EnabledWithin(planLoc'[q].lock, reviewed') /\ recorded' = <<>>
    <2>1. planLoc[q].lock \in Locks /\ EnabledWithin(planLoc[q].lock, reviewed) /\ recorded = <<>>
          /\ recorded' = recorded
      BY <1>1, <1>3 DEF Starting, Starts
    <2>2. EnabledWithin(planLoc[q].lock, reviewed')
      BY <2>1, MoreIsShown
    <2> QED BY <2>1, <2>2
  <1>4. ASSUME planPc'[q] = "recording"
        PROVE  /\ Len(recorded') < Len(planLoc'[q].decisions)
               /\ \A i \in 1 .. Len(recorded') : recorded'[i] = planLoc'[q].decisions[i]
               /\ Given(planLoc'[q].decisions) <= ContextBudget
               /\ GiveWithin(planLoc'[q].decisions, reviewed')
    <2>1. recorded' = recorded
      BY <1>4 DEF Starts
    <2>2. /\ Len(recorded) < Len(planLoc[q].decisions)
          /\ \A i \in 1 .. Len(recorded) : recorded[i] = planLoc[q].decisions[i]
          /\ Given(planLoc[q].decisions) <= ContextBudget
          /\ GiveWithin(planLoc[q].decisions, reviewed)
      BY <1>1, <1>4 DEF Starting
    <2>3. GiveWithin(planLoc[q].decisions, reviewed')
      BY <2>2 DEF GiveWithin
    <2> QED BY <2>1, <2>2, <2>3
  <1> QED BY <1>2, <1>3, <1>4 DEF Starting

LEMMA OneStartKeeps ==
    ASSUME OneStart, \A q \in Invocations : planPc'[q] \in Starts => planPc[q] \in Starts
    PROVE  OneStart'
  BY DEF OneStart

LEMMA ContextKeeps ==
    ASSUME ContextIsSound, recorded' = recorded, reviewed \subseteq reviewed'
    PROVE  ContextIsSound'
  <1>1. ContextWithinBudget'
    BY DEF ContextIsSound, ContextWithinBudget
  <1>2. ContextWasReviewed'
    BY DEF ContextIsSound, ContextWasReviewed, Activated
  <1> QED BY <1>1, <1>2 DEF ContextIsSound

(* A step of one invocation that leaves the others alone.                  *)
LEMMA StepKeeps ==
    ASSUME ActivationInv, NEW p \in Invocations,
           \A q \in Invocations : q # p => planPc'[q] = planPc[q] /\ planLoc'[q] = planLoc[q],
           recorded' = recorded \/ planPc[p] \in Starts,
           reviewed \subseteq reviewed',
           ActivationTypeOK', FilesAreNamed', EnabledWithin(locked', reviewed'),
           PlanWasShown(p)', Starting(p)', OneStart', ContextIsSound'
    PROVE  ActivationInv'
  <1>1. OneStart
    BY DEF ActivationInv
  <1>2. ASSUME NEW q \in Invocations
        PROVE  PlanWasShown(q)' /\ Starting(q)'
    <2>1. CASE q = p
      BY <2>1
    <2>2. CASE q # p
      <3>1. recorded' = recorded \/ planPc[q] \notin Starts
        BY <1>1, <2>2 DEF OneStart
      <3>2. planPc'[q] = planPc[q] /\ planLoc'[q] = planLoc[q]
        BY <2>2
      <3> QED BY <3>1, <3>2, OthersKeep
    <2> QED BY <2>1, <2>2
  <1>3. (EnabledWithin(locked, reviewed))'
    BY DEF EnabledWithin
  <1> QED BY <1>2, <1>3 DEF ActivationInv

LEMMA InvParts ==
    ASSUME ActivationInv
    PROVE  /\ ActivationTypeOK /\ FilesAreNamed /\ EnabledWithin(locked, reviewed)
           /\ OneStart /\ ContextIsSound
           /\ \A p \in Invocations : PlanWasShown(p) /\ Starting(p)
  BY DEF ActivationInv

----------------------------------------------------------------------------
(* The steps *)

LocalsOf == [lock : Locks \cup {<<>>}, after : Locks \cup {<<>>},
             enabled : SUBSET AnyManifests, decisions : Seq(Decision)]

Points == {"idle", "planned", "listing", "recording"}

LEMMA NoLocalsTyped == NoStart \in LocalsOf
  <1>1. <<>> \in Seq(Decision)
    OBVIOUS
  <1> QED BY <1>1 DEF NoStart, LocalsOf

(* One invocation moves.                                                   *)
LEMMA MoveTyped ==
    ASSUME ActivationTypeOK, NEW p \in Invocations, NEW point \in Points, NEW l \in LocalsOf,
           planPc' = [planPc EXCEPT ![p] = point], planLoc' = [planLoc EXCEPT ![p] = l],
           shipped' = shipped, local' = local, locked' \in Locks, recorded' \in Seq(Decision)
    PROVE  /\ ActivationTypeOK'
           /\ planPc'[p] = point /\ planLoc'[p] = l
           /\ \A q \in Invocations : q # p => planPc'[q] = planPc[q] /\ planLoc'[q] = planLoc[q]
  <1>1. planPc \in [Invocations -> Points] /\ planLoc \in [Invocations -> LocalsOf]
    BY DEF ActivationTypeOK, Points, LocalsOf
  <1>2. planPc' \in [Invocations -> Points] /\ planLoc' \in [Invocations -> LocalsOf]
    BY <1>1
  <1>3. shipped' \in Shipped /\ local' \in [ToSet(ModuleIds) -> Manifests \cup {Absent}]
    BY DEF ActivationTypeOK
  <1>4. ActivationTypeOK'
    BY <1>2, <1>3 DEF ActivationTypeOK, Points, LocalsOf
  <1> QED BY <1>1, <1>4

LEMMA FilesKeep ==
    ASSUME FilesAreNamed, local' = local
    PROVE  FilesAreNamed'
  BY DEF FilesAreNamed

LEMMA PlanKeeps ==
    ASSUME ActivationInv, NEW p \in Invocations, NEW after \in Locks,
           NEW enabled \in SUBSET AnyManifests,
           EnabledWithin(after, reviewed \cup enabled), Plan(p, after, enabled)
    PROVE  ActivationInv'
  <1> DEFINE l == [NoStart EXCEPT !.lock = locked, !.after = after, !.enabled = enabled]
  <1>1. ActivationTypeOK /\ FilesAreNamed /\ EnabledWithin(locked, reviewed) /\ OneStart /\ ContextIsSound
    BY InvParts
  <1>2. locked \in Locks /\ recorded \in Seq(Decision)
    BY <1>1 DEF ActivationTypeOK
  <1>3. l \in LocalsOf /\ l.after = after /\ l.enabled = enabled
    <2>1. NoStart.decisions \in Seq(Decision)
      BY NoLocalsTyped DEF LocalsOf
    <2> QED BY <1>2, <2>1 DEF LocalsOf, NoStart
  <1>4. /\ planPc' = [planPc EXCEPT ![p] = "planned"] /\ planLoc' = [planLoc EXCEPT ![p] = l]
        /\ shipped' = shipped /\ local' = local /\ locked' = locked /\ recorded' = recorded
        /\ reviewed' = reviewed
    BY DEF Plan, PlanAt
  <1> HIDE DEF l
  <1>5. /\ ActivationTypeOK' /\ planPc'[p] = "planned" /\ planLoc'[p] = l
        /\ \A q \in Invocations : q # p => planPc'[q] = planPc[q] /\ planLoc'[q] = planLoc[q]
    <2>1. "planned" \in Points
      BY DEF Points
    <2> QED BY <1>1, <1>2, <1>3, <1>4, <2>1, MoveTyped
  <1>6. FilesAreNamed' /\ ContextIsSound'
    BY <1>1, <1>4, FilesKeep, ContextKeeps
  <1>7. EnabledWithin(locked', reviewed')
    BY <1>1, <1>4
  <1>8. PlanWasShown(p)'
    BY <1>3, <1>4, <1>5 DEF PlanWasShown
  <1>9. Starting(p)'
    BY <1>5 DEF Starting
  <1>10. OneStart'
    <2>1. \A q \in Invocations : planPc'[q] \in Starts => planPc[q] \in Starts
      BY <1>5 DEF Starts
    <2> QED BY <1>1, <2>1, OneStartKeeps
  <1> QED BY <1>4, <1>5, <1>6, <1>7, <1>8, <1>9, <1>10, StepKeeps

(* An item whose manifest the review shows.                                *)
LEMMA ItemIsShown ==
    ASSUME ActivationAssumption, NEW items \in Locks, NEW shown, EnabledWithin(items, shown),
           NEW id \in ToSet(ModuleIds), NEW manifest \in AnyManifests, NEW source \in Sources,
           NEW policy \in Chosen
    PROVE  LET after == [items EXCEPT ![id] = PinnedItem(manifest, source, policy)]
           IN  after \in Locks /\ EnabledWithin(after, shown \cup {manifest})
  <1> DEFINE item == PinnedItem(manifest, source, policy)
             after == [items EXCEPT ![id] = item]
  <1>1. item \in LockItem
    BY DEF PinnedItem, LockItem, Sources, ActivationAssumption
  <1>2. item.sha256 = manifest
    BY DEF PinnedItem
  <1> HIDE DEF item
  <1>3. after \in Locks
    BY <1>1 DEF Locks
  <1>4. ASSUME NEW i \in ToSet(ModuleIds), IsLocal(after[i]), after[i].enabled
        PROVE  after[i].sha256 \in shown \cup {manifest}
    <2>1. CASE i = id
      BY <1>2, <2>1 DEF Locks
    <2>2. CASE i # id
      <3>1. after[i] = items[i]
        BY <2>2 DEF Locks
      <3> QED BY <1>4, <3>1 DEF EnabledWithin
    <2> QED BY <2>1, <2>2
  <1>5. EnabledWithin(after, shown \cup {manifest})
    BY <1>4 DEF EnabledWithin
  <1> QED BY <1>3, <1>5 DEF item

LEMMA EnableBuiltinKeeps ==
    ASSUME ActivationAssumption, ActivationInv, NEW p \in Invocations, NEW id \in ToSet(Builtins),
           NEW policy \in Chosen, PlanEnableBuiltin(p, id, policy)
    PROVE  ActivationInv'
  <1> DEFINE after == [locked EXCEPT ![id] = PinnedItem(shipped[id], "builtin", policy)]
  <1>1. ActivationTypeOK /\ EnabledWithin(locked, reviewed)
    BY InvParts
  <1>2. locked \in Locks /\ id \in ToSet(ModuleIds) /\ shipped[id] \in AnyManifests
    BY <1>1, ShippedTyped DEF ActivationTypeOK
  <1>3. after \in Locks /\ EnabledWithin(after, reviewed \cup {shipped[id]})
    <2>1. "builtin" \in Sources
      BY DEF Sources
    <2> QED BY <1>1, <1>2, <2>1, ItemIsShown
  <1>4. Plan(p, after, {shipped[id]})
    BY DEF PlanEnableBuiltin
  <1> HIDE DEF after
  <1>5. {shipped[id]} \in SUBSET AnyManifests
    BY <1>2
  <1> QED BY <1>3, <1>4, <1>5, PlanKeeps

LEMMA EnableLocalKeeps ==
    ASSUME ActivationAssumption, ActivationInv, NEW p \in Invocations, NEW id \in ToSet(ModuleIds),
           NEW policy \in Chosen, PlanEnableLocal(p, id, policy)
    PROVE  ActivationInv'
  <1> DEFINE after == [locked EXCEPT ![id] = PinnedItem(local[id], "local", policy)]
  <1>1. ActivationTypeOK /\ EnabledWithin(locked, reviewed) /\ local[id] # Absent
    BY InvParts DEF PlanEnableLocal
  <1>2. locked \in Locks /\ local[id] \in AnyManifests
    BY <1>1, LocalTyped DEF ActivationTypeOK
  <1>3. after \in Locks /\ EnabledWithin(after, reviewed \cup {local[id]})
    <2>1. "local" \in Sources
      BY DEF Sources
    <2> QED BY <1>1, <1>2, <2>1, ItemIsShown
  <1>4. Plan(p, after, {local[id]})
    BY DEF PlanEnableLocal
  <1> HIDE DEF after
  <1>5. {local[id]} \in SUBSET AnyManifests
    BY <1>2
  <1> QED BY <1>3, <1>4, <1>5, PlanKeeps

LEMMA DisableKeeps ==
    ASSUME ActivationInv, NEW p \in Invocations, NEW id \in ToSet(ModuleIds), PlanDisableModule(p, id)
    PROVE  ActivationInv'
  <1> DEFINE item == [locked[id] EXCEPT !.enabled = FALSE]
             after == [locked EXCEPT ![id] = item]
  <1>1. ActivationTypeOK /\ EnabledWithin(locked, reviewed) /\ locked[id] # Absent
    BY InvParts DEF PlanDisableModule
  <1>2. locked \in Locks
    BY <1>1 DEF ActivationTypeOK
  <1>3. locked[id] \in LockItem
    BY <1>1, <1>2, ItemTyped
  <1>4. item \in LockItem /\ ~item.enabled
    BY <1>3 DEF LockItem
  <1>5. Plan(p, after, {})
    BY DEF PlanDisableModule
  <1> HIDE DEF item
  <1>6. after \in Locks
    BY <1>2, <1>4 DEF Locks
  <1>7. ASSUME NEW i \in ToSet(ModuleIds), IsLocal(after[i]), after[i].enabled
        PROVE  after[i].sha256 \in reviewed
    <2>1. i # id /\ after[i] = locked[i]
      BY <1>2, <1>4, <1>7 DEF Locks
    <2> QED BY <1>1, <1>7, <2>1 DEF EnabledWithin
  <1>8. EnabledWithin(after, reviewed \cup {})
    BY <1>7 DEF EnabledWithin
  <1>9. {} \in SUBSET AnyManifests
    OBVIOUS
  <1> HIDE DEF after
  <1> QED BY <1>5, <1>6, <1>8, <1>9, PlanKeeps

(* An invocation that ends keeps the rest as it is.                        *)
LEMMA LeaveKeeps ==
    ASSUME ActivationInv, NEW p \in Invocations, EndModules(p),
           shipped' = shipped, local' = local, locked' \in Locks,
           recorded' \in Seq(Decision), recorded' = recorded \/ planPc[p] \in Starts,
           reviewed \subseteq reviewed', EnabledWithin(locked', reviewed'), ContextIsSound'
    PROVE  ActivationInv'
  <1>1. ActivationTypeOK /\ FilesAreNamed /\ OneStart
    BY InvParts
  <1>2. "idle" \in Points /\ NoStart \in LocalsOf
    BY NoLocalsTyped DEF Points
  <1>3. planPc' = [planPc EXCEPT ![p] = "idle"] /\ planLoc' = [planLoc EXCEPT ![p] = NoStart]
    BY DEF EndModules, PlanAt
  <1>4. /\ ActivationTypeOK' /\ planPc'[p] = "idle"
        /\ \A q \in Invocations : q # p => planPc'[q] = planPc[q] /\ planLoc'[q] = planLoc[q]
    BY <1>1, <1>2, <1>3, MoveTyped
  <1>5. PlanWasShown(p)' /\ Starting(p)'
    BY <1>4 DEF PlanWasShown, Starting
  <1>6. OneStart'
    <2>1. \A q \in Invocations : planPc'[q] \in Starts => planPc[q] \in Starts
      BY <1>4 DEF Starts
    <2> QED BY <1>1, <2>1, OneStartKeeps
  <1>7. FilesAreNamed'
    BY <1>1, FilesKeep
  <1> QED BY <1>4, <1>5, <1>6, <1>7, StepKeeps

LEMMA ApplyKeeps ==
    ASSUME ActivationInv, NEW p \in Invocations, ApplyModules(p)
    PROVE  ActivationInv'
  <1>1. /\ planPc[p] = "planned" /\ locked' = planLoc[p].after
        /\ reviewed' = reviewed \cup planLoc[p].enabled /\ EndModules(p)
        /\ shipped' = shipped /\ local' = local /\ recorded' = recorded
    BY DEF ApplyModules
  <1>2. ActivationTypeOK /\ PlanWasShown(p) /\ ContextIsSound
    BY InvParts
  <1>3. locked' \in Locks /\ EnabledWithin(locked', reviewed')
    BY <1>1, <1>2 DEF PlanWasShown
  <1>4. reviewed \subseteq reviewed' /\ recorded' \in Seq(Decision)
    BY <1>1, <1>2 DEF ActivationTypeOK
  <1>5. ContextIsSound'
    BY <1>1, <1>2, <1>4, ContextKeeps
  <1> QED BY <1>1, <1>3, <1>4, <1>5, LeaveKeeps

LEMMA EndKeeps ==
    ASSUME ActivationInv, NEW p \in Invocations, EndModules(p),
           UNCHANGED <<shipped, local, locked, recorded, reviewed>>
    PROVE  ActivationInv'
  <1>1. ActivationTypeOK /\ EnabledWithin(locked, reviewed) /\ ContextIsSound
    BY InvParts
  <1>2. /\ shipped' = shipped /\ local' = local /\ locked' = locked /\ recorded' = recorded
        /\ reviewed' = reviewed
    OBVIOUS
  <1>3. locked' \in Locks /\ recorded' \in Seq(Decision) /\ EnabledWithin(locked', reviewed')
    BY <1>1, <1>2 DEF ActivationTypeOK
  <1>4. ContextIsSound'
    BY <1>1, <1>2, ContextKeeps
  <1> QED BY <1>2, <1>3, <1>4, LeaveKeeps

LEMMA BeginStartKeeps ==
    ASSUME ActivationInv, NEW p \in Invocations, BeginStart(p)
    PROVE  ActivationInv'
  <1> DEFINE l == [planLoc[p] EXCEPT !.lock = locked]
  <1>1. /\ ActivationTypeOK /\ FilesAreNamed /\ EnabledWithin(locked, reviewed)
        /\ OneStart /\ ContextIsSound
    BY InvParts
  <1>2. locked \in Locks /\ recorded \in Seq(Decision) /\ planLoc[p] \in LocalsOf
    BY <1>1 DEF ActivationTypeOK, LocalsOf
  <1>3. l \in LocalsOf /\ l.lock = locked
    BY <1>2 DEF LocalsOf
  <1>4. /\ planPc' = [planPc EXCEPT ![p] = "listing"] /\ planLoc' = [planLoc EXCEPT ![p] = l]
        /\ shipped' = shipped /\ local' = local /\ locked' = locked /\ recorded' = recorded
        /\ reviewed' = reviewed /\ recorded = <<>>
        /\ \A q \in Invocations : planPc[q] \notin Starts
    BY DEF BeginStart, PlanAt, Starts
  <1> HIDE DEF l
  <1>5. /\ ActivationTypeOK' /\ planPc'[p] = "listing" /\ planLoc'[p] = l
        /\ \A q \in Invocations : q # p => planPc'[q] = planPc[q] /\ planLoc'[q] = planLoc[q]
    <2>1. "listing" \in Points
      BY DEF Points
    <2> QED BY <1>1, <1>2, <1>3, <1>4, <2>1, MoveTyped
  <1>6. FilesAreNamed' /\ ContextIsSound'
    BY <1>1, <1>4, FilesKeep, ContextKeeps
  <1>7. EnabledWithin(locked', reviewed') /\ PlanWasShown(p)'
    BY <1>1, <1>4, <1>5 DEF PlanWasShown
  <1>8. Starting(p)'
    BY <1>1, <1>2, <1>3, <1>4, <1>5 DEF Starting
  <1>9. OneStart'
    <2>1. \A q \in Invocations : q # p => planPc'[q] \notin Starts
      BY <1>4, <1>5
    <2> QED BY <2>1 DEF OneStart
  <1> QED BY <1>4, <1>5, <1>6, <1>7, <1>8, <1>9, StepKeeps

LEMMA DecideKeeps ==
    ASSUME ActivationAssumption, ActivationInv, NEW p \in Invocations,
           NEW traits, NEW available, NEW requested, Decide(p, traits, available, requested)
    PROVE  ActivationInv'
  <1> DEFINE items == planLoc[p].lock
             statuses == Statuses(items)
             decided == Decisions(statuses, traits, available, requested)
             l == [planLoc[p] EXCEPT !.decisions = decided]
  <1>1. /\ ActivationTypeOK /\ FilesAreNamed /\ EnabledWithin(locked, reviewed)
        /\ OneStart /\ ContextIsSound /\ Starting(p)
    BY InvParts
  <1>2. locked \in Locks /\ recorded \in Seq(Decision) /\ planLoc[p] \in LocalsOf
    BY <1>1 DEF ActivationTypeOK, LocalsOf
  <1>3. /\ planPc[p] = "listing" /\ Listable(items)
        /\ planPc' = [planPc EXCEPT ![p] = "recording"] /\ planLoc' = [planLoc EXCEPT ![p] = l]
        /\ shipped' = shipped /\ local' = local /\ locked' = locked /\ recorded' = recorded
        /\ reviewed' = reviewed
    BY DEF Decide, PlanAt
  <1>4. items \in Locks /\ EnabledWithin(items, reviewed) /\ recorded = <<>>
    BY <1>1, <1>3 DEF Starting
  <1> HIDE DEF items
  <1>5. /\ Len(statuses) \in Nat /\ Len(statuses) > 0
        /\ \A i \in 1 .. Len(statuses) :
               /\ statuses[i].manifest \in AnyManifests
               /\ statuses[i].source \in Sources
               /\ statuses[i].source = "local" /\ statuses[i].enabled =>
                      statuses[i].manifest \in reviewed
    BY <1>1, <1>3, <1>4, ListedIsShown
  <1> HIDE DEF statuses
  <1>6. /\ decided \in Seq(Decision)
        /\ Len(decided) = Len(statuses)
        /\ Given(decided) <= ContextBudget
        /\ \A i \in 1 .. Len(statuses) : Decided(decided[i], statuses[i])
    BY <1>5, DecisionsSound
  <1> HIDE DEF decided
  <1>7. GiveWithin(decided, reviewed)
    <2>1. ASSUME NEW i \in 1 .. Len(decided),
                 decided[i].state = "activated", decided[i].source = "local"
          PROVE  decided[i].manifest \in reviewed
      BY <1>5, <1>6, <2>1 DEF Decided
    <2> QED BY <2>1 DEF GiveWithin
  <1>8. l \in LocalsOf /\ l.decisions = decided
    BY <1>2, <1>6 DEF LocalsOf
  <1> HIDE DEF l
  <1>9. /\ ActivationTypeOK' /\ planPc'[p] = "recording" /\ planLoc'[p] = l
        /\ \A q \in Invocations : q # p => planPc'[q] = planPc[q] /\ planLoc'[q] = planLoc[q]
    <2>1. "recording" \in Points
      BY DEF Points
    <2> QED BY <1>1, <1>2, <1>3, <1>8, <2>1, MoveTyped
  <1>10. FilesAreNamed' /\ ContextIsSound'
    BY <1>1, <1>3, FilesKeep, ContextKeeps
  <1>11. EnabledWithin(locked', reviewed') /\ PlanWasShown(p)'
    BY <1>1, <1>3, <1>9 DEF PlanWasShown
  <1>12. Starting(p)'
    <2>1. recorded' = <<>> /\ Len(recorded') = 0
      BY <1>3, <1>4
    <2>2. Len(recorded') < Len(decided) /\ \A i \in 1 .. Len(recorded') : recorded'[i] = decided[i]
      BY <1>5, <1>6, <2>1
    <2> QED BY <1>3, <1>6, <1>7, <1>8, <1>9, <2>2 DEF Starting
  <1>13. OneStart'
    <2>1. \A q \in Invocations : planPc'[q] \in Starts => planPc[q] \in Starts
      BY <1>3, <1>9 DEF Starts
    <2> QED BY <1>1, <2>1, OneStartKeeps
  <1> QED BY <1>3, <1>9, <1>10, <1>11, <1>12, <1>13, StepKeeps

(* The first decisions that are within the budget and reviewed stay so.    *)
LEMMA FirstAreSound ==
    ASSUME ActivationAssumption, NEW decisions \in Seq(Decision), NEW first \in Seq(Decision),
           Len(first) <= Len(decisions), \A i \in 1 .. Len(first) : first[i] = decisions[i],
           Given(decisions) <= ContextBudget, GiveWithin(decisions, reviewed),
           recorded' = first, reviewed' = reviewed
    PROVE  ContextIsSound'
  <1>1. Given(first) \in Nat /\ Given(decisions) \in Nat /\ Given(first) <= Given(decisions)
    BY GivenOfPrefix
  <1>2. ContextBudget \in Nat
    BY DEF ActivationAssumption
  <1>3. Given(first) <= ContextBudget
    BY <1>1, <1>2
  <1>4. ContextWithinBudget'
    BY <1>3 DEF ContextWithinBudget
  <1>5. Len(first) \in Nat /\ Len(decisions) \in Nat /\ DOMAIN first = 1 .. Len(first)
    OBVIOUS
  <1>6. ASSUME NEW i \in DOMAIN first, first[i].state = "activated", first[i].source = "local"
        PROVE  first[i].manifest \in reviewed
    <2>1. i \in 1 .. Len(first) /\ i \in 1 .. Len(decisions)
      BY <1>5
    <2>2. first[i] = decisions[i]
      BY <2>1
    <2> QED BY <1>6, <2>1, <2>2 DEF GiveWithin
  <1>7. ContextWasReviewed'
    BY <1>6 DEF ContextWasReviewed, Activated
  <1> QED BY <1>4, <1>7 DEF ContextIsSound

LEMMA RecordDecisionKeeps ==
    ASSUME ActivationAssumption, ActivationInv, NEW p \in Invocations, RecordDecision(p)
    PROVE  ActivationInv'
  <1> DEFINE decisions == planLoc[p].decisions
             n == Len(recorded)
  <1>1. /\ ActivationTypeOK /\ FilesAreNamed /\ EnabledWithin(locked, reviewed)
        /\ OneStart /\ ContextIsSound /\ Starting(p) /\ PlanWasShown(p)
    BY InvParts
  <1>2. locked \in Locks /\ recorded \in Seq(Decision) /\ decisions \in Seq(Decision)
    BY <1>1 DEF ActivationTypeOK
  <1>3. /\ planPc[p] = "recording" /\ recorded' = Append(recorded, decisions[n + 1])
        /\ IF Len(recorded') = Len(decisions) THEN EndModules(p) ELSE UNCHANGED <<planPc, planLoc>>
        /\ shipped' = shipped /\ local' = local /\ locked' = locked /\ reviewed' = reviewed
    BY DEF RecordDecision
  <1>4. /\ n < Len(decisions) /\ \A i \in 1 .. n : recorded[i] = decisions[i]
        /\ Given(decisions) <= ContextBudget
        /\ GiveWithin(decisions, reviewed)
    BY <1>1, <1>3 DEF Starting
  <1> DEFINE next == Append(recorded, decisions[n + 1])
  <1>5. /\ next \in Seq(Decision) /\ Len(next) = n + 1 /\ n + 1 <= Len(decisions)
        /\ Len(decisions) \in Nat /\ n \in Nat
        /\ \A i \in 1 .. n + 1 : next[i] = decisions[i]
    <2> HIDE DEF decisions
    <2>1. n \in Nat /\ Len(decisions) \in Nat
      BY <1>2
    <2>2. n + 1 \in 1 .. Len(decisions)
      BY <1>4, <2>1
    <2>3. decisions[n + 1] \in Decision
      BY <1>2, <2>2
    <2>4. /\ next \in Seq(Decision) /\ Len(next) = n + 1 /\ next[n + 1] = decisions[n + 1]
          /\ \A i \in 1 .. n : next[i] = recorded[i]
      BY <1>2, <2>3
    <2>5. \A i \in 1 .. n + 1 : i = n + 1 \/ i \in 1 .. n
      BY <2>1
    <2> HIDE DEF next, n
    <2> QED BY <1>4, <2>1, <2>2, <2>4, <2>5
  <1>6. recorded' = next
    BY <1>3
  <1> HIDE DEF next, n
  <1>7. ContextIsSound'
    <2> HIDE DEF decisions
    <2>1. Len(next) <= Len(decisions) /\ \A i \in 1 .. Len(next) : next[i] = decisions[i]
      BY <1>5
    <2> QED BY <1>2, <1>3, <1>4, <1>5, <1>6, <2>1, FirstAreSound
  <1>8. EnabledWithin(locked', reviewed') /\ locked' \in Locks /\ recorded' \in Seq(Decision)
    BY <1>1, <1>2, <1>3, <1>5, <1>6
  <1>9. CASE EndModules(p)
    <2>1. planPc[p] \in Starts
      BY <1>3 DEF Starts
    <2>2. reviewed \subseteq reviewed'
      BY <1>3
    <2> QED BY <1>3, <1>7, <1>8, <1>9, <2>1, <2>2, LeaveKeeps
  <1>10. CASE Len(recorded') # Len(decisions) /\ UNCHANGED <<planPc, planLoc>>
    <2>1. planPc' = planPc /\ planLoc' = planLoc
      BY <1>10
    <2>2. ActivationTypeOK'
      BY <1>1, <1>3, <1>8, <2>1 DEF ActivationTypeOK
    <2>3. FilesAreNamed' /\ OneStart' /\ PlanWasShown(p)'
      BY <1>1, <1>3, <2>1 DEF FilesAreNamed, OneStart, PlanWasShown
    <2>4. Starting(p)'
      <3>1. Len(recorded') < Len(decisions) /\ \A i \in 1 .. Len(recorded') : recorded'[i] = decisions[i]
        <4> HIDE DEF decisions
        <4> QED BY <1>5, <1>6, <1>10
      <3> QED BY <1>3, <1>4, <2>1, <3>1 DEF Starting
    <2>5. planPc[p] \in Starts /\ reviewed \subseteq reviewed'
      BY <1>3 DEF Starts
    <2> QED BY <1>7, <1>8, <2>1, <2>2, <2>3, <2>4, <2>5, StepKeeps
  <1> QED BY <1>3, <1>9, <1>10

(* A step of the surroundings.                                             *)
LEMMA RestKeeps ==
    ASSUME ActivationInv, ActivationTypeOK', FilesAreNamed',
           UNCHANGED <<locked, recorded, reviewed, planPc, planLoc>>
    PROVE  ActivationInv'
  <1>1. /\ locked' = locked /\ recorded' = recorded /\ reviewed' = reviewed /\ planPc' = planPc /\ planLoc' = planLoc
    OBVIOUS
  <1>2. EnabledWithin(locked, reviewed) /\ OneStart /\ ContextIsSound
    BY InvParts
  <1>3. \A q \in Invocations : PlanWasShown(q)' /\ Starting(q)'
    BY <1>1, OthersKeep
  <1>4. OneStart'
    BY <1>1, <1>2 DEF OneStart
  <1>5. ContextIsSound'
    BY <1>1, <1>2, ContextKeeps
  <1>6. (EnabledWithin(locked, reviewed))'
    BY <1>1, <1>2 DEF EnabledWithin
  <1> QED BY <1>3, <1>4, <1>5, <1>6 DEF ActivationInv

LEMMA EditLocalKeeps ==
    ASSUME ActivationInv, NEW id \in ToSet(ModuleIds),
           NEW content \in {m \in Manifests : m.id = id} \cup {Absent}, EditLocal(id, content)
    PROVE  ActivationInv'
  <1>1. ActivationTypeOK /\ FilesAreNamed
    BY InvParts
  <1>2. /\ local' = [local EXCEPT ![id] = content]
        /\ shipped' = shipped /\ locked' = locked /\ recorded' = recorded /\ reviewed' = reviewed
        /\ planPc' = planPc /\ planLoc' = planLoc
    BY DEF EditLocal
  <1>3. local \in [ToSet(ModuleIds) -> Manifests \cup {Absent}]
    BY <1>1 DEF ActivationTypeOK
  <1>4. local' \in [ToSet(ModuleIds) -> Manifests \cup {Absent}]
    BY <1>2, <1>3
  <1>5. ActivationTypeOK'
    BY <1>1, <1>2, <1>4 DEF ActivationTypeOK
  <1>6. FilesAreNamed'
    <2>1. ASSUME NEW i \in ToSet(ModuleIds), local'[i] # Absent
          PROVE  local'[i].id = i
      <3>1. CASE i = id
        BY <1>2, <1>3, <2>1, <3>1
      <3>2. CASE i # id
        BY <1>1, <1>2, <1>3, <2>1, <3>2 DEF FilesAreNamed
      <3> QED BY <3>1, <3>2
    <2> QED BY <2>1 DEF FilesAreNamed
  <1> QED BY <1>2, <1>5, <1>6, RestKeeps

LEMMA OtherRuntimeKeeps ==
    ASSUME ActivationInv, NEW runtime \in Shipped, OtherRuntime(runtime)
    PROVE  ActivationInv'
  <1>1. ActivationTypeOK /\ FilesAreNamed
    BY InvParts
  <1>2. /\ shipped' = runtime /\ local' = local /\ locked' = locked /\ recorded' = recorded
        /\ reviewed' = reviewed /\ planPc' = planPc /\ planLoc' = planLoc
    BY DEF OtherRuntime
  <1>3. ActivationTypeOK'
    BY <1>1, <1>2 DEF ActivationTypeOK
  <1>4. FilesAreNamed'
    BY <1>1, <1>2, FilesKeep
  <1> QED BY <1>2, <1>3, <1>4, RestKeeps

----------------------------------------------------------------------------
(* All steps *)

LEMMA ActivationStarts ==
    ASSUME ActivationAssumption, ActivationInit
    PROVE  ActivationInv
  <1>1. /\ shipped \in Shipped /\ local = [id \in ToSet(ModuleIds) |-> Absent]
        /\ locked = [id \in ToSet(ModuleIds) |-> Absent] /\ recorded = <<>>
        /\ planPc = [p \in Invocations |-> "idle"] /\ planLoc = [p \in Invocations |-> NoStart]
    BY DEF ActivationInit
  <1>2. <<>> \in Seq(Decision) /\ Len(<<>>) = 0 /\ DOMAIN <<>> = {}
    OBVIOUS
  <1>3. locked \in Locks /\ local \in [ToSet(ModuleIds) -> Manifests \cup {Absent}]
    BY <1>1 DEF Locks
  <1>4. planPc \in [Invocations -> Points] /\ planLoc \in [Invocations -> LocalsOf]
    BY <1>1, NoLocalsTyped DEF Points
  <1>5. ActivationTypeOK
    BY <1>1, <1>2, <1>3, <1>4 DEF ActivationTypeOK, Points, LocalsOf
  <1>6. FilesAreNamed /\ EnabledWithin(locked, reviewed)
    BY <1>1 DEF FilesAreNamed, EnabledWithin, IsLocal
  <1>7. \A p \in Invocations : PlanWasShown(p) /\ Starting(p)
    BY <1>1 DEF PlanWasShown, Starting
  <1>8. OneStart
    BY <1>1 DEF OneStart, Starts
  <1>9. ContextIsSound
    <2>1. ContextWithinBudget
      BY <1>1, NothingGiven DEF ContextWithinBudget, ActivationAssumption
    <2>2. ContextWasReviewed
      BY <1>1, <1>2 DEF ContextWasReviewed, Activated
    <2> QED BY <2>1, <2>2 DEF ContextIsSound
  <1> QED BY <1>5, <1>6, <1>7, <1>8, <1>9 DEF ActivationInv

LEMMA ActivationStepKeeps ==
    ASSUME ActivationAssumption, ActivationInv, [ActivationNext]_activationVars
    PROVE  ActivationInv'
  <1>1. ASSUME NEW p \in Invocations, NEW id \in ToSet(ModuleIds),
               \/ \E policy \in Chosen :
                      \/ id \in ToSet(Builtins) /\ PlanEnableBuiltin(p, id, policy)
                      \/ PlanEnableLocal(p, id, policy)
               \/ PlanDisableModule(p, id)
        PROVE  ActivationInv'
    BY <1>1, EnableBuiltinKeeps, EnableLocalKeeps, DisableKeeps
  <1>2. ASSUME NEW p \in Invocations, ApplyModules(p) \/ BeginStart(p) \/ RecordDecision(p)
        PROVE  ActivationInv'
    BY <1>2, ApplyKeeps, BeginStartKeeps, RecordDecisionKeeps
  <1>3. ASSUME NEW p \in Invocations, AbandonModules(p) \/ StartFails(p)
        PROVE  ActivationInv'
    <2>1. EndModules(p) /\ UNCHANGED <<shipped, local, locked, recorded, reviewed>>
      BY <1>3 DEF AbandonModules, StartFails
    <2> QED BY <2>1, EndKeeps
  <1>4. ASSUME NEW p \in Invocations,
               \E traits \in SUBSET Traits, available \in SUBSET Capabilities,
                  requested \in SUBSET ToSet(ModuleIds) : Decide(p, traits, available, requested)
        PROVE  ActivationInv'
    BY <1>4, DecideKeeps
  <1>5. ASSUME NEW id \in ToSet(ModuleIds),
               \E content \in {m \in Manifests : m.id = id} \cup {Absent} : EditLocal(id, content)
        PROVE  ActivationInv'
    BY <1>5, EditLocalKeeps
  <1>6. ASSUME NEW runtime \in Shipped, OtherRuntime(runtime)
        PROVE  ActivationInv'
    BY <1>6, OtherRuntimeKeeps
  <1>7. CASE UNCHANGED activationVars
    <2>1. ActivationTypeOK' /\ FilesAreNamed'
      BY <1>7, InvParts DEF activationVars, ActivationTypeOK, FilesAreNamed
    <2> QED BY <1>7, <2>1, RestKeeps DEF activationVars
  <1> QED BY <1>1, <1>2, <1>3, <1>4, <1>5, <1>6, <1>7 DEF ActivationNext

LEMMA ActivationInvariant ==
    ASSUME ActivationAssumption
    PROVE  ActivationSpec => []ActivationInv
  <1>1. ActivationInit => ActivationInv
    BY ActivationStarts
  <1>2. ActivationInv /\ [ActivationNext]_activationVars => ActivationInv'
    BY ActivationStepKeeps
  <1> QED BY <1>1, <1>2, PTL DEF ActivationSpec

(* For any modules, runtimes and budget, however manifests are edited and  *)
(* whoever enables what meanwhile: the contexts a task is given fit into   *)
(* its budget together, and a local one was enabled after a review         *)
(* (modules/manager.py activation_decisions, core/task_service.py start).  *)
THEOREM ContextsAreSound ==
    ASSUME ActivationAssumption
    PROVE  ActivationSpec => []ContextIsSound
  <1>1. ActivationInv => ContextIsSound
    BY InvParts
  <1> QED BY <1>1, ActivationInvariant, PTL

(* Where Doctor finds the hashes in order, a task can begin with what the  *)
(* lock has pinned (init/doctor.py _check_module_hashes).                  *)
THEOREM DoctorForeseesStarts ==
    ASSUME ActivationAssumption
    PROVE  ActivationSpec => []DoctorForesees
  <1>1. ActivationInv => DoctorForesees
    BY InvParts, OrderIsListable
  <1> QED BY <1>1, ActivationInvariant, PTL

----------------------------------------------------------------------------
(* Recommendations                                                         *)

(* Only as many episodes as were recorded: what is counted is finite.      *)
FeedbackTypes ==
    /\ IsFiniteSet(DOMAIN episodes)
    /\ day \in Nat

LEMMA WithIs ==
    ASSUME NEW f, NEW key, NEW value
    PROVE  /\ DOMAIN Put(f, key, value) = DOMAIN f \cup {key}
           /\ \A k \in DOMAIN f \cup {key} :
                  Put(f, key, value)[k] = IF k = key THEN value ELSE f[k]
  BY DEF Put

LEMMA FeedbackInitial ==
    ASSUME FeedbackInit
    PROVE  FeedbackTypes
  <1>1. DOMAIN episodes = {} /\ day = 0
    BY DEF FeedbackInit, Nothing
  <1> QED BY <1>1, FS_EmptySet DEF FeedbackTypes

LEMMA FeedbackSteps ==
    ASSUME FeedbackTypes, [FeedbackNext]_feedbackVars
    PROVE  FeedbackTypes'
  <1>1. ASSUME NEW id, NEW episode, Record(id, episode)
        PROVE  FeedbackTypes'
    <2>1. DOMAIN episodes' = DOMAIN episodes \cup {id} /\ day' = day
      BY <1>1, WithIs DEF Record
    <2>2. IsFiniteSet(DOMAIN episodes \cup {id})
      BY FS_AddElement DEF FeedbackTypes
    <2> QED BY <2>1, <2>2 DEF FeedbackTypes
  <1>2. CASE Day
    BY <1>2 DEF Day, FeedbackTypes
  <1>3. ASSUME episodes' = episodes, day' = day
        PROVE  FeedbackTypes'
    BY <1>3 DEF FeedbackTypes
  <1>4. CASE UNCHANGED feedbackVars
    BY <1>3, <1>4 DEF feedbackVars
  <1>5. CASE FeedbackNext
    <2>1. ASSUME NEW m, SetMode(m)
          PROVE  FeedbackTypes'
      BY <1>3, <2>1 DEF SetMode
    <2>2. ASSUME NEW key, Reject(key) \/ Accept(key)
          PROVE  FeedbackTypes'
      BY <1>3, <2>2 DEF Reject, Accept
    <2>3. CASE Suggest \/ Restart
      BY <1>3, <2>3 DEF Suggest, Restart
    <2> QED BY <1>1, <1>2, <1>5, <2>1, <2>2, <2>3 DEF FeedbackNext
  <1> QED BY <1>4, <1>5

(* Of three or more there are three that differ.                           *)
LEMMA ThreeDiffer ==
    ASSUME NEW S, IsFiniteSet(S), Cardinality(S) >= 3
    PROVE  \E x, y, z \in S : x # y /\ y # z /\ x # z
  <1>1. PICK x \in S : TRUE
    BY FS_EmptySet
  <1>2. IsFiniteSet(S \ {x}) /\ Cardinality(S \ {x}) = Cardinality(S) - 1
    BY FS_RemoveElement
  <1>3. Cardinality(S) \in Nat
    BY FS_CardinalityType
  <1>4. PICK y \in S \ {x} : TRUE
    BY <1>2, <1>3, FS_EmptySet
  <1>5. /\ IsFiniteSet((S \ {x}) \ {y})
        /\ Cardinality((S \ {x}) \ {y}) = Cardinality(S \ {x}) - 1
    BY <1>2, FS_RemoveElement
  <1>6. PICK z \in (S \ {x}) \ {y} : TRUE
    BY <1>2, <1>3, <1>5, FS_EmptySet
  <1> QED BY <1>4, <1>6

(* A finite set has a finite image.                                        *)
LEMMA ImageIsFinite ==
    ASSUME NEW S, IsFiniteSet(S), NEW f, DOMAIN f = S
    PROVE  IsFiniteSet({f[x] : x \in S})
  <1> DEFINE T == {f[x] : x \in S}
             g == [x \in S |-> f[x]]
  <1>1. g \in Surjection(S, T)
    BY DEF Surjection
  <1> HIDE DEF g, T
  <1>2. IsFiniteSet(T)
    BY <1>1, FS_Surjection
  <1> QED BY <1>2 DEF T

(* A set and what is left of it share out its members.                     *)
LEMMA SharedOut ==
    ASSUME NEW S, IsFiniteSet(S), NEW A, NEW B, A \cup B = S, A \cap B = {}
    PROVE  /\ Cardinality(A) \in Nat /\ Cardinality(B) \in Nat
           /\ Cardinality(S) = Cardinality(A) + Cardinality(B)
  <1>1. IsFiniteSet(A) /\ IsFiniteSet(B)
    BY FS_Subset
  <1>2. Cardinality(A) \in Nat /\ Cardinality(B) \in Nat
    BY <1>1, FS_CardinalityType
  <1>3. Cardinality(A \cup B) = Cardinality(A) + Cardinality(B) - Cardinality(A \cap B)
    BY <1>1, FS_Union
  <1>4. Cardinality(A \cap B) = 0
    BY FS_EmptySet
  <1>5. Cardinality(A \cup B) = Cardinality(S)
    BY A \cup B = S
  <1>6. Cardinality(A) + Cardinality(B) - 0 = Cardinality(A) + Cardinality(B)
    BY <1>2
  <1>7. Cardinality(S) = Cardinality(A) + Cardinality(B) - 0
    BY Zenon, <1>3, <1>4, <1>5
  <1> QED BY <1>2, <1>6, <1>7

LEMMA RecommendationIsEarnedSteps ==
    ASSUME FeedbackTypes, [FeedbackNext]_feedbackVars
    PROVE  [RecommendationIsEarnedStep]_feedbackVars
  <1>1. SUFFICES ASSUME Suggest, NEW key \in DOMAIN offered', offered'[key] = "recommendation"
                 PROVE  LET all == Observations(key)
                            against == {id \in all : ~episodes[id].beneficial}
                        IN  /\ \E t1, t2, t3 \in {episodes[id].task : id \in all} :
                                   t1 # t2 /\ t2 # t3 /\ t1 # t3
                            /\ Cardinality(against) < Cardinality(all \ against)
    BY Zenon DEF RecommendationIsEarnedStep, Observations
  <1> DEFINE all == Observations(key)
             for == BeneficialOf(all)
             against == {id \in all : ~episodes[id].beneficial}
             taskOf == [id \in all |-> episodes[id].task]
  <1>2. Maturity(all) = "recommendation"
    BY <1>1 DEF Suggest
  <1>3. Cardinality(TasksOf(all)) >= 3 /\ 2 * Cardinality(for) > Cardinality(all)
    BY <1>2 DEF Maturity
  <1>4. IsFiniteSet(all)
    BY FS_Subset DEF Observations, FeedbackTypes
  <1>5. IsFiniteSet(TasksOf(all))
    <2>1. DOMAIN taskOf = all /\ TasksOf(all) = {taskOf[id] : id \in all}
      BY DEF TasksOf
    <2> HIDE DEF taskOf, all
    <2> QED BY <1>4, <2>1, ImageIsFinite
  <1>6. \E t1, t2, t3 \in {episodes[id].task : id \in all} : t1 # t2 /\ t2 # t3 /\ t1 # t3
    BY <1>3, <1>5, ThreeDiffer DEF TasksOf
  <1>7. for \cup against = all /\ for \cap against = {} /\ all \ against = for
    BY DEF BeneficialOf
  <1> HIDE DEF all, for, against
  <1>8. /\ Cardinality(for) \in Nat /\ Cardinality(against) \in Nat
        /\ Cardinality(all) = Cardinality(for) + Cardinality(against)
    BY <1>4, <1>7, SharedOut
  <1>9. Cardinality(against) < Cardinality(for)
    BY <1>3, <1>8
  <1> QED BY <1>6, <1>7, <1>9 DEF all, against

(* An engine knows every rejection it was given, and no other.             *)
CooldownsAreRejections ==
    /\ DOMAIN cooldowns = DOMAIN rejections
    /\ \A key \in DOMAIN rejections :
           cooldowns[key] = rejections[key] + CooldownDays /\ rejections[key] \in Nat

LEMMA CooldownSteps ==
    ASSUME FeedbackTypes, CooldownsAreRejections,
           [FeedbackNext]_feedbackVars
    PROVE  CooldownsAreRejections'
  <1>1. ASSUME NEW key, Reject(key)
        PROVE  CooldownsAreRejections'
    <2>1. /\ cooldowns' = Put(cooldowns, key, day + CooldownDays)
          /\ rejections' = Put(rejections, key, day) /\ day \in Nat
      BY <1>1 DEF Reject, FeedbackTypes
    <2> DEFINE c == Put(cooldowns, key, day + CooldownDays)
               r == Put(rejections, key, day)
    <2>2. /\ DOMAIN c = DOMAIN cooldowns \cup {key} /\ DOMAIN r = DOMAIN rejections \cup {key}
          /\ \A k \in DOMAIN cooldowns \cup {key} :
                 c[k] = IF k = key THEN day + CooldownDays ELSE cooldowns[k]
          /\ \A k \in DOMAIN rejections \cup {key} :
                 r[k] = IF k = key THEN day ELSE rejections[k]
      BY DEF Put
    <2> HIDE DEF c, r
    <2>3. DOMAIN c = DOMAIN r /\ DOMAIN r = DOMAIN rejections \cup {key}
      BY <2>2 DEF CooldownsAreRejections
    <2>4. ASSUME NEW k \in DOMAIN r
          PROVE  c[k] = r[k] + CooldownDays /\ r[k] \in Nat
      BY <2>1, <2>2, <2>3, <2>4 DEF CooldownsAreRejections
    <2>5. cooldowns' = c /\ rejections' = r
      BY <2>1 DEF c, r
    <2> QED BY <2>3, <2>4, <2>5 DEF CooldownsAreRejections
  <1>2. ASSUME cooldowns' = cooldowns, rejections' = rejections
        PROVE  CooldownsAreRejections'
    BY <1>2 DEF CooldownsAreRejections
  <1>3. CASE UNCHANGED feedbackVars
    BY <1>2, <1>3 DEF feedbackVars
  <1>4. CASE FeedbackNext
    <2>1. ASSUME NEW id, NEW episode, Record(id, episode)
          PROVE  CooldownsAreRejections'
      BY <1>2, <2>1 DEF Record
    <2>2. ASSUME NEW m, SetMode(m)
          PROVE  CooldownsAreRejections'
      BY <1>2, <2>2 DEF SetMode
    <2>3. ASSUME NEW key, Accept(key)
          PROVE  CooldownsAreRejections'
      BY <1>2, <2>3 DEF Accept
    <2>4. CASE Suggest \/ Day
      BY <1>2, <2>4 DEF Suggest, Day
    <2>5. CASE Restart
      BY <2>5 DEF Restart, Nothing, CooldownsAreRejections
    <2> QED BY <1>1, <1>4, <2>1, <2>2, <2>3, <2>4, <2>5 DEF FeedbackNext
  <1> QED BY <1>3, <1>4

LEMMA CooldownHonoredSteps ==
    ASSUME FeedbackAssumption, FeedbackTypes, CooldownsAreRejections,
           [FeedbackNext]_feedbackVars
    PROVE  [CooldownHonoredStep]_feedbackVars
  <1>1. SUFFICES ASSUME Suggest, NEW key \in Keys, Observations(key) # {}
                 PROVE  key \in DOMAIN offered' <=>
                            (key \in DOMAIN rejections => day >= rejections[key] + CooldownDays)
    BY Zenon DEF CooldownHonoredStep
  <1>2. key \in DOMAIN offered' <=> ~Cooling(key)
    BY <1>1 DEF Suggest
  <1>3. Cooling(key) <=> key \in DOMAIN rejections /\ day < rejections[key] + CooldownDays
    BY DEF Cooling, CooldownsAreRejections
  <1>4. key \in DOMAIN rejections => rejections[key] + CooldownDays \in Nat /\ day \in Nat
    BY DEF CooldownsAreRejections, FeedbackAssumption, FeedbackTypes
  <1> QED BY <1>2, <1>3, <1>4

(* What is offered as a recommendation rests on three different tasks and  *)
(* on a majority of the episodes of its module and kind; and an engine     *)
(* keeps back what it was told to reject until the cooldown has passed,    *)
(* and nothing else (feedback/engine.py evaluate, reject).                 *)
THEOREM RecommendationsAreEarned ==
    ASSUME FeedbackAssumption
    PROVE  FeedbackSpec => RecommendationsAreSound
  <1> DEFINE Inv == FeedbackTypes /\ CooldownsAreRejections
             A == RecommendationIsEarnedStep /\ CooldownHonoredStep
  <1>1. FeedbackInit => Inv
    BY FeedbackInitial DEF FeedbackInit, Nothing, CooldownsAreRejections
  <1>2. Inv /\ [FeedbackNext]_feedbackVars => Inv'
    <2>1. ASSUME Inv, [FeedbackNext]_feedbackVars
          PROVE  FeedbackTypes' /\ CooldownsAreRejections'
      <3>1. FeedbackTypes /\ CooldownsAreRejections
        BY <2>1
      <3>2. FeedbackTypes'
        BY <2>1, <3>1, FeedbackSteps
      <3>3. CooldownsAreRejections'
        BY <2>1, <3>1, CooldownSteps
      <3> QED BY <3>2, <3>3
    <2> QED BY <2>1
  <1>3. Inv /\ [FeedbackNext]_feedbackVars => [A]_feedbackVars
    BY RecommendationIsEarnedSteps, CooldownHonoredSteps
  <1> HIDE DEF Inv
  <1> QED BY <1>1, <1>2, <1>3, PTL DEF FeedbackSpec, RecommendationsAreSound
===============================================================================
