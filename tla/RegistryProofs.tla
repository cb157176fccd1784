--------------------------- MODULE RegistryProofs ---------------------------
(***************************************************************************)
(* RepoStore implements Registry, for all handlers, names and faults: what *)
(* a handler does in many steps takes effect on the tables in at most one  *)
(* step for each of its statements, and that step is one of Registry's.    *)
(***************************************************************************)
EXTENDS RepoStoreProofs

USE DEF tables, disk

\* AUTOINCREMENT gives no webhook an id that another has or had.
HookIds ==
  /\ \A k \in hooks : k.id <= hookSeq
  /\ \A j, k \in hooks : j.id = k.id => j = k

RegistryInv == TypeOK /\ IdInv /\ HookIds

\* How rows, webhooks and deliveries appear in Registry.
RowOf(r)    == [id |-> r.id, name |-> r.name]
HookOf(k)   == [id |-> k.id, repo |-> k.repo, push |-> k.push]
NoticeOf(t) == [hook |-> t.hook, repo |-> t.pushed]

LEMMA HookIdsStep ==
  ASSUME TypeOK, HookIds, [Next]_vars
  PROVE  HookIds'
<1>1. CASE hooks' \subseteq hooks /\ hookSeq' = hookSeq
  BY <1>1 DEF HookIds
<1>2. ASSUME NEW h \in Handlers, HookInsert(h) PROVE HookIds'
  <2>1. CASE hooks' = hooks /\ hookSeq' = hookSeq
    BY <2>1 DEF HookIds
  <2>2. ASSUME NEW push \in BOOLEAN, hooks' = hooks \cup {NewHook(h, push)}, hookSeq' = hookSeq + 1
        PROVE  HookIds'
    <3>1. hookSeq \in Nat /\ \A k \in hooks : k.id \in Nat
      BY DEF TypeOK, Hook
    <3>2. NewHook(h, push).id = hookSeq + 1
      BY DEF NewHook
    <3>3. \A k \in hooks : k.id <= hookSeq
      BY DEF HookIds
    <3>4. \A k \in hooks : k.id # hookSeq + 1
      BY <3>1, <3>3
    <3>5. \A k \in hooks' : k.id <= hookSeq'
      BY <2>2, <3>1, <3>2, <3>3
    <3>6. \A j, k \in hooks' : j.id = k.id => j = k
      BY <2>2, <3>2, <3>4 DEF HookIds
    <3> QED
      BY <3>5, <3>6 DEF HookIds
  <2> QED
    BY <1>2, <2>1, <2>2 DEF HookInsert
<1>3. ASSUME NEW h \in Handlers,
             \/ CreateInsert(h) \/ DeleteRow(h) \/ UnhookDelete(h) \/ FirePushWebhooks(h)
      PROVE  hooks' \subseteq hooks /\ hookSeq' = hookSeq
  BY <1>3 DEF CreateInsert, DeleteRow, Surviving, UnhookDelete, FirePushWebhooks
<1>4. ASSUME NEW h \in Handlers,
             \/ CreateInit(h) \/ CreateReadback(h) \/ CreateCleanup(h) \/ DeleteDir(h)
             \/ PushGit(h) \/ Disconnect(h) \/ Refuse(h)
      PROVE  hooks' = hooks /\ hookSeq' = hookSeq
  BY <1>4 DEF CreateInit, CreateReadback, CreateCleanup, DeleteDir, PushGit, Disconnect, Refuse, vars
<1>5. ASSUME NEW h \in Handlers, NEW n \in Names, Arrival(h, n)
      PROVE  hooks' = hooks /\ hookSeq' = hookSeq
  BY <1>5 DEF Arrival, CreateBegin, DeleteBegin, HookBegin, UnhookBegin, PushBegin
<1>6. CASE Crash
  BY <1>1, <1>6 DEF Crash
<1>7. CASE UNCHANGED vars
  BY <1>1, <1>7 DEF vars
<1> QED
  BY <1>1, <1>2, <1>3, <1>4, <1>5, <1>6, <1>7 DEF Next, HandlerStep

THEOREM RegistryInvHolds == Spec => []RegistryInv
<1>1. Init => HookIds
  BY DEF Init, HookIds
<1>2. TypeOK /\ HookIds /\ [Next]_vars => HookIds'
  BY HookIdsStep
<1> QED
  BY <1>1, <1>2, IdentitiesHold, PTL DEF Spec, RegistryInv

----------------------------------------------------------------------------
(* One lemma per statement.                                                *)

LEMMA SameTables ==
  ASSUME UNCHANGED <<rows, seq, hooks, hookSeq, tasks>>
  PROVE  UNCHANGED R!vars
  BY DEF R!vars

LEMMA CreateRegisters ==
  ASSUME RepoStoreAssumption, RegistryInv, NEW h \in Handlers, CreateInsert(h)
  PROVE  (\E n \in Names : R!Register(n)) \/ UNCHANGED R!vars
<1> DEFINE new == [id |-> NewId, name |-> req[h].name, born |-> births + 1]
<1>1. UNCHANGED <<hooks, hookSeq, tasks>>
  BY DEF CreateInsert
<1>2. CASE UNCHANGED <<rows, seq>>
  BY <1>1, <1>2, SameTables
<1>3. CASE Named(new.name) = {} /\ rows' = rows \cup {new} /\ seq' = NewId
  <2>1. req[h].name \in Names
    BY DirOfType DEF RegistryInv, CreateInsert, Request
  <2>2. \A r \in rows : r.name # req[h].name
    BY <1>3 DEF Named
  <2>3. \A q \in {RowOf(r) : r \in rows} : q.name # req[h].name
    BY <2>2 DEF RowOf
  <2>4. RowOf(new) = [id |-> seq + 1, name |-> req[h].name] /\ seq' = seq + 1
    BY <1>3 DEF RowOf, NewId
  <2>5. {RowOf(r) : r \in rows'} = {RowOf(r) : r \in rows} \cup {[id |-> seq + 1, name |-> req[h].name]}
    BY <1>3, <2>4
  <2> QED
    BY <1>1, <2>1, <2>3, <2>4, <2>5 DEF R!Register, RowOf
<1> QED
  BY <1>2, <1>3 DEF CreateInsert

\* Two rows that look the same in Registry have one id, and are the same.
LEMMA RowsDiffer ==
  ASSUME RegistryInv, NEW r \in rows, NEW s \in rows, RowOf(r) = RowOf(s)
  PROVE  r = s
<1>1. r.id = s.id
  BY DEF RowOf
<1> QED
  BY <1>1 DEF RegistryInv, IdInv, Known

LEMMA DeleteRemoves ==
  ASSUME RegistryInv, NEW h \in Handlers, DeleteRow(h)
  PROVE  (\E q \in {RowOf(r) : r \in rows} : R!Remove(q)) \/ UNCHANGED R!vars
<1>1. UNCHANGED <<seq, hookSeq, tasks>>
  BY DEF DeleteRow
<1>2. CASE UNCHANGED <<rows, hooks>>
  BY <1>1, <1>2, SameTables
<1>3. ASSUME rows' = rows \ Doomed(h), hooks' = Surviving(h), NEW r \in Doomed(h)
      PROVE  \E q \in {RowOf(s) : s \in rows} : R!Remove(q)
  <2>1. r \in rows /\ Doomed(h) = {r}
    <3>1. \A s \in Doomed(h) : s \in rows /\ s \in Known /\ s.id = req[h].row.id
      BY DEF Doomed, Known
    <3> QED
      BY <1>3, <3>1 DEF RegistryInv, IdInv
  <2>2. {RowOf(s) : s \in rows'} = {RowOf(s) : s \in rows} \ {RowOf(r)}
    BY <1>3, <2>1, RowsDiffer
  <2>3. hooks' = {k \in hooks : k.repo # r.id}
    BY <1>3, <2>1 DEF Surviving
  <2>4. {HookOf(k) : k \in hooks'} = {q \in {HookOf(k) : k \in hooks} : q.repo # RowOf(r).id}
    BY <2>3 DEF HookOf, RowOf
  <2> QED
    BY <1>1, <2>1, <2>2, <2>4 DEF R!Remove, RowOf, HookOf
<1>4. CASE rows' = rows \ Doomed(h) /\ hooks' = Surviving(h) /\ Doomed(h) = {}
  <2>1. rows' = rows /\ hooks' = hooks
    BY <1>4 DEF Surviving
  <2> QED
    BY <1>2, <2>1
<1> QED
  BY <1>2, <1>3, <1>4 DEF DeleteRow

LEMMA HookAttaches ==
  ASSUME RegistryInv, NEW h \in Handlers, HookInsert(h)
  PROVE  \/ \E q \in {RowOf(r) : r \in rows}, push \in BOOLEAN : R!Attach(q, push)
         \/ UNCHANGED R!vars
<1>1. UNCHANGED <<rows, seq, tasks>>
  BY DEF HookInsert
<1>2. CASE UNCHANGED <<hooks, hookSeq>>
  BY <1>1, <1>2, SameTables
<1>3. ASSUME ForeignKeyHolds(req[h].row.id), NEW push \in BOOLEAN,
             hooks' = hooks \cup {NewHook(h, push)}, hookSeq' = hookSeq + 1
      PROVE  \E q \in {RowOf(r) : r \in rows} : R!Attach(q, push)
  <2>1. PICK r \in rows : r.id = req[h].row.id
    BY <1>3 DEF ForeignKeyHolds
  <2>2. HookOf(NewHook(h, push)) = [id |-> hookSeq + 1, repo |-> RowOf(r).id, push |-> push]
    BY <2>1 DEF HookOf, NewHook, RowOf
  <2>3. {HookOf(k) : k \in hooks'}
          = {HookOf(k) : k \in hooks} \cup {[id |-> hookSeq + 1, repo |-> RowOf(r).id, push |-> push]}
    BY <1>3, <2>2
  <2>4. R!Attach(RowOf(r), push)
    BY <1>1, <1>3, <2>3 DEF R!Attach, HookOf, RowOf
  <2> QED
    BY <2>4
<1> QED
  BY <1>2, <1>3 DEF HookInsert

LEMMA UnhookDetaches ==
  ASSUME RegistryInv, NEW h \in Handlers, UnhookDelete(h)
  PROVE  (\E q \in {HookOf(k) : k \in hooks} : R!Detach(q)) \/ UNCHANGED R!vars
<1>1. UNCHANGED <<rows, seq, hookSeq, tasks>>
  BY DEF UnhookDelete
<1>2. PICK id \in 0..hookSeq : hooks' = {k \in hooks : ~(k.id = id /\ k.repo = req[h].row.id)}
  BY DEF UnhookDelete
<1>3. CASE \A k \in hooks : ~(k.id = id /\ k.repo = req[h].row.id)
  <2>1. hooks' = hooks
    BY <1>2, <1>3
  <2> QED
    BY <1>1, <2>1, SameTables
<1>4. ASSUME NEW k \in hooks, k.id = id, k.repo = req[h].row.id
      PROVE  \E q \in {HookOf(j) : j \in hooks} : R!Detach(q)
  <2>1. \A j \in hooks : j.id = id => j = k
    BY <1>4 DEF RegistryInv, HookIds
  <2>2. hooks' = hooks \ {k}
    BY <1>2, <1>4, <2>1
  <2>3. \A j \in hooks : HookOf(j) = HookOf(k) => j = k
    <3>1. \A j \in hooks : HookOf(j).id = j.id
      BY DEF HookOf
    <3> QED
      BY <1>4, <2>1, <3>1
  <2>4. {HookOf(j) : j \in hooks'} = {HookOf(j) : j \in hooks} \ {HookOf(k)}
    BY <2>2, <2>3
  <2>5. R!Detach(HookOf(k))
    BY <1>1, <2>4 DEF R!Detach, HookOf
  <2> QED
    BY <2>5
<1> QED
  BY <1>3, <1>4

\* What a push fires under the id it read are the webhooks of that repository, or, when
\* it is gone, none.
LEMMA FireNotifies ==
  ASSUME RegistryInv, NEW h \in Handlers, FirePushWebhooks(h)
  PROVE  (\E q \in {RowOf(r) : r \in rows} : R!Push(q)) \/ UNCHANGED R!vars
<1> DEFINE id == req[h].row.id
           new == {[hook |-> k.id, inc |-> k.inc, pushed |-> req[h].row.born] : k \in PushHooks(id)}
<1>1. UNCHANGED <<rows, seq, hooks, hookSeq>>
  BY DEF FirePushWebhooks
<1>2. CASE tasks' = tasks
  BY <1>1, <1>2, SameTables
<1>3. CASE tasks' = tasks \cup new
  <2>1. req[h].row.born = id
    BY DEF RegistryInv, IdInv, Known
  <2>2. {NoticeOf(t) : t \in new} = {[hook |-> k.id, repo |-> id] : k \in PushHooks(id)}
    <3> DEFINE T(k) == [hook |-> k.id, inc |-> k.inc, pushed |-> req[h].row.born]
               N(k) == [hook |-> k.id, repo |-> id]
    <3>1. \A k : NoticeOf(T(k)) = N(k)
      BY <2>1 DEF NoticeOf
    <3>2. new = {T(k) : k \in PushHooks(id)}
      OBVIOUS
    <3> HIDE DEF T, N, new
    <3>3. {NoticeOf(t) : t \in new} = {N(k) : k \in PushHooks(id)}
      BY <3>1, <3>2
    <3> QED
      BY <3>3 DEF N
  <2>3. {NoticeOf(t) : t \in tasks'}
          = {NoticeOf(t) : t \in tasks} \cup {[hook |-> k.id, repo |-> id] : k \in PushHooks(id)}
    BY <1>3, <2>2
  <2>4. CASE PushHooks(id) = {}
    <3>1. tasks' = tasks
      BY <1>3, <2>4
    <3> QED
      BY <1>2, <3>1
  <2>5. ASSUME NEW j \in PushHooks(id) PROVE \E q \in {RowOf(r) : r \in rows} : R!Push(q)
    <3>1. PICK r \in rows : r.id = id
      BY <2>5 DEF PushHooks, RegistryInv, IdInv, HooksOwned
    <3>2. {[hook |-> k.id, repo |-> id] : k \in PushHooks(id)}
            = {[hook |-> k.id, repo |-> RowOf(r).id] :
                 k \in {q \in {HookOf(k) : k \in hooks} : q.repo = RowOf(r).id /\ q.push}}
      <4>1. RowOf(r).id = id
        BY <3>1 DEF RowOf
      <4>2. {q \in {HookOf(k) : k \in hooks} : q.repo = id /\ q.push} = {HookOf(k) : k \in PushHooks(id)}
        BY DEF HookOf, PushHooks
      <4>3. {[hook |-> k.id, repo |-> id] : k \in {HookOf(i) : i \in PushHooks(id)}}
              = {[hook |-> k.id, repo |-> id] : k \in PushHooks(id)}
        <5> DEFINE N(k) == [hook |-> k.id, repo |-> id]
        <5>1. \A k : N(HookOf(k)) = N(k)
          BY DEF HookOf
        <5> HIDE DEF N
        <5>2. {N(k) : k \in {HookOf(i) : i \in PushHooks(id)}} = {N(k) : k \in PushHooks(id)}
          BY <5>1
        <5> QED
          BY <5>2 DEF N
      <4> QED
        BY <4>1, <4>2, <4>3
    <3>3. R!Push(RowOf(r))
      BY <1>1, <2>3, <3>2 DEF R!Push, RowOf, HookOf, NoticeOf
    <3> QED
      BY <3>3
  <2> QED
    BY <2>4, <2>5
<1> QED
  BY <1>2, <1>3 DEF FirePushWebhooks

LEMMA RegistryStep ==
  ASSUME RepoStoreAssumption, RegistryInv, [Next]_vars
  PROVE  [R!Next]_(R!vars)
<1>1. ASSUME NEW h \in Handlers,
             \/ CreateInit(h) \/ CreateReadback(h) \/ CreateCleanup(h) \/ DeleteDir(h)
             \/ PushGit(h) \/ Disconnect(h) \/ Refuse(h)
      PROVE  UNCHANGED <<rows, seq, hooks, hookSeq, tasks>>
  BY <1>1 DEF CreateInit, CreateReadback, CreateCleanup, DeleteDir, PushGit, Disconnect, Refuse, vars
<1>2. ASSUME NEW h \in Handlers, NEW n \in Names, Arrival(h, n)
      PROVE  UNCHANGED <<rows, seq, hooks, hookSeq, tasks>>
  BY <1>2 DEF Arrival, CreateBegin, DeleteBegin, HookBegin, UnhookBegin, PushBegin
<1>3. Crash \/ UNCHANGED vars => UNCHANGED <<rows, seq, hooks, hookSeq, tasks>>
  BY DEF Crash, vars
<1>4. ASSUME NEW h \in Handlers, CreateInsert(h) PROVE [R!Next]_(R!vars)
  BY <1>4, CreateRegisters DEF R!Next
<1>5. ASSUME NEW h \in Handlers, DeleteRow(h) PROVE [R!Next]_(R!vars)
  BY <1>5, DeleteRemoves DEF R!Next, RowOf
<1>6. ASSUME NEW h \in Handlers, HookInsert(h) PROVE [R!Next]_(R!vars)
  BY <1>6, HookAttaches DEF R!Next, RowOf
<1>7. ASSUME NEW h \in Handlers, UnhookDelete(h) PROVE [R!Next]_(R!vars)
  BY <1>7, UnhookDetaches DEF R!Next, HookOf
<1>8. ASSUME NEW h \in Handlers, FirePushWebhooks(h) PROVE [R!Next]_(R!vars)
  BY <1>8, FireNotifies DEF R!Next, RowOf
<1> QED
  BY <1>1, <1>2, <1>3, <1>4, <1>5, <1>6, <1>7, <1>8, SameTables DEF Next, HandlerStep

\* Handlers that read in one statement and write in a later one still behave, for every
\* observer of the tables and the notices, like the operations of Registry.
THEOREM RepoStoreImplementsRegistry == Spec => ImplementsRegistry
<1>1. Init => R!Init
  BY DEF Init, R!Init
<1>2. RegistryInv /\ [Next]_vars => [R!Next]_(R!vars)
  BY RepoStoreAssumption, RegistryStep
<1> QED
  BY <1>1, <1>2, RegistryInvHolds, PTL DEF Spec, ImplementsRegistry, R!Spec
============================================================================
