-------------------------- MODULE RepoStoreProofs --------------------------
(***************************************************************************)
(* What RepoStore keeps for every number of handlers, every set of names   *)
(* and faults, and without the bounds of the model-checked instances.      *)
(***************************************************************************)
EXTENDS RepoStore, TLAPS

USE DEF tables, disk

LEMMA TypeInit == ASSUME RepoStoreAssumption PROVE Init => TypeOK
<1> SUFFICES ASSUME Init PROVE TypeOK
  OBVIOUS
<1>1. data \in [Dirs -> SUBSET Nat]
  BY DEF Init
<1>2. req \in [Handlers -> Request \cup {NoRequest}]
  BY DEF Init
<1>3. rows = {} /\ hooks = {} /\ dirs = {} /\ tasks = {} /\ cut = {}
  BY DEF Init
<1>4. seq \in Nat /\ hookSeq \in Nat /\ births \in Nat
  BY DEF Init
<1> QED
  BY <1>1, <1>2, <1>3, <1>4 DEF TypeOK

\* A row that the name n selects is a row.
LEMMA NamedAreRows == ASSUME NEW n PROVE Named(n) \subseteq rows
  BY DEF Named

\* RemoveDir changes only directories.
LEMMA RemoveDirTypes ==
  ASSUME TypeOK, NEW d \in Dirs, RemoveDir(d)
  PROVE  dirs' \subseteq Dirs /\ data' \in [Dirs -> SUBSET Nat] /\ cut' \subseteq Dirs
  BY DEF TypeOK, RemoveDir, Leave

LEMMA DirOfType ==
  ASSUME RepoStoreAssumption, TypeOK, NEW h \in Handlers, req[h].pc # "idle"
  PROVE  DirOf(h) \in Dirs /\ req[h] \in Request
<1>1. req[h] \in Request
  <2>1. req \in [Handlers -> Request \cup {NoRequest}]
    BY DEF TypeOK
  <2>2. NoRequest.pc = "idle"
    BY DEF NoRequest
  <2> QED
    BY <2>1, <2>2
<1>2. req[h].name \in Names
  BY <1>1 DEF Request
<1>3. Dir \in [Names -> Dirs]
  BY DEF RepoStoreAssumption
<1> QED
  BY <1>1, <1>2, <1>3 DEF DirOf

LEMMA RowFields ==
  ASSUME NEW q \in Request
  PROVE  /\ q.name \in Names
         /\ q.row \in Row \cup {NoRow}
         /\ q.row.id \in Nat
         /\ q.row.born \in Nat
<1>1. q.name \in Names /\ q.row \in Row \cup {NoRow}
  BY DEF Request
<1>2. NoRow.id \in Nat /\ NoRow.born \in Nat
  BY DEF NoRow
<1>3. \A r \in Row : r.id \in Nat /\ r.born \in Nat
  BY DEF Row
<1> QED
  BY <1>1, <1>2, <1>3

LEMMA StartTypes ==
  ASSUME TypeOK, NEW h \in Handlers, NEW n \in Names, NEW pc \in Pcs \ {"idle"},
         NEW r \in Row \cup {NoRow}, Start(h, pc, n, r)
  PROVE  req' \in [Handlers -> Request \cup {NoRequest}]
  BY DEF TypeOK, Start, Request

LEMMA FinishTypes ==
  ASSUME TypeOK, NEW h \in Handlers, Finish(h)
  PROVE  req' \in [Handlers -> Request \cup {NoRequest}]
  BY DEF TypeOK, Finish

LEMMA MoveTypes ==
  ASSUME TypeOK, NEW h \in Handlers, req[h] \in Request, NEW pc \in Pcs \ {"idle"},
         req' = [req EXCEPT ![h].pc = pc]
  PROVE  req' \in [Handlers -> Request \cup {NoRequest}]
  BY DEF TypeOK, Request

LEMMA ContinueTypes ==
  ASSUME TypeOK, NEW h \in Handlers, req[h] \in Request, NEW pc \in Pcs \ {"idle"},
         Continue(h, pc)
  PROVE  req' \in [Handlers -> Request \cup {NoRequest}]
  BY FinishTypes, MoveTypes DEF Continue

LEMMA TypeStep ==
  ASSUME RepoStoreAssumption, TypeOK, [Next]_vars
  PROVE  TypeOK'
<1> USE DEF Pcs
<1>1. ASSUME NEW h \in Handlers, NEW n \in Names, Arrival(h, n) PROVE TypeOK'
  <2>1. \A r \in Named(n) : r \in Row
    BY NamedAreRows DEF TypeOK
  <2>2. req' \in [Handlers -> Request \cup {NoRequest}]
    BY <1>1, <2>1, StartTypes
       DEF Arrival, CreateBegin, DeleteBegin, HookBegin, UnhookBegin, PushBegin
  <2> QED
    BY <1>1, <2>2
       DEF TypeOK, Arrival, CreateBegin, DeleteBegin, HookBegin, UnhookBegin, PushBegin
<1>2. ASSUME NEW h \in Handlers, CreateInit(h) PROVE TypeOK'
  <2>1. DirOf(h) \in Dirs /\ req[h] \in Request
    BY <1>2, DirOfType DEF CreateInit
  <2> QED
    BY <1>2, <2>1, RemoveDirTypes, FinishTypes, MoveTypes DEF CreateInit, TypeOK
<1>3. ASSUME NEW h \in Handlers, CreateInsert(h) PROVE TypeOK'
  <2> DEFINE new == [id |-> NewId, name |-> req[h].name, born |-> births + 1]
  <2>1. DirOf(h) \in Dirs /\ req[h] \in Request
    BY <1>3, DirOfType DEF CreateInsert
  <2>2. new \in Row
    <3>1. seq + 1 \in Nat /\ births + 1 \in Nat
      BY DEF TypeOK
    <3>2. req[h].name \in Names
      BY <2>1, RowFields
    <3> QED
      BY <3>1, <3>2 DEF Row, NewId
  <2>3. rows' \subseteq Row /\ seq' \in Nat /\ births' \in Nat /\ cut' \subseteq Dirs
    <3>1. NewId \in Nat /\ births + 1 \in Nat
      BY DEF TypeOK, NewId
    <3>2. rows' = rows \cup {new} \/ rows' = rows
      BY <1>3 DEF CreateInsert
    <3>3. (seq' = NewId /\ births' = births + 1) \/ UNCHANGED <<seq, births>>
      BY <1>3 DEF CreateInsert
    <3>4. cut' = cut \/ cut' = cut \cup {DirOf(h)}
      BY <1>3 DEF CreateInsert, Leave
    <3> QED
      BY <2>1, <2>2, <3>1, <3>2, <3>3, <3>4 DEF TypeOK
  <2>4. req' \in [Handlers -> Request \cup {NoRequest}]
    <3>1. CASE req' = [req EXCEPT ![h].pc = "readback", ![h].row = new]
      BY <2>1, <2>2, <3>1 DEF TypeOK, Request
    <3> QED
      BY <1>3, <2>1, <3>1, FinishTypes, ContinueTypes DEF CreateInsert
  <2> QED
    BY <1>3, <2>3, <2>4 DEF CreateInsert, TypeOK
<1>4. ASSUME NEW h \in Handlers, CreateReadback(h) PROVE TypeOK'
  BY <1>4, DirOfType, FinishTypes, MoveTypes DEF CreateReadback, TypeOK
<1>5. ASSUME NEW h \in Handlers, CreateCleanup(h) \/ DeleteDir(h) PROVE TypeOK'
  <2>1. DirOf(h) \in Dirs
    BY <1>5, DirOfType DEF CreateCleanup, DeleteDir
  <2> QED
    BY <1>5, <2>1, RemoveDirTypes, FinishTypes DEF CreateCleanup, DeleteDir, TypeOK
<1>6. ASSUME NEW h \in Handlers, DeleteRow(h) PROVE TypeOK'
  <2>1. DirOf(h) \in Dirs /\ req[h] \in Request
    BY <1>6, DirOfType DEF DeleteRow
  <2>2. req' \in [Handlers -> Request \cup {NoRequest}]
    BY <1>6, <2>1, FinishTypes, ContinueTypes DEF DeleteRow
  <2> QED
    BY <1>6, <2>1, <2>2 DEF DeleteRow, TypeOK, Surviving, Leave
<1>7. ASSUME NEW h \in Handlers, HookInsert(h) PROVE TypeOK'
  <2>1. req[h] \in Request
    BY <1>7, DirOfType DEF HookInsert
  <2>2. \A push \in BOOLEAN : NewHook(h, push) \in Hook
    <3>1. req[h].row.id \in Nat /\ req[h].row.born \in Nat
      BY <2>1, RowFields
    <3>2. hookSeq + 1 \in Nat
      BY DEF TypeOK
    <3> QED
      BY <3>1, <3>2 DEF Hook, NewHook
  <2>3. hooks' \subseteq Hook /\ hookSeq' \in Nat
    <3>1. hooks \subseteq Hook /\ hookSeq \in Nat
      BY DEF TypeOK
    <3>2. \/ hooks' = hooks /\ hookSeq' = hookSeq
          \/ (\E push \in BOOLEAN : hooks' = hooks \cup {NewHook(h, push)}) /\ hookSeq' = hookSeq + 1
      BY <1>7 DEF HookInsert
    <3> QED
      BY <2>2, <3>1, <3>2
  <2> QED
    BY <1>7, <2>3, FinishTypes DEF HookInsert, TypeOK
<1>8. ASSUME NEW h \in Handlers, UnhookDelete(h) PROVE TypeOK'
  BY <1>8, FinishTypes DEF UnhookDelete, TypeOK
<1>9. ASSUME NEW h \in Handlers, PushGit(h) PROVE TypeOK'
  <2>1. DirOf(h) \in Dirs /\ req[h] \in Request
    BY <1>9, DirOfType DEF PushGit
  <2>2. req[h].row.born \in Nat
    BY <2>1, RowFields
  <2>3. data' \in [Dirs -> SUBSET Nat]
    <3>1. data' = data \/ data' = [data EXCEPT ![DirOf(h)] = @ \cup {req[h].row.born}]
      BY <1>9 DEF PushGit
    <3>2. data \in [Dirs -> SUBSET Nat] /\ data[DirOf(h)] \cup {req[h].row.born} \in SUBSET Nat
      BY <2>1, <2>2 DEF TypeOK
    <3> QED
      BY <2>1, <3>1, <3>2
  <2>4. req' \in [Handlers -> Request \cup {NoRequest}]
    BY <1>9, <2>1, FinishTypes, ContinueTypes DEF PushGit
  <2> QED
    BY <1>9, <2>3, <2>4 DEF PushGit, TypeOK
<1>10. ASSUME NEW h \in Handlers, FirePushWebhooks(h) PROVE TypeOK'
  <2>1. req[h] \in Request
    BY <1>10, DirOfType DEF FirePushWebhooks
  <2>2. req[h].row.born \in Nat
    BY <2>1, RowFields
  <2>3. \A k \in hooks : [hook |-> k.id, inc |-> k.inc, pushed |-> req[h].row.born] \in Task
    BY <2>2 DEF TypeOK, Hook, Task
  <2>4. tasks' \subseteq Task
    <3>1. \A k \in PushHooks(req[h].row.id) : k \in hooks
      BY DEF PushHooks
    <3> QED
      <4>1. tasks \subseteq Task
        BY DEF TypeOK
      <4> QED
        BY <1>10, <2>3, <3>1, <4>1 DEF FirePushWebhooks
  <2> QED
    BY <1>10, <2>4, FinishTypes DEF FirePushWebhooks, TypeOK
<1>11. ASSUME NEW h \in Handlers, Disconnect(h) PROVE TypeOK'
  <2>1. DirOf(h) \in Dirs /\ req[h] \in Request
    BY <1>11, DirOfType DEF Disconnect
  <2>2. req' \in [Handlers -> Request \cup {NoRequest}]
    <3>1. CASE req' = [req EXCEPT ![h].gone = TRUE]
      BY <2>1, <3>1 DEF TypeOK, Request
    <3> QED
      BY <1>11, <3>1, FinishTypes DEF Disconnect
  <2> QED
    BY <1>11, <2>1, <2>2 DEF Disconnect, TypeOK, Leave
<1>12. CASE Crash
  <2>1. \A h \in Handlers : req[h].pc # "idle" => DirOf(h) \in Dirs
    BY DirOfType
  <2>2. cut' \subseteq Dirs
    BY <1>12, <2>1 DEF Crash, Leave, TypeOK
  <2>3. \A h \in Handlers : req[h].pc = "git" => [req[h] EXCEPT !.gone = TRUE] \in Request
    BY DirOfType DEF Request
  <2>4. req' \in [Handlers -> Request \cup {NoRequest}]
    BY <1>12, <2>3 DEF Crash
  <2> QED
    BY <1>12, <2>2, <2>4 DEF Crash, TypeOK
<1>13. CASE UNCHANGED vars
  BY <1>13 DEF vars, TypeOK
<1> QED
  BY <1>1, <1>2, <1>3, <1>4, <1>5, <1>6, <1>7, <1>8, <1>9, <1>10, <1>11, <1>12, <1>13
     DEF Next, HandlerStep, Refuse

\* The tables, the directories and the requests keep their shapes.
THEOREM TypeCorrect == Spec => []TypeOK
<1>1. Init => TypeOK
  BY RepoStoreAssumption, TypeInit
<1>2. TypeOK /\ [Next]_vars => TypeOK'
  BY RepoStoreAssumption, TypeStep
<1> QED
  BY <1>1, <1>2, PTL DEF Spec

----------------------------------------------------------------------------
(* Identities.  A request works with the row it read at its start, which   *)
(* may have been deleted since and followed by another of the same name.   *)
(* AUTOINCREMENT makes the id of a row its birth, so that an id that was   *)
(* read stays the id of that repository alone.                             *)

\* The rows somebody may still use: the table's, and those requests have read.
Known == rows \cup {NoRow} \cup {req[h].row : h \in Handlers}

IdInv ==
  /\ seq = births
  /\ \A r \in rows : r.id > 0
  /\ \A r \in Known : r.id = r.born /\ r.id <= seq
  /\ \A r, s \in Known : r.id = s.id => r = s
  /\ \A k \in hooks : k.inc = k.repo
  /\ HooksOwned
  /\ NotifiesOwnIncarnation

LEMMA IdInit == Init => IdInv
<1> SUFFICES ASSUME Init PROVE IdInv
  OBVIOUS
<1>1. \A r \in Known : r = NoRow
  BY DEF Init, Known, NoRequest
<1>2. NoRow.id = 0 /\ NoRow.born = 0
  BY DEF NoRow
<1>3. seq = 0 /\ births = 0 /\ rows = {} /\ hooks = {} /\ tasks = {}
  BY DEF Init
<1> QED
  BY <1>1, <1>2, <1>3 DEF IdInv, HooksOwned, NotifiesOwnIncarnation

\* What most steps do with identities: no new one.
Forgets == UNCHANGED <<seq, births>> /\ Known' \subseteq Known /\ rows' \subseteq rows

LEMMA ForgetsIf ==
  ASSUME UNCHANGED <<seq, births>>, rows' \subseteq rows,
         \A g \in Handlers : req'[g].row \in Known
  PROVE  Forgets
  BY DEF Forgets, Known

\* The rows that are remembered after each way to change req.
LEMMA RememberedRows ==
  ASSUME TypeOK, NEW h \in Handlers,
         \/ Finish(h)
         \/ \E label : req' = [req EXCEPT ![h].pc = label]
         \/ \E label : Continue(h, label)
         \/ req' = [req EXCEPT ![h].gone = TRUE]
         \/ \E label, n : \E r \in rows \cup {NoRow} : Start(h, label, n, r)
  PROVE  \A g \in Handlers : req'[g].row \in Known
<1> DEFINE Kept == \A g \in Handlers : req'[g].row \in Known
<1>1. req \in [Handlers -> Request \cup {NoRequest}]
  BY DEF TypeOK
<1>2. \A g \in Handlers : req[g].row \in Known
  BY DEF Known
<1>3. NoRequest.row = NoRow /\ NoRow \in Known
  BY DEF NoRequest, Known
<1>4. ASSUME Finish(h) PROVE Kept
  BY <1>1, <1>2, <1>3, <1>4 DEF Finish
<1>5. ASSUME NEW label, req' = [req EXCEPT ![h].pc = label] PROVE Kept
  <2>1. req' = [g \in Handlers |-> IF g = h THEN [req[h] EXCEPT !.pc = label] ELSE req[g]]
    BY <1>1, <1>5
  <2>2. [req[h] EXCEPT !.pc = label].row = req[h].row
    <3>1. req[h] \in Request \cup {NoRequest}
      BY <1>1
    <3> QED
      BY <3>1 DEF Request, NoRequest
  <2> QED
    BY <1>2, <2>1, <2>2
<1>6. ASSUME req' = [req EXCEPT ![h].gone = TRUE] PROVE Kept
  <2>1. req' = [g \in Handlers |-> IF g = h THEN [req[h] EXCEPT !.gone = TRUE] ELSE req[g]]
    BY <1>1, <1>6
  <2>2. [req[h] EXCEPT !.gone = TRUE].row = req[h].row
    <3>1. req[h] \in Request \cup {NoRequest}
      BY <1>1
    <3> QED
      BY <3>1 DEF Request, NoRequest
  <2> QED
    BY <1>2, <2>1, <2>2
<1>7. ASSUME NEW label, Continue(h, label) PROVE Kept
  BY <1>4, <1>5, <1>7 DEF Continue
<1>8. ASSUME NEW label, NEW n, NEW r \in rows \cup {NoRow}, Start(h, label, n, r) PROVE Kept
  <2>1. r \in Known
    BY DEF Known
  <2>2. \A g \in Handlers : req'[g] = IF g = h THEN [pc |-> label, name |-> n, row |-> r, gone |-> FALSE]
                                               ELSE req[g]
    BY <1>1, <1>8 DEF Start
  <2> QED
    BY <1>2, <2>1, <2>2
<1> QED
  BY <1>4, <1>5, <1>6, <1>7, <1>8

\* Arrivals and most steps forget; they leave webhooks and deliveries alone.
LEMMA ArrivalForgets ==
  ASSUME TypeOK, NEW h \in Handlers, NEW n \in Names, Arrival(h, n)
  PROVE  Forgets /\ UNCHANGED <<hooks, tasks>> /\ rows' = rows
<1>1. UNCHANGED <<tables, tasks>>
  BY DEF Arrival, CreateBegin, DeleteBegin, HookBegin, UnhookBegin, PushBegin
<1>2. \E label : \E r \in rows \cup {NoRow} : Start(h, label, n, r)
  BY NamedAreRows DEF Arrival, CreateBegin, DeleteBegin, HookBegin, UnhookBegin, PushBegin
<1> QED
  BY <1>1, <1>2, RememberedRows, ForgetsIf

LEMMA QuietStepForgets ==
  ASSUME TypeOK, NEW h \in Handlers,
         CreateInit(h) \/ CreateReadback(h) \/ CreateCleanup(h) \/ DeleteDir(h)
           \/ PushGit(h) \/ Disconnect(h)
  PROVE  Forgets /\ UNCHANGED <<hooks, tasks>> /\ rows' = rows
<1>1. UNCHANGED <<tables, tasks>>
  BY DEF CreateInit, CreateReadback, CreateCleanup, DeleteDir, PushGit, Disconnect
<1>2. \/ Finish(h)
      \/ \E label : req' = [req EXCEPT ![h].pc = label]
      \/ \E label : Continue(h, label)
      \/ req' = [req EXCEPT ![h].gone = TRUE]
  BY DEF CreateInit, CreateReadback, CreateCleanup, DeleteDir, PushGit, Disconnect
<1> QED
  BY <1>1, <1>2, RememberedRows, ForgetsIf

LEMMA CrashForgets ==
  ASSUME TypeOK, Crash
  PROVE  Forgets /\ UNCHANGED <<hooks, tasks>> /\ rows' = rows
<1>1. PICK orphans \in SUBSET {h \in Handlers : req[h].pc = "git"} :
        req' = [h \in Handlers |->
                  IF h \in orphans THEN [req[h] EXCEPT !.gone = TRUE] ELSE NoRequest]
  BY DEF Crash
<1>2. \A g \in Handlers : [req[g] EXCEPT !.gone = TRUE].row = req[g].row
  <2>1. \A g \in Handlers : req[g] \in Request \cup {NoRequest}
    BY DEF TypeOK
  <2> QED
    BY <2>1 DEF Request, NoRequest
<1>3. NoRequest.row = NoRow
  BY DEF NoRequest
<1>4. \A g \in Handlers : req'[g].row \in Known
  BY <1>1, <1>2, <1>3 DEF Known
<1> QED
  BY <1>4, ForgetsIf DEF Crash

LEMMA ForgettingKeeps ==
  ASSUME TypeOK, IdInv, Forgets
  PROVE  /\ seq' = births'
         /\ \A r \in rows' : r.id > 0
         /\ \A r \in Known' : r.id = r.born /\ r.id <= seq'
         /\ \A r, s \in Known' : r.id = s.id => r = s
  BY DEF IdInv, Forgets

LEMMA QuietKeepsIdInv ==
  ASSUME TypeOK, IdInv, Forgets, UNCHANGED <<hooks, tasks>>, rows' = rows
  PROVE  IdInv'
  BY ForgettingKeeps DEF IdInv, HooksOwned, NotifiesOwnIncarnation

LEMMA CreateInsertKeepsIdInv ==
  ASSUME TypeOK, IdInv, NEW h \in Handlers, CreateInsert(h)
  PROVE  IdInv'
<1> DEFINE new == [id |-> NewId, name |-> req[h].name, born |-> births + 1]
<1>1. CASE UNCHANGED <<rows, seq, births>>
  <2>1. Finish(h) \/ Continue(h, "cleanup") \/ rows' = rows \cup {new}
    BY DEF CreateInsert
  <2>2. seq' # NewId
    BY <1>1 DEF TypeOK, NewId
  <2>3. Continue(h, "cleanup") /\ UNCHANGED <<hooks, tasks>>
    BY <2>2 DEF CreateInsert
  <2> QED
    BY <1>1, <2>3, RememberedRows, ForgetsIf, QuietKeepsIdInv
<1>2. CASE rows' = rows \cup {new} /\ seq' = NewId /\ births' = births + 1
  <2>1. Finish(h) \/ req' = [req EXCEPT ![h].pc = "readback", ![h].row = new]
    <3>1. seq' # seq
      BY <1>2 DEF TypeOK, NewId
    <3> QED
      BY <3>1 DEF CreateInsert
  <2>2. \A g \in Handlers : req'[g].row \in Known \cup {new}
    <3>1. CASE Finish(h)
      BY <3>1, RememberedRows
    <3>2. CASE req' = [req EXCEPT ![h].pc = "readback", ![h].row = new]
      <4>1. \A g \in Handlers : req[g].row \in Known
        BY DEF Known
      <4>2. req \in [Handlers -> Request \cup {NoRequest}]
        BY DEF TypeOK
      <4>3. \A g \in Handlers : g # h => req'[g] = req[g]
        BY <3>2, <4>2
      <4>4. req'[h].row = new
        <5>1. req[h] \in Request \cup {NoRequest}
          BY <4>2
        <5>2. req'[h] = [req[h] EXCEPT !.pc = "readback", !.row = new]
          BY <3>2, <4>2
        <5> QED
          BY <5>1, <5>2 DEF Request, NoRequest
      <4> QED
        BY <4>1, <4>3, <4>4
    <3> QED
      BY <2>1, <3>1, <3>2
  <2>3. Known' \subseteq Known \cup {new}
    BY <1>2, <2>2 DEF Known
  <2>4. new.id = seq + 1 /\ new.born = births + 1 /\ seq \in Nat /\ births = seq /\ seq' = seq + 1
    BY <1>2 DEF NewId, TypeOK, IdInv
  <2>5. \A r \in rows' : r.id > 0
    BY <1>2, <2>4 DEF IdInv
  <2>6. \A r \in Known : r.id = r.born /\ r.id <= seq /\ r.id \in Nat
    <3>1. \A r \in Known : r.id \in Nat
      <4>1. \A g \in Handlers : req[g].row \in Row \cup {NoRow}
        <5>1. NoRequest.row = NoRow
          BY DEF NoRequest
        <5> QED
          BY <5>1, RowFields DEF TypeOK
      <4>2. Known \subseteq Row \cup {NoRow}
        BY <4>1 DEF Known, TypeOK
      <4> QED
        BY <4>2 DEF Row, NoRow
    <3> QED
      BY <3>1 DEF IdInv
  <2>7. \A r \in Known' : r.id = r.born /\ r.id <= seq'
    BY <2>3, <2>4, <2>6
  <2>8. \A r, s \in Known' : r.id = s.id => r = s
    <3>1. \A r \in Known : r.id # new.id
      BY <2>4, <2>6
    <3> QED
      BY <2>3, <3>1 DEF IdInv
  <2>9. UNCHANGED <<hooks, tasks>>
    BY DEF CreateInsert
  <2>10. HooksOwned' /\ NotifiesOwnIncarnation'
    BY <1>2, <2>9 DEF IdInv, HooksOwned, NotifiesOwnIncarnation
  <2>11. seq' = births'
    BY <1>2, <2>4
  <2> QED
    BY <2>5, <2>7, <2>8, <2>9, <2>10, <2>11 DEF IdInv
<1> QED
  BY <1>1, <1>2 DEF CreateInsert

\* ON DELETE CASCADE takes exactly the webhooks of the rows that go.
LEMMA DeleteRowKeepsIdInv ==
  ASSUME TypeOK, IdInv, NEW h \in Handlers, DeleteRow(h)
  PROVE  IdInv'
<1>1. Forgets
  <2>1. UNCHANGED <<seq, births>> /\ rows' \subseteq rows
    BY DEF DeleteRow
  <2>2. Continue(h, "remove") \/ Finish(h)
    BY DEF DeleteRow
  <2> QED
    BY <2>1, <2>2, RememberedRows, ForgetsIf
<1>2. hooks' \subseteq hooks /\ tasks' = tasks
  BY DEF DeleteRow, Surviving
<1>3. HooksOwned'
  <2>1. CASE UNCHANGED <<rows, hooks>>
    BY <2>1 DEF IdInv, HooksOwned
  <2>2. CASE rows' = rows \ Doomed(h) /\ hooks' = Surviving(h)
    BY <2>2 DEF IdInv, HooksOwned, Surviving
  <2> QED
    BY <2>1, <2>2 DEF DeleteRow
<1> QED
  BY <1>1, <1>2, <1>3, ForgettingKeeps DEF IdInv, NotifiesOwnIncarnation

\* The foreign key refuses a webhook for a repository deleted since it was read.
LEMMA HookInsertKeepsIdInv ==
  ASSUME TypeOK, IdInv, NEW h \in Handlers, HookInsert(h)
  PROVE  IdInv'
<1>1. Forgets /\ UNCHANGED <<rows, tasks>>
  <2>1. Finish(h) /\ UNCHANGED <<rows, seq, births, tasks>>
    BY DEF HookInsert
  <2> QED
    BY <2>1, RememberedRows, ForgetsIf
<1> DEFINE Own(k) == k.repo = req[h].row.id /\ k.inc = req[h].row.born /\ ForeignKeyHolds(k.repo)
<1>2. \A k \in hooks' : k \in hooks \/ Own(k)
  <2>1. \A push : NewHook(h, push).repo = req[h].row.id /\ NewHook(h, push).inc = req[h].row.born
    BY DEF NewHook
  <2>2. \/ hooks' = hooks
        \/ /\ ForeignKeyHolds(req[h].row.id)
           /\ \E push \in BOOLEAN : hooks' = hooks \cup {NewHook(h, push)}
    BY DEF HookInsert
  <2>3. CASE hooks' = hooks
    BY <2>3
  <2>4. ASSUME ForeignKeyHolds(req[h].row.id), NEW push \in BOOLEAN,
               hooks' = hooks \cup {NewHook(h, push)}
        PROVE  \A k \in hooks' : k \in hooks \/ Own(k)
    BY <2>1, <2>4
  <2> QED
    BY <2>2, <2>3, <2>4
<1>3. req[h].row.id = req[h].row.born
  BY DEF IdInv, Known
<1>4. \A k \in hooks' : k.inc = k.repo
  BY <1>2, <1>3 DEF IdInv
<1>5. HooksOwned'
  BY <1>1, <1>2 DEF IdInv, HooksOwned, ForeignKeyHolds
<1> QED
  BY <1>1, <1>4, <1>5, ForgettingKeeps DEF IdInv, NotifiesOwnIncarnation

LEMMA UnhookDeleteKeepsIdInv ==
  ASSUME TypeOK, IdInv, NEW h \in Handlers, UnhookDelete(h)
  PROVE  IdInv'
<1>1. Forgets /\ UNCHANGED <<rows, tasks>>
  <2>1. Finish(h) /\ UNCHANGED <<rows, seq, births, tasks>>
    BY DEF UnhookDelete
  <2> QED
    BY <2>1, RememberedRows, ForgetsIf
<1>2. hooks' \subseteq hooks
  BY DEF UnhookDelete
<1> QED
  BY <1>1, <1>2, ForgettingKeeps DEF IdInv, HooksOwned, NotifiesOwnIncarnation

\* The webhooks found under the id that was read are that repository's.
LEMMA FireKeepsIdInv ==
  ASSUME TypeOK, IdInv, NEW h \in Handlers, FirePushWebhooks(h)
  PROVE  IdInv'
<1>1. Forgets /\ UNCHANGED <<rows, hooks>>
  <2>1. Finish(h) /\ UNCHANGED <<rows, seq, births, hooks>>
    BY DEF FirePushWebhooks
  <2> QED
    BY <2>1, RememberedRows, ForgetsIf
<1>2. \A k \in PushHooks(req[h].row.id) : k.inc = req[h].row.born
  BY DEF PushHooks, IdInv, Known
<1>3. \A t \in tasks' : t \in tasks
        \/ \E k \in PushHooks(req[h].row.id) :
             t = [hook |-> k.id, inc |-> k.inc, pushed |-> req[h].row.born]
  BY DEF FirePushWebhooks
<1>4. NotifiesOwnIncarnation'
  BY <1>2, <1>3 DEF IdInv, NotifiesOwnIncarnation
<1> QED
  BY <1>1, <1>4, ForgettingKeeps DEF IdInv, HooksOwned

LEMMA IdStep ==
  ASSUME TypeOK, IdInv, [Next]_vars
  PROVE  IdInv'
<1>1. ASSUME NEW h \in Handlers, NEW n \in Names, Arrival(h, n) PROVE IdInv'
  BY <1>1, ArrivalForgets, QuietKeepsIdInv
<1>2. ASSUME NEW h \in Handlers,
             CreateInit(h) \/ CreateReadback(h) \/ CreateCleanup(h) \/ DeleteDir(h)
               \/ PushGit(h) \/ Disconnect(h)
      PROVE  IdInv'
  BY <1>2, QuietStepForgets, QuietKeepsIdInv
<1>3. CASE Crash
  BY <1>3, CrashForgets, QuietKeepsIdInv
<1>4. CASE UNCHANGED vars
  BY <1>4 DEF vars, IdInv, Known, HooksOwned, NotifiesOwnIncarnation
<1> QED
  BY <1>1, <1>2, <1>3, <1>4, CreateInsertKeepsIdInv, DeleteRowKeepsIdInv,
     HookInsertKeepsIdInv, UnhookDeleteKeepsIdInv, FireKeepsIdInv
     DEF Next, HandlerStep, Refuse

THEOREM IdentitiesHold == Spec => [](TypeOK /\ IdInv)
<1>1. Init => TypeOK /\ IdInv
  BY RepoStoreAssumption, TypeInit, IdInit
<1>2. TypeOK /\ IdInv /\ [Next]_vars => (TypeOK /\ IdInv)'
  BY RepoStoreAssumption, TypeStep, IdStep
<1> QED
  BY <1>1, <1>2, PTL DEF Spec

\* Every webhook belongs to a repository in the table, whatever overlaps.
THEOREM HooksAreOwned == Spec => []HooksOwned
<1>1. IdInv => HooksOwned
  BY DEF IdInv
<1> QED
  BY <1>1, IdentitiesHold, PTL

\* A push notifies only webhooks set up for the repository that was pushed to.
THEOREM PushNotifiesOwnHooks == Spec => []NotifiesOwnIncarnation
<1>1. IdInv => NotifiesOwnIncarnation
  BY DEF IdInv
<1> QED
  BY <1>1, IdentitiesHold, PTL

\* A row goes only by the deletion that was asked for exactly that repository.
THEOREM NoDeleteIsStale == Spec => NoStaleDelete
<1> DEFINE Aimed == \A r \in rows \ rows' :
                      \E h \in Handlers : req[h].pc = "delete" /\ req[h].row = r
<1>1. ASSUME TypeOK, IdInv, [Next]_vars PROVE [Aimed]_vars
  <2>1. ASSUME NEW h \in Handlers, DeleteRow(h) PROVE Aimed
    <3>1. \A r \in Doomed(h) : r = req[h].row
      <4>1. req[h].row \in Known /\ \A r \in Doomed(h) : r \in Known /\ r.id = req[h].row.id
        BY DEF Doomed, Known
      <4> QED
        BY <1>1, <4>1 DEF IdInv
    <3>2. req[h].pc = "delete" /\ (rows' = rows \ Doomed(h) \/ rows' = rows)
      BY <2>1 DEF DeleteRow
    <3>3. \A r \in rows \ rows' : r = req[h].row
      BY <3>1, <3>2
    <3> QED
      BY <3>2, <3>3
  <2>2. ASSUME NEW h \in Handlers,
               \/ CreateInsert(h) \/ HookInsert(h) \/ UnhookDelete(h) \/ FirePushWebhooks(h)
        PROVE  rows \subseteq rows'
    BY <2>2 DEF CreateInsert, HookInsert, UnhookDelete, FirePushWebhooks
  <2>3. CASE rows \subseteq rows'
    BY <2>3
  <2>4. CASE UNCHANGED vars
    BY <2>4 DEF vars
  <2> QED
    BY <1>1, <2>1, <2>2, <2>3, <2>4, ArrivalForgets, QuietStepForgets, CrashForgets
       DEF Next, HandlerStep, Refuse
<1> QED
  BY <1>1, IdentitiesHold, PTL DEF Spec, NoStaleDelete
============================================================================
