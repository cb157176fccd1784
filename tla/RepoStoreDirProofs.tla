------------------------- MODULE RepoStoreDirProofs -------------------------
(***************************************************************************)
(* A repository whose name is used by one request at a time always has its *)
(* directory, whatever happens to the other names, whichever statements    *)
(* and git calls fail, clients hang up or the process dies.  Two things    *)
(* have to be assumed, and both are about the code: that no other name     *)
(* resolves to the same directory (not so on a file system that ignores    *)
(* case), and that the SELECT after the INSERT does not fail (if it does,  *)
(* new_repo_post removes the directory and leaves the row).                *)
(***************************************************************************)
EXTENDS RepoStoreProofs

USE DEF tables, disk

OwnDirs == \A n \in Serial, m \in Names : Dir[m] = Dir[n] => m = n

Active(h) == req[h].pc \notin {"idle", "fire"}

NamesUnique == \A r, s \in rows : r.name = s.name => r = s

OneAtATime ==
  \A g, h \in Handlers :
    Active(g) /\ Active(h) /\ req[g].name = req[h].name /\ req[g].name \in Serial => g = h

\* The steps that act on the row the handler remembers.
OnRow == {"readback", "delete", "git"}

USE DEF OnRow

\* What the steps that end a creation or a deletion, and a push, rely on.
RowKnown(h) == req[h].pc \in OnRow => req[h].row.name = req[h].name

NotListed(h) ==
  req[h].pc \in {"init", "insert", "cleanup", "remove"} => Named(req[h].name) = {}

DirMade(h) == req[h].pc = "insert" => DirOf(h) \in dirs

RowListed(h) == req[h].pc \in OnRow => req[h].row \in rows

Relies(h) == req[h].name \in Serial => NotListed(h) /\ DirMade(h) /\ RowListed(h)

DirInv ==
  /\ NamesUnique
  /\ OneAtATime
  /\ \A h \in Handlers : RowKnown(h)
  /\ \A h \in Handlers : Relies(h)
  /\ RowsHaveDirs

LEMMA DirInit == Init => DirInv
<1> SUFFICES ASSUME Init PROVE DirInv
  OBVIOUS
<1>1. \A h \in Handlers : req[h].pc = "idle"
  BY DEF Init, NoRequest
<1>2. rows = {}
  BY DEF Init
<1> QED
  BY <1>1, <1>2 DEF DirInv, NamesUnique, OneAtATime, Active, RowKnown, Relies, NotListed,
                    DirMade, RowListed, RowsHaveDirs

----------------------------------------------------------------------------
(* How a step of handler h leaves req.                                     *)

Others(h) == \A g \in Handlers \ {h} : req'[g] = req[g]

Moved(h, label) ==
  req'[h].pc = label /\ req'[h].name = req[h].name /\ req'[h].row = req[h].row

LEMMA AfterFinish ==
  ASSUME TypeOK, NEW h \in Handlers, Finish(h)
  PROVE  Others(h) /\ req'[h].pc = "idle"
<1>1. req \in [Handlers -> Request \cup {NoRequest}] /\ NoRequest.pc = "idle"
  BY DEF TypeOK, NoRequest
<1> QED
  BY <1>1 DEF Finish, Others

LEMMA AfterMove ==
  ASSUME TypeOK, NEW h \in Handlers, NEW label, req' = [req EXCEPT ![h].pc = label]
  PROVE  Others(h) /\ Moved(h, label)
<1>1. req \in [Handlers -> Request \cup {NoRequest}]
  BY DEF TypeOK
<1>2. req' = [g \in Handlers |-> IF g = h THEN [req[h] EXCEPT !.pc = label] ELSE req[g]]
  BY <1>1
<1>3. req[h] \in Request \cup {NoRequest} /\ req'[h] = [req[h] EXCEPT !.pc = label]
  BY <1>1, <1>2
<1>4. Moved(h, label)
  BY <1>3 DEF Moved, Request, NoRequest
<1> QED
  BY <1>2, <1>4 DEF Others

LEMMA AfterContinue ==
  ASSUME TypeOK, NEW h \in Handlers, NEW label, Continue(h, label)
  PROVE  Others(h) /\ (req'[h].pc = "idle" \/ Moved(h, label))
  BY AfterFinish, AfterMove DEF Continue

LEMMA AfterReadback ==
  ASSUME TypeOK, NEW h \in Handlers, NEW r,
         req' = [req EXCEPT ![h].pc = "readback", ![h].row = r]
  PROVE  /\ Others(h)
         /\ req'[h].pc = "readback" /\ req'[h].name = req[h].name /\ req'[h].row = r
<1>1. req \in [Handlers -> Request \cup {NoRequest}]
  BY DEF TypeOK
<1>2. req' = [g \in Handlers |->
                IF g = h THEN [req[h] EXCEPT !.pc = "readback", !.row = r] ELSE req[g]]
  BY <1>1
<1>3. req[h] \in Request \cup {NoRequest}
      /\ req'[h] = [req[h] EXCEPT !.pc = "readback", !.row = r]
  BY <1>1, <1>2
<1>4. req'[h].pc = "readback" /\ req'[h].name = req[h].name /\ req'[h].row = r
  BY <1>3 DEF Request, NoRequest
<1> QED
  BY <1>2, <1>4 DEF Others

LEMMA AfterHangUp ==
  ASSUME TypeOK, NEW h \in Handlers, req' = [req EXCEPT ![h].gone = TRUE]
  PROVE  Others(h) /\ Moved(h, req[h].pc)
<1>1. req \in [Handlers -> Request \cup {NoRequest}]
  BY DEF TypeOK
<1>2. req' = [g \in Handlers |-> IF g = h THEN [req[h] EXCEPT !.gone = TRUE] ELSE req[g]]
  BY <1>1
<1>3. req[h] \in Request \cup {NoRequest} /\ req'[h] = [req[h] EXCEPT !.gone = TRUE]
  BY <1>1, <1>2
<1>4. Moved(h, req[h].pc)
  BY <1>3 DEF Moved, Request, NoRequest
<1> QED
  BY <1>2, <1>4 DEF Others

LEMMA AfterStart ==
  ASSUME TypeOK, NEW h \in Handlers, NEW label, NEW n, NEW r, Start(h, label, n, r)
  PROVE  Others(h) /\ req'[h].pc = label /\ req'[h].name = n /\ req'[h].row = r
<1>1. req \in [Handlers -> Request \cup {NoRequest}]
  BY DEF TypeOK
<1>2. req' = [g \in Handlers |-> IF g = h THEN [pc |-> label, name |-> n, row |-> r, gone |-> FALSE]
                                          ELSE req[g]]
  BY <1>1 DEF Start
<1> QED
  BY <1>2 DEF Others

\* A request that goes on under its name, or ends, does not come to overlap.
LEMMA StaysAlone ==
  ASSUME DirInv, NEW h \in Handlers, Others(h),
         \/ req'[h].pc \in {"idle", "fire"}
         \/ Active(h) /\ req'[h].name = req[h].name
  PROVE  OneAtATime'
<1> SUFFICES ASSUME NEW f \in Handlers, NEW g \in Handlers,
                    Active(f)', Active(g)', req'[f].name = req'[g].name, req'[f].name \in Serial
             PROVE  f = g
  BY DEF OneAtATime
<1>1. Active(f) /\ req'[f].name = req[f].name
  BY DEF Others, Active
<1>2. Active(g) /\ req'[g].name = req[g].name
  BY DEF Others, Active
<1> QED
  BY <1>1, <1>2 DEF DirInv, OneAtATime

\* The other requests rely on what they relied on, when no row is added for
\* their names and no row or directory of theirs goes.
LEMMA OthersRely ==
  ASSUME DirInv, NEW h \in Handlers, Others(h),
         \A g \in Handlers \ {h} :
           Active(g) /\ req[g].name \in Serial =>
             /\ \A r \in rows' : r.name = req[g].name => r \in rows
             /\ DirOf(g) \in dirs => DirOf(g) \in dirs'
             /\ RowListed(g) /\ req[g].pc \in OnRow => req[g].row \in rows'
  PROVE  \A g \in Handlers \ {h} : RowKnown(g)' /\ Relies(g)'
<1> SUFFICES ASSUME NEW g \in Handlers \ {h} PROVE RowKnown(g)' /\ Relies(g)'
  OBVIOUS
<1>1. req'[g] = req[g]
  BY DEF Others
<1>2. RowKnown(g) /\ Relies(g)
  BY DEF DirInv
<1>3. RowKnown(g)'
  BY <1>1, <1>2 DEF RowKnown
<1>4. ASSUME req[g].name \in Serial PROVE NotListed(g)' /\ DirMade(g)' /\ RowListed(g)'
  <2>1. CASE Active(g)
    BY <1>1, <1>2, <1>4, <2>1 DEF Relies, NotListed, DirMade, RowListed, DirOf, Named
  <2>2. CASE ~Active(g)
    BY <1>1, <2>2 DEF Active, NotListed, DirMade, RowListed
  <2> QED
    BY <2>1, <2>2
<1> QED
  BY <1>1, <1>3, <1>4 DEF Relies

\* A request that does none of the critical steps relies on nothing.
LEMMA NoDuty ==
  ASSUME NEW h \in Handlers,
         req'[h].pc \notin {"init", "insert", "cleanup", "remove"} \cup OnRow
  PROVE  RowKnown(h)' /\ Relies(h)'
  BY DEF RowKnown, Relies, NotListed, DirMade, RowListed

LEMMA Recombine ==
  ASSUME NEW h \in Handlers, NamesUnique', OneAtATime', RowsHaveDirs',
         \A g \in Handlers \ {h} : RowKnown(g)' /\ Relies(g)',
         RowKnown(h)', Relies(h)'
  PROVE  DirInv'
  BY DEF DirInv

\* Steps that take away neither a row nor a directory, and add no row.
LEMMA KeepsTables ==
  ASSUME DirInv, NEW h \in Handlers, Others(h), rows' = rows, dirs \subseteq dirs'
  PROVE  /\ NamesUnique' /\ RowsHaveDirs'
         /\ \A g \in Handlers \ {h} : RowKnown(g)' /\ Relies(g)'
<1>1. NamesUnique'
  BY DEF DirInv, NamesUnique
<1>2. RowsHaveDirs'
  BY DEF DirInv, RowsHaveDirs, HasDir
<1>3. \A g \in Handlers : RowListed(g) /\ req[g].pc \in OnRow => req[g].row \in rows'
  BY DEF RowListed
<1> QED
  BY <1>1, <1>2, <1>3, OthersRely

LEMMA ArrivalKeepsDirInv ==
  ASSUME TypeOK, DirInv, NEW h \in Handlers, NEW n \in Names, Arrival(h, n)
  PROVE  DirInv'
<1>1. Free(h, n) /\ rows' = rows /\ dirs' = dirs
  BY DEF Arrival, CreateBegin, DeleteBegin, HookBegin, UnhookBegin, PushBegin
<1>2. \/ Start(h, "init", n, NoRow) /\ Named(n) = {}
      \/ \E label \in {"delete", "git"} : \E r \in Named(n) : Start(h, label, n, r)
      \/ \E label \in {"hook", "unhook"} : \E r \in Named(n) : Start(h, label, n, r)
  BY DEF Arrival, CreateBegin, DeleteBegin, HookBegin, UnhookBegin, PushBegin
<1>3. Others(h) /\ req'[h].name = n
  BY <1>2, AfterStart
<1>4. OneAtATime'
  <2>1. \A g \in Handlers : Active(g) /\ n \in Serial => req[g].name # n
    BY <1>1 DEF Free, Busy, Active
  <2>2. \A g \in Handlers \ {h} : req'[g] = req[g]
    BY <1>3 DEF Others
  <2>3. \A g \in Handlers \ {h} : Active(g)' = Active(g)
    BY <2>2 DEF Active
  <2> QED
    BY <1>3, <2>1, <2>2, <2>3 DEF DirInv, OneAtATime
<1>5. RowKnown(h)' /\ Relies(h)'
  <2>1. CASE Start(h, "init", n, NoRow) /\ Named(n) = {}
    <3>1. req'[h].pc = "init" /\ Named(n)' = {}
      BY <1>1, <2>1, AfterStart DEF Named
    <3> QED
      BY <1>3, <3>1 DEF RowKnown, Relies, NotListed, DirMade, RowListed
  <2>2. CASE \E label \in {"delete", "git"} : \E r \in Named(n) : Start(h, label, n, r)
    <3>1. PICK label \in {"delete", "git"} : \E r \in Named(n) : Start(h, label, n, r)
      BY <2>2
    <3>3. PICK r \in Named(n) : Start(h, label, n, r)
      BY <3>1
    <3>2. req'[h].pc = label /\ req'[h].row = r /\ r \in rows' /\ r.name = n
      BY <1>1, <3>3, AfterStart DEF Named
    <3> QED
      BY <1>3, <3>2 DEF RowKnown, Relies, NotListed, DirMade, RowListed
  <2>3. CASE \E label \in {"hook", "unhook"} : \E r \in Named(n) : Start(h, label, n, r)
    BY <2>3, AfterStart, NoDuty
  <2> QED
    BY <1>2, <2>1, <2>2, <2>3
<1> QED
  BY <1>1, <1>3, <1>4, <1>5, KeepsTables, Recombine

\* Only what belongs to nobody is removed.
LEMMA RemovalSparesOthers ==
  ASSUME RepoStoreAssumption, OwnDirs, TypeOK, DirInv, NEW h \in Handlers, Others(h),
         req[h].pc \in {"init", "cleanup", "remove"}, rows' = rows, RemoveDir(DirOf(h))
  PROVE  /\ NamesUnique' /\ RowsHaveDirs'
         /\ \A g \in Handlers \ {h} : RowKnown(g)' /\ Relies(g)'
<1>1. dirs \ {DirOf(h)} \subseteq dirs'
  BY DEF RemoveDir
<1>2. req[h].name \in Names
  BY DirOfType, RowFields
<1>3. \A n \in Serial : Dir[n] = DirOf(h) => req[h].name = n
  BY <1>2 DEF OwnDirs, DirOf
<1>4. RowsHaveDirs'
  <2>1. \A r \in rows : r.name = req[h].name => r.name \notin Serial
    BY DEF DirInv, Relies, NotListed, Named
  <2> QED
    BY <1>1, <1>3, <2>1 DEF DirInv, RowsHaveDirs, HasDir
<1>5. NamesUnique'
  BY DEF DirInv, NamesUnique
<1>6. \A g \in Handlers \ {h} :
        Active(g) /\ req[g].name \in Serial => (DirOf(g) \in dirs => DirOf(g) \in dirs')
  <2>1. Active(h)
    BY DEF Active
  <2>2. \A g \in Handlers \ {h} : Active(g) /\ req[g].name \in Serial => DirOf(g) # DirOf(h)
    BY <1>3, <2>1 DEF DirInv, OneAtATime, DirOf
  <2> QED
    BY <1>1, <2>2
<1>7. \A g \in Handlers : RowListed(g) /\ req[g].pc \in OnRow => req[g].row \in rows'
  BY DEF RowListed
<1> QED
  BY <1>4, <1>5, <1>6, <1>7, OthersRely

LEMMA RemovingStepsKeepDirInv ==
  ASSUME RepoStoreAssumption, OwnDirs, TypeOK, DirInv, NEW h \in Handlers,
         req[h].pc \in {"init", "cleanup", "remove"}, rows' = rows, RemoveDir(DirOf(h)), Finish(h)
  PROVE  DirInv'
<1>1. Others(h) /\ req'[h].pc = "idle"
  BY AfterFinish
<1> QED
  BY <1>1, StaysAlone, NoDuty, RemovalSparesOthers, Recombine

LEMMA CreateInitKeepsDirInv ==
  ASSUME RepoStoreAssumption, OwnDirs, TypeOK, DirInv, NEW h \in Handlers, CreateInit(h)
  PROVE  DirInv'
<1>1. CASE dirs' = dirs \cup {DirOf(h)} /\ req' = [req EXCEPT ![h].pc = "insert"]
  <2>1. Others(h) /\ Moved(h, "insert") /\ rows' = rows /\ req[h].pc = "init"
    BY <1>1, AfterMove DEF CreateInit
  <2>2. OneAtATime'
    BY <2>1, StaysAlone DEF Moved, Active
  <2>3. RowKnown(h)' /\ Relies(h)'
    BY <1>1, <2>1 DEF DirInv, Moved, RowKnown, Relies, NotListed, DirMade, RowListed, DirOf, Named
  <2> QED
    BY <1>1, <2>1, <2>2, <2>3, KeepsTables, Recombine
<1>2. CASE RemoveDir(DirOf(h)) /\ Finish(h)
  BY <1>2, RemovingStepsKeepDirInv DEF CreateInit
<1> QED
  BY <1>1, <1>2 DEF CreateInit

LEMMA CreateInsertKeepsDirInv ==
  ASSUME RepoStoreAssumption, TypeOK, DirInv, NEW h \in Handlers, CreateInsert(h)
  PROVE  DirInv'
<1> DEFINE new == [id |-> NewId, name |-> req[h].name, born |-> births + 1]
<1>1. req[h].pc = "insert" /\ dirs' = dirs /\ Active(h)
  BY DEF CreateInsert, Active
<1>2. new.name = req[h].name
  OBVIOUS
<1>3. ASSUME Named(new.name) = {}, rows' = rows \cup {new},
             \/ Finish(h)
             \/ req' = [req EXCEPT ![h].pc = "readback", ![h].row = new]
      PROVE  DirInv'
  <2>1. /\ Others(h)
        /\ \/ req'[h].pc = "idle"
           \/ req'[h].pc = "readback" /\ req'[h].name = req[h].name /\ req'[h].row = new
    BY <1>3, AfterFinish, AfterReadback
  <2>2. OneAtATime'
    BY <1>1, <2>1, StaysAlone
  <2>3. NamesUnique'
    BY <1>3 DEF DirInv, NamesUnique, Named
  <2>4. RowsHaveDirs'
    <3>1. new.name \in Serial => HasDir(new)
      BY <1>1, <1>2 DEF DirInv, Relies, DirMade, DirOf, HasDir
    <3> QED
      BY <1>1, <1>3, <3>1 DEF DirInv, RowsHaveDirs, HasDir
  <2>5. \A g \in Handlers \ {h} : RowKnown(g)' /\ Relies(g)'
    <3>1. \A g \in Handlers \ {h} : Active(g) /\ req[g].name \in Serial => req[g].name # new.name
      BY <1>1, <1>2 DEF DirInv, OneAtATime
    <3>2. \A g \in Handlers \ {h} : Active(g) /\ req[g].name \in Serial =>
            /\ \A r \in rows' : r.name = req[g].name => r \in rows
            /\ DirOf(g) \in dirs => DirOf(g) \in dirs'
            /\ RowListed(g) /\ req[g].pc \in OnRow => req[g].row \in rows'
      BY <1>1, <1>3, <3>1 DEF RowListed
    <3> QED
      BY <2>1, <3>2, OthersRely
  <2>6. RowKnown(h)' /\ Relies(h)'
    <3>1. CASE req'[h].pc = "idle"
      BY <3>1, NoDuty
    <3>2. CASE req'[h].pc = "readback" /\ req'[h].name = req[h].name /\ req'[h].row = new
      BY <1>2, <1>3, <3>2 DEF RowKnown, Relies, NotListed, DirMade, RowListed
    <3> QED
      BY <2>1, <3>1, <3>2
  <2> QED
    BY <2>2, <2>3, <2>4, <2>5, <2>6, Recombine
<1>4. ASSUME rows' = rows, Continue(h, "cleanup") PROVE DirInv'
  <2>1. Others(h) /\ (req'[h].pc = "idle" \/ Moved(h, "cleanup"))
    BY <1>4, AfterContinue
  <2>2. OneAtATime'
    BY <1>1, <2>1, StaysAlone DEF Moved
  <2>3. RowKnown(h)' /\ Relies(h)'
    <3>1. CASE req'[h].pc = "idle"
      BY <3>1, NoDuty
    <3>2. CASE Moved(h, "cleanup")
      BY <1>1, <1>4, <3>2 DEF DirInv, Moved, RowKnown, Relies, NotListed, DirMade, RowListed, Named
    <3> QED
      BY <2>1, <3>1, <3>2
  <2> QED
    BY <1>1, <1>4, <2>1, <2>2, <2>3, KeepsTables, Recombine
<1> QED
  BY <1>3, <1>4 DEF CreateInsert

LEMMA CreateReadbackKeepsDirInv ==
  ASSUME "readback" \notin Faults, TypeOK, DirInv, NEW h \in Handlers, CreateReadback(h)
  PROVE  DirInv'
<1>1. rows' = rows /\ dirs' = dirs /\ req[h].pc = "readback" /\ Active(h)
  BY DEF CreateReadback, Active
<1>2. CASE Finish(h)
  BY <1>1, <1>2, AfterFinish, StaysAlone, NoDuty, KeepsTables, Recombine
<1>3. CASE (\A r \in rows : r.id # req[h].row.id) /\ req' = [req EXCEPT ![h].pc = "cleanup"]
  <2>1. Others(h) /\ Moved(h, "cleanup")
    BY <1>3, AfterMove
  <2>2. req[h].name \notin Serial
    BY <1>1, <1>3 DEF DirInv, Relies, RowListed
  <2>3. RowKnown(h)' /\ Relies(h)'
    BY <2>1, <2>2 DEF Moved, RowKnown, Relies
  <2>4. OneAtATime'
    BY <1>1, <2>1, StaysAlone DEF Moved
  <2> QED
    BY <1>1, <2>1, <2>3, <2>4, KeepsTables, Recombine
<1> QED
  BY <1>2, <1>3 DEF CreateReadback

\* DELETE by the id that was read: the row goes, and no other.
LEMMA DeleteRowKeepsDirInv ==
  ASSUME TypeOK, IdInv, DirInv, NEW h \in Handlers, DeleteRow(h)
  PROVE  DirInv'
<1>1. dirs' = dirs /\ req[h].pc = "delete" /\ Active(h)
  BY DEF DeleteRow, Active
<1>2. CASE rows' = rows \ Doomed(h) /\ Continue(h, "remove")
  <2>1. Others(h) /\ (req'[h].pc = "idle" \/ Moved(h, "remove"))
    BY <1>2, AfterContinue
  <2>2. OneAtATime'
    BY <1>1, <2>1, StaysAlone DEF Moved
  <2>3. NamesUnique' /\ RowsHaveDirs'
    BY <1>1, <1>2 DEF DirInv, NamesUnique, RowsHaveDirs, HasDir
  <2>4. \A r \in Doomed(h) : r = req[h].row
    <3>1. req[h].row \in Known /\ \A r \in Doomed(h) : r \in Known /\ r.id = req[h].row.id
      BY DEF Doomed, Known
    <3> QED
      BY <3>1 DEF IdInv
  <2>5. \A g \in Handlers \ {h} : RowKnown(g)' /\ Relies(g)'
    <3>1. req[h].row.name = req[h].name
      BY <1>1 DEF DirInv, RowKnown
    <3>2. \A g \in Handlers \ {h} :
            Active(g) /\ req[g].name \in Serial /\ req[g].pc \in OnRow =>
              req[g].row # req[h].row
      BY <1>1, <3>1 DEF DirInv, OneAtATime, RowKnown
    <3>3. \A g \in Handlers \ {h} : Active(g) /\ req[g].name \in Serial =>
            /\ \A r \in rows' : r.name = req[g].name => r \in rows
            /\ DirOf(g) \in dirs => DirOf(g) \in dirs'
            /\ RowListed(g) /\ req[g].pc \in OnRow => req[g].row \in rows'
      BY <1>1, <1>2, <2>4, <3>2 DEF RowListed
    <3> QED
      BY <2>1, <3>3, OthersRely
  <2>6. RowKnown(h)' /\ Relies(h)'
    <3>1. CASE req'[h].pc = "idle"
      BY <3>1, NoDuty
    <3>2. CASE Moved(h, "remove")
      <4>1. ASSUME req[h].name \in Serial PROVE \A r \in rows' : r.name # req[h].name
        <5>1. req[h].row \in rows /\ req[h].row.name = req[h].name
          BY <1>1, <4>1 DEF DirInv, Relies, RowListed, RowKnown
        <5>2. req[h].row \in Doomed(h)
          BY <5>1 DEF Doomed
        <5> QED
          BY <1>2, <5>1, <5>2 DEF DirInv, NamesUnique
      <4> QED
        BY <3>2, <4>1 DEF Moved, RowKnown, Relies, NotListed, DirMade, RowListed, Named
    <3> QED
      BY <2>1, <3>1, <3>2
  <2> QED
    BY <2>2, <2>3, <2>5, <2>6, Recombine
<1>3. CASE rows' = rows /\ Finish(h)
  BY <1>1, <1>3, AfterFinish, StaysAlone, NoDuty, KeepsTables, Recombine
<1> QED
  BY <1>2, <1>3 DEF DeleteRow

\* Webhooks and pushes touch neither rows nor the existence of directories.
LEMMA OtherStepsKeepDirInv ==
  ASSUME TypeOK, DirInv, NEW h \in Handlers,
         HookInsert(h) \/ UnhookDelete(h) \/ PushGit(h) \/ FirePushWebhooks(h)
  PROVE  DirInv'
<1>1. rows' = rows /\ dirs' = dirs
  BY DEF HookInsert, UnhookDelete, PushGit, FirePushWebhooks
<1>2. Finish(h) \/ (req[h].pc = "git" /\ Continue(h, "fire"))
  BY DEF HookInsert, UnhookDelete, PushGit, FirePushWebhooks
<1>3. Others(h) /\ req'[h].pc \in {"idle", "fire"}
  BY <1>2, AfterFinish, AfterContinue DEF Moved
<1> QED
  BY <1>1, <1>3, StaysAlone, NoDuty, KeepsTables, Recombine

LEMMA DisconnectKeepsDirInv ==
  ASSUME TypeOK, DirInv, NEW h \in Handlers, Disconnect(h)
  PROVE  DirInv'
<1>1. rows' = rows /\ dirs' = dirs
  BY DEF Disconnect
<1>2. CASE Finish(h)
  BY <1>1, <1>2, AfterFinish, StaysAlone, NoDuty, KeepsTables, Recombine
<1>3. CASE req' = [req EXCEPT ![h].gone = TRUE] /\ req[h].pc \in {"insert", "delete", "hook", "unhook", "git"}
  <2>1. Others(h) /\ Moved(h, req[h].pc) /\ Active(h)
    BY <1>3, AfterHangUp DEF Active
  <2>2. OneAtATime'
    BY <2>1, StaysAlone DEF Moved
  <2>3. RowKnown(h)' /\ Relies(h)'
    BY <1>1, <2>1
       DEF DirInv, Moved, RowKnown, Relies, NotListed, DirMade, RowListed, DirOf, Named
  <2> QED
    BY <1>1, <2>1, <2>2, <2>3, KeepsTables, Recombine
<1> QED
  BY <1>2, <1>3 DEF Disconnect

LEMMA CrashKeepsDirInv ==
  ASSUME TypeOK, DirInv, Crash
  PROVE  DirInv'
<1>1. rows' = rows /\ dirs' = dirs
  BY DEF Crash
<1>2. \A g \in Handlers :
        \/ req'[g].pc = "idle"
        \/ Moved(g, "git") /\ req[g].pc = "git"
  <2>1. \A g \in Handlers : req[g].pc = "git" =>
          /\ [req[g] EXCEPT !.gone = TRUE].pc = "git"
          /\ [req[g] EXCEPT !.gone = TRUE].name = req[g].name
          /\ [req[g] EXCEPT !.gone = TRUE].row = req[g].row
    BY DirOfType DEF TypeOK, Request, NoRequest
  <2>2. NoRequest.pc = "idle"
    BY DEF NoRequest
  <2> QED
    BY <2>1, <2>2 DEF Crash, Moved
<1>3. OneAtATime'
  BY <1>2 DEF DirInv, OneAtATime, Active, Moved
<1>4. \A g \in Handlers : RowKnown(g)' /\ Relies(g)'
  BY <1>1, <1>2 DEF DirInv, Moved, RowKnown, Relies, NotListed, DirMade, RowListed
<1> QED
  BY <1>1, <1>3, <1>4 DEF DirInv, NamesUnique, RowsHaveDirs, HasDir

LEMMA DirStep ==
  ASSUME RepoStoreAssumption, OwnDirs, "readback" \notin Faults,
         TypeOK, IdInv, DirInv, [Next]_vars
  PROVE  DirInv'
<1>1. ASSUME NEW h \in Handlers, CreateCleanup(h) \/ DeleteDir(h) PROVE DirInv'
  BY <1>1, RemovingStepsKeepDirInv DEF CreateCleanup, DeleteDir
<1>2. CASE UNCHANGED vars
  BY <1>2 DEF vars, DirInv, NamesUnique, OneAtATime, Active, RowKnown, Relies, NotListed, DirMade,
              RowListed, DirOf, Named, RowsHaveDirs, HasDir
<1> QED
  BY <1>1, <1>2, ArrivalKeepsDirInv, CreateInitKeepsDirInv, CreateInsertKeepsDirInv,
     CreateReadbackKeepsDirInv, DeleteRowKeepsDirInv, OtherStepsKeepDirInv,
     DisconnectKeepsDirInv, CrashKeepsDirInv
     DEF Next, HandlerStep, Refuse

LEMMA DirInvHolds ==
  ASSUME OwnDirs, "readback" \notin Faults
  PROVE  Spec => [](TypeOK /\ IdInv /\ DirInv)
<1>1. Init => TypeOK /\ IdInv /\ DirInv
  BY RepoStoreAssumption, TypeInit, IdInit, DirInit
<1>2. TypeOK /\ IdInv /\ DirInv /\ [Next]_vars => (TypeOK /\ IdInv /\ DirInv)'
  BY RepoStoreAssumption, TypeStep, IdStep, DirStep
<1> QED
  BY <1>1, <1>2, PTL DEF Spec

\* A listed repository whose name is used by one request at a time has its
\* directory: no clean-up, deletion, failure, hang-up or crash takes it away.
THEOREM ListedReposHaveDirs ==
  ASSUME OwnDirs, "readback" \notin Faults
  PROVE  Spec => []RowsHaveDirs
<1>1. DirInv => RowsHaveDirs
  BY DEF DirInv
<1> QED
  BY <1>1, DirInvHolds, PTL

\* What the comment at user.rs:150 counts on is true as long as no two requests on one
\* name overlap: then no step takes the directory of a repository that stays listed.
\* (RepoStoreRace shows that with two at a time a clean-up does.)
THEOREM CleanupsAreSafeOneAtATime ==
  ASSUME OwnDirs, "readback" \notin Faults, Serial = Names
  PROVE  Spec => CleanupRemovesOnlyItsOwn
<1>1. TypeOK' /\ DirInv' => \A r \in rows' : HasDir(r)'
  BY DEF TypeOK, Row, DirInv, RowsHaveDirs
<1>2. TypeOK' /\ DirInv' => [\A r \in rows \cap rows' : HasDir(r) => HasDir(r)']_vars
  BY <1>1
<1> QED
  BY <1>2, DirInvHolds, PTL DEF CleanupRemovesOnlyItsOwn
=============================================================================
