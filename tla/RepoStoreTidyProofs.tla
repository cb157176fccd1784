------------------------- MODULE RepoStoreTidyProofs -------------------------
(***************************************************************************)
(* What a one-at-a-time repository leaves on disk: nothing once it is gone,*)
(* unless a clean-up was cut short, and while it is listed only what was   *)
(* pushed to it; so that RepoStore implements Shelf.  The assumptions are  *)
(* those of RepoStoreDirProofs, and for the last theorem that nothing cuts *)
(* a clean-up short.                                                       *)
(*                                                                         *)
(* Between a creation's init_bare and its INSERT, and between a deletion's *)
(* DELETE and its remove_dir_all, a directory without a row is right, as   *)
(* long as a handler is there that owes it a row or a removal.  The        *)
(* invariant names that handler; a step that makes it go without paying    *)
(* puts the directory in cut.                                              *)
(***************************************************************************)
EXTENDS RepoStoreDirProofs

USE DEF tables, disk, OnRow

Owes(h, n) == req[h].name = n /\ req[h].pc \in {"insert", "cleanup", "remove"}

Removes(h, n) == req[h].name = n /\ req[h].pc = "remove"

Borns(n) == {r.born : r \in Named(n)}

NoStrayDir(n) == Named(n) = {} /\ (\A h \in Handlers : ~Owes(h, n)) => Dir[n] \notin dirs

OnlyOwnData(n) == (\A h \in Handlers : ~Removes(h, n)) => data[Dir[n]] \subseteq Borns(n)

Tidy(n) == Dir[n] \notin cut => NoStrayDir(n) /\ OnlyOwnData(n)

TidyInv == \A n \in Serial : Tidy(n)

LEMMA TidyInit == ASSUME RepoStoreAssumption, Init PROVE TidyInv
<1> SUFFICES ASSUME NEW n \in Serial PROVE NoStrayDir(n) /\ OnlyOwnData(n)
  BY DEF TidyInv, Tidy
<1>1. Dir[n] \in Dirs
  BY DEF RepoStoreAssumption
<1>2. dirs = {} /\ data[Dir[n]] = {}
  BY <1>1 DEF Init
<1> QED
  BY <1>2 DEF NoStrayDir, OnlyOwnData

----------------------------------------------------------------------------
(* Steps of handler h that do not concern name n.                          *)

\* The rows and the directory of n are what they were.
Spares(n) ==
  /\ Named(n)' = Named(n)
  /\ Dir[n] \in dirs' => Dir[n] \in dirs
  /\ data'[Dir[n]] = data[Dir[n]]
  /\ Dir[n] \in cut => Dir[n] \in cut'

LEMMA SparedStaysTidy ==
  ASSUME NEW n \in Serial, Tidy(n), Spares(n), NEW h \in Handlers, Others(h),
         (Owes(h, n)' <=> Owes(h, n)), (Removes(h, n)' <=> Removes(h, n))
  PROVE  Tidy(n)'
<1> SUFFICES ASSUME Dir[n] \notin cut' PROVE NoStrayDir(n)' /\ OnlyOwnData(n)'
  BY DEF Tidy
<1>1. NoStrayDir(n) /\ OnlyOwnData(n)
  BY DEF Tidy, Spares
<1>2. \A g \in Handlers \ {h} : req'[g] = req[g]
  BY DEF Others
<1>3. \A g \in Handlers : (Owes(g, n)' <=> Owes(g, n)) /\ (Removes(g, n)' <=> Removes(g, n))
  BY <1>2 DEF Owes, Removes
<1>4. NoStrayDir(n)'
  BY <1>1, <1>3 DEF NoStrayDir, Spares
<1>5. Borns(n)' = Borns(n)
  BY DEF Spares, Borns
<1>6. OnlyOwnData(n)'
  BY <1>1, <1>3, <1>5 DEF OnlyOwnData, Spares
<1> QED
  BY <1>4, <1>6

\* A step that keeps tables and disk, of a handler that owes nothing before or after.
LEMMA QuietStepStaysTidy ==
  ASSUME TidyInv, NEW h \in Handlers, Others(h), rows' = rows, dirs' = dirs, data' = data, cut' = cut,
         req[h].pc \notin {"insert", "cleanup", "remove"},
         req'[h].pc \notin {"insert", "cleanup", "remove"}
  PROVE  TidyInv'
<1> SUFFICES ASSUME NEW n \in Serial PROVE Tidy(n)'
  BY DEF TidyInv
<1>1. Spares(n)
  BY DEF Spares, Named
<1>2. (Owes(h, n)' <=> Owes(h, n)) /\ (Removes(h, n)' <=> Removes(h, n))
  BY DEF Owes, Removes
<1> QED
  BY <1>1, <1>2, SparedStaysTidy DEF TidyInv

\* A handler at work under one name does nothing to another name that shares no
\* directory with it.
LEMMA OtherNamesStayTidy ==
  ASSUME RepoStoreAssumption, OwnDirs, TypeOK, TidyInv, NEW h \in Handlers, Others(h),
         req[h].pc # "idle",
         req'[h].pc = "idle" \/ req'[h].name = req[h].name,
         \A r : r.name # req[h].name => (r \in rows' <=> r \in rows),
         \A d \in Dirs \ {DirOf(h)} :
           /\ d \in dirs' <=> d \in dirs
           /\ data'[d] = data[d]
           /\ d \in cut' <=> d \in cut,
         NEW n \in Serial, n # req[h].name
  PROVE  Tidy(n)'
<1>1. req[h].name \in Names /\ Dir[n] \in Dirs
  BY DirOfType, RowFields DEF RepoStoreAssumption
<1>2. Dir[n] # DirOf(h)
  BY <1>1 DEF OwnDirs, DirOf
<1>3. \A r : r \in Named(n)' <=> r \in Named(n)
  BY DEF Named
<1>4. Spares(n)
  BY <1>1, <1>2, <1>3 DEF Spares
<1>5. ~Owes(h, n) /\ ~Removes(h, n) /\ ~Owes(h, n)' /\ ~Removes(h, n)'
  BY DEF Owes, Removes
<1> QED
  BY <1>4, <1>5, SparedStaysTidy DEF TidyInv

\* On a one-at-a-time name, handler h is the only one at work.
LEMMA OnlyWorker ==
  ASSUME DirInv, NEW h \in Handlers, Active(h), req[h].name \in Serial,
         NEW g \in Handlers \ {h}
  PROVE  ~Owes(g, req[h].name)
  BY DEF DirInv, OneAtATime, Active, Owes

\* So, unless it is removing the directory, the directory holds only what belongs.
LEMMA OwnDataNow ==
  ASSUME DirInv, TidyInv, NEW h \in Handlers, Active(h), req[h].pc # "remove",
         req[h].name \in Serial, DirOf(h) \notin cut
  PROVE  data[DirOf(h)] \subseteq Borns(req[h].name)
<1>1. \A g \in Handlers : ~Removes(g, req[h].name)
  BY OnlyWorker DEF Owes, Removes
<1>2. OnlyOwnData(req[h].name)
  BY DEF TidyInv, Tidy, DirOf
<1> QED
  BY <1>1, <1>2 DEF OnlyOwnData, DirOf

----------------------------------------------------------------------------
(* The actions.                                                            *)

LEMMA ArrivalStaysTidy ==
  ASSUME TypeOK, TidyInv, NEW h \in Handlers, NEW n \in Names, Arrival(h, n)
  PROVE  TidyInv'
<1>1. req[h].pc = "idle" /\ UNCHANGED <<rows, dirs, data, cut>>
  BY DEF Arrival, CreateBegin, DeleteBegin, HookBegin, UnhookBegin, PushBegin, Free
<1>2. \E r : \E label \in {"init", "delete", "hook", "unhook", "git"} : Start(h, label, n, r)
  BY DEF Arrival, CreateBegin, DeleteBegin, HookBegin, UnhookBegin, PushBegin
<1>3. Others(h) /\ req'[h].pc \in {"init", "delete", "hook", "unhook", "git"}
  BY <1>2, AfterStart
<1> QED
  BY <1>1, <1>3, QuietStepStaysTidy

\* remove_dir_all succeeds, and nothing is there, or it fails, and the directory is cut.
LEMMA RemovalStaysTidy ==
  ASSUME RepoStoreAssumption, OwnDirs, TypeOK, TidyInv, NEW h \in Handlers,
         req[h].pc # "idle", rows' = rows, RemoveDir(DirOf(h)), Finish(h)
  PROVE  TidyInv'
<1>1. Others(h) /\ req'[h].pc = "idle"
  BY AfterFinish
<1>2. DirOf(h) \in Dirs /\ data \in [Dirs -> SUBSET Nat]
  BY DirOfType DEF TypeOK
<1>3. \A d \in Dirs \ {DirOf(h)} :
        /\ d \in dirs' <=> d \in dirs
        /\ data'[d] = data[d]
        /\ d \in cut' <=> d \in cut
  BY <1>2 DEF RemoveDir, Leave
<1>4. DirOf(h) \in cut' \/ (DirOf(h) \notin dirs' /\ data'[DirOf(h)] = {})
  BY <1>2 DEF RemoveDir, Leave
<1> SUFFICES ASSUME NEW n \in Serial PROVE Tidy(n)'
  BY DEF TidyInv
<1>5. CASE n = req[h].name
  BY <1>4, <1>5 DEF Tidy, NoStrayDir, OnlyOwnData, DirOf
<1>6. CASE n # req[h].name
  BY <1>1, <1>3, <1>6, OtherNamesStayTidy
<1> QED
  BY <1>5, <1>6

LEMMA CreateInitStaysTidy ==
  ASSUME RepoStoreAssumption, OwnDirs, TypeOK, DirInv, TidyInv, NEW h \in Handlers, CreateInit(h)
  PROVE  TidyInv'
<1>1. CASE RemoveDir(DirOf(h)) /\ Finish(h)
  BY <1>1, RemovalStaysTidy DEF CreateInit
<1>2. CASE /\ dirs' = dirs \cup {DirOf(h)} /\ UNCHANGED <<data, cut>>
           /\ req' = [req EXCEPT ![h].pc = "insert"]
  <2>1. Others(h) /\ Moved(h, "insert") /\ rows' = rows /\ req[h].pc = "init" /\ Active(h)
    BY <1>2, AfterMove DEF CreateInit, Active
  <2> SUFFICES ASSUME NEW n \in Serial PROVE Tidy(n)'
    BY DEF TidyInv
  <2>2. CASE n # req[h].name
    BY <1>2, <2>1, <2>2, OtherNamesStayTidy DEF Moved
  <2>3. CASE n = req[h].name
    <3>1. Owes(h, n)'
      BY <2>1, <2>3 DEF Owes, Moved
    <3>2. Dir[n] \notin cut => data'[Dir[n]] \subseteq Borns(n)
      BY <1>2, <2>1, <2>3, OwnDataNow DEF DirOf
    <3>3. Borns(n)' = Borns(n)
      BY <2>1 DEF Borns, Named
    <3> QED
      BY <1>2, <3>1, <3>2, <3>3 DEF Tidy, NoStrayDir, OnlyOwnData
  <2> QED
    BY <2>2, <2>3
<1> QED
  BY <1>1, <1>2 DEF CreateInit

LEMMA CreateInsertStaysTidy ==
  ASSUME RepoStoreAssumption, OwnDirs, TypeOK, DirInv, TidyInv, NEW h \in Handlers, CreateInsert(h)
  PROVE  TidyInv'
<1> DEFINE new == [id |-> NewId, name |-> req[h].name, born |-> births + 1]
<1>1. req[h].pc = "insert" /\ UNCHANGED <<dirs, data>> /\ Active(h) /\ new.name = req[h].name
  BY DEF CreateInsert, Active
<1> SUFFICES ASSUME NEW n \in Serial, Dir[n] \notin cut' PROVE Tidy(n)'
  BY DEF TidyInv, Tidy
<1>2. CASE /\ Named(new.name) = {} /\ rows' = rows \cup {new} /\ UNCHANGED cut
           /\ \/ Finish(h)
              \/ req' = [req EXCEPT ![h].pc = "readback", ![h].row = new]
  <2>1. Others(h) /\ (req'[h].pc = "idle" \/ (req'[h].pc = "readback" /\ req'[h].name = req[h].name))
    BY <1>2, AfterFinish, AfterReadback
  <2> HIDE DEF new
  <2>2. CASE n # req[h].name
    BY <1>1, <1>2, <2>1, <2>2, OtherNamesStayTidy
  <2>3. CASE n = req[h].name
    <3>1. data'[Dir[n]] = {}
      <4>1. data[Dir[n]] \subseteq Borns(n)
        BY <1>1, <1>2, <2>3, OwnDataNow DEF DirOf
      <4>2. Borns(n) = {}
        BY <1>1, <1>2, <2>3 DEF Borns
      <4> QED
        BY <1>1, <4>1, <4>2
    <3>2. Named(n)' # {}
      BY <1>1, <1>2, <2>3 DEF Named
    <3> QED
      BY <3>1, <3>2 DEF Tidy, NoStrayDir, OnlyOwnData
  <2> QED
    BY <2>2, <2>3
<1>3. CASE /\ rows' = rows /\ Continue(h, "cleanup")
           /\ IF req[h].gone THEN Leave({DirOf(h)}) ELSE UNCHANGED cut
  <2>1. /\ Others(h)
        /\ \/ req[h].gone /\ req'[h].pc = "idle" /\ cut' = cut \cup {DirOf(h)}
           \/ ~req[h].gone /\ Moved(h, "cleanup") /\ cut' = cut
    BY <1>3, AfterFinish, AfterMove DEF Continue, Leave
  <2>2. CASE n # req[h].name
    BY <1>1, <1>3, <2>1, <2>2, OtherNamesStayTidy DEF Moved
  <2>3. CASE n = req[h].name
    <3>1. Moved(h, "cleanup") /\ cut' = cut
      BY <2>1, <2>3 DEF DirOf
    <3>2. Owes(h, n)'
      BY <2>3, <3>1 DEF Owes, Moved
    <3>3. data'[Dir[n]] \subseteq Borns(n)
      BY <1>1, <2>3, <3>1, OwnDataNow DEF DirOf
    <3>4. Borns(n)' = Borns(n)
      BY <1>3 DEF Borns, Named
    <3> QED
      BY <3>2, <3>3, <3>4 DEF Tidy, NoStrayDir, OnlyOwnData
  <2> QED
    BY <2>2, <2>3
<1> QED
  BY <1>2, <1>3 DEF CreateInsert

LEMMA CreateReadbackStaysTidy ==
  ASSUME RepoStoreAssumption, OwnDirs, "readback" \notin Faults, TypeOK, DirInv, TidyInv,
         NEW h \in Handlers, CreateReadback(h)
  PROVE  TidyInv'
<1>1. req[h].pc = "readback" /\ UNCHANGED <<rows, dirs, data, cut>>
  BY DEF CreateReadback
<1>2. CASE Finish(h)
  BY <1>1, <1>2, AfterFinish, QuietStepStaysTidy
<1>3. CASE (\A r \in rows : r.id # req[h].row.id) /\ req' = [req EXCEPT ![h].pc = "cleanup"]
  <2>1. Others(h) /\ Moved(h, "cleanup")
    BY <1>3, AfterMove
  <2>2. req[h].name \notin Serial
    BY <1>1, <1>3 DEF DirInv, Relies, RowListed
  <2>3. ASSUME NEW n \in Serial PROVE Tidy(n)'
    BY <1>1, <2>1, <2>2, OtherNamesStayTidy DEF Moved
  <2> QED
    BY <2>3 DEF TidyInv
<1> QED
  BY <1>2, <1>3 DEF CreateReadback

\* The row goes, and with it who owes the removal comes, or the directory is cut.
LEMMA DeleteRowStaysTidy ==
  ASSUME RepoStoreAssumption, OwnDirs, TypeOK, IdInv, DirInv, TidyInv,
         NEW h \in Handlers, DeleteRow(h)
  PROVE  TidyInv'
<1>1. req[h].pc = "delete" /\ UNCHANGED <<dirs, data>>
  BY DEF DeleteRow
<1>2. CASE rows' = rows /\ cut' = cut /\ Finish(h)
  BY <1>1, <1>2, AfterFinish, QuietStepStaysTidy
<1>3. CASE /\ rows' = rows \ Doomed(h) /\ Continue(h, "remove")
           /\ IF req[h].gone THEN Leave({DirOf(h)}) ELSE UNCHANGED cut
  <2>1. /\ Others(h)
        /\ \/ req[h].gone /\ req'[h].pc = "idle" /\ cut' = cut \cup {DirOf(h)}
           \/ ~req[h].gone /\ Moved(h, "remove") /\ cut' = cut
    BY <1>3, AfterFinish, AfterMove DEF Continue, Leave
  <2>2. \A r \in Doomed(h) : r.name = req[h].name
    <3>1. req[h].row \in Known /\ \A r \in Doomed(h) : r \in Known /\ r.id = req[h].row.id
      BY DEF Doomed, Known
    <3>2. \A r \in Doomed(h) : r = req[h].row
      BY <3>1 DEF IdInv
    <3> QED
      BY <1>1, <3>2 DEF DirInv, RowKnown
  <2> SUFFICES ASSUME NEW n \in Serial, Dir[n] \notin cut' PROVE Tidy(n)'
    BY DEF TidyInv, Tidy
  <2>3. CASE n # req[h].name
    BY <1>1, <1>3, <2>1, <2>2, <2>3, OtherNamesStayTidy DEF Moved
  <2>4. CASE n = req[h].name
    <3>1. Moved(h, "remove")
      BY <2>1, <2>4 DEF DirOf
    <3>2. Owes(h, n)' /\ Removes(h, n)'
      BY <2>4, <3>1 DEF Owes, Removes, Moved
    <3> QED
      BY <3>2 DEF Tidy, NoStrayDir, OnlyOwnData
  <2> QED
    BY <2>3, <2>4
<1> QED
  BY <1>2, <1>3 DEF DeleteRow

\* A push adds to the directory what was pushed to the row that is still listed.
LEMMA PushGitStaysTidy ==
  ASSUME RepoStoreAssumption, OwnDirs, TypeOK, DirInv, TidyInv, NEW h \in Handlers, PushGit(h)
  PROVE  TidyInv'
<1>1. req[h].pc = "git" /\ UNCHANGED <<rows, dirs, cut>> /\ Active(h)
  BY DEF PushGit, Active
<1>2. Others(h) /\ (req'[h].pc = "idle" \/ Moved(h, "fire"))
  BY AfterFinish, AfterContinue DEF PushGit
<1>3. CASE data' = data
  BY <1>1, <1>2, <1>3, QuietStepStaysTidy DEF Moved
<1>4. CASE data' = [data EXCEPT ![DirOf(h)] = @ \cup {req[h].row.born}]
  <2>1. DirOf(h) \in Dirs /\ data \in [Dirs -> SUBSET Nat]
    BY <1>1, DirOfType DEF TypeOK
  <2>2. \A d \in Dirs \ {DirOf(h)} : data'[d] = data[d]
    BY <1>4, <2>1
  <2> SUFFICES ASSUME NEW n \in Serial, Dir[n] \notin cut' PROVE Tidy(n)'
    BY DEF TidyInv, Tidy
  <2>3. CASE n # req[h].name
    BY <1>1, <1>2, <2>2, <2>3, OtherNamesStayTidy DEF Moved
  <2>4. CASE n = req[h].name
    <3>1. req[h].row \in Named(n)
      BY <1>1, <2>4 DEF DirInv, Relies, RowListed, RowKnown, Named
    <3>2. data[Dir[n]] \cup {req[h].row.born} \subseteq Borns(n)
      BY <1>1, <2>4, <3>1, OwnDataNow DEF DirOf, Borns
    <3>3. data'[Dir[n]] \subseteq Borns(n)
      BY <1>4, <2>1, <2>4, <3>2 DEF DirOf
    <3>4. Borns(n)' = Borns(n) /\ Named(n)' # {}
      BY <1>1, <3>1 DEF Borns, Named
    <3> QED
      BY <3>3, <3>4 DEF Tidy, NoStrayDir, OnlyOwnData
  <2> QED
    BY <2>3, <2>4
<1> QED
  BY <1>3, <1>4 DEF PushGit

LEMMA OtherStepsStayTidy ==
  ASSUME TypeOK, TidyInv, NEW h \in Handlers,
         HookInsert(h) \/ UnhookDelete(h) \/ FirePushWebhooks(h)
  PROVE  TidyInv'
<1>1. UNCHANGED <<rows, dirs, data, cut>> /\ req[h].pc \in {"hook", "unhook", "fire"} /\ Finish(h)
  BY DEF HookInsert, UnhookDelete, FirePushWebhooks
<1> QED
  BY <1>1, AfterFinish, QuietStepStaysTidy

\* Who hangs up in the middle of a clean-up leaves the directory cut; who hangs up
\* before it owes what it owed, and CreateInsert or DeleteRow settle it.
LEMMA DisconnectStaysTidy ==
  ASSUME RepoStoreAssumption, OwnDirs, TypeOK, TidyInv, NEW h \in Handlers, Disconnect(h)
  PROVE  TidyInv'
<1>1. UNCHANGED <<rows, dirs, data>>
  BY DEF Disconnect
<1>2. CASE req' = [req EXCEPT ![h].gone = TRUE] /\ cut' = cut
  <2>1. Others(h) /\ Moved(h, req[h].pc)
    BY <1>2, AfterHangUp
  <2>2. ASSUME NEW n \in Serial PROVE Tidy(n)'
    <3>1. Spares(n)
      BY <1>1, <1>2 DEF Spares, Named
    <3>2. (Owes(h, n)' <=> Owes(h, n)) /\ (Removes(h, n)' <=> Removes(h, n))
      BY <2>1 DEF Moved, Owes, Removes
    <3> QED
      BY <2>1, <3>1, <3>2, SparedStaysTidy DEF TidyInv
  <2> QED
    BY <2>2 DEF TidyInv
<1>3. CASE req[h].pc \in {"init", "readback"} /\ Finish(h) /\ cut' = cut
  BY <1>1, <1>3, AfterFinish, QuietStepStaysTidy
<1>4. CASE req[h].pc \in {"cleanup", "remove"} /\ Finish(h) /\ Leave({DirOf(h)})
  <2>1. Others(h) /\ req'[h].pc = "idle" /\ cut' = cut \cup {DirOf(h)}
    BY <1>4, AfterFinish DEF Leave
  <2>2. ASSUME NEW n \in Serial, Dir[n] \notin cut' PROVE Tidy(n)'
    <3>1. n # req[h].name
      BY <2>1, <2>2 DEF DirOf
    <3> QED
      BY <1>1, <1>4, <2>1, <3>1, OtherNamesStayTidy
  <2> QED
    BY <2>2 DEF TidyInv, Tidy
<1> QED
  BY <1>2, <1>3, <1>4 DEF Disconnect

\* After a crash nobody owes anything: every directory that was owed a step is cut.
LEMMA CrashStaysTidy ==
  ASSUME TidyInv, Crash
  PROVE  TidyInv'
<1>1. UNCHANGED <<rows, dirs, data>>
  BY DEF Crash
<1> SUFFICES ASSUME NEW n \in Serial, Dir[n] \notin cut' PROVE Tidy(n)'
  BY DEF TidyInv, Tidy
<1>2. cut \subseteq cut' /\ \A h \in Handlers : req[h].pc \in {"insert", "cleanup", "remove"} => DirOf(h) \in cut'
  BY DEF Crash, Leave
<1>3. \A h \in Handlers : ~Owes(h, n) /\ ~Removes(h, n)
  BY <1>2 DEF Owes, Removes, DirOf
<1>4. NoStrayDir(n) /\ OnlyOwnData(n)
  BY <1>2 DEF TidyInv, Tidy
<1>5. Named(n)' = Named(n) /\ Borns(n)' = Borns(n)
  BY <1>1 DEF Named, Borns
<1> QED
  BY <1>1, <1>3, <1>4, <1>5 DEF Tidy, NoStrayDir, OnlyOwnData

LEMMA TidyStep ==
  ASSUME RepoStoreAssumption, OwnDirs, "readback" \notin Faults,
         TypeOK, IdInv, DirInv, TidyInv, [Next]_vars
  PROVE  TidyInv'
<1>1. ASSUME NEW h \in Handlers, CreateCleanup(h) \/ DeleteDir(h) PROVE TidyInv'
  BY <1>1, RemovalStaysTidy DEF CreateCleanup, DeleteDir
<1>2. CASE UNCHANGED vars
  BY <1>2 DEF vars, TidyInv, Tidy, NoStrayDir, OnlyOwnData, Owes, Removes, Borns, Named
<1> QED
  BY <1>1, <1>2, ArrivalStaysTidy, CreateInitStaysTidy, CreateInsertStaysTidy,
     CreateReadbackStaysTidy, DeleteRowStaysTidy, PushGitStaysTidy, OtherStepsStayTidy,
     DisconnectStaysTidy, CrashStaysTidy
     DEF Next, HandlerStep, Refuse

LEMMA TidyHolds ==
  ASSUME OwnDirs, "readback" \notin Faults
  PROVE  Spec => [](TypeOK /\ DirInv /\ TidyInv)
<1>1. Init => TypeOK /\ IdInv /\ DirInv /\ TidyInv
  BY RepoStoreAssumption, TypeInit, IdInit, DirInit, TidyInit
<1>2. TypeOK /\ IdInv /\ DirInv /\ TidyInv /\ [Next]_vars => (TypeOK /\ IdInv /\ DirInv /\ TidyInv)'
  BY RepoStoreAssumption, TypeStep, IdStep, DirStep, TidyStep
<1> QED
  BY <1>1, <1>2, PTL DEF Spec

\* Once no request on a one-at-a-time name is in progress, its directory is there only
\* for a listed repository and holds only what was pushed to that one, unless a clean-up
\* was cut short (by a failing remove_dir_all, a hang-up or a crash).
THEOREM NothingStaysBehind ==
  ASSUME OwnDirs, "readback" \notin Faults
  PROVE  Spec => []NothingLeftBehind
<1>1. TidyInv => NothingLeftBehind
  <2> SUFFICES ASSUME TidyInv, NEW n \in Serial, ~Busy(n), Dir[n] \notin cut
               PROVE  /\ Dir[n] \in dirs => Named(n) # {}
                      /\ data[Dir[n]] \subseteq {r.born : r \in Named(n)}
    BY DEF NothingLeftBehind
  <2>1. \A h \in Handlers : ~Owes(h, n) /\ ~Removes(h, n)
    BY DEF Busy, Owes, Removes
  <2> QED
    BY <2>1 DEF TidyInv, Tidy, NoStrayDir, OnlyOwnData, Borns
<1> QED
  BY <1>1, TidyHolds, PTL

----------------------------------------------------------------------------
(* The places of Shelf.  A step of a handler is one of its steps for the   *)
(* name the handler works under, or none, and leaves the other places as   *)
(* they are.                                                               *)

Stored(r) == [name |-> r.name, content |-> data[Dir[r.name]]]

OnShelf == {Stored(r) : r \in {s \in rows : s.name \in Serial}}

Uncleaned == {n \in Serial : Dir[n] \in cut}

ShelfStep == [Shelved!Next]_(Shelved!vars)

\* A step that touches only the rows and the directory of the name h works under.
OnlyAt(h) ==
  /\ \A r : r.name # req[h].name => (r \in rows' <=> r \in rows)
  /\ \A d \in Dirs \ {DirOf(h)} : data'[d] = data[d] /\ (d \in cut' <=> d \in cut)

LEMMA PlacesAreOwn ==
  ASSUME RepoStoreAssumption, OwnDirs, TypeOK, NEW h \in Handlers, req[h].pc # "idle"
  PROVE  /\ DirOf(h) \in Dirs /\ data \in [Dirs -> SUBSET Nat]
         /\ \A n \in Serial : Dir[n] \in Dirs /\ (Dir[n] = DirOf(h) => n = req[h].name)
<1>1. req[h].name \in Names /\ DirOf(h) \in Dirs
  BY DirOfType, RowFields
<1> QED
  BY <1>1 DEF OwnDirs, DirOf, RepoStoreAssumption, TypeOK

LEMMA VacantPlace == ASSUME NEW n, Named(n) = {} PROVE Shelved!Vacant(n)
  BY DEF Named, Shelved!Vacant

LEMMA NothingMoves == ASSUME UNCHANGED <<rows, data, cut>> PROVE ShelfStep
  BY DEF ShelfStep, Shelved!vars

LEMMA ElsewhereNothingMoves ==
  ASSUME RepoStoreAssumption, OwnDirs, TypeOK, NEW h \in Handlers, req[h].pc # "idle",
         OnlyAt(h), req[h].name \notin Serial
  PROVE  ShelfStep
<1>1. \A n \in Serial : data'[Dir[n]] = data[Dir[n]] /\ (Dir[n] \in cut' <=> Dir[n] \in cut)
  BY PlacesAreOwn DEF OnlyAt
<1>2. \A r : r.name \in Serial => (r \in rows' <=> r \in rows) /\ Stored(r)' = Stored(r)
  BY <1>1 DEF OnlyAt, Stored
<1>3. OnShelf' = OnShelf
  BY <1>2 DEF OnShelf
<1>4. Uncleaned' = Uncleaned
  BY <1>1 DEF Uncleaned
<1> QED
  BY <1>3, <1>4 DEF ShelfStep, Shelved!vars, OnShelf, Uncleaned, Stored

LEMMA CleanUpsGivenUp ==
  ASSUME rows' = rows, data' = data, cut \subseteq cut',
         \A n \in Serial : Dir[n] \in cut' \ cut => Named(n) = {}
  PROVE  ShelfStep
<1>1. OnShelf' = OnShelf /\ Uncleaned \subseteq Uncleaned'
  BY DEF OnShelf, Stored, Uncleaned
<1>2. \A n \in Uncleaned' \ Uncleaned : Shelved!Vacant(n)
  BY VacantPlace DEF Uncleaned
<1>3. Shelved!Neglect
  BY <1>1, <1>2 DEF Shelved!Neglect, OnShelf, Uncleaned, Stored
<1> QED
  BY <1>3 DEF ShelfStep, Shelved!Next

LEMMA OneGivenUp ==
  ASSUME RepoStoreAssumption, OwnDirs, TypeOK, DirInv, NEW h \in Handlers,
         req[h].pc \in {"init", "insert", "cleanup", "remove"},
         rows' = rows, data' = data, Leave({DirOf(h)})
  PROVE  ShelfStep
<1>1. cut \subseteq cut' /\ \A d \in cut' \ cut : d = DirOf(h)
  BY DEF Leave
<1>2. \A n \in Serial : Dir[n] \in cut' \ cut => n = req[h].name
  BY <1>1, PlacesAreOwn
<1>3. \A n \in Serial : Dir[n] \in cut' \ cut => Named(n) = {}
  BY <1>2 DEF DirInv, Relies, NotListed
<1> QED
  BY <1>1, <1>3, CleanUpsGivenUp

LEMMA RemovalCleans ==
  ASSUME RepoStoreAssumption, OwnDirs, TypeOK, DirInv, NEW h \in Handlers,
         req[h].pc \in {"init", "cleanup", "remove"}, rows' = rows, RemoveDir(DirOf(h))
  PROVE  ShelfStep
<1>1. CASE Leave({DirOf(h)}) /\ data' = data
  BY <1>1, OneGivenUp
<1>2. CASE data' = [data EXCEPT ![DirOf(h)] = {}] /\ cut' = cut \ {DirOf(h)}
  <2>0. PICK n : n = req[h].name
    OBVIOUS
  <2>1. OnlyAt(h)
    BY <1>2, PlacesAreOwn DEF OnlyAt
  <2>2. CASE n \in Serial
    <3>1. Named(n) = {}
      BY <2>0, <2>2 DEF DirInv, Relies, NotListed
    <3>2. \A m \in Serial \ {n} : data'[Dir[m]] = data[Dir[m]]
      BY <2>0, <2>1, PlacesAreOwn DEF OnlyAt
    <3>3. \A r \in rows : r.name \in Serial => Stored(r)' = Stored(r)
      BY <3>1, <3>2 DEF Stored, Named
    <3>4. OnShelf' = OnShelf
      BY <3>3 DEF OnShelf
    <3>5. Uncleaned' = Uncleaned \ {n}
      BY <1>2, <2>0, <2>2, PlacesAreOwn DEF Uncleaned, DirOf
    <3>6. Shelved!CleanUp(n)
      BY <3>1, <3>4, <3>5, VacantPlace DEF Shelved!CleanUp, OnShelf, Uncleaned, Stored
    <3> QED
      BY <2>2, <3>6 DEF ShelfStep, Shelved!Next
  <2>3. CASE n \notin Serial
    BY <2>0, <2>1, <2>3, ElsewhereNothingMoves
  <2> QED
    BY <2>2, <2>3
<1> QED
  BY <1>1, <1>2 DEF RemoveDir

LEMMA InsertCreates ==
  ASSUME RepoStoreAssumption, OwnDirs, TypeOK, DirInv, TidyInv, NEW h \in Handlers, CreateInsert(h)
  PROVE  ShelfStep
<1>0. PICK n : n = req[h].name
  OBVIOUS
<1> DEFINE new == [id |-> NewId, name |-> n, born |-> births + 1]
<1>1. req[h].pc = "insert" /\ data' = data /\ Active(h) /\ new.name = n
  BY <1>0 DEF CreateInsert, Active
<1>2. CASE Named(n) = {} /\ rows' = rows \cup {new} /\ cut' = cut
  <2> HIDE DEF new
  <2>1. CASE n \in Serial
    <3>1. Dir[n] \notin cut => data[Dir[n]] = {}
      <4>1. Dir[n] \notin cut => data[Dir[n]] \subseteq Borns(n)
        BY <1>0, <1>1, <2>1, OwnDataNow DEF DirOf
      <4>2. Borns(n) = {}
        BY <1>2 DEF Borns
      <4> QED
        BY <4>1, <4>2
    <3>2. Stored(new).name = n /\ (n \notin Uncleaned => Stored(new).content = {})
      BY <1>1, <2>1, <3>1 DEF Stored, Uncleaned
    <3>3. OnShelf' = OnShelf \cup {Stored(new)} /\ Uncleaned' = Uncleaned
      BY <1>1, <1>2, <2>1 DEF OnShelf, Stored, Uncleaned
    <3>4. Shelved!Create(n)
      BY <1>2, <3>2, <3>3, VacantPlace DEF Shelved!Create, OnShelf, Uncleaned, Stored
    <3> QED
      BY <2>1, <3>4 DEF ShelfStep, Shelved!Next
  <2>2. CASE n \notin Serial
    <3>1. OnlyAt(h)
      BY <1>0, <1>1, <1>2 DEF OnlyAt
    <3> QED
      BY <1>0, <1>1, <2>2, <3>1, ElsewhereNothingMoves
  <2> QED
    BY <2>1, <2>2
<1>3. CASE rows' = rows /\ (Leave({DirOf(h)}) \/ cut' = cut)
  BY <1>1, <1>3, OneGivenUp, NothingMoves
<1> QED
  BY <1>0, <1>2, <1>3 DEF CreateInsert

LEMMA DeleteTakesOne ==
  ASSUME RepoStoreAssumption, OwnDirs, TypeOK, IdInv, DirInv, NEW h \in Handlers, DeleteRow(h)
  PROVE  ShelfStep
<1>0. PICK n, row : n = req[h].name /\ row = req[h].row
  OBVIOUS
<1>1. req[h].pc = "delete" /\ data' = data
  BY DEF DeleteRow
<1>2. CASE rows' = rows /\ cut' = cut
  BY <1>1, <1>2, NothingMoves
<1>3. CASE rows' = rows \ Doomed(h) /\ (Leave({DirOf(h)}) \/ cut' = cut)
  <2>1. row.name = n /\ \A r \in Doomed(h) : r = row
    <3>1. row \in Known /\ \A r \in Doomed(h) : r \in Known /\ r.id = row.id
      BY <1>0 DEF Doomed, Known
    <3> QED
      BY <1>0, <1>1, <3>1 DEF IdInv, DirInv, RowKnown
  <2>2. CASE n \in Serial
    <3>1. row \in rows
      BY <1>0, <1>1, <2>2 DEF DirInv, Relies, RowListed
    <3>2. rows' = rows \ {row}
      BY <1>0, <1>3, <2>1, <3>1 DEF Doomed
    <3>3. \A r \in rows : r # row => r.name # n
      BY <2>1, <3>1 DEF DirInv, NamesUnique
    <3>4. \A r \in rows : Stored(r)' = Stored(r) /\ (r # row => Stored(r) # Stored(row))
      BY <1>1, <2>1, <3>3 DEF Stored
    <3>5. OnShelf' = OnShelf \ {Stored(row)}
      BY <3>2, <3>4 DEF OnShelf
    <3>6. Uncleaned' \in {Uncleaned, Uncleaned \cup {n}}
      BY <1>0, <1>1, <1>3, <2>2, PlacesAreOwn DEF Leave, Uncleaned, DirOf
    <3>7. Stored(row) \in OnShelf /\ Stored(row).name = n
      BY <2>1, <2>2, <3>1 DEF OnShelf, Stored
    <3>8. PICK s : s = Stored(row)
      OBVIOUS
    <3>9. Shelved!Delete(s)
      BY <3>5, <3>6, <3>7, <3>8 DEF Shelved!Delete, OnShelf, Uncleaned, Stored
    <3> QED
      BY <3>7, <3>8, <3>9 DEF ShelfStep, Shelved!Next, OnShelf, Stored
  <2>3. CASE n \notin Serial
    <3>1. OnlyAt(h)
      BY <1>0, <1>1, <1>3, <2>1 DEF OnlyAt, Leave
    <3> QED
      BY <1>0, <1>1, <2>3, <3>1, ElsewhereNothingMoves
  <2> QED
    BY <2>2, <2>3
<1> QED
  BY <1>2, <1>3 DEF DeleteRow

LEMMA GitPushes ==
  ASSUME RepoStoreAssumption, OwnDirs, TypeOK, DirInv, NEW h \in Handlers, PushGit(h)
  PROVE  ShelfStep
<1>0. PICK n, row : n = req[h].name /\ row = req[h].row
  OBVIOUS
<1>1. req[h].pc = "git" /\ UNCHANGED <<rows, cut>>
  BY DEF PushGit
<1>2. CASE data' = data
  BY <1>1, <1>2, NothingMoves
<1>3. CASE data' = [data EXCEPT ![DirOf(h)] = @ \cup {row.born}]
  <2>1. OnlyAt(h) /\ data'[DirOf(h)] # {}
    BY <1>0, <1>1, <1>3, PlacesAreOwn DEF OnlyAt
  <2>2. CASE n \in Serial
    <3>1. row \in rows /\ row.name = n
      BY <1>0, <1>1, <2>2 DEF DirInv, Relies, RowListed, RowKnown
    <3>2. \A r \in rows : r # row => r.name # n
      BY <3>1 DEF DirInv, NamesUnique
    <3>3. \A m \in Serial \ {n} : data'[Dir[m]] = data[Dir[m]]
      BY <1>0, <1>1, <2>1, PlacesAreOwn DEF OnlyAt
    <3>4. \A r \in rows : r.name \in Serial /\ r # row => Stored(r)' = Stored(r) /\ Stored(r) # Stored(row)
      BY <3>1, <3>2, <3>3 DEF Stored
    <3>5. Stored(row)'.name = n /\ Stored(row)'.content # {} /\ Stored(row).name = n
      BY <1>0, <1>3, <2>1, <3>1 DEF Stored, DirOf
    <3>6. Stored(row) \in OnShelf /\ OnShelf' = (OnShelf \ {Stored(row)}) \cup {Stored(row)'}
      BY <1>1, <2>2, <3>1, <3>4 DEF OnShelf
    <3>7. Uncleaned' = Uncleaned
      BY <1>1 DEF Uncleaned
    <3>8. PICK s : s = Stored(row)
      OBVIOUS
    <3>9. Stored(row)' \in OnShelf'
      BY <3>6
    <3>10. Shelved!Push(s)
      BY <3>5, <3>6, <3>7, <3>8, <3>9 DEF Shelved!Push, OnShelf, Uncleaned, Stored
    <3> QED
      BY <3>6, <3>8, <3>10 DEF ShelfStep, Shelved!Next, OnShelf, Stored
  <2>3. CASE n \notin Serial
    BY <1>0, <1>1, <2>1, <2>3, ElsewhereNothingMoves
  <2> QED
    BY <2>2, <2>3
<1> QED
  BY <1>0, <1>2, <1>3 DEF PushGit

LEMMA CrashGivesUp ==
  ASSUME RepoStoreAssumption, OwnDirs, TypeOK, DirInv, Crash
  PROVE  ShelfStep
<1>1. /\ rows' = rows /\ data' = data /\ cut \subseteq cut'
      /\ \A d \in cut' \ cut : \E h \in Handlers :
           req[h].pc \in {"insert", "cleanup", "remove"} /\ d = DirOf(h)
  BY DEF Crash, Leave
<1>2. ASSUME NEW n \in Serial, Dir[n] \in cut' \ cut PROVE Named(n) = {}
  <2>1. PICK h \in Handlers : req[h].pc \in {"insert", "cleanup", "remove"} /\ Dir[n] = DirOf(h)
    BY <1>1, <1>2
  <2>2. n = req[h].name
    BY <2>1, PlacesAreOwn
  <2> QED
    BY <2>1, <2>2 DEF DirInv, Relies, NotListed
<1> QED
  BY <1>1, <1>2, CleanUpsGivenUp

LEMMA StepsAreShelfSteps ==
  ASSUME RepoStoreAssumption, OwnDirs, TypeOK, IdInv, DirInv, TidyInv, [Next]_vars
  PROVE  ShelfStep
<1>1. ASSUME NEW h \in Handlers, NEW n \in Names, Arrival(h, n) PROVE ShelfStep
  <2>1. UNCHANGED <<rows, data, cut>>
    BY <1>1 DEF Arrival, CreateBegin, DeleteBegin, HookBegin, UnhookBegin, PushBegin
  <2> QED
    BY <2>1, NothingMoves
<1>2. ASSUME NEW h \in Handlers, CreateInit(h) \/ CreateCleanup(h) \/ DeleteDir(h) PROVE ShelfStep
  <2>1. \/ UNCHANGED <<rows, data, cut>>
        \/ req[h].pc \in {"init", "cleanup", "remove"} /\ rows' = rows /\ RemoveDir(DirOf(h))
    BY <1>2 DEF CreateInit, CreateCleanup, DeleteDir
  <2> QED
    BY <2>1, NothingMoves, RemovalCleans
<1>3. ASSUME NEW h \in Handlers,
             CreateReadback(h) \/ HookInsert(h) \/ UnhookDelete(h) \/ FirePushWebhooks(h) \/ Refuse(h)
      PROVE  ShelfStep
  <2>1. UNCHANGED <<rows, data, cut>>
    BY <1>3 DEF CreateReadback, HookInsert, UnhookDelete, FirePushWebhooks, Refuse, vars
  <2> QED
    BY <2>1, NothingMoves
<1>4. ASSUME NEW h \in Handlers, Disconnect(h) PROVE ShelfStep
  <2>1. /\ rows' = rows /\ data' = data
        /\ cut' = cut \/ (req[h].pc \in {"cleanup", "remove"} /\ Leave({DirOf(h)}))
    BY <1>4 DEF Disconnect
  <2> QED
    BY <2>1, NothingMoves, OneGivenUp
<1>5. CASE UNCHANGED vars
  BY <1>5, NothingMoves DEF vars
<1> QED
  BY <1>1, <1>2, <1>3, <1>4, <1>5, InsertCreates, DeleteTakesOne, GitPushes, CrashGivesUp
     DEF Next, HandlerStep

\* Whatever fails but that SELECT, whoever hangs up and whenever the process dies: what
\* a one-at-a-time repository stores is changed by pushes to it only, and a new one stores
\* nothing, unless a clean-up of its directory was given up while none was listed.  So
\* the requests that Site takes in one step do with several what Site says they do.
THEOREM RepoStoreImplementsShelf ==
  ASSUME OwnDirs, "readback" \notin Faults
  PROVE  Spec => ImplementsShelf
<1>1. Init => Shelved!Init
  BY DEF Init, Shelved!Init
<1>2. Init => TypeOK /\ IdInv /\ DirInv /\ TidyInv
  BY RepoStoreAssumption, TypeInit, IdInit, DirInit, TidyInit
<1>3. TypeOK /\ IdInv /\ DirInv /\ TidyInv /\ [Next]_vars => (TypeOK /\ IdInv /\ DirInv /\ TidyInv)'
  BY RepoStoreAssumption, TypeStep, IdStep, DirStep, TidyStep
<1>4. TypeOK /\ IdInv /\ DirInv /\ TidyInv /\ [Next]_vars => [Shelved!Next]_(Shelved!vars)
  BY RepoStoreAssumption, StepsAreShelfSteps DEF ShelfStep
<1> QED
  BY <1>1, <1>2, <1>3, <1>4, PTL DEF Spec, ImplementsShelf, Shelved!Spec

----------------------------------------------------------------------------
(* When a deletion does remove all its data, as settings.html:32 says: as  *)
(* long as no clean-up is cut short.  (RepoStoreRecreate shows that a      *)
(* client that hangs up in the middle of one is enough to break it.)       *)

\* A listed repository stores what was pushed to it, unless a clean-up was cut short.
OwnDataUnlessCut ==
  \A r \in rows : r.name \in Serial /\ Dir[r.name] \notin cut => data[Dir[r.name]] \subseteq {r.born}

LEMMA ListedDataIsOwn == ASSUME DirInv, TidyInv PROVE OwnDataUnlessCut
<1> SUFFICES ASSUME NEW r \in rows, r.name \in Serial, Dir[r.name] \notin cut
             PROVE  data[Dir[r.name]] \subseteq {r.born}
  BY DEF OwnDataUnlessCut
<1>1. Named(r.name) = {r}
  BY DEF DirInv, NamesUnique, Named
<1>2. \A h \in Handlers : ~Removes(h, r.name)
  BY <1>1 DEF DirInv, Relies, NotListed, Removes
<1>3. data[Dir[r.name]] \subseteq Borns(r.name)
  BY <1>2 DEF TidyInv, Tidy, OnlyOwnData
<1> QED
  BY <1>1, <1>3 DEF Borns

\* Between two deletions and creations of a one-at-a-time name, however failures,
\* hang-ups and crashes strike: what a listed repository stores was pushed to it, or a
\* clean-up of its directory was due and did not happen.
THEOREM ForeignDataComesOfCutCleanups ==
  ASSUME OwnDirs, "readback" \notin Faults
  PROVE  Spec => []OwnDataUnlessCut
<1>1. DirInv /\ TidyInv => OwnDataUnlessCut
  BY ListedDataIsOwn
<1> QED
  BY <1>1, TidyHolds, PTL

\* Without failing removals, hang-ups and crashes nothing is cut.
NothingCut == cut = {} /\ \A h \in Handlers : ~req[h].gone

LEMMA NothingCutStep ==
  ASSUME Faults \cap {"remove", "disconnect", "crash"} = {}, TypeOK, NothingCut, [Next]_vars
  PROVE  NothingCut'
<1>1. req \in [Handlers -> Request \cup {NoRequest}] /\ ~NoRequest.gone
  BY DEF TypeOK, NoRequest
<1>2. ASSUME NEW h \in Handlers, Finish(h) PROVE \A g \in Handlers : ~req'[g].gone
  BY <1>1, <1>2 DEF Finish, NothingCut
<1>3. ASSUME NEW h \in Handlers, NEW label, req' = [req EXCEPT ![h].pc = label]
      PROVE  \A g \in Handlers : ~req'[g].gone
  BY <1>1, <1>3 DEF NothingCut, Request, NoRequest
<1>4. ASSUME NEW h \in Handlers, NEW label, NEW r,
             req' = [req EXCEPT ![h].pc = label, ![h].row = r]
      PROVE  \A g \in Handlers : ~req'[g].gone
  BY <1>1, <1>4 DEF NothingCut, Request, NoRequest
<1>5. ASSUME NEW h \in Handlers, NEW n \in Names, Arrival(h, n) PROVE NothingCut'
  <2>1. cut' = cut /\ \E label, r : Start(h, label, n, r)
    BY <1>5 DEF Arrival, CreateBegin, DeleteBegin, HookBegin, UnhookBegin, PushBegin
  <2>2. \A g \in Handlers : ~req'[g].gone
    BY <1>1, <2>1 DEF Start, NothingCut
  <2> QED
    BY <2>1, <2>2 DEF NothingCut
<1>6. ASSUME NEW h \in Handlers, HandlerStep(h) PROVE NothingCut'
  <2>1. ~req[h].gone
    BY DEF NothingCut
  <2>2. cut' = {}
    BY <1>6, <2>1 DEF NothingCut, HandlerStep, CreateInit, CreateInsert, CreateReadback, CreateCleanup,
                      DeleteRow, DeleteDir, HookInsert, UnhookDelete, PushGit, FirePushWebhooks, RemoveDir
  <2>3. \/ Finish(h)
        \/ \E label : req' = [req EXCEPT ![h].pc = label]
        \/ \E r : req' = [req EXCEPT ![h].pc = "readback", ![h].row = r]
    BY <1>6 DEF HandlerStep, CreateInit, CreateInsert, CreateReadback, CreateCleanup, DeleteRow, DeleteDir,
                HookInsert, UnhookDelete, PushGit, FirePushWebhooks, Continue
  <2>4. \A g \in Handlers : ~req'[g].gone
    BY <1>2, <1>3, <1>4, <2>3
  <2> QED
    BY <2>2, <2>4 DEF NothingCut
<1>7. ASSUME UNCHANGED vars PROVE NothingCut'
  BY <1>7 DEF vars, NothingCut
<1> QED
  BY <1>5, <1>6, <1>7 DEF Next, Refuse, Disconnect, Crash

\* Without them a deletion, once it is over, is as thorough as settings.html:32 says.
THEOREM DeletionsAreThorough ==
  ASSUME OwnDirs, Serial = Names, Faults \cap {"readback", "remove", "disconnect", "crash"} = {}
  PROVE  Spec => []NoForeignData
<1>1. Init => NothingCut
  BY DEF Init, NothingCut, NoRequest
<1>2. TypeOK /\ NothingCut /\ [Next]_vars => NothingCut'
  BY NothingCutStep
<1>3. TypeOK /\ DirInv /\ TidyInv /\ NothingCut => NoForeignData
  BY ListedDataIsOwn DEF OwnDataUnlessCut, NoForeignData, NothingCut, TypeOK, Row
<1>4. Spec => [](TypeOK /\ DirInv /\ TidyInv)
  BY TidyHolds
<1> QED
  BY <1>1, <1>2, <1>3, <1>4, PTL DEF Spec
=============================================================================
