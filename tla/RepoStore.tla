----------------------------- MODULE RepoStore -----------------------------
(***************************************************************************)
(* The repositories of one Gitom server: the SQLite tables `repositories`  *)
(* and `webhooks`, the bare repositories on disk, and the HTTP handlers    *)
(* that change them (routes/user.rs, routes/repo.rs, db/queries.rs).       *)
(*                                                                         *)
(* A handler is an async task.  It runs from one .await to the next in one *)
(* step of this model, so a step is: the statement (or the git child) the  *)
(* handler was waiting for takes effect.  Between two steps any other      *)
(* handler may run, the client may hang up (hyper then drops the handler), *)
(* or the process may die.  Nothing locks a repository name.               *)
(***************************************************************************)
EXTENDS Naturals, FiniteSets

CONSTANTS
  Handlers,   \* requests the server can have in progress at once
  Names,      \* repository names (all pass validate_repo_name)
  Dirs,       \* directories below repo_root
  Dir,        \* Dir[n]: the directory "<user>/<n>.git" resolves to
  Serial,     \* names whose requests never overlap on the server
  Faults,     \* which failures may strike, a subset of FaultKinds
  MaxBirths,  \* bound: no creation starts once so many repositories were made
  MaxHooks    \* bound: no webhook is asked for once so many were made

(***************************************************************************)
(* "init": git::init_bare fails.  "remove": remove_dir_all fails.          *)
(* "insert", "readback", "delete", "hook", "query": that SQL statement     *)
(* fails (pool acquire or busy timeout, 5 s each).  "git": the child has   *)
(* updated refs but the answer is an error (killed at GIT_TIMEOUT).        *)
(* "disconnect": the client hangs up.  "crash": the process dies.          *)
(***************************************************************************)
FaultKinds == {"init", "remove", "insert", "readback", "delete", "hook",
               "query", "git", "disconnect", "crash"}

ASSUME RepoStoreAssumption ==
  /\ Dir \in [Names -> Dirs]
  /\ Serial \subseteq Names
  /\ Faults \subseteq FaultKinds
  /\ MaxBirths \in Nat
  /\ MaxHooks \in Nat

VARIABLES
  rows,     \* table repositories
  seq,      \* its sqlite_sequence entry (AUTOINCREMENT)
  hooks,    \* table webhooks
  hookSeq,  \* its sqlite_sequence entry
  dirs,     \* the bare repositories that exist on disk
  data,     \* data[d]: the repositories (by birth) whose pushes d stores
  req,      \* req[h]: where handler h is
  tasks,    \* webhook deliveries handed to the DeliverQueue so far
  births,   \* history: how many repositories were ever created
  cut       \* history: directories whose clean-up was due and did not happen

tables == <<rows, seq, hooks, hookSeq, births>>
disk   == <<dirs, data, cut>>
vars   == <<rows, seq, hooks, hookSeq, dirs, data, req, tasks, births, cut>>

----------------------------------------------------------------------------
(* Types.  `born` and `inc` are history: they tell two repositories apart  *)
(* that the program might confuse, and no action's guard reads them.       *)

Row  == [id : Nat, name : Names, born : Nat]
Hook == [id : Nat, repo : Nat, push : BOOLEAN, inc : Nat]
Task == [hook : Nat, inc : Nat, pushed : Nat]

NoRow == [id |-> 0, name |-> "none", born |-> 0]

Pcs == {"idle",
        "init", "insert", "readback", "cleanup",  \* new_repo_post
        "delete", "remove",                       \* repo_delete
        "hook",                                   \* repo_webhook_create
        "unhook",                                 \* repo_webhook_delete
        "git", "fire"}                            \* git_receive_pack

NoRequest == [pc |-> "idle", name |-> "none", row |-> NoRow, gone |-> FALSE]

Request ==
  [pc : Pcs \ {"idle"}, name : Names, row : Row \cup {NoRow}, gone : BOOLEAN]

\* The type invariant: the tables, the directories and the requests in progress
\* have the shapes below, and a handler without a request remembers none.
TypeOK ==
  /\ rows \subseteq Row
  /\ seq \in Nat
  /\ hooks \subseteq Hook
  /\ hookSeq \in Nat
  /\ dirs \subseteq Dirs
  /\ data \in [Dirs -> SUBSET Nat]
  /\ req \in [Handlers -> Request \cup {NoRequest}]
  /\ tasks \subseteq Task
  /\ births \in Nat
  /\ cut \subseteq Dirs

Init ==
  /\ rows = {} /\ seq = 0
  /\ hooks = {} /\ hookSeq = 0
  /\ dirs = {} /\ data = [d \in Dirs |-> {}]
  /\ req = [h \in Handlers |-> NoRequest]
  /\ tasks = {}
  /\ births = 0 /\ cut = {}

----------------------------------------------------------------------------
(* Helpers.                                                                *)

\* The rows SELECT ... WHERE name = ? returns.
Named(n) == {r \in rows : r.name = n}

DirOfNameAlone(h) == req[h].name

DirOf(h) == Dir[req[h].name]

\* A request on n is still at work on the server.  The webhook task is spawned
\* after the answer is made, so a client that waits for answers overlaps it.
Busy(n) == \E h \in Handlers : req[h].pc \notin {"idle", "fire"} /\ req[h].name = n

\* Handler h may take a request on n: always, except that a name in Serial is
\* only used by clients that let one request finish before they send the next.
Free(h, n) == req[h].pc = "idle" /\ (n \in Serial => ~Busy(n))

Start(h, pc, n, r) ==
  req' = [req EXCEPT ![h] = [pc |-> pc, name |-> n, row |-> r, gone |-> FALSE]]

Finish(h) == req' = [req EXCEPT ![h] = NoRequest]

\* The statement h waited for has run.  The code after the .await runs only if
\* the handler was not dropped meanwhile.
Continue(h, pc) == IF req[h].gone THEN Finish(h) ELSE req' = [req EXCEPT ![h].pc = pc]

\* A clean-up of d that was due when h stopped is not going to happen.
Leave(ds) == cut' = cut \cup ds

\* std::fs::remove_dir_all(d); both callers ignore its failure.
RemoveDir(d) ==
  \/ /\ dirs' = dirs \ {d}
     /\ data' = [data EXCEPT ![d] = {}]
     /\ cut' = cut \ {d}
  \/ /\ "remove" \in Faults
     /\ Leave({d})
     /\ UNCHANGED <<dirs, data>>

----------------------------------------------------------------------------
(* Every handler looks the name up first.  A wrong name is answered 404,   *)
(* and creating an existing one 400, and nothing changes.                  *)

Refuse(h) ==
  /\ \E n \in Names : Free(h, n)
  /\ UNCHANGED vars

----------------------------------------------------------------------------
(* new_repo_post: get_repo, init_bare, INSERT, SELECT by id.               *)

CreateBeginUnchecked(h, n) ==
  /\ Free(h, n)
  /\ births < MaxBirths
  /\ Start(h, "init", n, NoRow)
  /\ UNCHANGED <<tables, disk, tasks>>

CreateBegin(h, n) ==
  /\ Free(h, n)
  /\ births < MaxBirths
  /\ Named(n) = {}
  /\ Start(h, "init", n, NoRow)
  /\ UNCHANGED <<tables, disk, tasks>>

\* init_bare creates the directory, or re-initialises it if it exists: what it
\* stores stays.  When it fails, what it made of the directory is removed.
CreateInit(h) ==
  /\ req[h].pc = "init"
  /\ \/ /\ dirs' = dirs \cup {DirOf(h)}
        /\ req' = [req EXCEPT ![h].pc = "insert"]
        /\ UNCHANGED <<data, cut>>
     \/ /\ "init" \in Faults
        /\ RemoveDir(DirOf(h))
        /\ Finish(h)
  /\ UNCHANGED <<tables, tasks>>

\* Without AUTOINCREMENT SQLite would reuse the id of a deleted last row.
NewIdRowid == IF rows = {} THEN 1 ELSE 1 + CHOOSE i \in {r.id : r \in rows} :
                                             \A r \in rows : r.id <= i

\* AUTOINCREMENT: one more than any id ever used.
NewId == seq + 1

CreateInsert(h) ==
  LET new == [id |-> NewId, name |-> req[h].name, born |-> births + 1] IN
  /\ req[h].pc = "insert"
  /\ \/ /\ Named(new.name) = {}
        /\ rows' = rows \cup {new}
        /\ seq' = NewId
        /\ births' = births + 1
        /\ IF req[h].gone
             THEN Finish(h)
             ELSE req' = [req EXCEPT ![h].pc = "readback", ![h].row = new]
        /\ UNCHANGED cut
     \/ /\ Named(new.name) # {} \/ "insert" \in Faults
        /\ Continue(h, "cleanup")
        /\ IF req[h].gone THEN Leave({DirOf(h)}) ELSE UNCHANGED cut
        /\ UNCHANGED <<rows, seq, births>>
  /\ UNCHANGED <<hooks, hookSeq, dirs, data, tasks>>

CreateReadback(h) ==
  /\ req[h].pc = "readback"
  /\ \/ /\ \E r \in rows : r.id = req[h].row.id
        /\ Finish(h)
     \/ /\ (\A r \in rows : r.id # req[h].row.id) \/ "readback" \in Faults
        /\ req' = [req EXCEPT ![h].pc = "cleanup"]
  /\ UNCHANGED <<tables, disk, tasks>>

CreateCleanupMissing(h) ==
  /\ req[h].pc = "cleanup"
  /\ Finish(h)
  /\ UNCHANGED <<tables, disk, tasks>>

CreateCleanup(h) ==
  /\ req[h].pc = "cleanup"
  /\ RemoveDir(DirOf(h))
  /\ Finish(h)
  /\ UNCHANGED <<tables, tasks>>

----------------------------------------------------------------------------
(* repo_delete: resolve_repo, DELETE (its webhooks go by ON DELETE         *)
(* CASCADE), then remove the directory.                                    *)

DeleteBegin(h, n) ==
  /\ Free(h, n)
  /\ \E r \in Named(n) : Start(h, "delete", n, r)
  /\ UNCHANGED <<tables, disk, tasks>>

DoomedByName(h) == Named(req[h].name)

\* What DELETE FROM repositories WHERE id = ? removes.
Doomed(h) == {r \in rows : r.id = req[h].row.id}

SurvivingAll(h) == hooks

\* What ON DELETE CASCADE leaves of the webhooks.
Surviving(h) == {k \in hooks : \A r \in Doomed(h) : k.repo # r.id}

DeleteRow(h) ==
  /\ req[h].pc = "delete"
  /\ \/ /\ rows' = rows \ Doomed(h)
        /\ hooks' = Surviving(h)
        /\ Continue(h, "remove")
        /\ IF req[h].gone THEN Leave({DirOf(h)}) ELSE UNCHANGED cut
     \/ /\ "delete" \in Faults
        /\ Finish(h)
        /\ UNCHANGED <<rows, hooks, cut>>
  /\ UNCHANGED <<seq, hookSeq, births, dirs, data, tasks>>

DeleteDirMissing(h) ==
  /\ req[h].pc = "remove"
  /\ Finish(h)
  /\ UNCHANGED <<tables, disk, tasks>>

DeleteDir(h) ==
  /\ req[h].pc = "remove"
  /\ RemoveDir(DirOf(h))
  /\ Finish(h)
  /\ UNCHANGED <<tables, tasks>>

----------------------------------------------------------------------------
(* repo_webhook_create and repo_webhook_delete.                            *)

HookBegin(h, n) ==
  /\ Free(h, n)
  /\ hookSeq < MaxHooks
  /\ \E r \in Named(n) : Start(h, "hook", n, r)
  /\ UNCHANGED <<tables, disk, tasks>>

\* PRAGMA foreign_keys = ON: the repository must still be there.
ForeignKeyHolds(id) == \E r \in rows : r.id = id

\* `push`: whether the form's events name "push" or "*".
NewHook(h, push) ==
  [id |-> hookSeq + 1, repo |-> req[h].row.id, push |-> push, inc |-> req[h].row.born]

HookInsert(h) ==
  /\ req[h].pc = "hook"
  /\ \/ /\ ForeignKeyHolds(req[h].row.id)
        /\ \E push \in BOOLEAN : hooks' = hooks \cup {NewHook(h, push)}
        /\ hookSeq' = hookSeq + 1
     \/ /\ ~ForeignKeyHolds(req[h].row.id) \/ "hook" \in Faults
        /\ UNCHANGED <<hooks, hookSeq>>
  /\ Finish(h)
  /\ UNCHANGED <<rows, seq, births, disk, tasks>>

UnhookBegin(h, n) ==
  /\ Free(h, n)
  /\ \E r \in Named(n) : Start(h, "unhook", n, r)
  /\ UNCHANGED <<tables, disk, tasks>>

\* DELETE FROM webhooks WHERE id = ? AND repo_id = ?, the id from the URL.
UnhookDelete(h) ==
  /\ req[h].pc = "unhook"
  /\ \E id \in 0..hookSeq :
       hooks' = {k \in hooks : ~(k.id = id /\ k.repo = req[h].row.id)}
  /\ Finish(h)
  /\ UNCHANGED <<rows, seq, hookSeq, births, disk, tasks>>

----------------------------------------------------------------------------
(* git_receive_pack: get_repo, run git on the directory the name gives,    *)
(* then a spawned task queues the webhooks of the row that was read.       *)

PushBegin(h, n) ==
  /\ Free(h, n)
  /\ \E r \in Named(n) : Start(h, "git", n, r)
  /\ UNCHANGED <<tables, disk, tasks>>

\* A handler that is dropped does not kill its child (no kill_on_drop).  Git also
\* succeeds when it reports that it refused the updates.
PushGit(h) ==
  /\ req[h].pc = "git"
  /\ \/ /\ DirOf(h) \in dirs
        /\ data' \in {data, [data EXCEPT ![DirOf(h)] = @ \cup {req[h].row.born}]}
        /\ Continue(h, "fire") \/ ("git" \in Faults /\ Finish(h))
     \/ /\ Finish(h)                \* no repository there, or git failed
        /\ UNCHANGED data
  /\ UNCHANGED <<tables, dirs, cut, tasks>>

PushHooksForAnyEvent(id) == {k \in hooks : k.repo = id}

\* What list_push_webhooks returns.
PushHooks(id) == {k \in hooks : k.repo = id /\ k.push}

FirePushWebhooks(h) ==
  /\ req[h].pc = "fire"
  /\ \/ tasks' = tasks \cup {[hook |-> k.id, inc |-> k.inc, pushed |-> req[h].row.born]
                                : k \in PushHooks(req[h].row.id)}
     \/ "query" \in Faults /\ UNCHANGED tasks
  /\ Finish(h)
  /\ UNCHANGED <<tables, disk>>

----------------------------------------------------------------------------
(* The client hangs up and the handler is dropped at its .await.  A        *)
(* statement already sent to SQLite, and a running git child, still take   *)
(* effect; the code after them does not run.                               *)

Disconnect(h) ==
  /\ "disconnect" \in Faults
  /\ \/ /\ req[h].pc \in {"insert", "delete", "hook", "unhook", "git"}
        /\ ~req[h].gone
        /\ req' = [req EXCEPT ![h].gone = TRUE]
        /\ UNCHANGED cut
     \/ /\ req[h].pc \in {"init", "readback"}
        /\ Finish(h)
        /\ UNCHANGED cut
     \/ /\ req[h].pc \in {"cleanup", "remove"}
        /\ Finish(h)
        /\ Leave({DirOf(h)})
  /\ UNCHANGED <<tables, dirs, data, tasks>>

\* The process dies and is restarted: every handler is gone (a git child may
\* outlive it), what SQLite and the file system hold stays, and nothing at
\* startup reconciles the two.
Crash ==
  /\ "crash" \in Faults
  /\ \E orphans \in SUBSET {h \in Handlers : req[h].pc = "git"} :
       req' = [h \in Handlers |->
                 IF h \in orphans THEN [req[h] EXCEPT !.gone = TRUE] ELSE NoRequest]
  /\ Leave({DirOf(h) : h \in {g \in Handlers : req[g].pc \in {"insert", "cleanup", "remove"}}})
  /\ UNCHANGED <<tables, dirs, data, tasks>>

----------------------------------------------------------------------------
HandlerStep(h) ==
  \/ CreateInit(h) \/ CreateInsert(h) \/ CreateReadback(h) \/ CreateCleanup(h)
  \/ DeleteRow(h) \/ DeleteDir(h)
  \/ HookInsert(h) \/ UnhookDelete(h)
  \/ PushGit(h) \/ FirePushWebhooks(h)

Arrival(h, n) ==
  \/ CreateBegin(h, n) \/ DeleteBegin(h, n)
  \/ HookBegin(h, n) \/ UnhookBegin(h, n) \/ PushBegin(h, n)

Next ==
  \/ \E h \in Handlers, n \in Names : Arrival(h, n)
  \/ \E h \in Handlers : HandlerStep(h) \/ Disconnect(h) \/ Refuse(h)
  \/ Crash

Spec == Init /\ [][Next]_vars

----------------------------------------------------------------------------
(* Properties.                                                             *)

\* Every webhook belongs to a repository in the table, although its creation
\* looks the repository up in one statement and inserts in a later one, with
\* deletions between the two (repo_webhook_create, ON DELETE CASCADE).
HooksOwned == \A k \in hooks : \E r \in rows : r.id = k.repo

HasDir(r) == Dir[r.name] \in dirs

\* A repository whose name is used by one request at a time has its directory:
\* what a failed or refused creation removes is never a listed repository's
\* (new_repo_post's two clean-ups, repo_delete's order of row and directory).
RowsHaveDirs == \A r \in rows : r.name \in Serial => HasDir(r)

\* The same for every name, which the two clean-ups of new_repo_post need
\* (comment at user.rs:150): no step takes away the directory of a repository
\* that stays listed.
CleanupRemovesOnlyItsOwn ==
  [][\A r \in rows \cap rows' : HasDir(r) => HasDir(r)']_vars

\* Once no request on a one-at-a-time name is in progress, its directory exists
\* only for a listed repository and stores only that repository's pushes,
\* unless a clean-up of it was due and could not happen.
NothingLeftBehind ==
  \A n \in Serial :
    (~Busy(n) /\ Dir[n] \notin cut) =>
      /\ Dir[n] \in dirs => Named(n) # {}
      /\ data[Dir[n]] \subseteq {r.born : r \in Named(n)}

\* Only the deletion of exactly that repository takes a row away: one that was
\* meant for an older repository of the same name never does.
NoStaleDelete ==
  [][\A r \in rows \ rows' : \E h \in Handlers : req[h].pc = "delete" /\ req[h].row = r]_vars

\* The webhooks a push notifies were set up for the repository that was pushed
\* to, never for a later one of the same name: fire_push_webhooks runs after the
\* answer, when the repository may have been deleted and created again.
NotifiesOwnIncarnation == \A t \in tasks : t.inc = t.pushed

\* The handlers, each of which reads a row in one statement and acts on it in a later
\* one, do to the tables and the webhooks what Registry does in single steps: deletions
\* and clean-ups take whole repositories, nothing is attached to one that is gone, and
\* a push that fires after a deletion notifies nobody.
R == INSTANCE Registry WITH
  listed   <- {[id |-> r.id, name |-> r.name] : r \in rows},
  last     <- seq,
  hooks    <- {[id |-> k.id, repo |-> k.repo, push |-> k.push] : k \in hooks},
  lastHook <- hookSeq,
  notices  <- {[hook |-> t.hook, repo |-> t.pushed] : t \in tasks}

ImplementsRegistry == R!Spec

\* What a one-at-a-time repository stores is changed by pushes to it and by nothing else
\* that any handler does, and a new one stores nothing, unless a clean-up of its directory
\* was given up while no such repository was listed: row and directory, made and removed
\* in separate steps of which any may fail, act as the one place Shelf speaks of.
Shelved == INSTANCE Shelf WITH
  Names <- Serial,
  Empty <- {},
  shelf <- {[name |-> r.name, content |-> data[Dir[r.name]]] : r \in {s \in rows : s.name \in Serial}},
  dirty <- {n \in Serial : Dir[n] \in cut}

ImplementsShelf == Shelved!Spec

\* "Deleting a repository permanently removes all its data" (settings.html:32):
\* a repository never stores what was pushed to an earlier one of that name.
NoForeignData == \A r \in rows : data[Dir[r.name]] \subseteq {r.born}
============================================================================
