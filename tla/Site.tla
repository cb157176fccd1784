-------------------------------- MODULE Site --------------------------------
(***************************************************************************)
(* Gitom as its one user lives with it: she configures, starts and stops   *)
(* the server, signs in, creates and deletes repositories, pushes to them  *)
(* and reads their pages, over changes of the configuration.               *)
(*                                                                         *)
(* Here a request, with the way it may fail or be cut off, is one step;    *)
(* RepoStore has the steps within one and what other requests do between   *)
(* them.  What lasts over a restart is the database and the directories    *)
(* below repo_root, and in the browser the session cookie and the page     *)
(* that is open.                                                           *)
(***************************************************************************)
EXTENDS Startup, Browse

CONSTANTS
  Names,     \* repository names
  MaxListed, \* how many repositories a list for visitors has at most
  PerPages,  \* values of per_page a reader may ask for
  Tips,      \* bound: the commits a push may leave main at
  MaxPage,   \* bound: the last page a reader asks for
  MaxLeft    \* bound: how many directories are left behind at a time

ASSUME SiteAssumption ==
  /\ PerPages \subseteq Nat
  /\ Tips \subseteq Commits
  /\ MaxPage \in Nat \ {0}
  /\ MaxLeft \in Nat

VARIABLES
  settings,  \* the configuration file and the environment
  phase,     \* the process: "down", "up", or "refused" for its settings
  cfg,       \* AppConfig while it is up
  rows,      \* table repositories
  dirs,      \* the repositories that exist on disk
  main,      \* main[d]: the commit branch main of repository d points to
  left,      \* history: directories a clean-up that was due left behind
  cookie,    \* the secret the browser's session token is signed with
  view       \* the page a reader has open

server == <<settings, phase, cfg>>
store  == <<rows, dirs, main, left>>
vars   == <<settings, phase, cfg, rows, dirs, main, left, cookie, view>>

Paths == Users \X Names

NoCommit == 0
NoConfig == [user |-> "none", secret |-> "none", password |-> "absent", token |-> "absent"]
NoView   == [kind |-> "none"]

Row == [name : Names, path : Paths, private : BOOLEAN]

\* `start` is history: the commits the branch had when the first page was read.
HistoryView ==
  [kind : {"commits"}, user : Users, name : Names, path : Paths,
   perPage : 0..MaxPerPage, page : 1..MaxPage, more : BOOLEAN, seen : SUBSET Commits, start : SUBSET Commits]

\* The type invariant: the tables, the directories and the browser have the shapes
\* below, and there is a configuration exactly while the server is up.
TypeOK ==
  /\ settings \in Settings
  /\ phase \in {"down", "up", "refused"}
  /\ cfg \in IF phase = "up" THEN Config ELSE {NoConfig}
  /\ rows \subseteq Row /\ dirs \subseteq Paths /\ left \subseteq Paths
  /\ main \in [Paths -> Commits \cup {NoCommit}]
  /\ cookie \in Secrets \cup {"none"}
  /\ \/ view = NoView \/ view \in HistoryView
     \/ view.kind = "commit" /\ view.commit \in Commits

Init ==
  /\ settings \in Settings /\ phase = "down" /\ cfg = NoConfig
  /\ rows = {} /\ dirs = {} /\ left = {} /\ main = [d \in Paths |-> NoCommit]
  /\ cookie = "none" /\ view = NoView

----------------------------------------------------------------------------
(* The operator and the process.                                           *)

Configure(s) ==
  /\ phase # "up"
  /\ settings' = s
  /\ UNCHANGED <<phase, cfg, store, cookie, view>>

\* main: any failure ends the process with status 1, before anything is served.
Start ==
  /\ phase # "up"
  /\ \/ ~Refused(settings) /\ phase' = "up" /\ cfg' = Effective(settings)
     \/ Refused(settings) /\ phase' = "refused" /\ UNCHANGED cfg
     \/ ~Refused(settings) /\ phase' = "down" /\ UNCHANGED cfg  \* directory, database or port
  /\ UNCHANGED <<settings, store, cookie, view>>

Stop ==
  /\ phase = "up"
  /\ phase' = "down" /\ cfg' = NoConfig
  /\ UNCHANGED <<settings, store, cookie, view>>

----------------------------------------------------------------------------
(* Sessions.                                                               *)

Up == phase = "up"

\* jwt::verify: a token counts under the secret it was signed with.
Authenticated == Up /\ cookie = cfg.secret

CanSignIn == \E pw \in Passwords \cup Tokens : VerifyCredentials(cfg, cfg.user, pw)

CanUseGit == \E pw \in Passwords \cup Tokens : AuthenticateGit(cfg, cfg.user, pw)

SignIn ==
  /\ Up /\ CanSignIn
  /\ cookie' = cfg.secret
  /\ UNCHANGED <<server, store, view>>

\* Signing out, or the expiry of the cookie (its Max-Age is the token's).
SignOut ==
  /\ cookie # "none"
  /\ cookie' = "none"
  /\ UNCHANGED <<server, store, view>>

----------------------------------------------------------------------------
(* Which repository an address means.                                      *)

\* An address as git and the browser send it; `dotGit` is a name that ends in ".git".
Address == [user : Users, name : Names, dotGit : BOOLEAN]

At(user, name) == [user |-> user, name |-> name, dotGit |-> FALSE]

\* get_repo, for the configured user only: WHERE name = ?, and no name ends in ".git".
Lookup(a) == {r \in rows : a.user = cfg.user /\ r.name = a.name /\ ~a.dotGit}

\* repo_disk_path: from the address, whatever git_path the row has.
RepoDiskPath(a) == <<a.user, a.name>>

\* resolve_repo and open_repo!: from the row.
Visible(r) == ~r.private \/ Authenticated

Pages(a) == {r \in Lookup(a) : Up /\ Visible(r) /\ r.path \in dirs}

\* git_info_refs and git_upload_pack, for who sends no credentials.
Fetchable(a) == {r \in Lookup(a) : Up /\ ~r.private /\ RepoDiskPath(a) \in dirs}

ListingsOfAll == {rows}

Public == {r \in rows : ~r.private}

\* The lists the page of the user may show: all to who is signed in, to others the
\* latest of the public ones.  Which are the latest (updated_at) is left open.
Listings ==
  IF Authenticated THEN {rows}
  ELSE IF Cardinality(Public) <= MaxListed THEN {Public}
  ELSE {l \in SUBSET Public : Cardinality(l) = MaxListed}

----------------------------------------------------------------------------
(* Repositories.                                                           *)

\* Bound: a reader of the history of d closes her page when main moves so that commits
\* are taken from it.
MainMoves(d, c) ==
  /\ main' = [main EXCEPT ![d] = c]
  /\ view' = IF view.kind = "commits" /\ view.path = d /\ main[d] \notin Reachable[c]
               THEN NoView ELSE view

\* Bound: and when the repository is deleted.
RowGoes(r) ==
  /\ rows' = rows \ {r}
  /\ view' = IF view.kind = "commits" /\ view.path = r.path THEN NoView ELSE view

\* remove_dir_all, whether d exists or not.
Removed(d) ==
  /\ dirs' = dirs \ {d}
  /\ main' = [main EXCEPT ![d] = NoCommit]
  /\ left' = left \ {d}

\* remove_dir_all of d fails, or the request is cut off before it.
Abandoned(d) ==
  /\ left' = left \cup ({d} \cap dirs') /\ Cardinality(left') <= MaxLeft
  /\ UNCHANGED main

TakenForThisUser(n) == \E r \in rows : r.path = <<cfg.user, n>>

Taken(n) == \E r \in rows : r.name = n

\* new_repo_post; git_path is below the user name of the moment.  init_bare makes the
\* directory, or takes one that is there as it is.
InitAndInsert(n, private) ==
  LET d == <<cfg.user, n>> IN
  /\ rows' = rows \cup {[name |-> n, path |-> d, private |-> private]}
  /\ dirs' = dirs \cup {d}
  /\ left' = left \ {d}
  /\ UNCHANGED main

\* init_bare or the INSERT fails; what then exists is removed, or not.
CreateFails(n) ==
  LET d == <<cfg.user, n>> IN
  /\ \/ Removed(d)
     \/ dirs' = dirs \cup {d} /\ Abandoned(d)
  /\ UNCHANGED rows

\* The row is inserted, but reading it back fails: the directory is removed.
ReadbackFails(n, private) ==
  LET d == <<cfg.user, n>> IN
  /\ rows' = rows \cup {[name |-> n, path |-> d, private |-> private]}
  /\ Removed(d)

Create(n, private) ==
  /\ Authenticated /\ ~Taken(n)
  /\ InitAndInsert(n, private) \/ CreateFails(n) \/ ReadbackFails(n, private)
  /\ UNCHANGED <<server, cookie, view>>

\* The directory repo_delete removes: that of git_path.
DirOf(r) == r.path

Delete(n) ==
  /\ Authenticated
  /\ \E r \in Lookup(At(cfg.user, n)) :
       /\ RowGoes(r)
       /\ Removed(DirOf(r)) \/ (UNCHANGED dirs /\ Abandoned(DirOf(r)))
  /\ UNCHANGED <<server, cookie>>

\* git_receive_pack.  Git takes forced updates too.
Push(a, c) ==
  LET d == RepoDiskPath(a) IN
  /\ Up /\ (Authenticated \/ CanUseGit)
  /\ Lookup(a) # {} /\ d \in dirs
  /\ MainMoves(d, c)
  /\ UNCHANGED <<rows, dirs, left, server, cookie>>

----------------------------------------------------------------------------
(* Pages.                                                                  *)

\* repo_commits_default, page 1: commits.html shows the page and, if it is full, a
\* link to the next with the same per_page.
OpenCommits(n, asked) ==
  \E r \in Pages(At(cfg.user, n)) :
    LET k == PerPage(asked)
        commits == ListCommits(main[r.path], 1, k)
    IN
    /\ main[r.path] # NoCommit
    /\ view' = [kind |-> "commits", user |-> cfg.user, name |-> n, path |-> r.path, perPage |-> k,
                page |-> 1, more |-> HasNext(commits, k), seen |-> Range(commits),
                start |-> Reachable[main[r.path]]]
    /\ UNCHANGED <<server, store, cookie>>

\* The link leads to the user and the name of before, whatever they mean now.
NextPage ==
  /\ view.kind = "commits" /\ view.more /\ view.page < MaxPage
  /\ \E r \in Pages(At(view.user, view.name)) :
       LET commits == ListCommits(main[r.path], view.page + 1, view.perPage) IN
       /\ main[r.path] # NoCommit
       /\ view' = [view EXCEPT !.page = @ + 1, !.more = HasNext(commits, view.perPage),
                               !.seen = @ \cup Range(commits)]
  /\ UNCHANGED <<server, store, cookie>>

\* repo_commit: any commit of the repository.
OpenCommit(n, c) ==
  /\ \E r \in Pages(At(cfg.user, n)) :
       main[r.path] # NoCommit /\ c \in Reachable[main[r.path]]
  /\ view' = [kind |-> "commit", commit |-> c, files |-> DiffToFiles(Patch[c])]
  /\ UNCHANGED <<server, store, cookie>>

----------------------------------------------------------------------------
Operator == (\E s \in Settings : Configure(s)) \/ Start \/ Stop

Request ==
  \/ SignIn \/ SignOut
  \/ \E n \in Names : (\E private \in BOOLEAN : Create(n, private)) \/ Delete(n)
  \/ \E a \in Address, c \in Tips : Push(a, c)

Reader ==
  \/ \E n \in Names : \/ \E asked \in PerPages : OpenCommits(n, asked)
                      \/ \E c \in Commits : OpenCommit(n, c)
  \/ NextPage

Next == Operator \/ Request \/ Reader

Spec == Init /\ [][Next]_vars

----------------------------------------------------------------------------
(* Properties.                                                             *)

\* A credential the program takes and cannot use, or not everywhere.
Flawed(s) == {s.fileHash, s.envPassword, s.fileToken, s.envToken} \cap (TooLong \cup {"unparsable"}) # {}

\* A server that came up (past the checks of main.rs) has a secret of its own and lets
\* its user in, by git and by the login form.  Two things get past the checks: the
\* variable of the access token set to nothing, which is read after them, and a
\* password_hash that is none; and only the login form refuses what is too long.
ServesItsUser ==
  Up => /\ cfg.secret # DefaultSecret
        /\ CanUseGit \/ settings.envToken = "empty" \/ settings.fileHash = "unparsable"
        /\ CanSignIn \/ settings.envToken = "empty" \/ Flawed(settings)

\* A push or a fetch finds its directory from the address, the pages find theirs from
\* the row.  Whenever both exist they are the same repository's, whatever user names the
\* repositories were created under, except where the address meets a directory that a
\* deletion or a failed creation under a former user name left behind.
AddressMeansRow ==
  Up => \A a \in Address : \A r \in Lookup(a) :
    RepoDiskPath(a) \in dirs => RepoDiskPath(a) = r.path \/ RepoDiskPath(a) \in left

\* The list, the pages and git agree on who may see what: every link of a list opens
\* the repository it names if its directory exists, a list that is not cut short misses
\* none whose page opens, and what git hands out without credentials has a page too,
\* except for the directories left behind (list_repos, list_public_repos, resolve_repo,
\* open_repo! and git_upload_pack each filter for themselves).
ListsPagesAndGitAgree ==
  /\ \A l \in Listings : \A r \in l :
       Up /\ r.path \in dirs => Pages(At(cfg.user, r.name)) = {r}
  /\ \A n \in Names, l \in Listings :
       Authenticated \/ Cardinality(Public) <= MaxListed => Pages(At(cfg.user, n)) \subseteq l
  /\ \A a \in Address : RepoDiskPath(a) \in left \/ Fetchable(a) \subseteq Pages(a)

Alone(d) == \A e \in Commits \ {d} : Time[e] # Time[d]

\* A reader who follows the links to the end has seen every commit that was on the
\* branch when she began, however many pushes, restarts and other readers came between
\* the pages, as long as none of them took commits away (list_commits, commits.html).
\* Commits of the same second may change places from one page to the next, and be missed.
PagesMissNothing ==
  view.kind = "commits" /\ ~view.more => \A d \in view.start : Alone(d) => d \in view.seen

\* The repositories are places of their own over all changes of the user name: what one
\* holds is changed by pushes to it only, whatever address they use, and a new one is
\* empty, under whatever user a repository of its name was deleted before, unless a
\* clean-up under that name was due and did not happen (git_path of new_repo_post,
\* repo_delete and the pages; repo_disk_path of git).
Shelved == INSTANCE Shelf WITH
  Empty <- NoCommit,
  shelf <- {[name |-> r.name, content |-> main[r.path]] : r \in rows},
  dirty <- {n \in Names : \E u \in Users : <<u, n>> \in left}

ImplementsShelf == Shelved!Spec

\* A commit's page names the files of the commit, in order, and in each of them all its
\* hunks and no other (diff_to_files).
CommitPageNamesChanges ==
  view.kind = "commit" =>
    LET patch == Patch[view.commit] IN
    /\ [i \in DOMAIN view.files |-> view.files[i].path] = [i \in DOMAIN patch |-> patch[i].path]
    /\ \A i \in DOMAIN patch :
         {h.header : h \in Range(view.files[i].hunks)} = {h.header : h \in Range(patch[i].hunks)}

\* A commit's page shows the lines of its hunks, each hunk once: what commit.html
\* iterates over (file.hunks, hunk.lines) is the change.
CommitPageShowsChanges == view.kind = "commit" => view.files = Patch[view.commit]

\* "export GITOM_JWT_SECRET ... export GITOM_PASSWORD" (README.md:51-54, and the messages
\* at main.rs:78-80 and 101-104): whoever follows them is not refused.
InstructionsSuffice == phase = "refused" => ~FollowsTheInstructions(settings)

\* "git clone http://.../<user>/<name>.git" (home.html:9): the address the page of a
\* repository shows means that repository.
ShownAddress(r) == [user |-> cfg.user, name |-> r.name, dotGit |-> TRUE]

ShownAddressWorks == Up => \A r \in rows : Lookup(ShownAddress(r)) = {r}
============================================================================
