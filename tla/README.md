# Gitom: a verification project

TLA+ specifications of [Gitom](../src/README.md), a single-user Git server in one binary
(Rust: axum on tokio, SQLite through sqlx, libgit2 and the `git` program), with the TLC
configurations that check them and the TLAPS proofs about them. Paths like `repo.rs:516` are
below `src/src/`.

## 1. The system

| Component | State | Operations | Hard behaviour |
|---|---|---|---|
| Repository life cycle (`routes/user.rs`, `routes/repo.rs`, `db/queries.rs`, `001_init.sql`) | tables `repositories` and `webhooks`, the bare repositories below `repo_root` | `new_repo_post`, `repo_delete`, `repo_webhook_create`, `repo_webhook_delete`, `git_receive_pack` + `fire_push_webhooks` | table and directory change in different steps, between which others run, clients hang up, statements fail, the process dies; rows are used after they were read; no lock on a name |
| Login limiter (`rate_limiter.rs`, `login_post`, `authenticate_git`) | counter and start of the window under a mutex; row `login_failures` | `is_blocked`, `record_failure`, `reset`, `load_from_db` | check and verdict lock separately; UPDATEs overlap; wall clock against monotonic clock; restarts |
| Webhook queue (`webhook/deliver.rs`, `webhook/metrics.rs`) | a semaphore with its waiting line, one task per delivery, four atomics | `enqueue`, `deliver_with_retry`, `do_deliver` | bounded workers, retries of requests that may have arrived, counters read at any time, loss at a stop |
| Git command (`run_git_command`, `run_git_pack`) | a child process and three pipes | writing the body, joined reads, wait, timeout and kill | two processes waiting for each other, size limit, timeout against a late success, orphans |
| Git smart HTTP (`git_info_refs`, `git_upload_pack`, `git_receive_pack`) | none of its own | authentication, lookup, a git command | composes the four above |
| Database (`db/mod.rs`) | pool of 8 connections, WAL | `connect`, `run_migrations` | statements that time out; the last transaction lost by a crash of the system |
| Startup and configuration (`main.rs:44-149`, `config.rs`) | `AppConfig` | `load`, secret and credential checks, directory, database, limiter, queue | order of checks and of what overrides what; what was stored under an earlier configuration |
| Health, metrics, shutdown (`main.rs`) | the probe file; reads the counters | `handle_health`, `handle_metrics`, `shutdown_signal` | shared probe file, four separate reads |
| Sessions (`auth/`, `middleware/auth.rs`) | none: signed tokens, kept in the browser | `sign`, `verify`, `login_post`, `logout` | tokens outlive the process and the secret they were signed with |
| Repository browser (`db/git.rs`, the page handlers of `repo.rs`) | none: reads the repositories | tree, blob, commits, diff, branches, tags | what a reader sees over several requests while pushes land; callbacks of libgit2 in sequence; numeric edges of paging |
| Validation (`validate_repo_name`, `validate_webhook_url`, `repo_disk_path`) | none | pure checks | - |
| Pages, templates, assets, errors; packaging | none | rendering | - |

How they interact: every handler is an async task on a shared runtime. The life-cycle handlers
share the database and the file system and nothing else. `git_receive_pack` asks the limiter
(Basic credentials), reads a row, runs a git command on the directory the *name* gives and, after
the answer, spawns a task that reads the webhooks of the row's *id* and hands them to the queue.
The limiter and the queue are shared by all requests; the limiter's row is its only state that
survives the process, the queue has none.

What makes each of them correct:

* *Life cycle*: a listed repository has its directory; what is not listed leaves nothing behind; a
  webhook belongs to a listed repository; a request that was meant for one repository never acts on
  a later one of the same name; deleted data does not come back.
* *Limiter*: guesses per window are bounded; nobody is refused but for wrong guesses of the last window; the
  count survives restarts.
* *Queue*: never more deliveries than workers, no permit lost, every delivery ends, an endpoint
  hears of it a bounded number of times, the counters add up.
* *Git command*: it ends, a success is a complete exchange, nothing runs on after the answer.
* *Startup*: what serves has a secret and credentials; what the documentation says starts, starts.
* *Addresses*: every way to a repository (URL, `git_path`, the address a page shows) leads to the same one,
  also after the configured user has changed.
* *Browser*: who follows the links sees every commit, a commit's page shows its change.

## 2. Modules

| Module | Models | State ↔ code |
|---|---|---|
| `RepoStore` | life cycle | `rows`, `hooks` = the tables, `seq`, `hookSeq` = their `sqlite_sequence` entries; `dirs`, `data` = what is on disk; `req[h]` = a handler: the `.await` it is at, its name and the row it has read; `tasks` = deliveries handed over. `births`, `born`, `inc`, `cut` are history: they tell repositories of one name apart, and no guard reads them but the bound on `births` |
| `LoginLimiter` | login limiter | `mem` = `LimiterState`, `db` = the row, `wall` / `uptime` = the two clocks, `req[h]` = an attempt. `guesses`, `lately`, `doubt`, `setbacks` are history: how many guesses were judged in each second, the seconds of the last ones, whether an UPDATE was lost or overtaken |
| `WebhookQueue` | delivery queue | `permits`, `waiters` = the semaphore; `pc[t]`, `attempt[t]` = the task; the four counters; `received` = the endpoints. One attempt is up to `MaxRedirects + 1` requests: the client keeps reqwest's default policy, and a 307 or 308 sends the body again |
| `GitCommand` | one `run_git_command` | `pc` = the handler's phase, `git` = the child, `inPipe`, `outPipe`, `errPipe` = contents of the pipes, `taken` = what `buf` holds |
| `Startup` | configuration | operators: a `Setting` (file and environment) to a refusal or an `AppConfig`; what the login form (`VerifyCredentials`) and git (`AuthenticateGit`) take, of which only the first limits the length |
| `Browse` | repository browser | operators: `ListCommits`, `DiffToFiles` and what they call, on commits, walks and patches given as constants |
| `Site` | startup, sessions, addresses and pages composed, over `Startup` and `Browse` | `settings` = file and environment, `phase`, `cfg` = the process; `rows`, `dirs` = table and disk; `main[d]` = what branch `main` of directory `d` points to; `left` is history: the directories a deletion or a failed creation left behind; `cookie` = the secret the browser's token is signed with; `view` = the page a reader has open and, as history, what she has seen |
| `Registry` | abstract: the tables without handlers | an identity per repository and per webhook; each operation in one step |
| `Shelf` | abstract: the repositories' contents without tables, directories and handlers | a name has at most one repository, which pushes alone change; the names whose place was left without a clean-up that was due |
| `Delivery` | abstract: the queue without tasks, permits, retries | who has asked, who waits, who is under way, how often an endpoint was told |
| `MCRepoStore`, `MCLoginLimiter`, `MCWebhookQueue`, `MCSite` | | the sets TLC needs |
| `RepoStoreProofs`, `RepoStoreDirProofs`, `RepoStoreTidyProofs`, `RegistryProofs`, `LoginLimiterProofs`, `GitCommandProofs`, `WebhookQueueProofs`, `SiteProofs` | | theorems |

The unit of a step is what the runtime makes atomic. In `RepoStore` and `LoginLimiter` that is the
code between two `.await`s, with the effect of the statement waited for; the lookups at the start
of a handler (`resolve_repo`, `get_repo`) are its first step. In `WebhookQueue` each access to an
atomic or to the semaphore is a step, since `/metrics` reads the atomics from another thread. In
`GitCommand` a unit written to or read from a pipe is one. In `Site` a whole request is one: it is about what
lies between requests (restarts, changed settings, pushes, other pages), and `RepoStore` is about what lies
within one. Definitions whose name ends in what they
do wrong (`DoomedByName`, `KillForgotten`, ...) are mutated forms of the definition that follows
them: with them in its place TLC finds a property violated, which shows that the property depends
on that piece of code. `PROJECT.json` pairs them, and maps every definition to its lines.

What is external and modelled from its use: SQLite (AUTOINCREMENT, UNIQUE, foreign keys, statements
one at a time), `remove_dir_all`, the semaphore of tokio (released permits go to the longest
waiter), hyper dropping a handler whose client is gone, the `git` program, the clocks.

Four refinements tie detailed modules to abstract ones. `RepoStore` implements `Registry`
(`ImplementsRegistry`): `listed` are the ids and names of `rows`, `last` and `lastHook` the sequences, `hooks` the
table, `notices` the handed-over deliveries; a creation takes effect at its INSERT, a deletion at its DELETE, a push at
the SELECT of its webhooks, everything else is a stutter. `WebhookQueue` implements `Delivery`
(`ImplementsDelivery`): `line` are the semaphore's waiters, `active` the tasks with a permit, `told` is
`received`. `Shelf` has two implementations (`ImplementsShelf` in each). In `RepoStore` the `shelf` are the listed repositories of serial names with
what their directory stores, `dirty` the serial names whose directory is in `cut`; a creation takes effect at its INSERT, a deletion
at its DELETE, and the removal of the directory is a stutter or a clean-up. It is here that row and directory, which change in different steps,
must act as one. In `Site` the `shelf` are all rows with what `main` of their path points to, and a name
is dirty while a directory of that name, under whatever user, is in `left`; what is at stake there is that address,
stored path and name agree over changes of the user. A request is one step of `Site`, with each way it may end: a
creation may list and make its directory, may fail and clean up or not, or may list and remove the directory (the
SELECT after the INSERT fails); a deletion may leave the directory (hang-up, crash, failing removal).

`Startup` keeps of `AppConfig` the user, the secret, the password and the token. `config::Environment` with
`separator("_")` is modelled by what the `config` crate does: a variable whose name after the prefix has one word sets that
field, any other sets a nested key, which `AppConfig` does not have. In `Browse` what is reachable from a commit is in every set
that holds it and is closed under parents, and a walk lists every reachable commit once, newer ones first. Of equal times
the order is open, as in libgit2: `Walk` is any order that fits (`WalkAssumption`), another for each commit the walk starts from. Of libgit2 `Browse` takes
that a revwalk sorted by time collects all
ancestors first, and that printing a diff calls back with the hunk for the hunk's header *and* for each
of its lines. `Through` calls a callback for one element after the other, as `diff.print` does.

Faults are constants. `RepoStore` takes a set `Faults` of kinds of failure, so that a run or a
theorem says which it allows; `Serial` is the set of names that are used by one request at a time,
which is what the code needs (section 5). A single user comes close to it and no more: her double click, or a request
that was hung up and sent again, overlaps itself.

## 3. Runs

| Run | Bounds | What it shows |
|---|---|---|
| `RepoStore` | 2 handlers, 2 names (one of them serial) with a directory each, all faults but `readback`, 2 births, 1 webhook; 2.2 M states | `HooksOwned`, `NoStaleDelete`, `NotifiesOwnIncarnation` and `ImplementsRegistry` for names used without any order; `RowsHaveDirs`, `NothingLeftBehind`, `ImplementsShelf` for the serial name |
| `RepoStoreRace` | the same, no faults, no serial name | `CleanupRemovesOnlyItsOwn` is violated |
| `RepoStoreRecreate` | one serial name, only hang-ups | `NoForeignData` is violated |
| `LoginLimiter` | 3 attempts, 2 worker threads, limit 2, window 1 s, 4 s, one set-back, UPDATEs may get lost; 2.3 M states | `FailuresBounded`, `GuessRate`, `LockedOutForCause`, `SurvivesRestart` |
| `LoginLimiterSaves` | 2 attempts, no lost UPDATE | `PersistedWhenQuiet` is violated |
| `LoginLimiterReboot` | 2 attempts, limit 1, Instants not before the boot | `BlockedOnlyWithinWindow` is violated |
| `WebhookQueue` | 3 deliveries, 2 workers, 1 retry, 1 redirection, stops; 243 k states | `AtMostWorkers`, `PermitsConserved`, `MetricsAddUp`, `SomeDeliveryGoesOn`, `ImplementsDelivery`, `StepsRunOut`, `EveryDeliveryEnds` |
| `GitCommand` | pipes of 2 units, limit 3, bodies to 4, outputs to 7; 12 k states | `AnsweredGitIsGone`, `OkIsWhole`, `ReadsKeepUp`, `EveryCommandEnds` |
| `Site` | 2 users, 2 names, 5 settings (4 that serve, with two user names and two secrets; one of them nobody can sign in to, one only git), 5 commits with a merge and two of one second, pages of 2, `per_page` asked 3, 4 pages, 1 directory left behind at a time, lists of 1; 1.4 M states | `ServesItsUser`, `AddressMeansRow`, `ListsPagesAndGitAgree`, `PagesMissNothing`, `CommitPageNamesChanges`, `ImplementsShelf` |
| `SiteInstructions` | the settings the README and the messages tell of | `InstructionsSuffice` is violated |
| `SiteAddress` | one setting that serves | `ShownAddressWorks` is violated |
| `SiteDiff` | the same | `CommitPageShowsChanges` is violated |

Why the bounds are enough. Two handlers make every pair of requests overlap; two births make a
repository be deleted and created again while older requests are still at work, which all
properties on incarnations need; a second name gives deletions and pushes of another repository.
Three attempts on two threads let the limit be passed while a third waits for its UPDATE, and four
seconds hold two whole windows and their seam. Three deliveries on two workers make one wait while
permits are released in both orders; one retry has every path of the loop, one redirection an attempt that is heard twice. The body exceeds a pipe,
and outputs lie below the limit, within one pipe's content above it, and beyond. In `Site`, two user names and two repositories hold a repository of the former user beside
one of the present user, also under names that are free again; one directory left behind is enough for a former user's to wait
under an address that comes back. The commits are a line, of which two were made in one second, and a merge that is
dated before what it merges, so that a push moves commits into pages that were already read, and changes the order
of the two; pages of two make full, half full and empty ones of them, `per_page` lies above the cap; two repositories are one more than a
list for visitors holds; four pages are one more than the longest history needs. Pushes leave `main` at the first commit, the end of the line or the merge (`Tips`).
The patches have two hunks in a file, a file after it, a binary, an unchanged one and none. The theorems of
section 4 cover every other value for most of these properties.

Bounds that are guards: `MaxBirths` (no creation starts), `MaxHooks` (no webhook is asked for),
`MaxClock`, `MaxSetbacks`, `MaxBody`, `MaxOutput`, `MaxPage`, `MaxLeft` (nothing more is left behind), `Tips`. The first one may be passed by creations that
started before, which only makes more happen. `Site` has one bound that is
not a number: a reader closes her pages when a push takes commits away from the branch she reads (a forced push),
or the repository is deleted; what she would see of two different histories is not defined by anything.

Symmetry: handlers in `RepoStore` and `LoginLimiter`, repository names in `Site`, which only check safety
(the refinements are step properties, and symmetric). Deadlock is checked
but in `GitCommand`, where a command comes to its end; in `RepoStore` and `LoginLimiter` a handler
can always take or refuse a request, in `WebhookQueue` the process can stop and start again.

Fairness. `WebhookQueue`: weak fairness of each task's own steps; the runtime polls every task that
was woken, a request ends by the client's timeout and a sleep by its timer. No strong fairness is
needed, because the semaphore serves its waiters in order. `GitCommand`: weak fairness of the handler's
steps and of the timer; none of git, which may stall for ever. Nothing obliges a push to be made, a
client to stay or the process to stop. `RepoStore`, `LoginLimiter` and `Site` state no liveness.

## 4. Proofs

All with TLAPS, for every value of the constants that the modules' named assumptions allow.

`RepoStoreProofs`
* `TypeCorrect`, by one case per action.
* `HooksAreOwned`, `PushNotifiesOwnHooks`, `NoDeleteIsStale`. The first property is inductive of itself, since the foreign key is
  checked at the INSERT and cascades at the DELETE; the other two are not: that a deletion takes the row it was meant for needs that ids are never used again, also
  for rows that only a handler still remembers. The inductive invariant `IdInv` says so: the sequence
  equals the number of births, the id of a row is its birth, rows in the table and rows handlers hold
  agree when their ids do, and a webhook's owner is the repository it was made for. It rests on
  AUTOINCREMENT: with rowids reused, the run finds `NotifiesOwnIncarnation` violated.

`RepoStoreDirProofs`
* `ListedReposHaveDirs`: `RowsHaveDirs` under two assumptions the code needs, that no two names share
  a directory and that the SELECT after the INSERT does not fail. `DirInv` adds, for serial names, that at most one
  handler works on the name and what it has done so far: past `init_bare` the directory is there and the
  name not listed, at a clean-up it is not listed, at a removal it no longer is.
* `CleanupsAreSafeOneAtATime`: under the same assumptions, and with every name serial, `CleanupRemovesOnlyItsOwn`
  holds. So what `RepoStoreRace` finds is due to overlapping requests and to nothing else.

`RepoStoreTidyProofs`
* `NothingStaysBehind`: `NothingLeftBehind` under the assumptions of `ListedReposHaveDirs`. The property looks at names
  nobody is at work on; `TidyInv` says what holds in between: a serial name's directory without a row belongs to the one
  handler that is about to list it or to remove it, and what it stores was pushed to the row of that name,
  unless a clean-up was cut off (`cut`).
* `ForeignDataComesOfCutCleanups`, `DeletionsAreThorough`: a repository of a serial name stores pushes of another
  only after a cut-off clean-up of its directory, and never where no client hangs up, nothing crashes and removals succeed. So what
  `RepoStoreRecreate` finds needs one of these.
* `RepoStoreImplementsShelf`: the refinement, under the assumptions of `ListedReposHaveDirs`. An INSERT lists a repository whose directory was made
  some steps before, so that it is empty is a fact about the handler in between, which `TidyInv` has; that a step on one name leaves the
  contents of every other alone needs that directories are not shared.

`LoginLimiterProofs`
* `FailuresStayBounded`: the count alone is not inductive, since an attempt that passed the check has still
  to be counted. `Bounded` counts them: within the window the count and the number of attempts past the check
  together stay below `MostFailures`; outside it the next failure starts anew. Each set-back of the
  wall clock raises the bound by the number of worker threads, because it may revive a window that attempts
  were let through for as expired. Assumes that two readings of the clock differ (`CoarseClock = FALSE`).
* `RowSurvivesRestart`, with `SaveInv`: unless an UPDATE was overtaken or lost, at most one is under way
  and it writes what memory holds.
* `PersistedOneAtATime`: with one handler and no failing UPDATE, `PersistedWhenQuiet` holds; what `LoginLimiterSaves` finds
  takes overlapping attempts.
* `GuessesAreLimited`: `GuessRate`, with `CoarseClock = FALSE`. The counter forgets the windows before its own, the property does not. `RateInv`
  names a second that splits the guesses (`Splits`): those from it on are in the present count, and within its window; of those
  before it, no stretch of a window's length that reaches the second has more than one count allows.
* `LockoutsHaveCauses`: `LockedOutForCause`, where Instants can lie before the boot of the machine. `CauseInv`: whatever holds a counter, memory, row
  or an UPDATE under way, its failures are among the wrong guesses judged since the start of *its* window. So a restart that brings
  back an older counter brings back no guess that did not happen, nor one from before that counter's window.
* `TypeCorrect`.

`GitCommandProofs`
* `SuccessIsWhole`, `NoGitBehindAnAnswer`, with `Phases`: each phase of the handler remembers what the
  phases before it waited for (the body written, the end of the output seen after git exited).
* `TypeCorrect`, and `FullPipesAreRead`: a pipe git has filled, as long as its output is within `GIT_MAX_RESPONSE`, is one whose read
  has not ended and may take more. `ReadsKeepUp` is stated with the guards of the reads (`OutReadable`, `ErrReadable`), so that it is a
  state predicate. It needs, beside `Phases`, that the read of stderr ends only when git is gone (`ReadsEnd`).

`RegistryProofs`
* `RepoStoreImplementsRegistry`: every step of `RepoStore` is a step of `Registry` or a stutter. Beside the
  invariants of `RepoStoreProofs` it needs `HookIds`: AUTOINCREMENT
  never gives a webhook the id another has, so that a deletion by id takes one webhook.

`WebhookQueueProofs`
* `PermitsAreConserved`, `WorkersSuffice`, `MetricsAreSound`, from the inductive invariant `QueueInv`: permits and
  holders add up to the workers, the gauge is the number of tasks between its two updates, `enqueued` exceeds the
  verdicts by the tasks without one, nobody is in the line twice, and the requests to an endpoint are those of its attempts, at most `MaxRedirects + 1` each.
  The cardinalities are followed through every move of a task by lemmas on sets that a task stays in, enters or leaves.
* `QueueImplementsDelivery`: the refinement, from the same invariant, with `MostHeard` (attempts times requests per attempt) as the abstract bound.
* `DeliveriesCountDown`, `DeliveriesDoNotBlock`: what `EveryDeliveryEnds` rests on, without fairness. `Left` is the number of steps a delivery has at
  most before it, two for each retry and nine for the way; its own steps lower it and no other step raises it (`Move` lists all moves a task makes,
  of itself or when it is handed a permit). And somebody holds a permit whenever somebody waits for one, since permits and holders add up
  to the workers. With the runtime's fairness both together give the end of every delivery; that last step is TLC's.

`SiteProofs`
* `AddressesMeanRows`, `ListsAreTrue`, from `PathsNamed`: a row's path ends in its name, whatever the user
  was when it was made, and a directory is some row's path or was left behind, never both. Without the first half a repository could lie at
  another's address.
* `SiteImplementsShelf`, with `BareUnlisted` besides: a place that is not a directory holds no commit. Every request on a repository, whichever way it finds
  the directory, reaches the one its name stands for, or one left behind, which no row has.
* `ServersAreUsable`, from `Started`: a server that is up has the configuration of settings that passed the checks. The exceptions it
  names are what the checks let pass: `GITOM_ACCESS_TOKEN` set to nothing, a `password_hash` that is none, and a credential of more than 128 bytes,
  which the start and git take and the login form refuses (`user.rs:77`).
* `TypeCorrect`, for any histories, together with `ViewOfRow`: the page that is open is that of a row with its name and
  path, whose branch has a commit. `Carried` says what requests leave of it.
* `PagesAreComplete`. `list_commits` skips by number, so pushes between two pages move commits from one page to another. `PagesInv`: the commits of
  the beginning are still on the branch, and of those that have their second for themselves the ones not seen yet have a place beyond the pages read, and there are none when the last page was
  not full. It rests on two facts about a walk: such a commit stands where the number of commits not older than it says (`Place`, by a
  bijection), whatever the order among equal times, and that number only grows when a push takes no commit away. For commits of one second the property is false: with
  `Alone` left out the run finds one that two walks put on different pages.
* `CommitPagesNameTheirChanges`. `diff_to_files` is a callback, followed through the events of a hunk, the hunks of a file and the files of a patch: a hunk adds its header to the last
  file and touches no other, a file adds one file. The three inductions are over the number of elements; as the provers take no
  schema, the numbers for which the formula holds are made a set, and `Inducts` shows from the well-foundedness of < that it
  has them all. `Recursion` shows that the recursively defined functions exist.

Assumptions of theorems, beside those of the modules: `OwnDirs` (no two names share a directory, true where file names are
case-sensitive), no `readback` fault (the SELECT after the INSERT succeeds; else the handler reports an error for a repository that
exists and cleans its directory up), `CoarseClock = FALSE` (two readings of the clock differ). The complements of findings assume in addition what the
finding is due to: no overlap, no faults of the named kinds.

Model-checked only: the liveness properties `EveryDeliveryEnds` and `EveryCommandEnds`, which are beyond this prover. Every other property of a
passing run is a theorem.

## 5. What the checks found

1. Two overlapping creations of one name (a double click): the loser of the INSERT removes the winner's
   directory (`user.rs:167`, run `RepoStoreRace`).
2. A client that hangs up during a deletion leaves the directory, and the next repository of that name
   starts with the deleted one's contents, although the page promises permanent removal
   (`repo.rs:303`, run `RepoStoreRecreate`). If the user name was changed in between, a push to an address of the former name can
   land in such a directory while the repository the name means lies elsewhere: the case `AddressMeansRow` excepts.
3. "Every write also persists" (`rate_limiter.rs:6`): UPDATEs of overlapping attempts may land in the other
   order, and a restart loads the older count (run `LoginLimiterSaves`).
4. On Windows a window that started before the boot never ends (`rate_limiter.rs:38`, run
   `LoginLimiterReboot`).

5. The variable the README tells to export for the secret is ignored, and an access token alone, which the error message offers, is refused
   (`config.rs:92`, `main.rs:100`, run `SiteInstructions`).
6. The clone address that a repository's page shows is answered with 404 (`home.html:9`, `repo.rs:370`, run
   `SiteAddress`).
7. The page of a commit never shows a changed line (`git.rs:286`, run `SiteDiff`).

## 6. Not modelled

Validation keeps no state: `RepoStore` and `Site` take names that passed it. Of the browser, branches, tags, raw files,
the README, breadcrumbs and `commits_for_tree` with a path, which nothing calls, are left out, and so are the pages of
files. That every file can be reached by links is false for reasons that lie in characters and templates: `git.rs:74` gives an
entry whose name is not UTF-8 an empty one, `tree.html:43` and `home.html:27` put the name into the URL as it is, so that `#` or `?`
cuts it, and the templates use a filter (`filesize`: `tree.html:48`, `home.html:32`, `blob.html:24`) and a method (`path.split`: `tree.html:11`,
`blob.html:10`) that `templates.rs:19` does not provide. Templates
are modelled only where a link or a loop of theirs decides what a reader sees; the pages of `Site` are those the
handlers would answer with if their templates render. The health probe and the reading
of the four counters by `/metrics` are left out: of two overlapping probes, and of an answer put together from four moments, the
code promises nothing that a property could say. The pack size limit and the framing of git's
answers change none. Back-off durations are left out: only that a sleep ends. `EveryDeliveryEnds` takes
at least one worker: with `webhook_workers = 0`, which the configuration accepts, every delivery waits for ever. The crash of
`RepoStore` is that of the process; one of the operating system, which may lose the last transaction
(`db/mod.rs:22`), is not modelled. `PROJECT.json` lists under `hazards` those no property covers, with the reason.

## 7. Plan

The order was: the state users can lose first (`RepoStore`), then what is shared by all requests
(`LoginLimiter`, `WebhookQueue`), then the one place that waits for another process (`GitCommand`), then what lies
between requests and restarts (`Site`), then the abstract specifications and the refinements. What remains is a crash of the
operating system in `RepoStore`: the last transactions of the database are lost, the directories are not.
