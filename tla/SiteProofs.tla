----------------------------- MODULE SiteProofs -----------------------------
(***************************************************************************)
(* What Site keeps for all users, names, settings and histories: which     *)
(* directory belongs to which row, that a started server is usable, and    *)
(* what a reader of a history or of a commit comes to see.                 *)
(***************************************************************************)
EXTENDS Site, TLAPS, SequenceTheorems, FiniteSetTheorems, NaturalsInduction, WellFoundedInduction

USE DEF server, store, Up

\* A row's path ends in its name, whatever the user name was when it was made, and a
\* directory is some row's, or was left behind.
PathsNamed ==
  /\ \A r \in rows : \E u : r.path = <<u, r.name>>
  /\ \A r, s \in rows : r.name = s.name => r = s
  /\ dirs \subseteq {r.path : r \in rows} \cup left
  /\ left \subseteq dirs
  /\ \A r \in rows : r.path \notin left

LEMMA OnePathEach ==
  ASSUME PathsNamed, NEW r \in rows, NEW s \in rows, r.path = s.path
  PROVE  r = s
<1>1. PICK u : r.path = <<u, r.name>>
  BY DEF PathsNamed
<1>2. PICK v : s.path = <<v, s.name>>
  BY DEF PathsNamed
<1>3. <<u, r.name>> = <<v, s.name>>
  BY <1>1, <1>2
<1>4. r.name = s.name
  BY <1>3
<1> QED
  BY <1>4 DEF PathsNamed

\* The ways a creation may go: it is done, cleaned up, or left undone.
NewRow(n, private) == [name |-> n, path |-> <<cfg.user, n>>, private |-> private]

Done(n, private) ==
  /\ rows' = rows \cup {NewRow(n, private)} /\ dirs' = dirs \cup {<<cfg.user, n>>}
  /\ left' = left \ {<<cfg.user, n>>} /\ main' = main

CleanedUp(n, private) ==
  rows' \in {rows, rows \cup {NewRow(n, private)}} /\ Removed(<<cfg.user, n>>)

LeftUndone(n) ==
  /\ rows' = rows /\ dirs' = dirs \cup {<<cfg.user, n>>}
  /\ left' = left \cup {<<cfg.user, n>>} /\ main' = main

LEMMA CreateEffects ==
  ASSUME PathsNamed, NEW n \in Names, NEW private \in BOOLEAN, Create(n, private)
  PROVE  /\ Done(n, private) \/ CleanedUp(n, private) \/ LeftUndone(n)
         /\ \A r \in rows : r.name # n /\ r.path # <<cfg.user, n>>
         /\ Authenticated /\ UNCHANGED <<server, cookie, view>>
<1>1. \A r \in rows : r.name # n
  BY DEF Create, Taken
<1>2. ASSUME NEW r \in rows, r.path = <<cfg.user, n>> PROVE FALSE
  <2>1. PICK u : r.path = <<u, r.name>>
    BY DEF PathsNamed
  <2>2. r.name = n
    BY <1>2, <2>1
  <2> QED
    BY <1>1, <2>2
<1>3. InitAndInsert(n, private) => Done(n, private) \/ CleanedUp(n, private) \/ LeftUndone(n)
  BY DEF InitAndInsert, Done, NewRow
<1>4. CreateFails(n) => Done(n, private) \/ CleanedUp(n, private) \/ LeftUndone(n)
  BY DEF CreateFails, Abandoned, CleanedUp, LeftUndone
<1>5. ReadbackFails(n, private) => Done(n, private) \/ CleanedUp(n, private) \/ LeftUndone(n)
  BY DEF ReadbackFails, CleanedUp, NewRow
<1> QED
  BY <1>1, <1>2, <1>3, <1>4, <1>5 DEF Create

\* And a deletion: with the directory or without.
Forgotten(d) == dirs' = dirs /\ left' = left \cup ({d} \cap dirs) /\ main' = main

LEMMA DeleteEffects ==
  ASSUME NEW n \in Names, Delete(n)
  PROVE  /\ \E r \in rows : RowGoes(r) /\ (Removed(r.path) \/ Forgotten(r.path))
         /\ UNCHANGED <<server, cookie>>
BY DEF Delete, Lookup, DirOf, Abandoned, Forgotten

LEMMA CreateKeepsPaths ==
  ASSUME PathsNamed, NEW n \in Names, NEW private \in BOOLEAN, Create(n, private)
  PROVE  PathsNamed'
<1> DEFINE d == <<cfg.user, n>>
           new == NewRow(n, private)
<1>1. /\ Done(n, private) \/ CleanedUp(n, private) \/ LeftUndone(n)
      /\ \A r \in rows : r.name # n /\ r.path # d
  BY CreateEffects
<1>2. new.name = n /\ new.path = d /\ \E u : new.path = <<u, new.name>>
  BY DEF NewRow
<1>3. rows' \in {rows, rows \cup {new}}
  BY <1>1 DEF Done, CleanedUp, LeftUndone
<1> HIDE DEF d, new
<1>4. \A r \in rows' : \E u : r.path = <<u, r.name>>
  BY <1>2, <1>3 DEF PathsNamed
<1>5. \A r, s \in rows' : r.name = s.name => r = s
  BY <1>1, <1>2, <1>3 DEF PathsNamed
<1>6. /\ dirs' \subseteq {r.path : r \in rows'} \cup left'
      /\ left' \subseteq dirs'
      /\ \A r \in rows' : r.path \notin left'
  <2>1. CASE Done(n, private)
    BY <1>1, <1>2, <2>1 DEF Done, PathsNamed, d, new
  <2>2. CASE CleanedUp(n, private)
    BY <1>1, <1>2, <1>3, <2>2 DEF CleanedUp, Removed, PathsNamed, d, new
  <2>3. CASE LeftUndone(n)
    BY <1>1, <2>3 DEF LeftUndone, PathsNamed, d
  <2> QED
    BY <1>1, <2>1, <2>2, <2>3
<1> QED
  BY <1>4, <1>5, <1>6 DEF PathsNamed

LEMMA DeleteKeepsPaths ==
  ASSUME PathsNamed, NEW n \in Names, Delete(n)
  PROVE  PathsNamed'
<1>1. PICK r \in rows : rows' = rows \ {r} /\ (Removed(r.path) \/ Forgotten(r.path))
  BY DeleteEffects DEF RowGoes
<1>2. \A s \in rows : s.path = r.path => s = r
  BY OnePathEach
<1>3. /\ dirs' \subseteq {s.path : s \in rows'} \cup left'
      /\ left' \subseteq dirs'
      /\ \A s \in rows' : s.path \notin left'
  BY <1>1, <1>2 DEF Removed, Forgotten, PathsNamed
<1> QED
  BY <1>1, <1>3 DEF PathsNamed

LEMMA PathsStep == ASSUME PathsNamed, [Next]_vars PROVE PathsNamed'
<1>1. ASSUME UNCHANGED <<rows, dirs, left>> PROVE PathsNamed'
  BY <1>1 DEF PathsNamed
<1>2. Operator \/ Reader => UNCHANGED <<rows, dirs, left>>
  BY DEF Operator, Configure, Start, Stop, Reader, OpenCommits, NextPage, OpenCommit
<1>3. ASSUME Request PROVE PathsNamed'
  <2>1. SignIn \/ SignOut => UNCHANGED <<rows, dirs, left>>
    BY DEF SignIn, SignOut
  <2>2. ASSUME NEW a \in Address, NEW c \in Tips, Push(a, c) PROVE UNCHANGED <<rows, dirs, left>>
    BY <2>2 DEF Push
  <2> QED
    BY <1>1, <1>3, <2>1, <2>2, CreateKeepsPaths, DeleteKeepsPaths DEF Request
<1>4. CASE UNCHANGED vars
  BY <1>1, <1>4 DEF vars
<1> QED
  BY <1>1, <1>2, <1>3, <1>4 DEF Next

THEOREM PathsAreNamed == Spec => []PathsNamed
<1>1. Init => PathsNamed
  BY DEF Init, PathsNamed
<1>2. PathsNamed /\ [Next]_vars => PathsNamed'
  BY PathsStep
<1> QED
  BY <1>1, <1>2, PTL DEF Spec

LEMMA PathMeansName ==
  ASSUME PathsNamed, NEW u, NEW n, <<u, n>> \in dirs \ left
  PROVE  \A r \in rows : r.name = n => r.path = <<u, n>>
<1>1. PICK s \in rows : s.path = <<u, n>>
  BY DEF PathsNamed
<1>2. PICK v : s.path = <<v, s.name>>
  BY DEF PathsNamed
<1>3. s.name = n
  BY <1>1, <1>2
<1> QED
  BY <1>1, <1>3 DEF PathsNamed

\* The directory a push finds from its address, if there is one, is that of the row the
\* same address selects, over all changes of the user name, or one that a deletion or a
\* failed creation left behind (repo_disk_path, get_repo, repo_delete, new_repo_post).
THEOREM AddressesMeanRows == Spec => []AddressMeansRow
<1>1. PathsNamed => AddressMeansRow
  BY PathMeansName DEF AddressMeansRow, Lookup, RepoDiskPath
<1> QED
  BY <1>1, PathsAreNamed, PTL

\* Every link of a list opens the repository it names if that has a directory, a list
\* that is not cut short misses no page, and what git hands out to anyone, from no
\* directory left behind, has a page for anyone.
THEOREM ListsAreTrue == Spec => []ListsPagesAndGitAgree
<1>1. PathsNamed => ListsPagesAndGitAgree
  <2> SUFFICES ASSUME PathsNamed PROVE ListsPagesAndGitAgree
    OBVIOUS
  <2>1. \A l \in Listings : \A r \in l : r \in rows /\ Visible(r)
    BY DEF Listings, Public, Visible
  <2>2. \A r \in rows : Lookup(At(cfg.user, r.name)) = {r}
    BY DEF PathsNamed, Lookup, At
  <2>3. \A l \in Listings : \A r \in l : Up /\ r.path \in dirs => Pages(At(cfg.user, r.name)) = {r}
    BY <2>1, <2>2 DEF Pages
  <2>4. ASSUME NEW n \in Names, NEW l \in Listings, NEW r \in Pages(At(cfg.user, n)),
               Authenticated \/ Cardinality(Public) <= MaxListed
        PROVE  r \in l
    <3>1. r \in rows /\ (Authenticated \/ r \in Public)
      BY DEF Pages, Lookup, Visible, Public
    <3>2. l = IF Authenticated THEN rows ELSE Public
      BY <2>4 DEF Listings
    <3> QED
      BY <3>1, <3>2 DEF Public
  <2>5. ASSUME NEW a \in Address, RepoDiskPath(a) \notin left, NEW r \in Fetchable(a)
        PROVE  r \in Pages(a)
    <3>1. r \in rows /\ r.name = a.name /\ <<a.user, a.name>> \in dirs \ left
      BY <2>5 DEF Fetchable, Lookup, RepoDiskPath
    <3>2. r.path = <<a.user, a.name>>
      BY <3>1, PathMeansName
    <3> QED
      BY <3>1, <3>2 DEF Fetchable, Pages, Visible
  <2> QED
    BY <2>3, <2>4, <2>5 DEF ListsPagesAndGitAgree
<1> QED
  BY <1>1, PathsAreNamed, PTL

----------------------------------------------------------------------------
(* A server that is up has the configuration of its settings, which passed *)
(* the checks.                                                             *)

Started ==
  /\ settings \in Setting
  /\ Up => ~Refused(settings) /\ cfg = Effective(settings)

LEMMA StartedInit == ASSUME StartupAssumption, Init PROVE Started
  BY DEF Init, Started, StartupAssumption

LEMMA StartedStep == ASSUME StartupAssumption, Started, [Next]_vars PROVE Started'
<1>1. ASSUME UNCHANGED server PROVE Started'
  BY <1>1 DEF Started
<1>2. ASSUME Operator PROVE Started'
  BY <1>2 DEF Operator, Configure, Start, Stop, Started, StartupAssumption
<1>3. Request \/ Reader => UNCHANGED server
  BY DEF Request, SignIn, SignOut, Create, Delete, Push, Reader, OpenCommits, NextPage, OpenCommit
<1>4. CASE UNCHANGED vars
  BY <1>1, <1>4 DEF vars
<1> QED
  BY <1>1, <1>2, <1>3, <1>4 DEF Next

\* Settings that pass the checks leave a password or a token that git takes, and that
\* the login form takes if it is not too long, but for an access token that is set to
\* nothing after the checks and a hash that is none.
LEMMA ChecksSuffice ==
  ASSUME StartupAssumption, NEW s \in Setting, ~Refused(s)
  PROVE  LET c == Effective(s) IN
         /\ c.secret # DefaultSecret
         /\ \/ \E pw \in Passwords \cup Tokens : AuthenticateGit(c, c.user, pw)
            \/ s.envToken = "empty" \/ s.fileHash = "unparsable"
         /\ \/ \E pw \in Passwords \cup Tokens : VerifyCredentials(c, c.user, pw)
            \/ s.envToken = "empty" \/ Flawed(s)
<1> DEFINE c == Effective(s)
           p == Or(s.envPassword, s.fileHash)
<1>1. c.secret = Or(s.fileSecret, DefaultSecret) /\ c.password = p /\ c.token = Or(s.envToken, s.fileToken)
  BY DEF Effective, WithToken, WithPassword, Load
<1>2. c.secret # DefaultSecret
  BY DEF Refused, Effective, WithToken, WithPassword, Load
<1>3. p # "absent" \/ s.fileToken # "absent"
  BY DEF Refused, NoCredentials, WithPassword, Load
<1>4. s.envPassword # "empty"
  BY DEF Refused
<1>5. p \in Passwords \cup {"absent", "unparsable"} /\ p \in {s.envPassword, s.fileHash}
  BY <1>4 DEF Setting, Or
<1>6. \A pw \in Passwords \cup Tokens : pw \in {c.token, c.password} =>
        AuthenticateGit(c, c.user, pw) /\ (pw \notin TooLong => VerifyCredentials(c, c.user, pw))
  BY DEF AuthenticateGit, VerifyCredentials, Matches
<1>7. CASE p \in Passwords
  <2>1. p \in TooLong => Flawed(s)
    BY <1>5 DEF Flawed
  <2> QED
    BY <1>1, <1>2, <1>6, <1>7, <2>1
<1>8. CASE p = "unparsable"
  <2>1. s.fileHash = "unparsable"
    BY <1>5, <1>8 DEF Setting, StartupAssumption
  <2> QED
    BY <1>2, <2>1 DEF Flawed
<1>9. CASE p = "absent"
  <2>1. s.fileToken \in Tokens
    BY <1>3, <1>9 DEF Setting
  <2>2. s.envToken = "empty" \/ (c.token \in Tokens /\ c.token \in {s.fileToken, s.envToken})
    BY <1>1, <2>1 DEF Setting, Or
  <2>3. c.token \in TooLong /\ c.token \in {s.fileToken, s.envToken} => Flawed(s)
    BY DEF Flawed
  <2> QED
    BY <1>2, <1>6, <2>2, <2>3
<1> QED
  BY <1>5, <1>7, <1>8, <1>9

\* main never serves with the default secret, nor without a way to sign in, by git and by
\* the login form, except when GITOM_ACCESS_TOKEN is set to nothing, the configured hash
\* is none, or, for the form, a credential is longer than it takes.
THEOREM ServersAreUsable == Spec => []ServesItsUser
<1>1. Init => Started
  BY StartupAssumption, StartedInit
<1>2. Started /\ [Next]_vars => Started'
  BY StartupAssumption, StartedStep
<1>3. Started => ServesItsUser
  BY StartupAssumption, ChecksSuffice DEF Started, ServesItsUser, CanSignIn, CanUseGit
<1> QED
  BY <1>1, <1>2, <1>3, PTL DEF Spec

----------------------------------------------------------------------------
(* Pages of a history: what list_commits gives of a walk sorted by time.   *)

\* Every commit reaches itself, and what its ancestors reach.
LEMMA Reaching ==
  ASSUME NEW c \in Commits
  PROVE  /\ c \in Reachable[c] /\ Reachable[c] \subseteq Commits
         /\ IsFiniteSet(Reachable[c]) /\ Cardinality(Reachable[c]) \in Nat
         /\ \A d \in Reachable[c] : Reachable[d] \subseteq Reachable[c]
<1>1. Reachable[c] \subseteq Commits
  BY DEF Reachable
<1>2. c \in Reachable[c]
  BY DEF Reachable
<1>3. IsFiniteSet(Reachable[c]) /\ Cardinality(Reachable[c]) \in Nat
  BY <1>1, BrowseAssumption, FS_Subset, FS_CardinalityType DEF BrowseAssumption
<1>4. ASSUME NEW d \in Reachable[c], NEW e \in Reachable[d] PROVE e \in Reachable[c]
  BY <1>1, <1>4 DEF Reachable
<1> QED
  BY <1>1, <1>2, <1>3, <1>4

\* The commits of a history that are not older than one of them, and how many they are.
Ahead(c, d) == {e \in Reachable[c] : Time[e] >= Time[d]}

Place(c, d) == Cardinality(Ahead(c, d))

LEMMA PlaceTyped ==
  ASSUME NEW c \in Commits, NEW d \in Reachable[c]
  PROVE  Place(c, d) \in Nat \ {0} /\ IsFiniteSet(Ahead(c, d))
<1>1. IsFiniteSet(Reachable[c]) /\ Ahead(c, d) \in SUBSET Reachable[c]
  BY Reaching DEF Ahead
<1>2. IsFiniteSet(Ahead(c, d))
  BY <1>1, FS_Subset
<1>3. d \in Commits /\ Time[d] \in Nat
  BY Reaching, BrowseAssumption DEF BrowseAssumption
<1>4. d \in Ahead(c, d)
  BY <1>3 DEF Ahead
<1> QED
  BY <1>2, <1>4, FS_CardinalityType, FS_EmptySet DEF Place

\* The walk lists the commits that are reached, one whose time no other has at its place:
\* whatever the order among equal times, those ahead of it fill the places before.
LEMMA Walks ==
  ASSUME NEW c \in Commits
  PROVE  /\ Walk[c] \in Seq(Commits) /\ Range(Walk[c]) = Reachable[c]
         /\ \A d \in Reachable[c] : Alone(d) =>
              Place(c, d) \in 1..Len(Walk[c]) /\ Walk[c][Place(c, d)] = d
<1> DEFINE w == Walk[c]
<1>1. /\ w \in Seq(Commits) /\ Range(w) = Reachable[c]
      /\ \A i, j \in DOMAIN w : w[i] = w[j] => i = j
      /\ \A i, j \in DOMAIN w : i < j => Time[w[i]] >= Time[w[j]]
  BY WalkAssumption DEF WalkAssumption, WalkOf, IsInjective
<1> HIDE DEF w
<1>2. Len(w) \in Nat /\ DOMAIN w = 1..Len(w)
  BY <1>1
<1>3. \A i \in 1..Len(w) : w[i] \in Reachable[c] /\ w[i] \in Commits /\ Time[w[i]] \in Nat
  <2>1. \A i \in 1..Len(w) : w[i] \in Reachable[c]
    BY <1>1, <1>2 DEF Range
  <2>2. Reachable[c] \subseteq Commits
    BY Reaching
  <2> QED
    BY <2>1, <2>2, BrowseAssumption DEF BrowseAssumption
<1>4. ASSUME NEW d \in Reachable[c], Alone(d)
      PROVE  Place(c, d) \in 1..Len(w) /\ w[Place(c, d)] = d
  <2>1. PICK p \in 1..Len(w) : w[p] = d
    BY <1>1, <1>2 DEF Range
  <2>2. ASSUME NEW i \in 1..Len(w) PROVE Time[w[i]] >= Time[d] <=> i <= p
    <3>1. CASE i <= p
      BY <1>1, <1>2, <1>3, <2>1, <3>1
    <3>2. CASE i > p
      <4>1. Time[d] >= Time[w[i]]
        BY <1>1, <1>2, <2>1, <3>2
      <4>2. w[i] # d
        BY <1>1, <1>2, <2>1, <3>2
      <4>3. Time[w[i]] # Time[d]
        BY <1>3, <1>4, <4>2 DEF Alone
      <4> QED
        BY <1>3, <2>1, <3>2, <4>1, <4>3
    <3> QED
      BY <3>1, <3>2
  <2> DEFINE f == [i \in 1..p |-> w[i]]
  <2>3. 1..p \subseteq 1..Len(w)
    BY <1>2
  <2>4. f \in [1..p -> Ahead(c, d)]
    BY <1>3, <2>2, <2>3 DEF Ahead
  <2>5. \A i, j \in 1..p : f[i] = f[j] => i = j
    BY <1>1, <1>2, <2>3
  <2>6. ASSUME NEW e \in Ahead(c, d) PROVE \E i \in 1..p : f[i] = e
    <3>1. PICK i \in 1..Len(w) : w[i] = e
      BY <1>1, <1>2 DEF Range, Ahead
    <3>2. i <= p
      BY <2>2, <3>1 DEF Ahead
    <3> QED
      BY <3>1, <3>2
  <2>7. f \in Bijection(1..p, Ahead(c, d))
    BY <2>4, <2>5, <2>6 DEF Bijection, Injection, Surjection, IsInjective
  <2>8. p \in Nat /\ 1 \in Int /\ p \in Int /\ p >= 1
    BY <1>2
  <2>9. IsFiniteSet(1..p) /\ Cardinality(1..p) = p
    BY <2>8, FS_Interval
  <2>10. Place(c, d) = p
    BY <2>7, <2>9, FS_Bijection DEF ExistsBijection, Place
  <2> QED
    BY <2>1, <2>10
<1> QED
  BY <1>1, <1>4 DEF w

\* A commit never has fewer ahead of it in the history of a commit that reaches more.
LEMMA PlacesGrow ==
  ASSUME NEW c \in Commits, NEW d \in Commits, c \in Reachable[d], NEW e \in Reachable[c]
  PROVE  e \in Reachable[d] /\ Place(c, e) <= Place(d, e)
<1>1. Reachable[c] \subseteq Reachable[d]
  BY Reaching
<1>2. Ahead(c, e) \in SUBSET Ahead(d, e)
  BY <1>1 DEF Ahead
<1> QED
  BY <1>1, <1>2, PlaceTyped, FS_Subset DEF Place

LEMMA Products ==
  ASSUME NEW page \in Nat \ {0}, NEW perPage \in Nat
  PROVE  /\ page * perPage \in Nat /\ (page - 1) * perPage \in Nat
         /\ (page - 1) * perPage + perPage = page * perPage
<1>1. \A i, j \in Nat : i * j \in Nat
  OBVIOUS
<1>2. page - 1 \in Nat
  OBVIOUS
<1> QED
  BY <1>1, <1>2

\* A page holds those of the commits with a time of their own whose places are its own,
\* and a page that is not full is the last.
LEMMA PagesOfWalk ==
  ASSUME NEW c \in Commits, NEW page \in Nat \ {0}, NEW perPage \in Nat
  PROVE  LET commits == ListCommits(c, page, perPage) IN
         /\ Range(commits) \subseteq Commits
         /\ \A d \in Reachable[c] : Alone(d) =>
              /\ (page - 1) * perPage < Place(c, d) /\ Place(c, d) <= page * perPage => d \in Range(commits)
              /\ HasNext(commits, perPage) \/ Place(c, d) <= page * perPage
<1> DEFINE w == Walk[c]
           n == Len(w)
           s == (page - 1) * perPage
           t == page * perPage
           last == IF t <= n THEN t ELSE n
           commits == ListCommits(c, page, perPage)
<1>1. s \in Nat /\ t \in Nat /\ s + perPage = t
  BY Products
<1>2. n \in Nat /\ w \in Seq(Commits) /\ last \in Nat
  BY Walks, <1>1
<1>3. commits = SubSeq(w, s + 1, last)
  BY <1>1 DEF ListCommits, Skip
<1> HIDE DEF s, t
<1>4. \A i \in (s + 1)..last : w[i] \in Commits
  BY <1>1, <1>2
<1>5. s + 1 \in Int /\ last \in Int
  BY <1>1, <1>2
<1>6. /\ commits \in Seq(Commits)
      /\ Len(commits) = IF s + 1 <= last THEN last - (s + 1) + 1 ELSE 0
      /\ \A i \in 1..(last - (s + 1) + 1) : commits[i] = w[s + 1 + i - 1]
  BY ONLY <1>3, <1>4, <1>5, SubSeqProperties
<1> HIDE DEF commits
<1>7. Range(commits) \subseteq Commits
  BY <1>6 DEF Range
<1>8. ASSUME NEW d \in Reachable[c], Alone(d), s < Place(c, d), Place(c, d) <= t
      PROVE  d \in Range(commits)
  <2>1. PICK p \in 1..n : p = Place(c, d) /\ w[p] = d
    BY <1>8, Walks
  <2>2. p <= last /\ s < p
    BY <1>1, <1>2, <1>8, <2>1
  <2>3. p - s \in 1..(last - (s + 1) + 1) /\ s + 1 + (p - s) - 1 = p /\ p - s \in 1..Len(commits)
    <3>1. p \in Nat /\ s \in Nat /\ last \in Nat
      BY <1>1, <1>2, <2>1
    <3>2. Len(commits) = last - (s + 1) + 1
      BY <1>6, <2>2, <3>1
    <3> QED
      BY <2>2, <3>1, <3>2
  <2>4. commits[p - s] = d
    BY <1>6, <2>1, <2>3
  <2> QED
    BY <1>6, <2>3, <2>4 DEF Range
<1>9. ASSUME ~HasNext(commits, perPage), NEW d \in Reachable[c], Alone(d) PROVE Place(c, d) <= t
  <2>1. Place(c, d) \in 1..n
    BY <1>9, Walks
  <2>2. CASE t <= n
    <3>1. last = t
      BY <2>2
    <3>2. Len(commits) = perPage
      BY <1>1, <1>6, <3>1
    <3> QED
      BY <1>9, <3>2 DEF HasNext
  <2> QED
    BY <1>1, <1>2, <2>1, <2>2
<1> QED
  BY <1>7, <1>8, <1>9 DEF s, t, commits

----------------------------------------------------------------------------
(* The page that is open: whose it is, and what main may do meanwhile.     *)

\* The pages of a history belong to a row, whose main has commits.
ViewOfRow ==
  view.kind = "commits" =>
    /\ \E r \in rows : r.name = view.name /\ r.path = view.path
    /\ main[view.path] \in Commits

\* What a step that no reader takes leaves of the page that is open.
Carried ==
  \/ view' = NoView
  \/ /\ view' = view
     /\ view.kind = "commits" =>
          /\ \E r \in rows' : r.name = view.name /\ r.path = view.path
          /\ main'[view.path] \in Commits /\ main[view.path] \in Reachable[main'[view.path]]

\* The address of the open page still means the page's own directory.
LEMMA PagesOfView ==
  ASSUME PathsNamed, ViewOfRow, view.kind = "commits", NEW r \in Pages(At(view.user, view.name))
  PROVE  r.path = view.path /\ main[r.path] \in Commits
<1>1. r \in rows /\ r.name = view.name
  BY DEF Pages, Lookup, At
<1>2. r.path = view.path
  BY <1>1 DEF PathsNamed, ViewOfRow
<1> QED
  BY <1>2 DEF ViewOfRow

\* The row of the page stays, and so does its main.
LEMMA StillCarries ==
  ASSUME ViewOfRow, view' = view, NEW r, r \in rows',
         view.kind = "commits" => /\ r.name = view.name /\ r.path = view.path
                                  /\ main'[view.path] = main[view.path]
  PROVE  Carried
<1> SUFFICES ASSUME view.kind = "commits"
             PROVE  /\ \E q \in rows' : q.name = view.name /\ q.path = view.path
                    /\ main'[view.path] \in Commits
                    /\ main[view.path] \in Reachable[main'[view.path]]
  BY DEF Carried
<1> QED
  BY Reaching DEF ViewOfRow

LEMMA NothingToCarry ==
  ASSUME view' = view, view.kind # "commits"
  PROVE  Carried
BY DEF Carried

LEMMA SameStoreCarries ==
  ASSUME ViewOfRow, UNCHANGED <<view, main, rows>>
  PROVE  Carried
<1>1. ASSUME view.kind = "commits" PROVE Carried
  <2>1. PICK r \in rows : r.name = view.name /\ r.path = view.path
    BY <1>1 DEF ViewOfRow
  <2> QED
    BY <2>1, StillCarries
<1> QED
  BY <1>1, NothingToCarry

LEMMA CreateCarries ==
  ASSUME TypeOK, PathsNamed, ViewOfRow, NEW n \in Names, NEW private \in BOOLEAN, Create(n, private)
  PROVE  Carried
<1> DEFINE d == <<cfg.user, n>>
<1>1. /\ Done(n, private) \/ CleanedUp(n, private) \/ LeftUndone(n)
      /\ \A r \in rows : r.path # d
      /\ view' = view
  BY CreateEffects
<1>2. ASSUME view.kind = "commits" PROVE Carried
  <2>1. PICK r \in rows : r.name = view.name /\ r.path = view.path
    BY <1>2 DEF ViewOfRow
  <2>2. r \in rows' /\ view.path \in Paths /\ view.path # d
    BY <1>1, <2>1 DEF Done, CleanedUp, LeftUndone, TypeOK, Row
  <2>3. main'[view.path] = main[view.path]
    BY <1>1, <2>2 DEF Done, CleanedUp, LeftUndone, Removed, TypeOK
  <2> QED
    BY <1>1, <2>1, <2>2, <2>3, StillCarries
<1> QED
  BY <1>1, <1>2, NothingToCarry

LEMMA DeleteCarries ==
  ASSUME TypeOK, ViewOfRow, NEW n \in Names, Delete(n)
  PROVE  Carried
<1>1. PICK r \in rows : RowGoes(r) /\ (Removed(r.path) \/ Forgotten(r.path))
  BY DeleteEffects
<1>2. CASE view' = NoView
  BY <1>2 DEF Carried
<1>3. CASE view' = view /\ view.kind # "commits"
  BY <1>3, NothingToCarry
<1>4. CASE view' = view /\ view.kind = "commits" /\ view.path # r.path
  <2>1. PICK s \in rows : s.name = view.name /\ s.path = view.path
    BY <1>4 DEF ViewOfRow
  <2>2. s \in rows' /\ view.path \in Paths
    BY <1>1, <1>4, <2>1 DEF RowGoes, TypeOK, Row
  <2>3. main'[view.path] = main[view.path]
    BY <1>1, <1>4, <2>2 DEF Removed, Forgotten, TypeOK
  <2> QED
    BY <1>4, <2>1, <2>2, <2>3, StillCarries
<1> QED
  BY <1>1, <1>2, <1>3, <1>4 DEF RowGoes

LEMMA PushCarries ==
  ASSUME TypeOK, ViewOfRow, NEW a \in Address, NEW c \in Commits, Push(a, c)
  PROVE  Carried
<1> DEFINE d == RepoDiskPath(a)
<1>1. rows' = rows /\ MainMoves(d, c)
  BY DEF Push
<1>2. d \in Paths /\ main \in [Paths -> Commits \cup {NoCommit}]
  BY DEF RepoDiskPath, Address, Paths, TypeOK
<1> HIDE DEF d
<1>3. main'[d] = c /\ \A p \in Paths : p # d => main'[p] = main[p]
  BY <1>1, <1>2 DEF MainMoves
<1>4. CASE view' = NoView
  BY <1>4 DEF Carried
<1>5. CASE view' = view /\ view.kind # "commits"
  BY <1>5, NothingToCarry
<1>6. CASE view' = view /\ view.kind = "commits"
  <2>1. PICK r \in rows : r.name = view.name /\ r.path = view.path
    BY <1>6 DEF ViewOfRow
  <2>2. view.path \in Paths
    BY <2>1 DEF TypeOK, Row
  <2>3. CASE view.path # d
    BY <1>1, <1>3, <1>6, <2>1, <2>2, <2>3, StillCarries
  <2>4. CASE view.path = d
    <3>1. main[d] \in Reachable[c] \/ view' = NoView
      BY <1>1, <1>6, <2>4 DEF MainMoves
    <3> QED
      BY <1>1, <1>3, <1>6, <2>1, <2>4, <3>1 DEF Carried
  <2> QED
    BY <2>3, <2>4
<1> QED
  BY <1>1, <1>4, <1>5, <1>6 DEF MainMoves

\* What the reader does, the server does not: her pages are carried through its steps.
LEMMA OthersCarry ==
  ASSUME TypeOK, PathsNamed, ViewOfRow, [Next]_vars
  PROVE  Carried \/ Reader
<1>1. ASSUME UNCHANGED <<view, main, rows>> PROVE Carried
  BY <1>1, SameStoreCarries
<1>2. Operator \/ SignIn \/ SignOut => UNCHANGED <<view, main, rows>>
  BY DEF Operator, Configure, Start, Stop, SignIn, SignOut
<1>3. Tips \subseteq Commits
  BY SiteAssumption DEF SiteAssumption
<1>4. Request => Carried
  BY <1>1, <1>2, <1>3, CreateCarries, DeleteCarries, PushCarries DEF Request
<1>5. CASE UNCHANGED vars
  BY <1>1, <1>5 DEF vars
<1> QED
  BY <1>1, <1>2, <1>4, <1>5 DEF Next

----------------------------------------------------------------------------
(* Types.                                                                  *)

ViewTyped ==
  \/ view = NoView \/ view \in HistoryView
  \/ view.kind = "commit" /\ view.commit \in Commits

TablesTyped ==
  /\ settings \in Settings
  /\ phase \in {"down", "up", "refused"}
  /\ cfg \in IF phase = "up" THEN Config ELSE {NoConfig}
  /\ rows \subseteq Row /\ dirs \subseteq Paths /\ left \subseteq Paths
  /\ main \in [Paths -> Commits \cup {NoCommit}]
  /\ cookie \in Secrets \cup {"none"}

LEMMA EffectiveTyped ==
  ASSUME StartupAssumption, NEW s \in Setting, ~Refused(s)
  PROVE  Effective(s) \in Config /\ Effective(s).secret \in Secrets
<1> DEFINE c == [user     |-> Or(s.envUser, Or(s.fileUser, DefaultUser)),
                 secret   |-> Or(s.fileSecret, DefaultSecret),
                 password |-> Or(s.envPassword, s.fileHash),
                 token    |-> Or(s.envToken, s.fileToken)]
<1>1. Effective(s) = c
  <2>1. WithPassword(Load(s), s) =
          [user     |-> Or(s.envUser, Or(s.fileUser, DefaultUser)),
           secret   |-> Or(s.fileSecret, DefaultSecret),
           password |-> Or(s.envPassword, s.fileHash),
           token    |-> s.fileToken]
    BY DEF WithPassword, Load
  <2> QED
    BY <2>1 DEF Effective, WithToken
<1>2. c.user \in Users
  BY DEF Setting, StartupAssumption, Or
<1>3. c.secret \in Secrets
  <2>1. c.secret # DefaultSecret
    BY DEF Refused, Load
  <2> QED
    BY <2>1 DEF Setting, Or
<1>4. c.password \in Passwords \cup {"absent", "unparsable"}
  <2>1. s.envPassword # "empty"
    BY DEF Refused
  <2> QED
    BY <2>1 DEF Setting, Or
<1>5. c.token \in Tokens \cup {"absent", "empty"}
  BY DEF Setting, Or
<1> QED
  BY <1>1, <1>2, <1>3, <1>4, <1>5 DEF Config

LEMMA PerPageTyped ==
  ASSUME NEW asked \in PerPages
  PROVE  PerPage(asked) \in 0..MaxPerPage /\ PerPage(asked) \in Nat
BY SiteAssumption, BrowseAssumption DEF SiteAssumption, BrowseAssumption, PerPage

\* A page shows commits of the row it was opened for.
LEMMA OpenedTyped ==
  ASSUME TypeOK, ViewOfRow, PathsNamed, Reader
  PROVE  ViewTyped' /\ ViewOfRow'
<1>1. ASSUME NEW n \in Names, NEW asked \in PerPages, OpenCommits(n, asked)
      PROVE  ViewTyped' /\ ViewOfRow'
  <2> DEFINE k == PerPage(asked)
             Opened(r) ==
               [kind |-> "commits", user |-> cfg.user, name |-> n, path |-> r.path, perPage |-> k,
                page |-> 1, more |-> HasNext(ListCommits(main[r.path], 1, k), k),
                seen |-> Range(ListCommits(main[r.path], 1, k)), start |-> Reachable[main[r.path]]]
  <2>1. PICK r \in Pages(At(cfg.user, n)) : main[r.path] # NoCommit /\ view' = Opened(r)
    BY <1>1 DEF OpenCommits
  <2>2. /\ r \in rows /\ r.name = n /\ r.path \in Paths /\ cfg.user \in Users
        /\ main[r.path] \in Commits
    BY <2>1 DEF Pages, Lookup, At, TypeOK, Row, Config
  <2>3. k \in 0..MaxPerPage /\ k \in Nat
    BY PerPageTyped
  <2>4. 1 \in 1..MaxPage /\ 1 \in Nat \ {0}
    BY SiteAssumption DEF SiteAssumption
  <2>5. HasNext(ListCommits(main[r.path], 1, k), k) \in BOOLEAN
    BY DEF HasNext
  <2>6. Range(ListCommits(main[r.path], 1, k)) \subseteq Commits
    BY <2>2, <2>3, <2>4, PagesOfWalk
  <2>7. Reachable[main[r.path]] \subseteq Commits
    BY <2>2, Reaching
  <2> HIDE DEF k
  <2>8. view' \in HistoryView
    BY <2>1, <2>2, <2>3, <2>4, <2>5, <2>6, <2>7 DEF HistoryView
  <2>9. rows' = rows /\ main' = main
    BY <1>1 DEF OpenCommits
  <2>10. view'.kind = "commits" /\ view'.name = n /\ view'.path = r.path
    BY <2>1
  <2> QED
    BY <2>2, <2>8, <2>9, <2>10 DEF ViewTyped, ViewOfRow
<1>2. ASSUME NextPage PROVE ViewTyped' /\ ViewOfRow'
  <2>1. view.kind = "commits" /\ view.page < MaxPage /\ rows' = rows /\ main' = main
    BY <1>2 DEF NextPage
  <2>2. view \in HistoryView
    BY <2>1 DEF TypeOK, NoView
  <2> DEFINE Commits2(r) == ListCommits(main[r.path], view.page + 1, view.perPage)
  <2>3. PICK r \in Pages(At(view.user, view.name)) :
          view' = [view EXCEPT !.page = @ + 1, !.more = HasNext(Commits2(r), view.perPage),
                               !.seen = @ \cup Range(Commits2(r))]
    BY <1>2 DEF NextPage
  <2>4. main[r.path] \in Commits
    BY <2>1, PagesOfView
  <2>5. view.page + 1 \in 1..MaxPage /\ view.page + 1 \in Nat \ {0} /\ view.perPage \in Nat
    BY <2>1, <2>2, SiteAssumption, BrowseAssumption DEF SiteAssumption, BrowseAssumption, HistoryView
  <2>6. Range(Commits2(r)) \subseteq Commits
    BY <2>4, <2>5, PagesOfWalk
  <2>7. HasNext(Commits2(r), view.perPage) \in BOOLEAN
    BY DEF HasNext
  <2> HIDE DEF Commits2
  <2>8. view' \in HistoryView
    BY <2>2, <2>3, <2>5, <2>6, <2>7 DEF HistoryView
  <2>9. view'.kind = view.kind /\ view'.name = view.name /\ view'.path = view.path
    BY <2>2, <2>3 DEF HistoryView
  <2> QED
    BY <2>1, <2>8, <2>9 DEF ViewTyped, ViewOfRow
<1>3. ASSUME NEW n \in Names, NEW c \in Commits, OpenCommit(n, c) PROVE ViewTyped' /\ ViewOfRow'
  <2>1. view'.kind = "commit" /\ view'.commit = c
    BY <1>3 DEF OpenCommit
  <2> QED
    BY <2>1 DEF ViewTyped, ViewOfRow
<1> QED
  BY <1>1, <1>2, <1>3 DEF Reader

LEMMA CarriedTyped ==
  ASSUME ViewTyped, ViewOfRow, Carried
  PROVE  ViewTyped' /\ ViewOfRow'
<1>1. CASE view' = NoView
  BY <1>1 DEF ViewTyped, ViewOfRow, NoView
<1>2. CASE view' # NoView
  <2>1. view' = view
    BY <1>2 DEF Carried
  <2>2. ViewTyped'
    BY <2>1 DEF ViewTyped
  <2>3. ViewOfRow'
    BY <1>2, <2>1 DEF Carried, ViewOfRow
  <2> QED
    BY <2>2, <2>3
<1> QED
  BY <1>1, <1>2

LEMMA TablesStep ==
  ASSUME TypeOK, Started, PathsNamed, ViewOfRow, [Next]_vars
  PROVE  TablesTyped'
<1>1. TablesTyped
  BY DEF TypeOK, TablesTyped
<1>2. ASSUME UNCHANGED <<server, store, cookie>> PROVE TablesTyped'
  BY <1>1, <1>2 DEF TablesTyped
<1>3. ASSUME NEW s \in Settings, Configure(s) PROVE TablesTyped'
  BY <1>1, <1>3 DEF TablesTyped, Configure
<1>4. ASSUME Start PROVE TablesTyped'
  <2>1. ~Refused(settings) => Effective(settings) \in Config
    BY StartupAssumption, EffectiveTyped DEF Started
  <2>2. cfg = NoConfig
    BY <1>1, <1>4 DEF TablesTyped, Start
  <2>3. cfg' \in IF phase' = "up" THEN Config ELSE {NoConfig}
    BY <1>4, <2>1, <2>2 DEF Start
  <2>4. phase' \in {"down", "up", "refused"}
    BY <1>4 DEF Start
  <2> QED
    BY <1>1, <1>4, <2>3, <2>4 DEF TablesTyped, Start
<1>5. ASSUME Stop PROVE TablesTyped'
  BY <1>1, <1>5 DEF TablesTyped, Stop
<1>6. ASSUME SignIn PROVE TablesTyped'
  <2>1. cfg.secret \in Secrets
    BY <1>6, StartupAssumption, EffectiveTyped DEF SignIn, Started
  <2> QED
    BY <1>1, <1>6, <2>1 DEF TablesTyped, SignIn
<1>7. ASSUME SignOut PROVE TablesTyped'
  BY <1>1, <1>7 DEF TablesTyped, SignOut
<1>8. ASSUME NEW n \in Names, NEW private \in BOOLEAN, Create(n, private) PROVE TablesTyped'
  <2>1. /\ Done(n, private) \/ CleanedUp(n, private) \/ LeftUndone(n)
        /\ Authenticated /\ UNCHANGED <<server, cookie>>
    BY <1>8, CreateEffects
  <2>2. <<cfg.user, n>> \in Paths
    BY <1>1, <2>1 DEF TablesTyped, Authenticated, Config, Paths
  <2>3. NewRow(n, private) \in Row
    BY <2>2 DEF Row, NewRow
  <2>4. CASE Done(n, private)
    BY <1>1, <2>1, <2>2, <2>3, <2>4 DEF TablesTyped, Done
  <2>5. CASE CleanedUp(n, private)
    BY <1>1, <2>1, <2>3, <2>5 DEF TablesTyped, CleanedUp, Removed
  <2>6. CASE LeftUndone(n)
    BY <1>1, <2>1, <2>2, <2>6 DEF TablesTyped, LeftUndone
  <2> QED
    BY <2>1, <2>4, <2>5, <2>6
<1>9. ASSUME NEW n \in Names, Delete(n) PROVE TablesTyped'
  <2>1. PICK r \in rows : rows' = rows \ {r} /\ (Removed(r.path) \/ Forgotten(r.path))
    BY <1>9, DeleteEffects DEF RowGoes
  <2>2. r.path \in Paths /\ UNCHANGED <<server, cookie>>
    BY <1>1, <1>9, DeleteEffects DEF TablesTyped, Row
  <2> QED
    BY <1>1, <2>1, <2>2 DEF TablesTyped, Removed, Forgotten
<1>10. ASSUME NEW a \in Address, NEW c \in Tips, Push(a, c) PROVE TablesTyped'
  <2>1. RepoDiskPath(a) \in Paths /\ c \in Commits
    BY SiteAssumption DEF SiteAssumption, RepoDiskPath, Address, Paths
  <2> QED
    BY <1>1, <1>10, <2>1 DEF TablesTyped, Push, MainMoves
<1>11. Reader => UNCHANGED <<server, store, cookie>>
  BY DEF Reader, OpenCommits, NextPage, OpenCommit
<1>12. CASE UNCHANGED vars
  BY <1>2, <1>12 DEF vars
<1> QED
  BY <1>2, <1>3, <1>4, <1>5, <1>6, <1>7, <1>8, <1>9, <1>10, <1>11, <1>12 DEF Next, Operator, Request

\* Everything the pages are about, typed: what the next sections rest on.
Shape == TypeOK /\ ViewOfRow /\ PathsNamed /\ Started

LEMMA ShapeStep == ASSUME Shape, [Next]_vars PROVE Shape'
<1>1. TypeOK <=> TablesTyped /\ ViewTyped
  BY DEF TypeOK, TablesTyped, ViewTyped
<1>2. ViewTyped' /\ ViewOfRow'
  BY <1>1, OthersCarry, CarriedTyped, OpenedTyped DEF Shape
<1>3. TablesTyped'
  BY TablesStep DEF Shape
<1>4. TypeOK'
  BY <1>2, <1>3 DEF TypeOK, TablesTyped, ViewTyped
<1>5. PathsNamed' /\ Started'
  BY StartupAssumption, PathsStep, StartedStep DEF Shape
<1> QED
  BY <1>2, <1>4, <1>5 DEF Shape

LEMMA ShapeHolds == Spec => []Shape
<1>1. Init => Shape
  <2> SUFFICES ASSUME Init PROVE Shape
    OBVIOUS
  <2>1. PathsNamed /\ Started
    BY StartupAssumption, StartedInit DEF Init, PathsNamed
  <2>2. TypeOK /\ ViewOfRow
    BY DEF Init, TypeOK, ViewOfRow, NoView
  <2> QED
    BY <2>1, <2>2 DEF Shape
<1>2. Shape /\ [Next]_vars => Shape'
  BY ShapeStep
<1> QED
  BY <1>1, <1>2, PTL DEF Spec

\* The configuration, the tables, the directories and the open page keep their shapes,
\* and there is a configuration exactly while the server is up.
THEOREM TypeCorrect == Spec => []TypeOK
<1>1. Shape => TypeOK
  BY DEF Shape
<1> QED
  BY <1>1, ShapeHolds, PTL

----------------------------------------------------------------------------
(* What the repositories hold, as Shelf has it.  The invariant is what a   *)
(* creation relies on: a place without a directory is bare, under every    *)
(* user name there may be.                                                 *)

BareUnlisted == \A d \in Paths : d \notin dirs => main[d] = NoCommit

Held(r) == [name |-> r.name, content |-> main[r.path]]

\* The names under which one of the directories ds was left.
Dirty(ds) == {n \in Names : \E u \in Users : <<u, n>> \in ds}

LEMMA LeavingDirties ==
  ASSUME NEW ds, NEW u \in Users, NEW n \in Names
  PROVE  /\ Dirty(ds \cup {<<u, n>>}) = Dirty(ds) \cup {n}
         /\ Dirty(ds \ {<<u, n>>}) \in {Dirty(ds), Dirty(ds) \ {n}}
         /\ n \notin Dirty(ds) => <<u, n>> \notin ds
<1>1. ASSUME NEW m \in Names, NEW v \in Users, m # n PROVE <<v, m>> # <<u, n>>
  BY <1>1
<1>2. \A m \in Names : m # n => (m \in Dirty(ds \ {<<u, n>>}) <=> m \in Dirty(ds))
  BY <1>1 DEF Dirty
<1>3. \A m \in Names : m # n => (m \in Dirty(ds \cup {<<u, n>>}) <=> m \in Dirty(ds))
  BY <1>1 DEF Dirty
<1>4. n \in Dirty(ds \cup {<<u, n>>}) /\ (n \in Dirty(ds \ {<<u, n>>}) => n \in Dirty(ds))
  BY DEF Dirty
<1>5. Dirty(ds) \subseteq Names /\ \A d : Dirty(ds \cup {d}) \subseteq Names /\ Dirty(ds \ {d}) \subseteq Names
  BY DEF Dirty
<1>6. n \notin Dirty(ds) => <<u, n>> \notin ds
  BY DEF Dirty
<1>7. Dirty(ds \cup {<<u, n>>}) = Dirty(ds) \cup {n}
  BY <1>3, <1>4, <1>5
<1>8. Dirty(ds \ {<<u, n>>}) \in {Dirty(ds), Dirty(ds) \ {n}}
  <2>1. CASE n \in Dirty(ds \ {<<u, n>>})
    <3>1. \A m \in Names : m \in Dirty(ds \ {<<u, n>>}) <=> m \in Dirty(ds)
      BY <1>2, <1>4, <2>1
    <3>2. Dirty(ds \ {<<u, n>>}) = Dirty(ds)
      BY <1>5, <3>1
    <3> QED
      BY <3>2
  <2>2. CASE n \notin Dirty(ds \ {<<u, n>>})
    BY <1>2, <1>5, <2>2
  <2> QED
    BY <2>1, <2>2
<1> QED
  BY <1>6, <1>7, <1>8

LEMMA OnlyRequestsChangeStore ==
  ASSUME [Next]_vars
  PROVE  \/ UNCHANGED <<rows, dirs, main, left>>
         \/ \E n \in Names : (\E private \in BOOLEAN : Create(n, private)) \/ Delete(n)
         \/ \E a \in Address, c \in Commits : Push(a, c)
<1>1. Operator \/ Reader \/ SignIn \/ SignOut \/ UNCHANGED vars => UNCHANGED <<rows, dirs, main, left>>
  BY DEF Operator, Configure, Start, Stop, Reader, OpenCommits, NextPage, OpenCommit, SignIn, SignOut, vars
<1>2. Tips \subseteq Commits
  BY SiteAssumption DEF SiteAssumption
<1> QED
  BY <1>1, <1>2 DEF Next, Request

\* Where a creation puts its repository.
LEMMA CreatePlace ==
  ASSUME Shape, NEW n \in Names, NEW private \in BOOLEAN, Create(n, private)
  PROVE  cfg.user \in Users /\ <<cfg.user, n>> \in Paths
<1>1. cfg.user \in Users
  BY DEF Create, Authenticated, Shape, TypeOK, Config
<1> QED
  BY <1>1 DEF Paths

\* A push finds a directory by its address, and moves its main.
LEMMA PushMovesPlace ==
  ASSUME Shape, NEW a \in Address, NEW c \in Commits, Push(a, c)
  PROVE  \E d \in Paths : /\ UNCHANGED <<rows, dirs, left>> /\ d \in dirs
                          /\ main' = [main EXCEPT ![d] = c]
<1>1. RepoDiskPath(a) \in Paths
  BY DEF RepoDiskPath, Address, Paths
<1> QED
  BY <1>1 DEF Push, MainMoves

LEMMA BareStep == ASSUME Shape, BareUnlisted, [Next]_vars PROVE BareUnlisted'
<1>1. main \in [Paths -> Commits \cup {NoCommit}] /\ \A r \in rows : r.path \in Paths
  BY DEF Shape, TypeOK, Row
<1>2. ASSUME NEW d \in Paths, Removed(d) PROVE BareUnlisted'
  BY <1>1, <1>2 DEF BareUnlisted, Removed
<1>3. ASSUME NEW n \in Names, NEW private \in BOOLEAN, Create(n, private) PROVE BareUnlisted'
  <2>1. Done(n, private) \/ CleanedUp(n, private) \/ LeftUndone(n)
    BY <1>3, CreateEffects DEF Shape
  <2>2. Done(n, private) \/ LeftUndone(n) => BareUnlisted'
    BY DEF Done, LeftUndone, BareUnlisted
  <2>3. CleanedUp(n, private) => BareUnlisted'
    BY <1>2, <1>3, CreatePlace DEF CleanedUp
  <2> QED
    BY <2>1, <2>2, <2>3
<1>4. ASSUME NEW n \in Names, Delete(n) PROVE BareUnlisted'
  <2>1. PICK r \in rows : Removed(r.path) \/ Forgotten(r.path)
    BY <1>4, DeleteEffects
  <2>2. Forgotten(r.path) => BareUnlisted'
    BY DEF Forgotten, BareUnlisted
  <2> QED
    BY <1>1, <1>2, <2>1, <2>2
<1>5. ASSUME NEW a \in Address, NEW c \in Commits, Push(a, c) PROVE BareUnlisted'
  <2>1. PICK d \in Paths : dirs' = dirs /\ d \in dirs /\ main' = [main EXCEPT ![d] = c]
    BY <1>5, PushMovesPlace
  <2> QED
    BY <1>1, <2>1 DEF BareUnlisted
<1>6. CASE UNCHANGED <<rows, dirs, main, left>>
  BY <1>6 DEF BareUnlisted
<1> QED
  BY <1>3, <1>4, <1>5, <1>6, OnlyRequestsChangeStore

\* A creation makes a repository, which is empty unless its place was dirty, or cleans a
\* place, or leaves one dirty; in each case what the others hold stays.
LEMMA ShelfCreate ==
  ASSUME Shape, BareUnlisted, NEW n \in Names, NEW private \in BOOLEAN, Create(n, private)
  PROVE  LET shelf == {Held(r) : r \in rows}
             dirty == Dirty(left)
         IN
         /\ \A s \in shelf : s.name # n
         /\ \/ /\ \E s \in shelf' : /\ s.name = n /\ (n \notin dirty => s.content = NoCommit)
                                    /\ shelf' = shelf \cup {s}
               /\ Dirty(left') \in {dirty, dirty \ {n}}
            \/ shelf' = shelf /\ Dirty(left') \in {dirty, dirty \ {n}, dirty \cup {n}}
<1> DEFINE shelf == {Held(r) : r \in rows}
<1>a. PICK u \in Users : u = cfg.user
  BY CreatePlace
<1>b. PICK d : d = <<u, n>>
  OBVIOUS
<1>c. PICK new : new = NewRow(n, private)
  OBVIOUS
<1>1. /\ Done(n, private) \/ CleanedUp(n, private) \/ LeftUndone(n)
      /\ \A r \in rows : r.name # n /\ r.path # d
  BY <1>a, <1>b, CreateEffects DEF Shape
<1>2. d \in Paths /\ cfg.user \in Users
  BY <1>a, <1>b, CreatePlace
<1>3. main \in [Paths -> Commits \cup {NoCommit}] /\ \A r \in rows : r.path \in Paths
  BY DEF Shape, TypeOK, Row
<1>4. new.name = n /\ new.path = d
  BY <1>a, <1>b, <1>c DEF NewRow
<1>5. /\ Dirty(left \cup {d}) = Dirty(left) \cup {n}
      /\ Dirty(left \ {d}) \in {Dirty(left), Dirty(left) \ {n}}
      /\ n \notin Dirty(left) => d \notin left
  <2>1. /\ Dirty(left \cup {<<u, n>>}) = Dirty(left) \cup {n}
        /\ Dirty(left \ {<<u, n>>}) \in {Dirty(left), Dirty(left) \ {n}}
        /\ n \notin Dirty(left) => <<u, n>> \notin left
    BY LeavingDirties
  <2> QED
    BY <1>a, <1>b, <2>1
<1>6. \A s \in shelf : s.name # n
  BY <1>1 DEF Held
<1>7. d \notin left => main[d] = NoCommit
  BY <1>1, <1>2 DEF Shape, PathsNamed, BareUnlisted
<1>8. CASE Done(n, private)
  <2>1. rows' = rows \cup {new} /\ main' = main /\ left' = left \ {d}
    BY <1>a, <1>b, <1>c, <1>8 DEF Done
  <2>2. shelf' = shelf \cup {Held(new)}
    BY <2>1 DEF Held
  <2>3. Held(new).name = n /\ (n \notin Dirty(left) => Held(new).content = NoCommit)
    BY <1>4, <1>5, <1>7 DEF Held
  <2> QED
    BY <1>5, <1>6, <2>1, <2>2, <2>3
<1>9. CASE CleanedUp(n, private)
  <2>1. /\ rows' \in {rows, rows \cup {new}} /\ main' = [main EXCEPT ![d] = NoCommit]
        /\ left' = left \ {d}
    BY <1>a, <1>b, <1>c, <1>9 DEF CleanedUp, Removed
  <2>2. \A r \in rows : Held(r)' = Held(r)
    BY <1>1, <1>3, <2>1 DEF Held
  <2>3. CASE rows' = rows
    <3>1. shelf' = shelf
      BY <2>2, <2>3
    <3> QED
      BY <1>5, <1>6, <2>1, <3>1
  <2>4. CASE rows' = rows \cup {new}
    <3>1. shelf' = shelf \cup {Held(new)'}
      BY <2>2, <2>4
    <3>2. Held(new)'.name = n /\ Held(new)'.content = NoCommit
      BY <1>2, <1>3, <1>4, <2>1 DEF Held
    <3> QED
      BY <1>5, <1>6, <2>1, <3>1, <3>2
  <2> QED
    BY <2>1, <2>3, <2>4
<1>10. CASE LeftUndone(n)
  <2>1. rows' = rows /\ main' = main /\ left' = left \cup {d}
    BY <1>a, <1>b, <1>10 DEF LeftUndone
  <2>2. shelf' = shelf
    BY <2>1 DEF Held
  <2> QED
    BY <1>5, <1>6, <2>1, <2>2
<1> QED
  BY <1>1, <1>8, <1>9, <1>10

LEMMA ShelfDelete ==
  ASSUME Shape, NEW n \in Names, Delete(n)
  PROVE  LET shelf == {Held(r) : r \in rows} IN
         \E s \in shelf : /\ shelf' = shelf \ {s}
                          /\ Dirty(left') \in {Dirty(left), Dirty(left) \cup {s.name}}
<1> DEFINE shelf == {Held(r) : r \in rows}
<1>1. PICK r \in rows : rows' = rows \ {r} /\ (Removed(r.path) \/ Forgotten(r.path))
  BY DeleteEffects DEF RowGoes
<1>2. /\ main \in [Paths -> Commits \cup {NoCommit}] /\ \A s \in rows : s.path \in Paths
      /\ \A s \in rows : s.name = r.name \/ s.path = r.path => s = r
      /\ r.path \notin left /\ r.name \in Names
  BY OnePathEach DEF Shape, TypeOK, Row, PathsNamed
<1>3. \A s \in rows : s # r => Held(s)' = Held(s) /\ Held(s) # Held(r)
  BY <1>1, <1>2 DEF Held, Removed, Forgotten
<1>4. shelf' = shelf \ {Held(r)}
  BY <1>1, <1>3
<1>5. Dirty(left') \in {Dirty(left), Dirty(left) \cup {r.name}}
  <2>1. left' = left \/ left' = left \cup {r.path}
    BY <1>1, <1>2 DEF Removed, Forgotten
  <2>2. PICK u \in Users, m \in Names : r.path = <<u, m>>
    BY <1>2 DEF Paths
  <2>3. m = r.name
    <3>1. PICK v : r.path = <<v, r.name>>
      BY DEF Shape, PathsNamed
    <3> QED
      BY <2>2, <3>1
  <2> QED
    BY <2>1, <2>2, <2>3, LeavingDirties
<1>6. Held(r).name = r.name
  BY DEF Held
<1> QED
  BY <1>4, <1>5, <1>6

LEMMA ShelfPush ==
  ASSUME Shape, NEW a \in Address, NEW c \in Commits, Push(a, c)
  PROVE  LET shelf == {Held(r) : r \in rows} IN
         /\ left' = left
         /\ \/ shelf' = shelf
            \/ \E s \in shelf : \E t \in shelf' : /\ t.name = s.name /\ t.content # NoCommit
                                                  /\ shelf' = (shelf \ {s}) \cup {t}
<1> DEFINE shelf == {Held(r) : r \in rows}
<1>1. PICK d \in Paths : rows' = rows /\ left' = left /\ main' = [main EXCEPT ![d] = c]
  BY PushMovesPlace
<1>2. /\ main \in [Paths -> Commits \cup {NoCommit}] /\ \A r \in rows : r.path \in Paths
      /\ \A r, s \in rows : r.name = s.name \/ r.path = s.path => r = s
  BY OnePathEach DEF Shape, TypeOK, Row, PathsNamed
<1>3. ASSUME NEW r \in rows, r.path = d
      PROVE  \E s \in shelf : \E t \in shelf' : /\ t.name = s.name /\ t.content # NoCommit
                                                /\ shelf' = (shelf \ {s}) \cup {t}
  <2>1. \A s \in rows : s # r => Held(s)' = Held(s) /\ Held(s) # Held(r)
    BY <1>1, <1>2, <1>3 DEF Held
  <2>2. Held(r)'.name = r.name /\ Held(r)'.content = c /\ c # NoCommit
    BY <1>1, <1>2, <1>3, BrowseAssumption DEF Held, BrowseAssumption, NoCommit
  <2>3. shelf' = (shelf \ {Held(r)}) \cup {Held(r)'}
    BY <1>1, <2>1
  <2>4. Held(r).name = r.name
    BY DEF Held
  <2> QED
    BY <2>2, <2>3, <2>4
<1>4. ASSUME \A r \in rows : r.path # d PROVE shelf' = shelf
  <2>1. \A r \in rows : Held(r)' = Held(r)
    BY <1>1, <1>2, <1>4 DEF Held
  <2> QED
    BY <1>1, <2>1
<1> QED
  BY <1>1, <1>3, <1>4

LEMMA ShelfStep ==
  ASSUME Shape, BareUnlisted, [Next]_vars
  PROVE  [Shelved!Next]_(Shelved!vars)
<1> DEFINE shelf == {Held(r) : r \in rows}
<1>1. shelf = {[name |-> r.name, content |-> main[r.path]] : r \in rows}
  BY DEF Held
<1>2. Dirty(left) = {n \in Names : \E u \in Users : <<u, n>> \in left}
  BY DEF Dirty
<1>3. Dirty(left') = {n \in Names : \E u \in Users : <<u, n>> \in left'}
  BY DEF Dirty
<1>4. ASSUME NEW n \in Names, NEW private \in BOOLEAN, Create(n, private)
      PROVE  Shelved!Create(n) \/ Shelved!CleanUp(n) \/ Shelved!Neglect \/ UNCHANGED Shelved!vars
  <2>1. /\ \A s \in shelf : s.name # n
        /\ \/ /\ \E s \in shelf' : /\ s.name = n /\ (n \notin Dirty(left) => s.content = NoCommit)
                                   /\ shelf' = shelf \cup {s}
              /\ Dirty(left') \in {Dirty(left), Dirty(left) \ {n}}
           \/ shelf' = shelf /\ Dirty(left') \in {Dirty(left), Dirty(left) \ {n}, Dirty(left) \cup {n}}
    BY <1>4, ShelfCreate
  <2> QED
    BY <1>1, <1>2, <1>3, <2>1
       DEF Shelved!Create, Shelved!CleanUp, Shelved!Neglect, Shelved!Vacant, Shelved!vars, Held
<1>5. ASSUME NEW n \in Names, Delete(n) PROVE \E s \in shelf : Shelved!Delete(s)
  <2>1. PICK s \in shelf : /\ shelf' = shelf \ {s}
                           /\ Dirty(left') \in {Dirty(left), Dirty(left) \cup {s.name}}
    BY <1>5, ShelfDelete
  <2> QED
    BY <1>1, <1>2, <1>3, <2>1 DEF Shelved!Delete, Held
<1>6. ASSUME NEW a \in Address, NEW c \in Commits, Push(a, c)
      PROVE  (\E s \in shelf : Shelved!Push(s)) \/ UNCHANGED Shelved!vars
  <2>1. /\ left' = left
        /\ \/ shelf' = shelf
           \/ \E s \in shelf : \E t \in shelf' : /\ t.name = s.name /\ t.content # NoCommit
                                                 /\ shelf' = (shelf \ {s}) \cup {t}
    BY <1>6, ShelfPush
  <2> QED
    BY <1>1, <1>2, <1>3, <2>1 DEF Shelved!Push, Shelved!vars, Held
<1>7. CASE UNCHANGED <<rows, dirs, main, left>>
  BY <1>7 DEF Shelved!vars
<1> QED
  BY <1>1, <1>4, <1>5, <1>6, <1>7, OnlyRequestsChangeStore DEF Shelved!Next

\* For any users, names and histories, and over all changes of the user name: what a
\* repository holds is changed by pushes to it only, and a new one is empty unless a
\* directory of its name was left behind (git_path is stored by new_repo_post and
\* followed by repo_delete, git goes by the address).
THEOREM SiteImplementsShelf == Spec => ImplementsShelf
<1>1. Init => Shelved!Init /\ BareUnlisted
  BY DEF Init, Shelved!Init, BareUnlisted
<1>2. Shape /\ BareUnlisted /\ [Next]_vars => BareUnlisted' /\ [Shelved!Next]_(Shelved!vars)
  BY BareStep, ShelfStep
<1> QED
  BY <1>1, <1>2, ShapeHolds, PTL DEF Spec, ImplementsShelf, Shelved!Spec


----------------------------------------------------------------------------
(* The pages of a history.  Of the commits the branch had at the first     *)
(* page, those not seen yet come after the pages that were read: new       *)
(* commits only move them further back, as none leaves the branch.  After  *)
(* a push the walk may put commits of equal times in another order, so     *)
(* that this is about those with a time of their own.                      *)

\* A page that links to no next one has left nothing behind.
PagesInv ==
  view.kind = "commits" =>
    /\ view.start \subseteq Reachable[main[view.path]]
    /\ \A d \in view.start \ view.seen : Alone(d) =>
         view.more /\ Place(main[view.path], d) > view.page * view.perPage

LEMMA CarriedPages ==
  ASSUME TypeOK, ViewOfRow, PagesInv, Carried
  PROVE  PagesInv'
<1> SUFFICES ASSUME view'.kind = "commits" PROVE PagesInv'
  BY DEF PagesInv
<1>1. view' = view /\ view' # NoView /\ view.kind = "commits"
  BY DEF Carried, NoView
<1> DEFINE c == main[view.path]
           d == main'[view.path]
<1>2. c \in Commits /\ d \in Commits /\ c \in Reachable[d]
  BY <1>1 DEF Carried, ViewOfRow
<1>3. view \in HistoryView
  BY <1>1 DEF TypeOK, NoView
<1>4. view.page * view.perPage \in Nat
  <2>1. \A i, j \in Nat : i * j \in Nat
    OBVIOUS
  <2>2. view.page \in Nat /\ view.perPage \in Nat
    BY <1>3, BrowseAssumption, SiteAssumption DEF HistoryView, BrowseAssumption, SiteAssumption
  <2> QED
    BY <2>1, <2>2
<1>5. \A e \in view.start : e \in Reachable[c] /\ e \in Reachable[d] /\ Place(c, e) <= Place(d, e)
  BY <1>1, <1>2, PlacesGrow DEF PagesInv
<1>6. \A e \in view.start : Place(c, e) \in Nat /\ Place(d, e) \in Nat
  BY <1>2, <1>5, PlaceTyped
<1>7. \A e \in view.start \ view.seen :
        Alone(e) => view.more /\ Place(d, e) > view.page * view.perPage
  BY <1>1, <1>4, <1>5, <1>6 DEF PagesInv
<1> QED
  BY <1>1, <1>5, <1>7 DEF PagesInv

\* A page of pages read one after the other, with what they left behind.
LEMMA PageRead ==
  ASSUME NEW c \in Commits, NEW page \in Nat \ {0}, NEW perPage \in Nat,
         NEW d \in Reachable[c], Alone(d),
         Place(c, d) > (page - 1) * perPage, d \notin Range(ListCommits(c, page, perPage))
  PROVE  HasNext(ListCommits(c, page, perPage), perPage) /\ Place(c, d) > page * perPage
<1>1. Place(c, d) \in Nat
  BY PlaceTyped
<1>2. page * perPage \in Nat /\ (page - 1) * perPage \in Nat
  BY Products
<1>3. ~(Place(c, d) <= page * perPage)
  BY PagesOfWalk
<1>4. Place(c, d) > page * perPage
  BY <1>1, <1>2, <1>3
<1> QED
  BY <1>3, <1>4, PagesOfWalk

LEMMA FirstPage ==
  ASSUME Shape, NEW n \in Names, NEW asked \in PerPages, OpenCommits(n, asked)
  PROVE  PagesInv'
<1> DEFINE k == PerPage(asked)
           First(c) == ListCommits(c, 1, k)
<1>1. PICK r \in Pages(At(cfg.user, n)) :
        /\ main[r.path] # NoCommit
        /\ view' = [kind |-> "commits", user |-> cfg.user, name |-> n, path |-> r.path, perPage |-> k,
                    page |-> 1, more |-> HasNext(First(main[r.path]), k),
                    seen |-> Range(First(main[r.path])), start |-> Reachable[main[r.path]]]
  BY DEF OpenCommits
<1> DEFINE c == main[r.path]
<1>2. c \in Commits
  BY <1>1 DEF Pages, Lookup, Shape, TypeOK, Row
<1>3. k \in Nat /\ 1 \in Nat \ {0}
  BY PerPageTyped
<1>4. main' = main
  BY DEF OpenCommits
<1> HIDE DEF k, c
<1>5. /\ view'.path = r.path /\ view'.start = Reachable[c] /\ view'.seen = Range(First(c))
      /\ view'.more = HasNext(First(c), k) /\ view'.page = 1 /\ view'.perPage = k
  BY <1>1 DEF c
<1>6. \A d \in Reachable[c] : Place(c, d) > (1 - 1) * k
  <2>1. \A d \in Reachable[c] : Place(c, d) \in Nat \ {0}
    BY <1>2, PlaceTyped
  <2>2. (1 - 1) * k = 0
    BY <1>3
  <2> QED
    BY <2>1, <2>2
<1>7. \A d \in Reachable[c] \ Range(First(c)) :
        Alone(d) => HasNext(First(c), k) /\ Place(c, d) > 1 * k
  BY <1>2, <1>3, <1>6, PageRead
<1>8. main'[r.path] = c
  BY <1>4 DEF c
<1> HIDE DEF First
<1> QED
  BY <1>5, <1>7, <1>8 DEF PagesInv

LEMMA LaterPage ==
  ASSUME Shape, PagesInv, NextPage
  PROVE  PagesInv'
<1> DEFINE page == view.page + 1
           k == view.perPage
           Later(c) == ListCommits(c, page, k)
           c == main[view.path]
<1>1. view.kind = "commits" /\ view.page < MaxPage /\ main' = main
  BY DEF NextPage
<1>2. view \in HistoryView
  BY <1>1 DEF Shape, TypeOK, NoView
<1>3. PICK r \in Pages(At(view.user, view.name)) :
        view' = [view EXCEPT !.page = @ + 1, !.more = HasNext(Later(main[r.path]), k),
                             !.seen = @ \cup Range(Later(main[r.path]))]
  BY DEF NextPage
<1>4. r.path = view.path /\ c \in Commits
  BY <1>1, PagesOfView DEF Shape
<1>5. page \in Nat \ {0} /\ k \in Nat /\ page - 1 = view.page
  BY <1>2, BrowseAssumption DEF BrowseAssumption, HistoryView
<1> HIDE DEF c, page, k
<1>6. /\ view'.path = view.path /\ view'.start = view.start
      /\ view'.seen = view.seen \cup Range(Later(c))
      /\ view'.more = HasNext(Later(c), k) /\ view'.page = page /\ view'.perPage = k
  BY <1>2, <1>3, <1>4 DEF HistoryView, c, page, k
<1>7. view.start \subseteq Reachable[c]
  BY <1>1 DEF PagesInv, c
<1>8. \A d \in view.start \ view.seen : Alone(d) => Place(c, d) > (page - 1) * k
  BY <1>1, <1>5 DEF PagesInv, c, k
<1>9. \A d \in view.start \ view'.seen :
        Alone(d) => HasNext(Later(c), k) /\ Place(c, d) > page * k
  BY <1>4, <1>5, <1>6, <1>7, <1>8, PageRead
<1>10. main'[view.path] = c
  BY <1>1 DEF c
<1> HIDE DEF Later
<1> QED
  BY <1>6, <1>7, <1>9, <1>10 DEF PagesInv

LEMMA PagesStep == ASSUME Shape, PagesInv, [Next]_vars PROVE PagesInv'
<1>1. Carried \/ Reader
  BY OthersCarry DEF Shape
<1>2. CASE Carried
  BY <1>2, CarriedPages DEF Shape
<1>3. CASE Reader
  <2>1. ASSUME NEW n \in Names, NEW c \in Commits, OpenCommit(n, c) PROVE PagesInv'
    BY <2>1 DEF OpenCommit, PagesInv
  <2> QED
    BY <1>3, <2>1, FirstPage, LaterPage DEF Reader
<1> QED
  BY <1>1, <1>2, <1>3

\* Whoever follows the links from page to page to the end has seen every commit that was
\* on the branch when she began and shares its second with no other, whatever was pushed
\* between the pages without taking commits from it, and in whatever order each walk
\* put the commits of a second (list_commits skips by number, commits.html asks for a
\* full page).
THEOREM PagesAreComplete == Spec => []PagesMissNothing
<1>1. Init => PagesInv
  BY DEF Init, PagesInv, NoView
<1>2. Shape /\ PagesInv /\ [Next]_vars => PagesInv'
  BY PagesStep
<1>3. PagesInv => PagesMissNothing
  BY DEF PagesInv, PagesMissNothing
<1> QED
  BY <1>1, <1>2, <1>3, ShapeHolds, PTL DEF Spec

----------------------------------------------------------------------------
(* The page of a commit: diff_to_files goes through a patch event by event *)
(* (Through), so what it collects is followed by induction on the number   *)
(* of events, hunks and files.  The provers know no induction over Nat as  *)
(* a schema; a set of numbers stands for the formula instead.              *)

\* Induction over 0..n, with the set of the numbers that have the property.
LEMMA Inducts ==
  ASSUME NEW n \in Nat, NEW T, 0 \in T, \A i \in 1..n : i - 1 \in T => i \in T
  PROVE  0..n \subseteq T
<1> SUFFICES ASSUME NEW k \in 0..n, k \notin T PROVE FALSE
  OBVIOUS
<1> DEFINE Rest == {i \in 0..n : i \notin T}
<1>1. Rest \subseteq Nat /\ Rest # {}
  OBVIOUS
<1>2. PICK i \in Rest : \A j \in Rest : ~(<<j, i>> \in OpToRel(<, Nat))
  BY <1>1, NatLessThanWellFounded, WFMin
<1>3. \A j \in Rest : ~(j < i)
  BY <1>1, <1>2 DEF OpToRel
<1>4. i # 0 /\ i \in 1..n
  OBVIOUS
<1>5. i - 1 \in 0..n /\ i - 1 < i
  BY <1>4
<1> QED
  BY <1>3, <1>4, <1>5

\* A function that goes on from base by the steps given for every number exists.
LEMMA Recursion ==
  ASSUME NEW S, NEW base \in S, NEW n \in Nat, NEW step \in [1..n -> [S -> S]]
  PROVE  \E f \in [0..n -> S] : f[0] = base /\ \A i \in 1..n : f[i] = step[i][f[i - 1]]
<1> DEFINE Good(k, f) == f \in [0..k -> S] /\ f[0] = base /\ \A i \in 1..k : f[i] = step[i][f[i - 1]]
           T == {k \in 0..n : \E f : Good(k, f)}
<1>1. 0 \in T
  <2>1. Good(0, [i \in 0..0 |-> base])
    OBVIOUS
  <2>2. 0 \in 0..n
    OBVIOUS
  <2>3. \E f : Good(0, f)
    BY <2>1
  <2> QED
    BY <2>2, <2>3
<1>2. ASSUME NEW k \in 1..n, k - 1 \in T PROVE k \in T
  <2>0. k - 1 \in Nat /\ k \in Nat /\ k - 1 + 1 = k /\ k \in 0..n
    OBVIOUS
  <2>1. PICK f : Good(k - 1, f)
    BY <1>2
  <2> DEFINE g == [i \in 0..k |-> IF i = k THEN step[k][f[k - 1]] ELSE f[i]]
  <2>2. k - 1 \in 0..(k - 1) /\ f[k - 1] \in S /\ \A i \in 0..k : i = k \/ i \in 0..(k - 1)
    BY <2>0, <2>1
  <2>3. step[k][f[k - 1]] \in S
    BY <2>2
  <2>4. g \in [0..k -> S]
    BY <2>1, <2>2, <2>3
  <2>5. g[0] = base
    BY <2>1, <2>0
  <2>6. ASSUME NEW i \in 1..k PROVE g[i] = step[i][g[i - 1]]
    <3>1. i - 1 \in 0..(k - 1) /\ i - 1 \in 0..k /\ i - 1 # k /\ i \in 0..k
      BY <2>0
    <3>2. g[i - 1] = f[i - 1]
      BY <3>1
    <3>3. CASE i = k
      BY <3>1, <3>2, <3>3
    <3>4. CASE i # k
      <4>1. i \in 1..(k - 1)
        BY <3>4, <2>0
      <4>2. f[i] = step[i][f[i - 1]]
        BY <4>1, <2>1
      <4>3. g[i] = f[i]
        BY <3>1, <3>4
      <4> QED
        BY <4>2, <4>3, <3>2
    <3> QED
      BY <3>3, <3>4
  <2>7. Good(k, g)
    BY <2>4, <2>5, <2>6
  <2> HIDE DEF g
  <2>8. \E h : Good(k, h)
    BY <2>7
  <2> QED
    BY <2>8, <2>0
<1> HIDE DEF T
<1>3. 0..n \subseteq T
  BY <1>1, <1>2, Inducts
<1>4. n \in T
  BY <1>3
<1>5. PICK f : Good(n, f)
  BY <1>4 DEF T
<1> QED
  BY <1>5

\* The same, as the recursive definitions below need it.
LEMMA Unrolls ==
  ASSUME NEW S, NEW base \in S, NEW n \in Nat, NEW step \in [1..n -> [S -> S]]
  PROVE  \E f : /\ f = [i \in 0..n |-> f[i]]
                /\ \A i \in 0..n : (i = 0 /\ f[i] = base) \/ (i \in 1..n /\ f[i - 1] \in S /\ f[i] = step[i][f[i - 1]])
<1>1. PICK f \in [0..n -> S] : f[0] = base /\ \A i \in 1..n : f[i] = step[i][f[i - 1]]
  BY Recursion
<1>2. f = [i \in 0..n |-> f[i]]
  OBVIOUS
<1>3. \A i \in 0..n : i = 0 \/ i \in 1..n
  OBVIOUS
<1>4. \A i \in 1..n : f[i - 1] \in S
  OBVIOUS
<1> QED
  BY <1>1, <1>2, <1>3, <1>4

\* What every step leaves in S stays in S.
LEMMA StaysIn ==
  ASSUME NEW S, NEW n \in Nat, NEW f, f = [i \in 0..n |-> f[i]], f[0] \in S,
         \A i \in 1..n : f[i - 1] \in S => f[i] \in S
  PROVE  f \in [0..n -> S]
<1> DEFINE T == {i \in 0..n : f[i] \in S}
<1>1. 0 \in T
  OBVIOUS
<1>2. \A i \in 1..n : i - 1 \in T => i \in T
  OBVIOUS
<1> HIDE DEF T
<1>3. 0..n \subseteq T
  BY <1>1, <1>2, Inducts
<1>4. \A i \in 0..n : f[i] \in S
  BY <1>3 DEF T
<1> QED
  BY <1>4

\* What the callbacks collect: files with hunks, and the headers a file's hunks have.
Collected == [path : STRING, binary : BOOLEAN, hunks : Seq([header : STRING, lines : Seq(STRING)])]

SomeCollected == Seq(Collected) \ {<<>>}

Headers(f) == {f.hunks[i].header : i \in DOMAIN f.hunks}

\* The last file got hunks with the headers H, the others stayed as they were.
Grown(files, after, H) ==
  /\ after \in Seq(Collected) /\ Len(after) = Len(files)
  /\ \A j \in 1..Len(files) :
       /\ after[j].path = files[j].path
       /\ Headers(after[j]) = Headers(files[j]) \cup (IF j = Len(files) THEN H ELSE {})

LEMMA GrowsOn ==
  ASSUME NEW a, NEW b, NEW c, NEW H, NEW K, Grown(a, b, H), Grown(b, c, K)
  PROVE  Grown(a, c, H \cup K)
BY DEF Grown

\* An event of a hunk adds its header to the last file.
LEMMA HunkGrows ==
  ASSUME NEW files \in Seq(Collected), files # <<>>, NEW e, e.hunk \in STRING, e.hunk # "none"
  PROVE  Grown(files, Collect(files, e), {e.hunk})
<1> DEFINE n == Len(files)
           h == [header |-> e.hunk, lines |-> <<>>]
           after == [files EXCEPT ![n].hunks = Append(@, h)]
           hs == files[n].hunks
<1>1. Collect(files, e) = after
  BY DEF Collect, AddHunk
<1>2. n \in 1..Len(files) /\ files[n] \in Collected /\ DOMAIN files = 1..n
  OBVIOUS
<1>3. hs \in Seq([header : STRING, lines : Seq(STRING)]) /\ h \in [header : STRING, lines : Seq(STRING)]
  BY <1>2 DEF Collected
<1>4. Append(hs, h) \in Seq([header : STRING, lines : Seq(STRING)])
  BY <1>3
<1>5. after[n] = [files[n] EXCEPT !.hunks = Append(hs, h)] /\ \A j \in 1..n : j # n => after[j] = files[j]
  BY <1>2
<1>6. after[n] \in Collected /\ after[n].path = files[n].path /\ after[n].hunks = Append(hs, h)
  BY <1>2, <1>4, <1>5 DEF Collected
<1>7. Headers(after[n]) = Headers(files[n]) \cup {e.hunk}
  <2> HIDE DEF after, h
  <2>1. Len(hs) \in Nat /\ DOMAIN hs = 1..Len(hs) /\ DOMAIN Append(hs, h) = 1..(Len(hs) + 1)
    BY <1>3
  <2>2. \A i \in 1..Len(hs) : Append(hs, h)[i] = hs[i]
    BY <1>3
  <2>3. Append(hs, h)[Len(hs) + 1] = h /\ h.header = e.hunk
    BY <1>3 DEF h
  <2>4. \A i \in 1..(Len(hs) + 1) : i \in 1..Len(hs) \/ i = Len(hs) + 1
    BY <2>1
  <2>5. 1..Len(hs) \subseteq 1..(Len(hs) + 1) /\ Len(hs) + 1 \in 1..(Len(hs) + 1)
    BY <2>1
  <2>6. Headers(after[n]) = {Append(hs, h)[i].header : i \in 1..(Len(hs) + 1)}
    BY <1>6, <2>1 DEF Headers
  <2>7. Headers(files[n]) = {hs[i].header : i \in 1..Len(hs)}
    BY <2>1 DEF Headers
  <2> QED
    BY <2>2, <2>3, <2>4, <2>5, <2>6, <2>7
<1>8. Len(after) = n /\ after \in [1..n -> Collected]
  <2>1. DOMAIN after = 1..n /\ after = [j \in 1..n |-> after[j]]
    BY <1>2
  <2>2. \A j \in 1..n : after[j] \in Collected
    <3> HIDE DEF after
    <3> QED
      BY <1>2, <1>5, <1>6
  <2> HIDE DEF after
  <2>3. after \in [1..n -> Collected]
    BY <2>1, <2>2
  <2> QED
    BY <2>3
<1>9. after \in Seq(Collected)
  BY <1>8
<1>10. ASSUME NEW j \in 1..n
       PROVE  /\ after[j].path = files[j].path
              /\ Headers(after[j]) = Headers(files[j]) \cup (IF j = n THEN {e.hunk} ELSE {})
  <2> HIDE DEF after
  <2> QED
    BY <1>5, <1>6, <1>7
<1> HIDE DEF after
<1> QED
  BY <1>1, <1>8, <1>9, <1>10 DEF Grown

\* Every event of a hunk comes with the hunk.
LEMMA PrintedHunks ==
  ASSUME NEW h \in Hunk
  PROVE  /\ Len(PrintedHunk(h)) \in Nat \ {0}
         /\ \A i \in 1..Len(PrintedHunk(h)) : PrintedHunk(h)[i].hunk = h.header
<1> DEFINE first == <<[origin |-> "H", hunk |-> h.header]>>
           rest == [i \in DOMAIN h.lines |-> [origin |-> h.lines[i], hunk |-> h.header]]
           T == [origin : STRING \cup {"H"}, hunk : STRING]
<1>1. h.lines \in Seq(STRING) /\ h.header \in STRING
  BY DEF Hunk
<1>2. first \in Seq(T) /\ Len(first) = 1 /\ first[1].hunk = h.header
  <2>1. [origin |-> "H", hunk |-> h.header] \in T
    BY <1>1
  <2> HIDE DEF T
  <2> QED
    BY <2>1
<1>3. Len(h.lines) \in Nat /\ DOMAIN h.lines = 1..Len(h.lines) /\ \A i \in DOMAIN h.lines : h.lines[i] \in STRING
  BY <1>1
<1>4. rest \in [1..Len(h.lines) -> T]
  BY <1>1, <1>3
<1>5. rest \in Seq(T) /\ Len(rest) = Len(h.lines) /\ \A i \in 1..Len(rest) : rest[i].hunk = h.header
  BY <1>3, <1>4
<1> HIDE DEF first, rest, T
<1>6. PrintedHunk(h) = first \o rest
  BY DEF PrintedHunk, first, rest
<1>7. /\ Len(first \o rest) = 1 + Len(rest)
      /\ \A i \in 1..(1 + Len(rest)) : (first \o rest)[i] = IF i <= 1 THEN first[i] ELSE rest[i - 1]
  <2>1. /\ Len(first \o rest) = Len(first) + Len(rest)
        /\ \A i \in 1..Len(first) + Len(rest) :
             (first \o rest)[i] = IF i <= Len(first) THEN first[i] ELSE rest[i - Len(first)]
    BY <1>2, <1>5, ConcatProperties
  <2> QED
    BY <1>2, <2>1
<1>8. ASSUME NEW i \in 1..Len(first \o rest) PROVE (first \o rest)[i].hunk = h.header
  <2>1. CASE i = 1
    <3>1. (first \o rest)[i] = first[1]
      BY <1>7, <2>1
    <3> QED
      BY <3>1, <1>2
  <2>2. CASE i # 1
    <3>1. i - 1 \in 1..Len(rest) /\ (first \o rest)[i] = rest[i - 1]
      BY <1>3, <1>5, <1>7, <2>2
    <3> QED
      BY <3>1, <1>5
  <2> QED
    BY <2>1, <2>2
<1> QED
  BY <1>3, <1>5, <1>6, <1>7, <1>8

\* The three levels of DiffToFiles: the events of a hunk, the hunks of a file, the files.
\* Each goes from element to element, as long as its callback keeps what is collected in S.
Collects(base, seq) == Through(Collect, base, seq)

CollectStays(S, seq) == Len(seq) \in Nat /\ \A f \in S, i \in 1..Len(seq) : Collect(f, seq[i]) \in S

LEMMA ThroughCollect ==
  ASSUME NEW S, NEW base \in S, NEW seq, CollectStays(S, seq)
  PROVE  \E f \in [0..Len(seq) -> S] :
           /\ Collects(base, seq) = f[Len(seq)]
           /\ f[0] = base /\ \A i \in 1..Len(seq) : f[i] = Collect(f[i - 1], seq[i])
<1> DEFINE n == Len(seq)
           Is(f) == f = [i \in 0..n |-> IF i = 0 THEN base ELSE Collect(f[i - 1], seq[i])]
           step == [i \in 1..n |-> [f \in S |-> Collect(f, seq[i])]]
           after == CHOOSE f : Is(f)
<1>1. Collects(base, seq) = after[n]
  BY DEF Collects, Through
<1>2. n \in Nat /\ step \in [1..n -> [S -> S]]
  BY DEF CollectStays
<1> HIDE DEF n, step, after
<1>3. PICK f : /\ f = [i \in 0..n |-> f[i]]
               /\ \A i \in 0..n : (i = 0 /\ f[i] = base) \/ (i \in 1..n /\ f[i - 1] \in S /\ f[i] = step[i][f[i - 1]])
  BY <1>2, Unrolls
<1>4. \A i \in 0..n : f[i] = IF i = 0 THEN base ELSE Collect(f[i - 1], seq[i])
  <2>1. \A i \in 1..n, g \in S : step[i][g] = Collect(g, seq[i])
    BY DEF step
  <2>2. \A i \in 1..n : i # 0
    BY <1>2
  <2> QED
    BY <1>3, <2>1, <2>2
<1>5. Is(f)
  BY <1>3, <1>4
<1> HIDE DEF Is
<1>6. Is(after)
  BY <1>5 DEF after
<1>7. /\ after = [i \in 0..n |-> after[i]]
      /\ after[0] = base /\ \A i \in 1..n : after[i] = Collect(after[i - 1], seq[i])
  BY <1>2, <1>6 DEF Is
<1>8. \A i \in 1..n : after[i - 1] \in S => after[i] \in S
  BY <1>7 DEF n, CollectStays
<1>9. after \in [0..n -> S]
  BY <1>2, <1>7, <1>8, StaysIn
<1> QED
  BY <1>1, <1>7, <1>9 DEF n

\* All the events of a hunk add the one header.
LEMMA HunksGrow ==
  ASSUME NEW files \in SomeCollected, NEW h \in Hunk
  PROVE  Grown(files, CollectHunk(files, h), {h.header})
<1> DEFINE seq == PrintedHunk(h)
           n == Len(seq)
<1> HIDE DEF n, seq
<1>1. n \in Nat /\ n # 0 /\ \A i \in 1..n : seq[i].hunk = h.header
  BY PrintedHunks DEF n, seq
<1>2. h.header \in STRING /\ h.header # "none"
  BY DEF Hunk
<1>3. \A f \in SomeCollected, i \in 1..n : Grown(f, Collect(f, seq[i]), {h.header})
  BY <1>1, <1>2, HunkGrows DEF SomeCollected
<1>4. ASSUME NEW f \in SomeCollected, NEW g, NEW H, Grown(f, g, H)
      PROVE  g \in SomeCollected
  <2>1. f \in Seq(Collected) /\ g \in Seq(Collected) /\ Len(g) = Len(f) /\ Len(f) # 0
    BY <1>4 DEF Grown, SomeCollected
  <2> QED
    BY <2>1 DEF SomeCollected
<1>5. CollectStays(SomeCollected, seq)
  <2>1. \A f \in SomeCollected, i \in 1..n : Collect(f, seq[i]) \in SomeCollected
    BY <1>3, <1>4
  <2> QED
    BY <1>1, <2>1 DEF CollectStays, n
<1>7. Grown(files, files, {})
  BY DEF Grown, SomeCollected
<1>6. PICK after \in [0..Len(seq) -> SomeCollected] :
         /\ Collects(files, seq) = after[Len(seq)]
         /\ after[0] = files /\ \A i \in 1..Len(seq) : after[i] = Collect(after[i - 1], seq[i])
  BY <1>5, ThroughCollect
<1>8. /\ after \in [0..n -> SomeCollected] /\ Collects(files, seq) = after[n]
      /\ after[0] = files /\ \A i \in 1..n : after[i] = Collect(after[i - 1], seq[i])
  BY <1>6 DEF n
<1> DEFINE T == {i \in 0..n : Grown(files, after[i], IF i = 0 THEN {} ELSE {h.header})}
<1>9. 0 \in T
  BY <1>1, <1>7, <1>8
<1>10. ASSUME NEW i \in 1..n, i - 1 \in T PROVE i \in T
  <2>1. Grown(files, after[i - 1], IF i - 1 = 0 THEN {} ELSE {h.header})
    BY <1>10
  <2>2. i - 1 \in 0..n /\ i \in 0..n /\ i # 0
    BY <1>1
  <2>3. Grown(after[i - 1], after[i], {h.header})
    BY <1>3, <1>8, <2>2
  <2>4. (IF i - 1 = 0 THEN {} ELSE {h.header}) \cup {h.header} = {h.header}
    OBVIOUS
  <2>5. Grown(files, after[i], {h.header})
    BY <2>1, <2>3, <2>4, GrowsOn
  <2> QED
    BY <2>2, <2>5
<1> HIDE DEF T
<1>11. n \in T
  <2>1. \A i \in 1..n : i - 1 \in T => i \in T
    BY <1>10
  <2>2. n \in Nat
    BY <1>1
  <2>3. 0..n \subseteq T
    BY <1>9, <2>1, <2>2, Inducts
  <2> QED
    BY <2>2, <2>3
<1>12. Grown(files, after[n], {h.header})
  BY <1>1, <1>11 DEF T
<1> QED
  BY <1>8, <1>12 DEF CollectHunk, Collects, seq

CollectsHunks(base, seq) == Through(CollectHunk, base, seq)

CollectHunkStays(S, seq) == Len(seq) \in Nat /\ \A f \in S, i \in 1..Len(seq) : CollectHunk(f, seq[i]) \in S

LEMMA ThroughHunks ==
  ASSUME NEW S, NEW base \in S, NEW seq, CollectHunkStays(S, seq)
  PROVE  \E f \in [0..Len(seq) -> S] :
           /\ CollectsHunks(base, seq) = f[Len(seq)]
           /\ f[0] = base /\ \A i \in 1..Len(seq) : f[i] = CollectHunk(f[i - 1], seq[i])
<1> DEFINE n == Len(seq)
           Is(f) == f = [i \in 0..n |-> IF i = 0 THEN base ELSE CollectHunk(f[i - 1], seq[i])]
           step == [i \in 1..n |-> [f \in S |-> CollectHunk(f, seq[i])]]
           after == CHOOSE f : Is(f)
<1>1. CollectsHunks(base, seq) = after[n]
  BY DEF CollectsHunks, Through
<1>2. n \in Nat /\ step \in [1..n -> [S -> S]]
  BY DEF CollectHunkStays
<1> HIDE DEF n, step, after
<1>3. PICK f : /\ f = [i \in 0..n |-> f[i]]
               /\ \A i \in 0..n : (i = 0 /\ f[i] = base) \/ (i \in 1..n /\ f[i - 1] \in S /\ f[i] = step[i][f[i - 1]])
  BY <1>2, Unrolls
<1>4. \A i \in 0..n : f[i] = IF i = 0 THEN base ELSE CollectHunk(f[i - 1], seq[i])
  <2>1. \A i \in 1..n, g \in S : step[i][g] = CollectHunk(g, seq[i])
    BY DEF step
  <2>2. \A i \in 1..n : i # 0
    BY <1>2
  <2> QED
    BY <1>3, <2>1, <2>2
<1>5. Is(f)
  BY <1>3, <1>4
<1> HIDE DEF Is
<1>6. Is(after)
  BY <1>5 DEF after
<1>7. /\ after = [i \in 0..n |-> after[i]]
      /\ after[0] = base /\ \A i \in 1..n : after[i] = CollectHunk(after[i - 1], seq[i])
  BY <1>2, <1>6 DEF Is
<1>8. \A i \in 1..n : after[i - 1] \in S => after[i] \in S
  BY <1>7 DEF n, CollectHunkStays
<1>9. after \in [0..n -> S]
  BY <1>2, <1>7, <1>8, StaysIn
<1> QED
  BY <1>1, <1>7, <1>9 DEF n

CollectsFiles(base, seq) == Through(CollectFile, base, seq)

CollectFileStays(S, seq) == Len(seq) \in Nat /\ \A f \in S, i \in 1..Len(seq) : CollectFile(f, seq[i]) \in S

LEMMA ThroughFiles ==
  ASSUME NEW S, NEW base \in S, NEW seq, CollectFileStays(S, seq)
  PROVE  \E f \in [0..Len(seq) -> S] :
           /\ CollectsFiles(base, seq) = f[Len(seq)]
           /\ f[0] = base /\ \A i \in 1..Len(seq) : f[i] = CollectFile(f[i - 1], seq[i])
<1> DEFINE n == Len(seq)
           Is(f) == f = [i \in 0..n |-> IF i = 0 THEN base ELSE CollectFile(f[i - 1], seq[i])]
           step == [i \in 1..n |-> [f \in S |-> CollectFile(f, seq[i])]]
           after == CHOOSE f : Is(f)
<1>1. CollectsFiles(base, seq) = after[n]
  BY DEF CollectsFiles, Through
<1>2. n \in Nat /\ step \in [1..n -> [S -> S]]
  BY DEF CollectFileStays
<1> HIDE DEF n, step, after
<1>3. PICK f : /\ f = [i \in 0..n |-> f[i]]
               /\ \A i \in 0..n : (i = 0 /\ f[i] = base) \/ (i \in 1..n /\ f[i - 1] \in S /\ f[i] = step[i][f[i - 1]])
  BY <1>2, Unrolls
<1>4. \A i \in 0..n : f[i] = IF i = 0 THEN base ELSE CollectFile(f[i - 1], seq[i])
  <2>1. \A i \in 1..n, g \in S : step[i][g] = CollectFile(g, seq[i])
    BY DEF step
  <2>2. \A i \in 1..n : i # 0
    BY <1>2
  <2> QED
    BY <1>3, <2>1, <2>2
<1>5. Is(f)
  BY <1>3, <1>4
<1> HIDE DEF Is
<1>6. Is(after)
  BY <1>5 DEF after
<1>7. /\ after = [i \in 0..n |-> after[i]]
      /\ after[0] = base /\ \A i \in 1..n : after[i] = CollectFile(after[i - 1], seq[i])
  BY <1>2, <1>6 DEF Is
<1>8. \A i \in 1..n : after[i - 1] \in S => after[i] \in S
  BY <1>7 DEF n, CollectFileStays
<1>9. after \in [0..n -> S]
  BY <1>2, <1>7, <1>8, StaysIn
<1> QED
  BY <1>1, <1>7, <1>9 DEF n


\* The events of a file header start one file, without a hunk.
LEMMA HeaderAdds ==
  ASSUME NEW files \in Seq(Collected), NEW f \in PatchFile
  PROVE  Collects(files, PrintedHeader(f)) = Append(files, [path |-> f.path, binary |-> f.binary, hunks |-> <<>>])
<1> DEFINE new == [path |-> f.path, binary |-> f.binary, hunks |-> <<>>]
           started == Append(files, new)
           event == [origin |-> "F", hunk |-> "none", path |-> f.path, binary |-> f.binary]
           notice == [origin |-> "B", hunk |-> "none"]
           seq == PrintedHeader(f)
<1>1. f.binary \in BOOLEAN /\ new \in Collected
  BY DEF PatchFile, Collected
<1>2. \A g : Collect(g, event) = Append(g, new)
  BY DEF Collect, StartFile
<1>3. \A g : Collect(g, notice) = g
  BY DEF Collect, AddLine
<1>4. seq = <<event>> \o (IF f.binary THEN <<notice>> ELSE <<>>)
  BY DEF PrintedHeader
<1>5. \/ Len(seq) = 1 /\ seq[1] = event
      \/ Len(seq) = 2 /\ seq[1] = event /\ seq[2] = notice
  <2> HIDE DEF event, notice, seq
  <2> QED
    BY <1>1, <1>4
<1>6. started \in Seq(Collected)
  <2> HIDE DEF new
  <2> QED
    BY <1>1
<1> HIDE DEF new, started, event, notice, seq
<1>7. Collect(files, event) = started /\ Collect(started, notice) = started
  BY <1>2, <1>3 DEF started
<1>8. \A g \in Seq(Collected) : Collect(g, event) \in Seq(Collected) /\ Collect(g, notice) \in Seq(Collected)
  <2>1. \A g \in Seq(Collected) : Append(g, new) \in Seq(Collected)
    BY <1>1
  <2> QED
    BY <1>2, <1>3, <2>1
<1>9. CollectStays(Seq(Collected), seq)
  <2>1. \A i \in 1..Len(seq) : seq[i] = event \/ seq[i] = notice
    BY <1>5
  <2> QED
    BY <1>5, <1>8, <2>1 DEF CollectStays
<1>10. PICK after \in [0..Len(seq) -> Seq(Collected)] :
         /\ Collects(files, seq) = after[Len(seq)]
         /\ after[0] = files /\ \A i \in 1..Len(seq) : after[i] = Collect(after[i - 1], seq[i])
  BY <1>9, ThroughCollect
<1>11. after[1] = Collect(files, event)
  <2>1. 1 \in 1..Len(seq) /\ 1 - 1 = 0
    BY <1>5
  <2>2. after[1] = Collect(after[0], seq[1])
    BY <1>10, <2>1
  <2> QED
    BY <1>5, <1>10, <2>2
<1>12. CASE Len(seq) = 1
  BY <1>7, <1>10, <1>11, <1>12 DEF seq, started, new
<1>13. CASE Len(seq) = 2 /\ seq[2] = notice
  <2>1. 2 \in 1..Len(seq) /\ 2 - 1 = 1
    BY <1>13
  <2>2. after[2] = Collect(after[1], seq[2])
    BY <1>10, <2>1
  <2> QED
    BY <1>7, <1>10, <1>11, <1>13, <2>2 DEF seq, started, new
<1> QED
  BY <1>5, <1>12, <1>13

\* A file with its hunks adds one file, with their headers.
LEMMA FileAdds ==
  ASSUME NEW files \in Seq(Collected), NEW f \in PatchFile
  PROVE  /\ CollectFile(files, f) \in Seq(Collected)
         /\ Len(CollectFile(files, f)) = Len(files) + 1
         /\ \A j \in 1..Len(files) : /\ CollectFile(files, f)[j].path = files[j].path
                                     /\ Headers(CollectFile(files, f)[j]) = Headers(files[j])
         /\ CollectFile(files, f)[Len(files) + 1].path = f.path
         /\ Headers(CollectFile(files, f)[Len(files) + 1]) = Headers(f)
<1> DEFINE new == [path |-> f.path, binary |-> f.binary, hunks |-> <<>>]
           started == Append(files, new)
           seq == f.hunks
           n == Len(seq)
           H(i) == {seq[k].header : k \in 1..i}
<1>1. new \in Collected /\ new.path = f.path /\ Headers(new) = {}
  BY DEF Collected, PatchFile, Headers
<1>2. n \in Nat /\ DOMAIN seq = 1..n /\ \A i \in 1..n : seq[i] \in Hunk
  BY DEF PatchFile
<1> HIDE DEF new, n, seq
<1>3. /\ started \in SomeCollected /\ Len(started) = Len(files) + 1 /\ Len(files) \in Nat
      /\ \A j \in 1..Len(files) : started[j] = files[j]
      /\ started[Len(files) + 1] = new
  BY <1>1 DEF SomeCollected
<1>4. CollectFile(files, f) = CollectsHunks(started, seq)
  BY HeaderAdds DEF CollectFile, Collects, CollectsHunks, new, seq
<1> HIDE DEF started, H
<1>5. \A g \in SomeCollected, i \in 1..n :
        Grown(g, CollectHunk(g, seq[i]), {seq[i].header})
  BY <1>2, HunksGrow
<1>6. ASSUME NEW g \in SomeCollected, NEW h, NEW K, Grown(g, h, K)
      PROVE  h \in SomeCollected
  <2>1. g \in Seq(Collected) /\ h \in Seq(Collected) /\ Len(h) = Len(g) /\ Len(g) # 0
    BY <1>6 DEF Grown, SomeCollected
  <2> QED
    BY <2>1 DEF SomeCollected
<1>7. CollectHunkStays(SomeCollected, seq)
  <2>1. \A g \in SomeCollected, i \in 1..n : CollectHunk(g, seq[i]) \in SomeCollected
    BY <1>5, <1>6
  <2> QED
    BY <1>2, <2>1 DEF CollectHunkStays, n
<1>8. PICK after \in [0..Len(seq) -> SomeCollected] :
         /\ CollectsHunks(started, seq) = after[Len(seq)]
         /\ after[0] = started /\ \A i \in 1..Len(seq) : after[i] = CollectHunk(after[i - 1], seq[i])
  BY <1>3, <1>7, ThroughHunks
<1>9. /\ after \in [0..n -> SomeCollected] /\ CollectsHunks(started, seq) = after[n]
      /\ after[0] = started /\ \A i \in 1..n : after[i] = CollectHunk(after[i - 1], seq[i])
  BY <1>8 DEF n
<1> DEFINE T == {i \in 0..n : Grown(started, after[i], H(i))}
<1>10. 0 \in T
  <2>1. H(0) = {}
    BY DEF H
  <2>2. Grown(started, started, {})
    BY <1>3 DEF Grown, SomeCollected
  <2>3. Grown(started, after[0], H(0))
    BY <1>9, <2>1, <2>2
  <2>4. 0 \in 0..n
    BY <1>2
  <2> QED
    BY <2>3, <2>4
<1>11. ASSUME NEW i \in 1..n, i - 1 \in T PROVE i \in T
  <2>1. Grown(started, after[i - 1], H(i - 1))
    BY <1>11
  <2>2. i - 1 \in 0..n /\ i \in 0..n
    BY <1>2
  <2>3. Grown(after[i - 1], after[i], {seq[i].header})
    BY <1>5, <1>9, <2>2
  <2>4. H(i - 1) \cup {seq[i].header} = H(i)
    <3>1. \A k : k \in 1..i <=> k \in 1..(i - 1) \/ k = i
      BY <1>2
    <3> QED
      BY <3>1 DEF H
  <2>5. Grown(started, after[i], H(i))
    BY <2>1, <2>3, <2>4, GrowsOn
  <2> QED
    BY <2>2, <2>5
<1> HIDE DEF T
<1>12. n \in T
  <2>1. \A i \in 1..n : i - 1 \in T => i \in T
    BY <1>11
  <2>2. n \in Nat
    BY <1>2
  <2>3. 0..n \subseteq T
    BY <1>10, <2>1, <2>2, Inducts
  <2> QED
    BY <2>2, <2>3
<1>13. Grown(started, CollectFile(files, f), H(n))
  BY <1>4, <1>9, <1>12 DEF T
<1>14. H(n) = Headers(f)
  BY <1>2 DEF H, Headers, seq
<1> DEFINE after2 == CollectFile(files, f)
<1> HIDE DEF after2
<1>15. /\ after2 \in Seq(Collected) /\ Len(after2) = Len(files) + 1
       /\ \A j \in 1..(Len(files) + 1) :
            /\ after2[j].path = started[j].path
            /\ Headers(after2[j]) = Headers(started[j]) \cup (IF j = Len(files) + 1 THEN Headers(f) ELSE {})
  BY <1>3, <1>13, <1>14 DEF Grown, after2
<1>16. \A j \in 1..Len(files) : j \in 1..(Len(files) + 1) /\ j # Len(files) + 1
  BY <1>3
<1>17. Len(files) + 1 \in 1..(Len(files) + 1)
  BY <1>3
<1>18. \A j \in 1..Len(files) : after2[j].path = files[j].path /\ Headers(after2[j]) = Headers(files[j])
  BY <1>3, <1>15, <1>16
<1>19. after2[Len(files) + 1].path = f.path /\ Headers(after2[Len(files) + 1]) = Headers(f)
  BY <1>1, <1>3, <1>15, <1>17
<1> QED
  BY <1>15, <1>18, <1>19 DEF after2

\* diff_to_files gives a file for every file of the patch, with its path and headers.
LEMMA DiffNamesChanges ==
  ASSUME NEW patch \in Seq(PatchFile)
  PROVE  /\ DiffToFiles(patch) \in Seq(Collected)
         /\ Len(DiffToFiles(patch)) = Len(patch)
         /\ \A j \in 1..Len(patch) : /\ DiffToFiles(patch)[j].path = patch[j].path
                                     /\ Headers(DiffToFiles(patch)[j]) = Headers(patch[j])
<1> DEFINE n == Len(patch)
           Fits(files, i) ==
             /\ files \in Seq(Collected) /\ Len(files) = i
             /\ \A j \in 1..i : /\ files[j].path = patch[j].path
                                /\ Headers(files[j]) = Headers(patch[j])
<1>1. n \in Nat /\ \A i \in 1..n : patch[i] \in PatchFile
  OBVIOUS
<1> DEFINE none == <<>>
           S == Seq(Collected)
<1>2. none \in S /\ Len(none) = 0
  OBVIOUS
<1>3. CollectFileStays(S, patch)
  BY <1>1, FileAdds DEF CollectFileStays
<1> HIDE DEF n, none, S
<1>4. PICK after \in [0..Len(patch) -> S] :
         /\ CollectsFiles(none, patch) = after[Len(patch)]
         /\ after[0] = none /\ \A i \in 1..Len(patch) : after[i] = CollectFile(after[i - 1], patch[i])
  BY <1>2, <1>3, ThroughFiles
<1>5. /\ after \in [0..n -> S] /\ DiffToFiles(patch) = after[n]
      /\ after[0] = none /\ \A i \in 1..n : after[i] = CollectFile(after[i - 1], patch[i])
  BY <1>4 DEF n, none, DiffToFiles, CollectsFiles
<1> DEFINE T == {i \in 0..n : Fits(after[i], i)}
<1>6. 0 \in T
  BY <1>1, <1>2, <1>5 DEF S
<1>7. ASSUME NEW i \in 1..n, i - 1 \in T PROVE i \in T
  <2> DEFINE old == after[i - 1]
             new == after[i]
  <2>1. i - 1 \in Nat /\ i - 1 + 1 = i /\ i \in 0..n /\ patch[i] \in PatchFile
    BY <1>1
  <2>2. Fits(old, i - 1)
    BY <1>7
  <2>3. new = CollectFile(old, patch[i])
    BY <1>5
  <2> HIDE DEF old, new
  <2>7. old \in Seq(Collected) /\ Len(old) + 1 = i /\ Len(old) = i - 1
    BY <2>1, <2>2
  <2> HIDE DEF Fits
  <2>8. /\ CollectFile(old, patch[i]) \in Seq(Collected)
        /\ Len(CollectFile(old, patch[i])) = Len(old) + 1
        /\ \A j \in 1..Len(old) : /\ CollectFile(old, patch[i])[j].path = old[j].path
                                  /\ Headers(CollectFile(old, patch[i])[j]) = Headers(old[j])
        /\ CollectFile(old, patch[i])[Len(old) + 1].path = patch[i].path
        /\ Headers(CollectFile(old, patch[i])[Len(old) + 1]) = Headers(patch[i])
    BY <2>1, <2>7, FileAdds
  <2>4. /\ new \in Seq(Collected) /\ Len(new) = i
        /\ \A j \in 1..(i - 1) : new[j].path = old[j].path /\ Headers(new[j]) = Headers(old[j])
        /\ new[i].path = patch[i].path /\ Headers(new[i]) = Headers(patch[i])
    BY <2>3, <2>7, <2>8
  <2>5. \A j \in 1..i : j \in 1..(i - 1) \/ j = i
    BY <2>1
  <2>6. Fits(new, i)
    BY <2>2, <2>4, <2>5 DEF Fits
  <2> QED
    BY <2>1, <2>6 DEF new
<1> HIDE DEF T
<1>8. n \in T
  <2>1. \A i \in 1..n : i - 1 \in T => i \in T
    BY <1>7
  <2>2. n \in Nat
    BY <1>1
  <2>3. 0..n \subseteq T
    BY <1>6, <2>1, <2>2, Inducts
  <2> QED
    BY <2>2, <2>3
<1>9. Fits(after[n], n)
  BY <1>8 DEF T
<1> QED
  BY <1>5, <1>9 DEF n

\* The page that is open is what diff_to_files made of its commit.
CommitInv ==
  view.kind = "commit" => view.commit \in Commits /\ view.files = DiffToFiles(Patch[view.commit])

LEMMA CommitStep == ASSUME Shape, CommitInv, [Next]_vars PROVE CommitInv'
<1>1. Carried \/ Reader
  BY OthersCarry DEF Shape
<1>2. CASE Carried
  BY <1>2 DEF Carried, CommitInv, NoView
<1>3. CASE Reader
  <2>1. ASSUME NEW n \in Names, NEW asked \in PerPages, OpenCommits(n, asked) PROVE CommitInv'
    BY <2>1 DEF OpenCommits, CommitInv
  <2>2. ASSUME NEW n \in Names, NEW c \in Commits, OpenCommit(n, c) PROVE CommitInv'
    BY <2>2 DEF OpenCommit, CommitInv
  <2>3. ASSUME NextPage PROVE CommitInv'
    <3>1. view \in HistoryView
      BY <2>3 DEF NextPage, Shape, TypeOK, NoView
    <3>2. view'.kind = "commits"
      BY <2>3, <3>1 DEF NextPage, HistoryView
    <3> QED
      BY <3>2 DEF CommitInv
  <2> QED
    BY <1>3, <2>1, <2>2, <2>3 DEF Reader
<1> QED
  BY <1>1, <1>2, <1>3

\* A commit's page names the files of the commit, in order, and in each the hunks it
\* has, for patches of any length (diff_to_files).
THEOREM CommitPagesNameTheirChanges == Spec => []CommitPageNamesChanges
<1>1. Init => CommitInv
  BY DEF Init, CommitInv, NoView
<1>2. Shape /\ CommitInv /\ [Next]_vars => CommitInv'
  BY CommitStep
<1>3. CommitInv => CommitPageNamesChanges
  <2> SUFFICES ASSUME CommitInv, view.kind = "commit"
               PROVE  LET patch == Patch[view.commit] IN
                      /\ [i \in DOMAIN view.files |-> view.files[i].path] = [i \in DOMAIN patch |-> patch[i].path]
                      /\ \A i \in DOMAIN patch :
                           {h.header : h \in Range(view.files[i].hunks)} = {h.header : h \in Range(patch[i].hunks)}
    BY DEF CommitPageNamesChanges
  <2> DEFINE patch == Patch[view.commit]
             files == view.files
  <2>1. patch \in Seq(PatchFile) /\ files = DiffToFiles(patch)
    BY BrowseAssumption DEF BrowseAssumption, CommitInv
  <2> HIDE DEF patch, files
  <2>2. /\ files \in Seq(Collected) /\ Len(files) = Len(patch)
        /\ \A i \in 1..Len(patch) : files[i].path = patch[i].path /\ Headers(files[i]) = Headers(patch[i])
    BY <2>1, DiffNamesChanges
  <2>3. DOMAIN files = 1..Len(patch) /\ DOMAIN patch = 1..Len(patch)
    BY <2>1, <2>2
  <2>4. \A f : Headers(f) = {h.header : h \in Range(f.hunks)}
    BY DEF Headers, Range
  <2> QED
    BY <2>2, <2>3, <2>4 DEF files, patch
<1> QED
  BY <1>1, <1>2, <1>3, ShapeHolds, PTL DEF Spec
=============================================================================
