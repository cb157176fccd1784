------------------------------- MODULE Browse -------------------------------
(***************************************************************************)
(* What the repository browser computes from a git repository              *)
(* (db/git.rs): pages of a history, and the files of a commit's diff.      *)
(* Commits are numbers.                                                    *)
(***************************************************************************)
EXTENDS Naturals, FiniteSets, Sequences, SequencesExt

CONSTANTS
  Commits,    \* the commits pushes may bring
  Parents,    \* Parents[c]: the parents of c
  Time,       \* Time[c]: its commit time
  Walk,       \* Walk[c]: the history of c in the order libgit2 walks it
  Patch,      \* Patch[c]: what c changes against its first parent
  MaxPerPage  \* the cap on per_page

\* A line is told by its origin: added, removed, context and others.
Hunk      == [header : STRING \ {"none"}, lines : Seq(STRING)]
PatchFile == [path : STRING, binary : BOOLEAN, hunks : Seq(Hunk)]

ASSUME BrowseAssumption ==
  /\ Commits \subseteq Nat \ {0} /\ IsFiniteSet(Commits)
  /\ Parents \in [Commits -> SUBSET Commits]
  /\ Time \in [Commits -> Nat]
  /\ MaxPerPage \in Nat
  /\ \A c \in Commits : Patch[c] \in Seq(PatchFile)

\* revwalk from c: every commit one gets to from it, parent by parent.
Closed == {S \in SUBSET Commits : \A d \in S : Parents[d] \subseteq S}

Reachable == [c \in Commits |-> {d \in Commits : \A S \in Closed : c \in S => d \in S}]

\* With Sort::TIME libgit2 collects them all, then sorts, newest first.  The order of
\* equal times comes from the order they were collected in: two walks may differ in it.
WalkOf(w, c) ==
  /\ w \in Seq(Commits)
  /\ Range(w) = Reachable[c] /\ IsInjective(w)
  /\ \A i, j \in DOMAIN w : i < j => Time[w[i]] >= Time[w[j]]

ASSUME WalkAssumption == \A c \in Commits : WalkOf(Walk[c], c)

SkipOnePageMore(page, perPage) == page * perPage

Skip(page, perPage) == (page - 1) * perPage

\* list_commits: skip the pages before, stop at the end of this one.
ListCommits(c, page, perPage) ==
  SubSeq(Walk[c], Skip(page, perPage) + 1,
         IF Skip(page, perPage) + perPage <= Len(Walk[c])
           THEN Skip(page, perPage) + perPage ELSE Len(Walk[c]))

PerPageUncapped(asked) == asked

\* per_page of the query, as repo_commits clamps it.
PerPage(asked) == IF asked <= MaxPerPage THEN asked ELSE MaxPerPage

\* Whether commits.html shows the link to the next page.
HasNext(commits, perPage) == Len(commits) = perPage

----------------------------------------------------------------------------
(* The diff of a commit.  A patch is a sequence of files, a file has a     *)
(* path, a flag and hunks, a hunk a header and lines.                      *)

\* Callback called for the elements of seq, one after the other.
Through(Callback(_, _), base, seq) ==
  LET after[i \in 0..Len(seq)] == IF i = 0 THEN base ELSE Callback(after[i - 1], seq[i])
  IN  after[Len(seq)]

\* diff_to_files' callback: one event, added to the files collected so far.
StartFile(files, e) == Append(files, [path |-> e.path, binary |-> e.binary, hunks |-> <<>>])

AddHunkToFirst(files, e) ==
  IF files = <<>> THEN files
  ELSE [files EXCEPT ![1].hunks = Append(@, [header |-> e.hunk, lines |-> <<>>])]

AddHunk(files, e) ==
  IF files = <<>> THEN files
  ELSE [files EXCEPT ![Len(files)].hunks = Append(@, [header |-> e.hunk, lines |-> <<>>])]

AddLine(files, e) ==
  IF e.origin \notin {"+", "-", " "} \/ files = <<>> \/ Last(files).hunks = <<>> THEN files
  ELSE LET last == Len(Last(files).hunks)
       IN [files EXCEPT ![Len(files)].hunks[last].lines = Append(@, e.origin)]

Collect(files, e) ==
  CASE e.hunk = "none" /\ e.origin = "F" -> StartFile(files, e)
    [] e.hunk # "none"                   -> AddHunk(files, e)
    [] OTHER                             -> AddLine(files, e)

\* What libgit2 calls it with: the file header (and, for a binary file, a notice)
\* without a hunk; then for every hunk its header and its lines, each with the hunk they
\* belong to.
PrintedHeader(f) ==
  <<[origin |-> "F", hunk |-> "none", path |-> f.path, binary |-> f.binary]>>
    \o (IF f.binary THEN <<[origin |-> "B", hunk |-> "none"]>> ELSE <<>>)

PrintedHunk(h) ==
  <<[origin |-> "H", hunk |-> h.header]>>
    \o [i \in DOMAIN h.lines |-> [origin |-> h.lines[i], hunk |-> h.header]]

CollectHunk(files, h) == Through(Collect, files, PrintedHunk(h))

CollectFile(files, f) == Through(CollectHunk, Through(Collect, files, PrintedHeader(f)), f.hunks)

DiffToFiles(patch) == Through(CollectFile, <<>>, patch)
============================================================================
