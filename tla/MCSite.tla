------------------------------- MODULE MCSite -------------------------------
(* Instances of Site for TLC.  Commits 1 to 4 are a line, of which 2 and 3 *)
(* were made in one second; 5 merges 1 and 4 on a machine whose clock is   *)
(* behind.                                                                 *)
EXTENDS Site

CONSTANTS m, n

TheUsers == {"git", "ada"}
TwoNames == {m, n}

\* Nothing in the program prefers one name to another.
Symmetry == Permutations(Names)

TheParents == << {}, {1}, {2}, {3}, {1, 4} >>
TheTimes   == << 10, 20, 20, 30, 15 >>

\* From 4 commit 3 comes before 2, which has the same time, and from 5 after it.
TheWalks ==
  << <<1>>, <<2, 1>>, <<3, 2, 1>>, <<4, 3, 2, 1>>, <<4, 2, 3, 5, 1>> >>

File(path, hunks) == [path |-> path, binary |-> FALSE, hunks |-> hunks]
HunkOf(header, lines) == [header |-> header, lines |-> lines]

\* A new file, two hunks and two files, a binary and a changed file, a renamed
\* file without a change, and nothing at all.
ThePatches ==
  << << File("a", <<HunkOf("@1", <<"+", "+">>)>>) >>,
     << File("a", <<HunkOf("@1", <<" ", "-", "+">>), HunkOf("@9", <<"+">>)>>),
        File("b", <<HunkOf("@1", <<"+">>)>>) >>,
     << [path |-> "c", binary |-> TRUE, hunks |-> <<>>], File("b", <<HunkOf("@1", <<"-">>)>>) >>,
     << File("d", <<>>) >>,
     <<>> >>

Nothing ==
  [fileUser |-> "absent", envUser |-> "absent", fileSecret |-> "absent", envSecret |-> "absent",
   fileHash |-> "absent", envPassword |-> "absent", fileToken |-> "absent", envToken |-> "absent"]

WithFileSecret(s) == [Nothing EXCEPT !.fileSecret = s]

\* Four that serve, with two user names and two secrets: to the third only git signs in,
\* its token being too long for the form and its hash none, and to the fourth nobody.
\* One without credentials.
SomeSettings ==
  { [WithFileSecret("s1") EXCEPT !.fileHash = "pw"],
    [WithFileSecret("s2") EXCEPT !.envPassword = "pw", !.envUser = "ada"],
    [WithFileSecret("s1") EXCEPT !.fileHash = "unparsable", !.fileToken = "long", !.fileUser = "ada"],
    [WithFileSecret("s1") EXCEPT !.fileToken = "tok", !.envToken = "empty"],
    WithFileSecret("s1") }

\* What README.md and the messages of main.rs tell the operator to set.
InstructedSettings ==
  { [Nothing EXCEPT !.envSecret = "s1", !.envPassword = "pw"],
    [Nothing EXCEPT !.envSecret = "s1", !.envToken = "tok"],
    [WithFileSecret("s1") EXCEPT !.envToken = "tok"],
    [WithFileSecret("s1") EXCEPT !.envPassword = "pw"] }

OneServing == { [WithFileSecret("s1") EXCEPT !.envPassword = "pw"] }
============================================================================
