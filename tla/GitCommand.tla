----------------------------- MODULE GitCommand -----------------------------
(***************************************************************************)
(* One run of git by the server (run_git_command in routes/repo.rs): the   *)
(* handler writes the request body to git's stdin, then reads stdout and   *)
(* stderr at the same time, then waits for the exit status, all of it      *)
(* within GIT_TIMEOUT.                                                     *)
(*                                                                         *)
(* The three pipes hold at most Capacity units.  Git is external: it reads *)
(* and writes in any order, may stall for ever and may exit at any time.   *)
(* stdin is closed as soon as the handler is past writing; git's ends of   *)
(* the pipes close when it exits.                                          *)
(***************************************************************************)
EXTENDS Naturals

CONSTANTS
  Capacity,     \* units a pipe holds
  MaxResponse,  \* GIT_MAX_RESPONSE, in the same units
  MaxBody,      \* bound: the longest request body
  MaxOutput     \* bound: the longest output of git

ASSUME GitCommandAssumption ==
  /\ Capacity \in Nat \ {0}
  /\ MaxResponse \in Nat
  /\ MaxBody \in Nat
  /\ MaxOutput \in Nat

VARIABLES
  pc,       \* where the handler is
  result,   \* what it answers
  git,      \* the child process
  body,     \* units of the request body (0 for --advertise-refs)
  written,  \* how many of them were written to stdin
  inPipe, outPipe, errPipe,  \* units in each pipe
  wrote,    \* units git wrote to stdout
  taken,    \* units of them the handler has read
  outDone, errDone           \* which of the two joined reads have ended

input  == <<body, written, inPipe>>
output == <<outPipe, errPipe, wrote, taken, outDone, errDone>>
vars   == <<pc, result, git, body, written, inPipe, outPipe, errPipe, wrote, taken, outDone, errDone>>

\* The type invariant, with what the pipes hold: no unit is lost between git and
\* the handler or made up.
TypeOK ==
  /\ pc \in {"writing", "reading", "killing", "answered", "dropped"}
  /\ result \in {"none", "ok", "error", "timeout"}
  /\ git \in {"running", "succeeded", "failed", "killed"}
  /\ body \in 0..MaxBody /\ written \in 0..body /\ inPipe \in 0..Capacity /\ inPipe <= written
  /\ wrote \in 0..MaxOutput /\ outPipe \in 0..Capacity /\ errPipe \in 0..Capacity
  /\ taken \in 0..MaxResponse /\ taken + outPipe = wrote
  /\ outDone \in BOOLEAN /\ errDone \in BOOLEAN

\* The child has been spawned.
Init ==
  /\ pc = "writing" /\ result = "none" /\ git = "running"
  /\ body \in 0..MaxBody /\ written = 0 /\ inPipe = 0
  /\ outPipe = 0 /\ errPipe = 0 /\ wrote = 0 /\ taken = 0
  /\ outDone = FALSE /\ errDone = FALSE

Answer(r) == pc' = "answered" /\ result' = r

----------------------------------------------------------------------------
(* The handler: stdin.                                                     *)

WriteBody ==
  /\ pc = "writing" /\ git = "running"
  /\ written < body /\ inPipe < Capacity
  /\ written' = written + 1 /\ inPipe' = inPipe + 1
  /\ UNCHANGED <<pc, result, git, body, output>>

WriteFailureIgnored ==
  /\ pc = "writing" /\ git # "running" /\ written < body
  /\ pc' = "reading"
  /\ UNCHANGED <<result, git, input, output>>

\* Git is gone and the write fails: the handler answers at once.
WriteFails ==
  /\ pc = "writing" /\ git # "running" /\ written < body
  /\ Answer("error")
  /\ UNCHANGED <<git, input, output>>

\* The handle is dropped and git sees the end of its input.
CloseStdin ==
  /\ pc = "writing" /\ written = body
  /\ pc' = "reading"
  /\ UNCHANGED <<result, git, input, output>>

----------------------------------------------------------------------------
(* The handler: stdout and stderr (tokio::join!), then the exit status.    *)

ReadOutOverLimit ==
  /\ pc = "reading" /\ ~outDone /\ outPipe > 0
  /\ outPipe' = outPipe - 1 /\ taken' = taken + 1
  /\ UNCHANGED <<pc, result, git, input, errPipe, wrote, outDone, errDone>>

\* When the handler has something to read.
OutReadable == pc = "reading" /\ ~outDone /\ outPipe > 0 /\ taken < MaxResponse

ErrReadableAfterOut == pc = "reading" /\ outDone /\ ~errDone /\ errPipe > 0

ErrReadable == pc = "reading" /\ ~errDone /\ errPipe > 0

ReadOut ==
  /\ OutReadable
  /\ outPipe' = outPipe - 1 /\ taken' = taken + 1
  /\ UNCHANGED <<pc, result, git, input, errPipe, wrote, outDone, errDone>>

OutEndsWhenEmpty ==
  /\ pc = "reading" /\ ~outDone
  /\ taken = MaxResponse \/ outPipe = 0
  /\ outDone' = TRUE
  /\ UNCHANGED <<pc, result, git, input, outPipe, errPipe, wrote, taken, errDone>>

OutEnds ==
  /\ pc = "reading" /\ ~outDone
  /\ taken = MaxResponse \/ (outPipe = 0 /\ git # "running")
  /\ outDone' = TRUE
  /\ UNCHANGED <<pc, result, git, input, outPipe, errPipe, wrote, taken, errDone>>

ReadErr ==
  /\ ErrReadable
  /\ errPipe' = errPipe - 1
  /\ UNCHANGED <<pc, result, git, input, outPipe, wrote, taken, outDone, errDone>>

ErrEnds ==
  /\ pc = "reading" /\ ~errDone /\ errPipe = 0 /\ git # "running"
  /\ errDone' = TRUE
  /\ UNCHANGED <<pc, result, git, input, outPipe, errPipe, wrote, taken, outDone>>

Wait ==
  /\ pc = "reading" /\ outDone /\ errDone /\ git # "running"
  /\ Answer(IF git = "succeeded" THEN "ok" ELSE "error")
  /\ UNCHANGED <<git, input, output>>

----------------------------------------------------------------------------
(* The timeout and the client.                                             *)

TimesOutReading ==
  /\ pc = "reading"
  /\ pc' = "killing"
  /\ UNCHANGED <<result, git, input, output>>

\* GIT_TIMEOUT is over.  The handler's ends of the pipes it uses close a moment
\* before git is killed.
TimesOut ==
  /\ pc \in {"writing", "reading"}
  /\ pc' = "killing"
  /\ UNCHANGED <<result, git, input, output>>

KillForgotten ==
  /\ pc = "killing"
  /\ Answer("timeout")
  /\ UNCHANGED <<git, input, output>>

Kill ==
  /\ pc = "killing"
  /\ git' = IF git = "running" THEN "killed" ELSE git
  /\ Answer("timeout")
  /\ UNCHANGED <<input, output>>

\* The client hangs up: the handler is dropped, git is not killed.
HangUp ==
  /\ pc \in {"writing", "reading"}
  /\ pc' = "dropped"
  /\ UNCHANGED <<result, git, input, output>>

----------------------------------------------------------------------------
(* Git.                                                                    *)

GitReads ==
  /\ git = "running" /\ inPipe > 0
  /\ inPipe' = inPipe - 1
  /\ UNCHANGED <<pc, result, git, body, written, output>>

GitWrites ==
  /\ git = "running" /\ pc # "dropped"
  /\ \/ /\ outPipe < Capacity /\ wrote < MaxOutput
        /\ outPipe' = outPipe + 1 /\ wrote' = wrote + 1
        /\ UNCHANGED errPipe
     \/ /\ errPipe < Capacity
        /\ errPipe' = errPipe + 1
        /\ UNCHANGED <<outPipe, wrote>>
  /\ UNCHANGED <<pc, result, git, input, taken, outDone, errDone>>

\* At the end of its work, by an error, or by writing to a pipe nobody reads.
GitExits ==
  /\ git = "running"
  /\ git' \in {"succeeded", "failed"}
  /\ UNCHANGED <<pc, result, input, output>>

----------------------------------------------------------------------------
Serve == WriteBody \/ WriteFails \/ CloseStdin \/ ReadOut \/ OutEnds \/ ReadErr \/ ErrEnds \/ Wait \/ Kill

Next == Serve \/ TimesOut \/ HangUp \/ GitReads \/ GitWrites \/ GitExits

\* The runtime polls a handler that can go on, and timers fire.  Git owes nothing.
Spec == Init /\ [][Next]_vars /\ WF_vars(Serve) /\ WF_vars(TimesOut)

----------------------------------------------------------------------------
(* Properties.                                                             *)

\* Whatever git does or does not do, the request comes to an end ("the stdin
\* write must also be inside the timeout block", comment at repo.rs:511).
EveryCommandEnds == <>(pc \in {"answered", "dropped"})

\* A command that was answered leaves no git behind it that might still change
\* the repository; only a client that hangs up does.
AnsweredGitIsGone == pc = "answered" => git # "running"

\* A success says that git was given the whole body and succeeded, and carries all
\* that git wrote, but for what is over GIT_MAX_RESPONSE; no more than a pipe's
\* content can be cut off that way, since git waits to write the rest.
OkIsWhole ==
  result = "ok" =>
    /\ written = body /\ git = "succeeded"
    /\ taken = wrote \/ (taken = MaxResponse /\ wrote <= MaxResponse + Capacity)

\* Once the body is written git and the handler never wait for each other: a pipe
\* that git filled is read, whatever the state of the other, unless the output is
\* over GIT_MAX_RESPONSE.  (Before, they may, and only the timeout ends it.)
ReadsKeepUp ==
  pc = "reading" /\ git = "running" /\ wrote <= MaxResponse =>
    /\ outPipe = Capacity => OutReadable
    /\ errPipe = Capacity => ErrReadable
============================================================================
