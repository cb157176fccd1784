-------------------------- MODULE GitCommandProofs --------------------------
(***************************************************************************)
(* What GitCommand keeps for pipes, limits, bodies and outputs of any size.*)
(***************************************************************************)
EXTENDS GitCommand, TLAPS

USE GitCommandAssumption DEF GitCommandAssumption

LEMMA TypeStart == Init => TypeOK
<1> SUFFICES ASSUME Init PROVE TypeOK
  OBVIOUS
<1>1. /\ body \in 0..MaxBody /\ written \in 0..body /\ inPipe \in 0..Capacity /\ inPipe <= written
      /\ wrote \in 0..MaxOutput /\ outPipe \in 0..Capacity /\ errPipe \in 0..Capacity
      /\ taken \in 0..MaxResponse /\ taken + outPipe = wrote
  BY DEF Init
<1>2. outDone \in BOOLEAN /\ errDone \in BOOLEAN
  BY DEF Init
<1> QED
  BY <1>1, <1>2 DEF Init, TypeOK

LEMMA TypeStep ==
  ASSUME TypeOK, [Next]_vars
  PROVE  TypeOK'
<1>1. CASE WriteBody
  BY <1>1 DEF WriteBody, TypeOK, output
<1>2. CASE WriteFails
  BY <1>2 DEF WriteFails, Answer, TypeOK, input, output
<1>3. CASE CloseStdin
  BY <1>3 DEF CloseStdin, TypeOK, input, output
<1>4. CASE ReadOut
  BY <1>4 DEF ReadOut, OutReadable, TypeOK, input
<1>5. CASE OutEnds \/ ErrEnds
  BY <1>5 DEF OutEnds, ErrEnds, TypeOK, input
<1>6. CASE ReadErr
  BY <1>6 DEF ReadErr, ErrReadable, TypeOK, input
<1>7. CASE Wait
  BY <1>7 DEF Wait, Answer, TypeOK, input, output
<1>8. CASE TimesOut \/ HangUp
  BY <1>8 DEF TimesOut, HangUp, TypeOK, input, output
<1>9. CASE Kill
  BY <1>9 DEF Kill, Answer, TypeOK, input, output
<1>10. CASE GitReads
  BY <1>10 DEF GitReads, TypeOK, output
<1>11. CASE GitWrites
  BY <1>11 DEF GitWrites, TypeOK, input
<1>12. CASE GitExits
  BY <1>12 DEF GitExits, TypeOK, input, output
<1>13. CASE UNCHANGED vars
  BY <1>13 DEF vars, TypeOK
<1> QED
  BY <1>1, <1>2, <1>3, <1>4, <1>5, <1>6, <1>7, <1>8, <1>9, <1>10, <1>11, <1>12, <1>13
  DEF Next, Serve

\* The handler, the child and the pipes keep their shapes, and no unit of git's
\* output is lost or made up.
THEOREM TypeCorrect == Spec => []TypeOK
  BY TypeStart, TypeStep, PTL DEF Spec

----------------------------------------------------------------------------
\* Why a success is whole: each phase of the handler remembers what the phases
\* before it have waited for.
Phases ==
  /\ pc = "reading" => written = body
  /\ outDone => taken = MaxResponse \/ (outPipe = 0 /\ git # "running")
  /\ result # "none" => pc = "answered"
  /\ result = "ok" => outDone
  /\ AnsweredGitIsGone
  /\ OkIsWhole

LEMMA PhasesStart == Init => Phases
  BY DEF Init, Phases, AnsweredGitIsGone, OkIsWhole

LEMMA PhasesStep ==
  ASSUME TypeOK, Phases, [Next]_vars
  PROVE  Phases'
<1> USE DEF Phases, AnsweredGitIsGone, OkIsWhole
<1>1. CASE WriteBody
  BY <1>1 DEF WriteBody, TypeOK, output
<1>2. CASE WriteFails
  BY <1>2 DEF WriteFails, Answer, TypeOK, input, output
<1>3. CASE CloseStdin
  BY <1>3 DEF CloseStdin, input, output
<1>4. CASE ReadOut
  BY <1>4 DEF ReadOut, OutReadable, TypeOK, input
<1>5. CASE OutEnds \/ ErrEnds
  BY <1>5 DEF OutEnds, ErrEnds, TypeOK, input
<1>6. CASE ReadErr
  BY <1>6 DEF ReadErr, ErrReadable, TypeOK, input
<1>7. CASE Wait
  \* The output the handler has not read is what the pipe still holds.
  <2>1. taken = wrote \/ (taken = MaxResponse /\ wrote <= MaxResponse + Capacity)
    BY <1>7 DEF Wait, TypeOK
  <2> QED
    BY <1>7, <2>1 DEF Wait, Answer, input, output
<1>8. CASE TimesOut \/ HangUp
  BY <1>8 DEF TimesOut, HangUp, input, output
<1>9. CASE Kill
  BY <1>9 DEF Kill, Answer, TypeOK, input, output
<1>10. CASE GitReads
  BY <1>10 DEF GitReads, output
<1>11. CASE GitWrites
  BY <1>11 DEF GitWrites, TypeOK, input
<1>12. CASE GitExits
  BY <1>12 DEF GitExits, input, output
<1>13. CASE UNCHANGED vars
  BY <1>13 DEF vars
<1> QED
  BY <1>1, <1>2, <1>3, <1>4, <1>5, <1>6, <1>7, <1>8, <1>9, <1>10, <1>11, <1>12, <1>13
  DEF Next, Serve

LEMMA PhasesHold == Spec => []Phases
  BY TypeStart, TypeStep, PhasesStart, PhasesStep, PTL DEF Spec

\* AnsweredGitIsGone, whatever the sizes: the timeout's kill and the wait for the
\* exit status leave no git behind an answer.
THEOREM NoGitBehindAnAnswer == Spec => []AnsweredGitIsGone
<1>1. Phases => AnsweredGitIsGone
  BY DEF Phases
<1> QED
  BY <1>1, PhasesHold, PTL

\* OkIsWhole, whatever the sizes: a success had the whole body written to a git that
\* succeeded, and lacks at most what one pipe holds, beyond GIT_MAX_RESPONSE.
THEOREM SuccessIsWhole == Spec => []OkIsWhole
<1>1. Phases => OkIsWhole
  BY DEF Phases
<1> QED
  BY <1>1, PhasesHold, PTL

----------------------------------------------------------------------------
\* Which reads have ended: that of stderr only when git is gone.
ReadsEnd ==
  /\ errDone => git # "running"
  /\ Phases

LEMMA ReadsEndStep ==
  ASSUME TypeOK, ReadsEnd, [Next]_vars
  PROVE  ReadsEnd'
<1>1. Phases'
  BY PhasesStep DEF ReadsEnd
<1>2. errDone' => git' # "running"
  BY DEF ReadsEnd, Next, Serve, WriteBody, WriteFails, CloseStdin, ReadOut, OutEnds, ReadErr, ErrEnds,
         Wait, TimesOut, HangUp, Kill, GitReads, GitWrites, GitExits, Answer, input, output, vars
<1> QED
  BY <1>1, <1>2 DEF ReadsEnd

\* ReadsKeepUp, whatever the sizes: a pipe that git has filled while the handler reads is
\* read on, the state of the other pipe notwithstanding, as long as git's output is within
\* GIT_MAX_RESPONSE (tokio::join! on both).
THEOREM FullPipesAreRead == Spec => []ReadsKeepUp
<1>1. Init => ReadsEnd
  BY PhasesStart DEF Init, ReadsEnd
<1>2. TypeOK /\ ReadsEnd => ReadsKeepUp
  BY DEF TypeOK, ReadsEnd, Phases, ReadsKeepUp, OutReadable, ErrReadable
<1> QED
  BY <1>1, <1>2, TypeStart, TypeStep, ReadsEndStep, PTL DEF Spec
=============================================================================
