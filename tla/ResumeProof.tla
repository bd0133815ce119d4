------------------------------ MODULE ResumeProof ------------------------------
(***************************************************************************)
(* The resume-proof study (evals/studies/resume-proof/run.go): a session   *)
(* starts an autonomous run and stops after its first criterion, and a     *)
(* session without its memory is to finish it.  runOne grades what the two *)
(* left in the repository.                                                 *)
(*                                                                         *)
(* A session does what it was asked to but for some deviations, those of   *)
(* the selftest's scripted actors.  A path listed twice in --paths, or an  *)
(* --out used before, repeats a repetition in its old repository.          *)
(***************************************************************************)
EXTENDS Integers, Sequences, FiniteSets, SequencesExt

CONSTANTS
    Criteria, First, Second,  \* C1 to C3; C1 and C2 of them
    Schedules,      \* the repetitions a study may be given, as [path, rep]
    MaxDeviations,  \* of the sessions of one study
    NoRecords       \* HEAD has no run records

ASSUME ProofConstants ==
    /\ {First, Second} \subseteq Criteria
    /\ \A s \in Schedules : s \in Seq(ToSet(s)) /\ s # << >>
    /\ MaxDeviations \in Nat

VARIABLES
    schedule, canCompact,  \* --paths and --reps, and supportsCompact
    repetition, proofAt, \* the repetition and where it is
    repos,      \* the repository of each directory
    commits,    \* the commits so far: a HEAD is a number
    base,       \* HEAD after setup
    seen,       \* the repository as the runner read it after session 1
    memory,     \* of session 1, in the session that will finish the run
    compacted,  \* the /compact session reported a boundary
    deviations, \* so far
    verdicts    \* of the rows so far

proofVars ==
    <<schedule, canCompact, repetition, proofAt, repos, commits, base, seen, memory, compacted,
      deviations, verdicts>>

Dir == schedule[repetition]
Path == Dir.path
Repo == repos[Dir]
Dirs == UNION {ToSet(s) : s \in Schedules}

-----------------------------------------------------------------------------
(* setup *)

\* Nothing there: no commit, no code, no records.
Empty ==
    [head |-> 0, tracked |-> << >>, done |-> {}, tests |-> {}, extra |-> FALSE, ignored |-> FALSE,
     charter |-> {}, journal |-> << >>, checkpoint |-> << >>, handoff |-> FALSE]

Records(r) == <<r.charter, r.journal, r.checkpoint, r.handoff>>

\* What git add -A stages of a repository: run records count unless git ignores them.
StagedTree(r) ==
    [done |-> r.done, tests |-> r.tests, extra |-> r.extra,
     records |-> IF \/ (r.ignored /\ (r.head = 0 \/ r.tracked.records = NoRecords))
                    \/ (Records(r) = Records(Empty))
                 THEN NoRecords ELSE Records(r)]

WithFixture(r) == [r EXCEPT !.done = {}, !.tests = Criteria]

Conclude(verdict) ==
    /\ proofAt' = "next"
    /\ verdicts' = Append(verdicts, verdict)

ProofInit ==
    /\ schedule \in Schedules
    /\ canCompact \in BOOLEAN
    /\ repetition = 1 /\ proofAt = "setup"
    /\ repos = [d \in Dirs |-> Empty]
    /\ commits = 0 /\ base = 0
    /\ seen = Empty
    /\ memory = "none"
    /\ compacted = FALSE
    /\ deviations = 0
    /\ verdicts = << >>

\* The path is unknown or not supported, or its directory cannot be made.
RejectRepetition ==
    /\ proofAt = "setup"
    /\ \/ Path = "compact" /\ ~canCompact /\ Conclude("skipped")
       \/ (Path = "compact" => canCompact) /\ Conclude("error")
    /\ UNCHANGED <<schedule, canCompact, repetition, repos, commits, base, seen, memory, compacted,
                   deviations>>

\* The fixture is written over what is there; git commit fails when nothing has changed.
Setup ==
    /\ proofAt = "setup"
    /\ Path = "fresh" \/ (Path = "compact" /\ canCompact)
    /\ LET r == WithFixture(Repo) IN
         IF r.head # 0 /\ StagedTree(r) = r.tracked
         THEN /\ repos' = [repos EXCEPT ![Dir] = r]
              /\ Conclude("error")
              /\ UNCHANGED <<commits, base>>
         ELSE /\ commits' = commits + 1
              /\ base' = commits'
              /\ repos' = [repos EXCEPT
                             ![Dir] = [r EXCEPT !.head = commits', !.tracked = StagedTree(r)]]
              /\ proofAt' = "first"
              /\ UNCHANGED verdicts
    /\ memory' = "none" /\ compacted' = FALSE
    /\ UNCHANGED <<schedule, canCompact, repetition, seen, deviations>>

-----------------------------------------------------------------------------
(* The sessions *)

Deviations ==
    {"idle", "overrun", "commits", "extraFile", "weakenTests", "unrecorded", "rewriteJournal",
     "invalidJournal", "staleCheckpoint", "changeCharter", "missingHandoff", "excludes", "fails"}

Line(me, head, dev) == [by |-> me, head |-> head, valid |-> "invalidJournal" \notin dev]

\* The test that a session weakens is the one of a criterion it leaves undone.
Hard(me) == IF me.session = 1 THEN First ELSE Second

\* A session does its work and records it; then it commits, if it does.
Worked(r, me, work, dev) ==
    [r EXCEPT
       !.done = IF "idle" \in dev THEN @
                ELSE IF "weakenTests" \in dev THEN work \ {Hard(me)}
                ELSE IF "overrun" \in dev THEN Criteria ELSE work,
       !.tests = IF "weakenTests" \in dev THEN @ \ {Hard(me)} ELSE @,
       !.extra = @ \/ "extraFile" \in dev,
       !.ignored = @ \/ "excludes" \in dev,
       !.charter = IF "changeCharter" \in dev THEN Criteria \ {Second}
                   ELSE IF me.session = 1 THEN Criteria ELSE @,
       !.journal = IF "unrecorded" \in dev THEN @
                   ELSE IF "rewriteJournal" \in dev THEN <<Line(me, r.head, dev)>>
                   ELSE Append(@, Line(me, r.head, dev)),
       !.checkpoint = IF "staleCheckpoint" \in dev THEN @ ELSE <<[by |-> me, head |-> r.head]>>,
       !.handoff = "missingHandoff" \notin dev]

\* git commit -a takes what is tracked, and fails when none of that has changed.
Committed(r, dev) ==
    LET tree == [r.tracked EXCEPT !.done = r.done, !.tests = r.tests,
                                  !.records = IF @ = NoRecords THEN @ ELSE Records(r)] IN
      IF "commits" \in dev /\ tree # r.tracked
      THEN [r EXCEPT !.head = commits + 1, !.tracked = tree]
      ELSE r

Session(session, work, next) ==
    \E dev \in SUBSET Deviations :
      /\ deviations + Cardinality(dev) <= MaxDeviations
      /\ deviations' = deviations + Cardinality(dev)
      /\ repos' = [repos EXCEPT ![Dir] =
                     Committed(Worked(@, [rep |-> repetition, session |-> session], work, dev),
                               dev)]
      /\ commits' = IF "commits" \in dev THEN commits + 1 ELSE commits
      /\ IF "fails" \in dev THEN Conclude("error") ELSE proofAt' = next /\ UNCHANGED verdicts
      /\ UNCHANGED <<schedule, canCompact, repetition, base, compacted>>

FirstSession ==
    /\ proofAt = "first"
    /\ Session(1, {First}, "judge")
    /\ UNCHANGED <<seen, memory>>

\* A repetition whose first session did not stop as asked says nothing of the second.
\* Mutant: the criterion that is left to do is not looked at.
StoppedSomewhere(r) ==
    First \in r.done /\ r.charter = Criteria /\ r.journal # << >> /\ r.checkpoint # << >>

StoppedAsAsked(r) ==
    /\ First \in r.done /\ Second \notin r.done
    /\ r.charter = Criteria
    /\ r.journal # << >> /\ r.checkpoint # << >>

JudgeFirst ==
    /\ proofAt = "judge"
    /\ seen' = Repo
    /\ IF StoppedAsAsked(Repo)
       THEN /\ proofAt' = IF Path = "compact" THEN "compact" ELSE "recover"
            /\ memory' = IF Path = "compact" THEN "full" ELSE "none"
            /\ UNCHANGED verdicts
       ELSE Conclude("indeterminate") /\ UNCHANGED memory
    /\ UNCHANGED <<schedule, canCompact, repetition, repos, commits, base, compacted, deviations>>

\* The same session is asked to compact, and may not.
Compact ==
    /\ proofAt = "compact"
    /\ \/ /\ compacted' = TRUE /\ memory' = "summary" /\ proofAt' = "recover"
          /\ UNCHANGED <<verdicts, deviations>>
       \/ /\ deviations < MaxDeviations /\ deviations' = deviations + 1
          /\ UNCHANGED <<compacted, memory>>
          /\ \/ proofAt' = "recover" /\ UNCHANGED verdicts
             \/ Conclude("error")
    /\ UNCHANGED <<schedule, canCompact, repetition, repos, commits, base, seen>>

Recover ==
    /\ proofAt = "recover"
    /\ Session(2, Criteria, "grade")
    /\ UNCHANGED <<seen, memory>>

-----------------------------------------------------------------------------
(* Grading *)

\* journalAppended: whole lines follow those of session 1, and every one names HEAD.
\* Mutant: the lines need only be lines.
JournalGrew(before, after, head) ==
    /\ Len(after) > Len(before) /\ IsPrefix(before, after)
    /\ \A i \in DOMAIN after : after[i].valid

\* Mutant: the history may have been written anew.
JournalNamesHead(before, after, head) ==
    /\ Len(after) > 0 /\ \A i \in DOMAIN after : after[i].valid /\ after[i].head = head

JournalAppended(before, after, head) ==
    /\ Len(after) > Len(before) /\ IsPrefix(before, after)
    /\ \A i \in DOMAIN after : after[i].valid /\ after[i].head = head

\* Mutant: a checkpoint that is there.
CheckpointPresent(before, after, head) == \E c \in ToSet(after) : c.head = head

CheckpointMatches(before, after, head) ==
    before # after /\ \E c \in ToSet(after) : c.head = head

\* Mutant: the tests as the actor left them.
AllTestsPass(r) == r.tests \subseteq r.done

OriginalTestsPass(r) == Criteria \subseteq r.done

InScope(r) == r.extra => r.tracked.extra

Recovered(r) ==
    /\ AllTestsPass(r) /\ OriginalTestsPass(r)
    /\ r.head = base
    /\ InScope(r)
    /\ JournalAppended(seen.journal, r.journal, r.head)
    /\ CheckpointMatches(seen.checkpoint, r.checkpoint, r.head)
    /\ r.charter = Criteria
    /\ r.handoff

\* Mutant: a session that did not compact is graded too.
VerdictOfAny(r) == IF Recovered(r) THEN "pass" ELSE "fail"

Verdict(r) ==
    IF Path = "compact" /\ ~compacted THEN "indeterminate"
    ELSE IF Recovered(r) THEN "pass" ELSE "fail"

GradeRecovery ==
    /\ proofAt = "grade"
    /\ Conclude(Verdict(Repo))
    /\ UNCHANGED <<schedule, canCompact, repetition, repos, commits, base, seen, memory, compacted,
                   deviations>>

\* The rows are written when all repetitions are over.
NextRepetition ==
    /\ proofAt = "next"
    /\ IF repetition = Len(schedule) THEN proofAt' = "written" /\ UNCHANGED repetition
                            ELSE proofAt' = "setup" /\ repetition' = repetition + 1
    /\ UNCHANGED <<schedule, canCompact, repos, commits, base, seen, memory, compacted, deviations,
                   verdicts>>

ProofNext ==
    \/ RejectRepetition \/ Setup \/ FirstSession \/ JudgeFirst \/ Compact \/ Recover
    \/ GradeRecovery \/ NextRepetition

ProofSpec == ProofInit /\ [][ProofNext]_proofVars

-----------------------------------------------------------------------------
(* Properties *)

\* Every repetition has one verdict when it is over, and none before.
ProofTypeOK ==
    /\ schedule \in Schedules /\ repetition \in DOMAIN schedule /\ canCompact \in BOOLEAN
    /\ proofAt \in {"setup", "first", "judge", "compact", "recover", "grade", "next", "written"}
    /\ verdicts \in Seq({"pass", "fail", "indeterminate", "error", "skipped"})
    /\ Len(verdicts) = IF proofAt \in {"next", "written"} THEN repetition ELSE repetition - 1
    /\ memory \in {"none", "summary", "full"}
    /\ compacted \in BOOLEAN
    /\ deviations \in 0..MaxDeviations
    /\ \A d \in Dirs : /\ repos[d].head \in 0..commits
                       /\ repos[d].done \cup repos[d].tests \cup repos[d].charter \subseteq Criteria

RecoveryPassed == proofAt = "next" /\ Last(verdicts) = "pass"

\* A pass is a recovery: session 2 did what session 1 had left, for every criterion's own
\* test, without a commit, and could not remember session 1.  It went on with the history
\* it found, and every line of that is of this repetition - also in a repository that has
\* an earlier repetition's records (runOne, journalAppended, originalTest).
PassIsARecovery ==
    RecoveryPassed =>
      /\ Second \notin seen.done /\ Repo.done = Criteria
      /\ Repo.head = base
      /\ memory # "full"
      /\ IsPrefix(seen.journal, Repo.journal)
      /\ \A line \in ToSet(Repo.journal) : line.by.rep = repetition
      /\ {line.by.session : line \in ToSet(Repo.journal)} = {1, 2}
      /\ \A c \in ToSet(Repo.checkpoint) : c.by = [rep |-> repetition, session |-> 2]

\* A recovery fails only where there was something to recover, in a directory that no
\* repetition has used before: records of session 1, and a criterion it left undone.
FailureHadAChance ==
    /\ proofAt = "next" /\ Last(verdicts) = "fail"
    /\ \A k \in 1..repetition - 1 : schedule[k] # Dir
    =>
      /\ Second \notin seen.done
      /\ [rep |-> repetition, session |-> 1] \in {line.by : line \in ToSet(seen.journal)}
      /\ \A c \in ToSet(seen.checkpoint) : c.by = [rep |-> repetition, session |-> 1]
================================================================================
