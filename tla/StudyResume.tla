----------------------------- MODULE StudyResume -----------------------------
(***************************************************************************)
(* The installed A/B study across interruptions: executeStudy,             *)
(* loadResumeCheckpoint and persistStudyCheckpoint of                      *)
(* evals/studies/installed-ab/run.go on one --out directory.               *)
(*                                                                         *)
(* One runner at a time works through the schedule.  It may die or return  *)
(* with an error between any two file operations (Abort) and is started    *)
(* again, with or without --resume.  A file is replaced by a rename, so it *)
(* holds the old content or the new.                                       *)
(***************************************************************************)
EXTENDS Naturals, Sequences

CONSTANTS
    Arms,       \* number of arms in the schedule
    Versions,   \* harness CLI versions
    Configs,    \* everything manifestIdentityMismatch and the row fields compare
    MaxStarts,  \* bound: runners started
    None        \* no file, no version to expect

ASSUME ArmsAssumption == Arms \in Nat \ {0}
ASSUME StartsAssumption == MaxStarts \in Nat
ASSUME NoneAssumption == None \notin Versions

VARIABLES
    installed,   \* the version of the harness CLI
    checkpoint,  \* .resume-checkpoint.json
    results,     \* publish/results.jsonl
    manifest,    \* publish/manifest.json: the arms it lists
    pc,          \* where the runner is
    runner,      \* its local variables
    starts       \* runners started

disk == <<checkpoint, results, manifest>>
vars == <<installed, disk, pc, runner, starts>>

-----------------------------------------------------------------------------
(* Rows *)

\* position: the place in the schedule, which names the block, the arm and the case.
\* stamp: the timestamp, named by the start that chose it.
Row ==
    [position : 1..Arms, completed : BOOLEAN, version : Versions, stamp : 1..MaxStarts,
     config : Configs]

Rows == Seq(Row)

\* The completed rows, of rows that can only fail at the end.
Completed(rows) ==
    IF rows # << >> /\ ~rows[Len(rows)].completed
    THEN SubSeq(rows, 1, Len(rows) - 1)
    ELSE rows

Checkpoint == [config : Configs, rows : Rows]

ASSUME CheckpointAssumption == None \notin Checkpoint

\* then: what the runner does once its rows are on disk.
Runner ==
    [config : Configs, stamp : 1..MaxStarts, rows : Rows, expected : Versions \cup {None},
     then : {"arm", "fail", "remove"}]

TypeOK ==
    /\ installed \in Versions
    /\ checkpoint \in Checkpoint \cup {None}
    /\ results \in Rows \cup {None}
    /\ manifest \in Rows \cup {None}
    /\ pc \in {"down", "load", "arm", "checkpoint", "results", "manifest", "remove"}
    /\ pc # "down" => runner \in Runner
    /\ starts \in 0..MaxStarts

-----------------------------------------------------------------------------
(* loadResumeCheckpoint *)

ExactPrefix(rows) == Len(rows) <= Arms /\ \A i \in DOMAIN rows : rows[i].position = i

OneStamp(rows) == \A i, j \in DOMAIN rows : rows[i].stamp = rows[j].stamp

OneConfig(rows, config) == \A i \in DOMAIN rows : rows[i].config = config

OneVersion(rows) ==
    \A i, j \in DOMAIN rows :
      rows[i].completed /\ rows[j].completed => rows[i].version = rows[j].version

FailureIsLast(rows) == \A i \in DOMAIN rows : ~rows[i].completed => i = Len(rows)

WellFormed(rows, config) ==
    /\ ExactPrefix(rows)
    /\ OneStamp(rows)
    /\ OneConfig(rows, config)
    /\ FailureIsLast(rows)

\* What --resume accepts.
Accepted(config) ==
    /\ checkpoint # None
    /\ checkpoint.config = config
    /\ checkpoint.rows # << >>
    /\ WellFormed(checkpoint.rows, config)
    /\ OneVersion(checkpoint.rows)

-----------------------------------------------------------------------------
(* The runner *)

Init ==
    /\ installed \in Versions
    /\ checkpoint = None
    /\ results = None
    /\ manifest = None
    /\ pc = "down"
    /\ runner = None
    /\ starts = 0

Start ==
    /\ pc = "down"
    /\ starts < MaxStarts
    /\ starts' = starts + 1
    /\ \E config \in Configs :
         runner' = [config |-> config, stamp |-> starts + 1, rows |-> << >>,
                    expected |-> None, then |-> "arm"]
    /\ pc' \in {"load", "arm"}
    /\ UNCHANGED <<installed, disk>>

\* A signal or an I/O error; a run that ended also has no runner.
Down ==
    /\ pc' = "down"
    /\ runner' = None
    /\ UNCHANGED <<installed, starts>>

Abort ==
    /\ pc # "down"
    /\ Down
    /\ UNCHANGED disk

Refuse ==
    /\ pc = "load"
    /\ ~Accepted(runner.config)
    /\ Down
    /\ UNCHANGED disk

\* Mutant: the resumed run keeps its own timestamp.
LoadKeepingStamp ==
    /\ pc = "load"
    /\ Accepted(runner.config)
    /\ LET rows == Completed(checkpoint.rows) IN
         runner' = [runner EXCEPT
                      !.rows = rows,
                      !.expected = IF rows = << >> THEN None ELSE rows[1].version]
    /\ pc' = "checkpoint"
    /\ UNCHANGED <<installed, disk, starts>>

\* Mutant: the failed row stays.
LoadKeepingFailure ==
    /\ pc = "load"
    /\ Accepted(runner.config)
    /\ LET rows == checkpoint.rows IN
         runner' = [runner EXCEPT
                      !.rows = rows,
                      !.stamp = rows[1].stamp,
                      !.expected = rows[1].version]
    /\ pc' = "checkpoint"
    /\ UNCHANGED <<installed, disk, starts>>

\* Mutant: only the schedule identity is taken over, not the rows.
LoadForgettingRows ==
    /\ pc = "load"
    /\ Accepted(runner.config)
    /\ runner' = [runner EXCEPT !.stamp = checkpoint.rows[1].stamp]
    /\ pc' = "checkpoint"
    /\ UNCHANGED <<installed, disk, starts>>

\* The completed rows, their timestamp and their version are taken over, and what
\* is left is written back at once.
Load ==
    /\ pc = "load"
    /\ Accepted(runner.config)
    /\ LET rows == Completed(checkpoint.rows) IN
         runner' = [runner EXCEPT
                      !.rows = rows,
                      !.stamp = checkpoint.rows[1].stamp,
                      !.expected = IF rows = << >> THEN None ELSE rows[1].version]
    /\ pc' = "checkpoint"
    /\ UNCHANGED <<installed, disk, starts>>

\* Mutant: the position counts one too far.
NextRowSkipping(completed) ==
    [position |-> Len(runner.rows) + 2, completed |-> completed, version |-> installed,
     stamp |-> runner.stamp, config |-> runner.config]

NextRow(completed) ==
    [position |-> Len(runner.rows) + 1, completed |-> completed, version |-> installed,
     stamp |-> runner.stamp, config |-> runner.config]

\* Mutant: the version of a resumed run is not compared.
VersionMatchesAnything == TRUE

\* A resumed run goes on with the version its completed rows were made with.
VersionMatches == runner.expected \in {None, installed}

\* The actor's result, or an infrastructure failure, which ends the run.
RunArm ==
    /\ pc = "arm"
    /\ Len(runner.rows) < Arms
    /\ \E completed \in IF VersionMatches THEN BOOLEAN ELSE {FALSE} :
         runner' = [runner EXCEPT !.rows = Append(@, NextRow(completed)),
                                  !.then = IF completed THEN "arm" ELSE "fail"]
    /\ pc' = "checkpoint"
    /\ UNCHANGED <<installed, disk, starts>>

\* Mutant: the last arm is not run.
FinishArmsEarly ==
    /\ pc = "arm"
    /\ Len(runner.rows) + 1 >= Arms
    /\ runner' = [runner EXCEPT !.then = "remove"]
    /\ pc' = "results"
    /\ UNCHANGED <<installed, disk, starts>>

FinishArms ==
    /\ pc = "arm"
    /\ Len(runner.rows) = Arms
    /\ runner' = [runner EXCEPT !.then = "remove"]
    /\ pc' = "results"
    /\ UNCHANGED <<installed, disk, starts>>

\* Mutant: the row is appended after the checkpoint is written.
WriteCheckpointBeforeAppend ==
    /\ pc = "checkpoint"
    /\ checkpoint' = [config |-> runner.config,
                      rows |-> SubSeq(runner.rows, 1, Len(runner.rows) - 1)]
    /\ pc' = "results"
    /\ UNCHANGED <<installed, results, manifest, runner, starts>>

WriteCheckpoint ==
    /\ pc = "checkpoint"
    /\ checkpoint' = [config |-> runner.config, rows |-> runner.rows]
    /\ pc' = "results"
    /\ UNCHANGED <<installed, results, manifest, runner, starts>>

WriteResults ==
    /\ pc = "results"
    /\ results' = runner.rows
    /\ pc' = "manifest"
    /\ UNCHANGED <<installed, checkpoint, manifest, runner, starts>>

\* The last write of a persisted arm, or of the study.
WriteManifest ==
    /\ pc = "manifest"
    /\ manifest' = runner.rows
    /\ UNCHANGED <<checkpoint, results>>
    /\ \/ runner.then = "fail" /\ Down
       \/ /\ runner.then # "fail"
          /\ pc' = runner.then
          /\ UNCHANGED <<installed, runner, starts>>

RemoveCheckpoint ==
    /\ pc = "remove"
    /\ checkpoint' = None
    /\ Down
    /\ UNCHANGED <<results, manifest>>

\* The CLI is updated, also while a runner works through its arms.
Upgrade ==
    /\ installed' \in Versions
    /\ UNCHANGED <<disk, pc, runner, starts>>

Next ==
    \/ Start \/ Abort \/ Refuse \/ Load
    \/ RunArm \/ FinishArms
    \/ WriteCheckpoint \/ WriteResults \/ WriteManifest \/ RemoveCheckpoint
    \/ Upgrade

Spec == Init /\ [][Next]_vars

-----------------------------------------------------------------------------
(* Properties *)

IsPrefix(r, s) == Len(r) <= Len(s) /\ \A i \in DOMAIN r : r[i] = s[i]

\* Whatever runs, dies and resumes, in whatever order, the rows of the checkpoint
\* are what loadResumeCheckpoint takes for an exact prefix of one run, with a failed
\* arm only at its end: no crash between two writes, failed arm or second resume
\* leaves a duplicate, a gap, rows of two runs or a failure that others follow.
CheckpointWellFormed ==
    checkpoint # None => WellFormed(checkpoint.rows, checkpoint.config)

\* So are the rows of each published file, also after a crash between two writes.
PublishedIsOneRun ==
    \A file \in {results, manifest} :
      (file # None /\ file # << >>) => WellFormed(file, file[1].config)

\* persistStudyCheckpoint writes the checkpoint first: a completed arm that is
\* published is in the checkpoint too, so that no resume runs it a second time.
CheckpointLeads ==
    \A file \in {results, manifest} :
      (/\ checkpoint # None /\ checkpoint.rows # << >>
       /\ file # None /\ file # << >>
       /\ file[1].stamp = checkpoint.rows[1].stamp)
        => IsPrefix(Completed(file), checkpoint.rows)

\* A run that goes on with the checkpoint's timestamp never loses or changes a
\* completed row of it.
ProgressKept ==
    [][(/\ checkpoint' # checkpoint /\ checkpoint # None /\ checkpoint' # None
        /\ checkpoint.rows # << >> /\ runner.stamp = checkpoint.rows[1].stamp)
         => IsPrefix(Completed(checkpoint.rows), checkpoint'.rows)]_vars

\* A resumed run with completed rows never mixes the versions of the CLI, though it
\* is updated at any time: what it adds to the checkpoint was made with the version
\* of what it took over.
VersionKept ==
    [][(checkpoint' # checkpoint /\ checkpoint' # None /\ runner.expected # None)
         => OneVersion(checkpoint'.rows)]_vars

\* The checkpoint goes away only once the whole schedule is published, by this run.
RemovedWhenComplete ==
    [][(checkpoint # None /\ checkpoint' = None)
         => /\ Len(results) = Arms
            /\ \A i \in DOMAIN results : results[i].completed
            /\ manifest = results
            /\ checkpoint.rows = results]_vars

\* "Restart an interrupted run with the same command plus --resume": a checkpoint
\* left behind is one that --resume accepts.  Refuted: a resumed run whose first arm
\* had failed writes back an empty one, and a first run does not notice that the
\* CLI was updated between two of its arms.
CheckpointResumable ==
    (pc = "down" /\ checkpoint # None) => Accepted(checkpoint.config)
=============================================================================
