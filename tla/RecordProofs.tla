---------------------------- MODULE RecordProofs ----------------------------
(***************************************************************************)
(* What the records of a study guarantee: the rows its runner keeps in     *)
(* three files (StudyResume), for every schedule, every set of versions    *)
(* and configurations and any number of restarts; and the receipts the     *)
(* broker collects during an arm (ReceiptCollector), for any number of     *)
(* wrapped commands, any bound on runs and any number of project edits.    *)
(* Nothing here relates the one to the other.                              *)
(***************************************************************************)
EXTENDS StudyResume, ReceiptCollector, FiniteSetTheorems, SequenceTheorems, TLAPS

-----------------------------------------------------------------------------
(* The rows: the runner's own are a prefix of the schedule, and what it has  *)
(* written equals them.                                                      *)

AllCompleted(rows) == \A i \in DOMAIN rows : rows[i].completed

RunnerRows ==
    pc # "down" =>
      /\ ExactPrefix(runner.rows)
      /\ OneConfig(runner.rows, runner.config)
      /\ FailureIsLast(runner.rows)
      /\ \A i \in DOMAIN runner.rows : runner.rows[i].stamp = runner.stamp
      /\ \A i \in DOMAIN runner.rows :
           runner.expected # None /\ runner.rows[i].completed
             => runner.rows[i].version = runner.expected
      /\ runner.then # "fail" => AllCompleted(runner.rows)
      /\ pc = "arm" => runner.then = "arm"
      /\ pc = "remove" => runner.then = "remove"
      /\ pc = "load" => runner.rows = << >>

\* What the runner has written so far.
Written ==
    /\ (pc \in {"arm", "results", "manifest", "remove"} /\ runner.rows # << >>)
         => checkpoint.rows = runner.rows
    /\ pc \in {"manifest", "remove"} => results = runner.rows
    /\ pc = "remove" => manifest = runner.rows
    /\ (pc # "down" /\ runner.then = "remove")
         => Len(runner.rows) = Arms /\ pc \in {"results", "manifest", "remove"}

IInv ==
    /\ TypeOK
    /\ RunnerRows
    /\ Written
    /\ CheckpointWellFormed
    /\ PublishedIsOneRun

-----------------------------------------------------------------------------

\* Rows that share the runner's stamp are an exact prefix of one run.
LEMMA RunnerWellFormed ==
    ASSUME TypeOK, RunnerRows, pc # "down"
    PROVE  WellFormed(runner.rows, runner.config)
  BY DEF TypeOK, RunnerRows, WellFormed, OneStamp

\* Dropping a final failed row keeps what is asked of rows, and leaves completed ones.
LEMMA CompletedRows ==
    ASSUME NEW rows \in Rows, NEW config, WellFormed(rows, config)
    PROVE  /\ Completed(rows) \in Rows
           /\ WellFormed(Completed(rows), config)
           /\ AllCompleted(Completed(rows))
           /\ Len(Completed(rows)) <= Len(rows)
           /\ \A i \in DOMAIN Completed(rows) : i \in DOMAIN rows /\ Completed(rows)[i] = rows[i]
  <1>1. CASE rows # << >> /\ ~rows[Len(rows)].completed
    <2> DEFINE cut == SubSeq(rows, 1, Len(rows) - 1)
    <2>1. Completed(rows) = cut
      BY <1>1 DEF Completed
    <2>2. /\ cut \in Seq(Row) /\ Len(cut) = Len(rows) - 1 /\ Len(rows) \in Nat
          /\ \A i \in 1..Len(cut) : cut[i] = rows[i] /\ i \in 1..Len(rows) /\ i # Len(rows)
      <3>1. rows \in Seq(Row) /\ Len(rows) \in Nat /\ Len(rows) > 0
        BY <1>1 DEF Rows
      <3>2. \A i \in 1..(Len(rows) - 1) : rows[i] \in Row
        BY <3>1, ElementOfSeq
      <3> DEFINE last == Len(rows) - 1
      <3>3. 1 \in Int /\ last \in Int /\ \A i \in 1..last : rows[i] \in Row
        BY <3>1, <3>2
      <3> HIDE DEF last
      <3>4. /\ SubSeq(rows, 1, last) \in Seq(Row)
            /\ Len(SubSeq(rows, 1, last)) = IF 1 <= last THEN last - 1 + 1 ELSE 0
            /\ \A i \in 1..(last - 1 + 1) : SubSeq(rows, 1, last)[i] = rows[1 + i - 1]
        BY ONLY <3>3, SubSeqProperties, SMTT(30)
      <3>5. cut = SubSeq(rows, 1, last) /\ last = Len(rows) - 1
        BY DEF last
      <3> HIDE DEF cut
      <3>6. /\ cut \in Seq(Row)
            /\ Len(cut) = last
            /\ \A i \in 1..Len(cut) : cut[i] = rows[i]
        <4>1. last \in Nat /\ last - 1 + 1 = last /\ \A i \in 1..last : 1 + i - 1 = i
          BY <3>1, <3>5
        <4>2. Len(cut) = last
          BY <3>4, <3>5, <4>1
        <4>3. ASSUME NEW i \in 1..last PROVE cut[i] = rows[i]
          BY <3>4, <3>5, <4>1
        <4> QED BY <3>4, <3>5, <4>2, <4>3
      <3> QED BY <3>1, <3>5, <3>6
    <2>3. DOMAIN cut = 1..Len(cut) /\ DOMAIN rows = 1..Len(rows)
      BY <2>2 DEF Rows
    <2> HIDE DEF cut
    <2>4. AllCompleted(cut)
      BY <2>2, <2>3 DEF AllCompleted, WellFormed, FailureIsLast
    <2>5. ExactPrefix(cut) /\ OneStamp(cut) /\ OneConfig(cut, config)
      <3>1. ExactPrefix(cut)
        <4>1. Len(rows) <= Arms /\ \A i \in DOMAIN rows : rows[i].position = i
          BY DEF WellFormed, ExactPrefix
        <4>2. Len(cut) <= Arms
          BY ONLY <2>2, <4>1, ArmsAssumption
        <4>3. ASSUME NEW i \in DOMAIN cut PROVE cut[i].position = i
          BY ONLY <2>2, <2>3, <4>1, <4>3
        <4> QED BY <4>2, <4>3 DEF ExactPrefix
      <3>2. OneStamp(cut)
        BY <2>2, <2>3 DEF WellFormed, OneStamp
      <3>3. OneConfig(cut, config)
        BY <2>2, <2>3 DEF WellFormed, OneConfig
      <3> QED BY <3>1, <3>2, <3>3
    <2>6. FailureIsLast(cut)
      BY <2>4 DEF AllCompleted, FailureIsLast
    <2> QED BY <2>1, <2>2, <2>3, <2>4, <2>5, <2>6 DEF WellFormed, Rows
  <1>2. CASE ~(rows # << >> /\ ~rows[Len(rows)].completed)
    <2>1. Completed(rows) = rows
      BY <1>2 DEF Completed
    <2>2. AllCompleted(rows)
      BY <1>2 DEF AllCompleted, WellFormed, FailureIsLast, Rows
    <2> QED BY <2>1, <2>2 DEF Rows
  <1> QED BY <1>1, <1>2

LEMMA InitIInv == Init => IInv
  <1> SUFFICES ASSUME Init PROVE IInv
    OBVIOUS
  <1>1. TypeOK
    BY StartsAssumption DEF Init, TypeOK
  <1> QED BY <1>1 DEF Init, IInv, RunnerRows, Written, CheckpointWellFormed, PublishedIsOneRun

-----------------------------------------------------------------------------

\* The runner's rows survive every step that changes none of what they depend on.
LEMMA StartKeeps == IInv /\ Start => IInv'
  <1> SUFFICES ASSUME IInv, Start PROVE IInv'
    OBVIOUS
  <1> USE DEF IInv
  <1>1. PICK config \in Configs :
          runner' = [config |-> config, stamp |-> starts + 1, rows |-> << >>,
                     expected |-> None, then |-> "arm"]
    BY DEF Start
  <1>2. starts + 1 \in 1..MaxStarts /\ starts' = starts + 1
    BY StartsAssumption DEF Start, TypeOK
  <1>3. << >> \in Rows
    BY EmptySeq DEF Rows
  <1>4. runner' \in Runner
    BY <1>1, <1>2, <1>3 DEF Runner
  <1>5. TypeOK'
    BY <1>2, <1>4, StartsAssumption DEF Start, TypeOK, disk
  <1>6. RunnerRows'
    BY <1>1, ArmsAssumption
       DEF Start, RunnerRows, ExactPrefix, OneConfig, FailureIsLast, AllCompleted
  <1>7. Written'
    BY <1>1 DEF Start, Written, disk
  <1>8. CheckpointWellFormed' /\ PublishedIsOneRun'
    BY DEF Start, disk, CheckpointWellFormed, PublishedIsOneRun
  <1> QED BY <1>5, <1>6, <1>7, <1>8

\* A runner that goes leaves the disk as it is.
LEMMA DownKeeps == IInv /\ Down /\ UNCHANGED disk => IInv'
  BY DEF IInv, Down, disk, TypeOK, RunnerRows, Written, CheckpointWellFormed,
         PublishedIsOneRun

LEMMA LoadKeeps == IInv /\ Load => IInv'
  <1> SUFFICES ASSUME IInv, Load PROVE IInv'
    OBVIOUS
  <1> USE DEF IInv
  <1> DEFINE rows == Completed(checkpoint.rows)
  <1>1. /\ checkpoint \in Checkpoint
        /\ checkpoint.rows \in Rows
        /\ checkpoint.rows # << >>
        /\ WellFormed(checkpoint.rows, runner.config)
        /\ OneVersion(checkpoint.rows)
    BY DEF Load, Accepted, TypeOK, Checkpoint
  <1>2. /\ rows \in Rows
        /\ WellFormed(rows, runner.config)
        /\ AllCompleted(rows)
        /\ \A i \in DOMAIN rows : i \in DOMAIN checkpoint.rows /\ rows[i] = checkpoint.rows[i]
    BY <1>1, CompletedRows
  <1> HIDE DEF rows
  <1>3. checkpoint.rows[1] \in Row /\ 1 \in DOMAIN checkpoint.rows
    <2>1. Len(checkpoint.rows) \in Nat /\ Len(checkpoint.rows) > 0
      BY <1>1, EmptySeq DEF Rows
    <2> QED BY <1>1, <2>1, ElementOfSeq, LenProperties DEF Rows
  <1>4. rows # << >> => 1 \in DOMAIN rows /\ rows[1] \in Row
    <2>1. rows # << >> => Len(rows) \in Nat /\ Len(rows) > 0
      BY <1>2, EmptySeq DEF Rows
    <2> QED BY <1>2, <2>1, ElementOfSeq, LenProperties DEF Rows
  <1>5. runner \in Runner /\ pc = "load"
    BY DEF Load, TypeOK
  <1>6. runner' = [runner EXCEPT
                     !.rows = rows,
                     !.stamp = checkpoint.rows[1].stamp,
                     !.expected = IF rows = << >> THEN None ELSE rows[1].version]
    BY DEF Load, rows
  <1>7. /\ runner'.rows = rows
        /\ runner'.stamp = checkpoint.rows[1].stamp
        /\ runner'.expected = IF rows = << >> THEN None ELSE rows[1].version
        /\ runner'.config = runner.config
        /\ runner'.then = runner.then
    BY <1>5, <1>6 DEF Runner
  <1>8. runner' \in Runner
    BY <1>2, <1>3, <1>4, <1>5, <1>6 DEF Runner, Row
  <1>9. TypeOK'
    BY <1>8 DEF Load, TypeOK, disk
  <1>10. RunnerRows'
    <2>1. ExactPrefix(rows) /\ OneConfig(rows, runner.config) /\ FailureIsLast(rows)
      BY <1>2 DEF WellFormed
    <2>2. \A i \in DOMAIN rows : rows[i].stamp = checkpoint.rows[1].stamp
      BY <1>1, <1>2, <1>3 DEF WellFormed, OneStamp
    <2>3. \A i \in DOMAIN rows : rows[i].version = runner'.expected
      <3>1. SUFFICES ASSUME NEW i \in DOMAIN rows PROVE rows[i].version = runner'.expected
        OBVIOUS
      <3>2. rows # << >>
        BY <3>1
      <3>3. rows[i].version = rows[1].version
        BY <1>1, <1>2, <1>4, <3>1, <3>2 DEF OneVersion, AllCompleted
      <3> QED BY <1>7, <3>2, <3>3
    <2>4. pc' = "checkpoint"
      BY DEF Load
    <2> QED BY <1>2, <1>7, <2>1, <2>2, <2>3, <2>4 DEF RunnerRows
  <1>11. Written'
    BY <1>5, <1>7 DEF Load, Written
  <1>12. CheckpointWellFormed' /\ PublishedIsOneRun'
    BY DEF Load, disk, CheckpointWellFormed, PublishedIsOneRun
  <1> QED BY <1>9, <1>10, <1>11, <1>12

\* A row appended by RunArm: only the new, last row may be a failed one.
LEMMA RunArmKeeps == IInv /\ RunArm => IInv'
  <1> SUFFICES ASSUME IInv, RunArm PROVE IInv'
    OBVIOUS
  <1> USE DEF IInv
  <1>1. PICK completed \in IF VersionMatches THEN BOOLEAN ELSE {FALSE} :
          runner' = [runner EXCEPT !.rows = Append(@, NextRow(completed)),
                                   !.then = IF completed THEN "arm" ELSE "fail"]
    BY DEF RunArm
  <1>2. completed \in BOOLEAN /\ (completed => VersionMatches)
    BY <1>1
  <1> DEFINE next == NextRow(completed)
             len == Len(runner.rows)
  <1>3. /\ runner \in Runner /\ pc = "arm" /\ runner.then = "arm" /\ AllCompleted(runner.rows)
        /\ runner.rows \in Seq(Row) /\ len \in Nat /\ len < Arms
        /\ DOMAIN runner.rows = 1..len
    <2>1. runner \in Runner /\ pc = "arm" /\ runner.then = "arm" /\ len < Arms
      BY DEF RunArm, TypeOK, RunnerRows
    <2>2. runner.rows \in Seq(Row) /\ AllCompleted(runner.rows)
      BY <2>1 DEF Runner, Rows, RunnerRows
    <2> QED BY <2>1, <2>2, LenProperties
  <1>4. /\ next \in Row /\ next.position = len + 1 /\ next.stamp = runner.stamp
        /\ next.config = runner.config /\ next.completed = completed
        /\ next.version = installed
    BY <1>2, <1>3, ArmsAssumption DEF NextRow, Row, Runner, TypeOK
  <1> HIDE DEF next
  <1> DEFINE rows == Append(runner.rows, next)
  <1>5. /\ rows \in Seq(Row) /\ Len(rows) = len + 1
        /\ DOMAIN rows = 1..(len + 1)
        /\ \A i \in 1..len : rows[i] = runner.rows[i]
        /\ rows[len + 1] = next
    BY <1>3, <1>4, AppendProperties, LenProperties
  <1>6. /\ runner'.rows = rows /\ runner'.config = runner.config
        /\ runner'.stamp = runner.stamp /\ runner'.expected = runner.expected
        /\ runner'.then = IF completed THEN "arm" ELSE "fail"
    BY <1>1, <1>3 DEF Runner, next
  <1> HIDE DEF rows, len
  <1>7. runner' \in Runner
    <2>1. runner' = [runner EXCEPT !.rows = rows,
                                   !.then = IF completed THEN "arm" ELSE "fail"]
      BY <1>1, <1>3 DEF rows, next, Runner
    <2> QED BY <1>2, <1>3, <1>5, <2>1 DEF Runner, Rows
  <1>8. TypeOK'
    BY <1>7 DEF RunArm, TypeOK, disk
  <1>9. RunnerRows'
    <2>1. ExactPrefix(rows)
      <3>1. \A i \in 1..len : rows[i].position = i
        BY <1>3, <1>5 DEF RunnerRows, ExactPrefix
      <3> QED BY <1>3, <1>4, <1>5, <3>1, ArmsAssumption DEF ExactPrefix
    <2>2. OneConfig(rows, runner.config)
      <3>1. \A i \in 1..len : rows[i].config = runner.config
        BY <1>3, <1>5 DEF RunnerRows, OneConfig
      <3> QED BY <1>3, <1>4, <1>5, <3>1 DEF OneConfig
    <2>3. \A i \in 1..len : rows[i].completed
      BY <1>3, <1>5 DEF AllCompleted
    <2>4. FailureIsLast(rows)
      BY <1>3, <1>5, <2>3 DEF FailureIsLast
    <2>5. ASSUME completed PROVE AllCompleted(rows)
      <3>1. next.completed
        BY <1>4, <2>5
      <3>2. \A i \in DOMAIN rows : i \in 1..len \/ i = len + 1
        BY <1>3, <1>5
      <3> QED BY <1>5, <2>3, <3>1, <3>2 DEF AllCompleted
    <2>6. \A i \in DOMAIN rows : rows[i].stamp = runner.stamp
      <3>1. \A i \in 1..len : rows[i].stamp = runner.stamp
        BY <1>3, <1>5 DEF RunnerRows
      <3> QED BY <1>3, <1>4, <1>5, <3>1
    <2>7. ASSUME runner.expected # None, NEW i \in DOMAIN rows, rows[i].completed
          PROVE  rows[i].version = runner.expected
      <3>1. \A j \in 1..len : rows[j].version = runner.expected
        BY <1>3, <1>5, <2>7 DEF RunnerRows, AllCompleted
      <3>2. next.completed => next.version = runner.expected
        BY <1>2, <1>4, <2>7 DEF VersionMatches
      <3> QED BY <1>3, <1>5, <2>7, <3>1, <3>2
    <2>8. pc' = "checkpoint"
      BY DEF RunArm
    <2> QED BY <1>2, <1>6, <2>1, <2>2, <2>4, <2>5, <2>6, <2>7, <2>8 DEF RunnerRows
  <1>10. Written'
    BY <1>6 DEF RunArm, Written
  <1>11. CheckpointWellFormed' /\ PublishedIsOneRun'
    BY DEF RunArm, disk, CheckpointWellFormed, PublishedIsOneRun
  <1> QED BY <1>8, <1>9, <1>10, <1>11

LEMMA FinishArmsKeeps == IInv /\ FinishArms => IInv'
  <1> SUFFICES ASSUME IInv, FinishArms PROVE IInv'
    OBVIOUS
  <1> USE DEF IInv
  <1>1. runner \in Runner /\ pc = "arm" /\ runner.then = "arm"
    BY DEF FinishArms, TypeOK, RunnerRows
  <1>2. /\ runner'.rows = runner.rows /\ runner'.config = runner.config
        /\ runner'.stamp = runner.stamp /\ runner'.expected = runner.expected
        /\ runner'.then = "remove" /\ pc' = "results" /\ runner' \in Runner
    BY <1>1 DEF FinishArms, Runner
  <1>3. TypeOK'
    BY <1>2 DEF FinishArms, TypeOK, disk
  <1>4. RunnerRows'
    BY <1>1, <1>2 DEF RunnerRows
  <1>5. Written'
    BY <1>1, <1>2 DEF FinishArms, Written, disk
  <1>6. CheckpointWellFormed' /\ PublishedIsOneRun'
    BY DEF FinishArms, disk, CheckpointWellFormed, PublishedIsOneRun
  <1> QED BY <1>3, <1>4, <1>5, <1>6

\* The runner's rows, as a file of its own, are the rows of one run.
LEMMA RunnerRowsOneRun ==
    ASSUME TypeOK, RunnerRows, pc # "down", runner.rows # << >>
    PROVE  WellFormed(runner.rows, runner.rows[1].config)
  <1>1. WellFormed(runner.rows, runner.config)
    BY RunnerWellFormed
  <1>2. runner.rows \in Seq(Row)
    BY DEF TypeOK, Runner, Rows
  <1>3. Len(runner.rows) \in Nat /\ Len(runner.rows) > 0
    BY <1>2, EmptySeq
  <1>4. 1 \in DOMAIN runner.rows
    BY <1>2, <1>3, LenProperties
  <1>5. runner.rows[1].config = runner.config
    BY <1>1, <1>4 DEF WellFormed, OneConfig
  <1> QED BY <1>1, <1>5

LEMMA WriteCheckpointKeeps == IInv /\ WriteCheckpoint => IInv'
  <1> SUFFICES ASSUME IInv, WriteCheckpoint PROVE IInv'
    OBVIOUS
  <1> USE DEF IInv
  <1>1. /\ pc = "checkpoint" /\ pc' = "results"
        /\ checkpoint' = [config |-> runner.config, rows |-> runner.rows]
        /\ runner' = runner /\ installed' = installed
    BY DEF WriteCheckpoint
  <1>2. TypeOK'
    <2>1. checkpoint' \in Checkpoint
      BY <1>1 DEF TypeOK, Runner, Checkpoint
    <2> QED BY <1>1, <2>1 DEF WriteCheckpoint, TypeOK
  <1>3. RunnerRows'
    BY <1>1 DEF RunnerRows
  <1>4. Written'
    BY <1>1 DEF Written
  <1>5. CheckpointWellFormed'
    BY <1>1, RunnerWellFormed DEF CheckpointWellFormed
  <1>6. PublishedIsOneRun'
    BY DEF WriteCheckpoint, PublishedIsOneRun
  <1> QED BY <1>2, <1>3, <1>4, <1>5, <1>6

LEMMA WriteResultsKeeps == IInv /\ WriteResults => IInv'
  <1> SUFFICES ASSUME IInv, WriteResults PROVE IInv'
    OBVIOUS
  <1> USE DEF IInv
  <1>1. /\ pc = "results" /\ pc' = "manifest" /\ results' = runner.rows
        /\ runner' = runner /\ installed' = installed
        /\ checkpoint' = checkpoint /\ manifest' = manifest
    BY DEF WriteResults
  <1>2. TypeOK'
    <2>1. results' \in Rows
      BY <1>1 DEF TypeOK, Runner
    <2> QED BY <1>1, <2>1 DEF WriteResults, TypeOK
  <1>3. RunnerRows'
    BY <1>1 DEF RunnerRows
  <1>4. Written'
    BY <1>1 DEF Written
  <1>5. CheckpointWellFormed'
    BY <1>1 DEF CheckpointWellFormed
  <1>6. PublishedIsOneRun'
    BY <1>1, RunnerRowsOneRun DEF PublishedIsOneRun
  <1> QED BY <1>2, <1>3, <1>4, <1>5, <1>6

LEMMA WriteManifestKeeps == IInv /\ WriteManifest => IInv'
  <1> SUFFICES ASSUME IInv, WriteManifest PROVE IInv'
    OBVIOUS
  <1> USE DEF IInv
  <1>1. /\ pc = "manifest" /\ manifest' = runner.rows
        /\ checkpoint' = checkpoint /\ results' = results
        /\ installed' = installed /\ starts' = starts
    BY DEF WriteManifest, Down
  <1>2. manifest' \in Rows
    BY <1>1 DEF TypeOK, Runner
  <1>3. PublishedIsOneRun'
    BY <1>1, RunnerRowsOneRun DEF PublishedIsOneRun
  <1>4. CheckpointWellFormed'
    BY <1>1 DEF CheckpointWellFormed
  <1>5. CASE runner.then = "fail" /\ Down
    BY <1>1, <1>2, <1>3, <1>4, <1>5 DEF Down, TypeOK, RunnerRows, Written
  <1>6. CASE /\ runner.then # "fail"
             /\ pc' = runner.then
             /\ UNCHANGED <<installed, runner, starts>>
    <2>1. runner.then \in {"arm", "remove"}
      BY <1>1, <1>6 DEF TypeOK, Runner
    <2>2. TypeOK'
      BY <1>1, <1>2, <1>6, <2>1 DEF TypeOK
    <2>3. RunnerRows'
      BY <1>1, <1>6, <2>1 DEF RunnerRows
    <2>4. Written'
      BY <1>1, <1>6, <2>1 DEF Written
    <2> QED BY <1>3, <1>4, <2>2, <2>3, <2>4
  <1> QED BY <1>5, <1>6 DEF WriteManifest

LEMMA RemoveCheckpointKeeps == IInv /\ RemoveCheckpoint => IInv'
  BY DEF IInv, RemoveCheckpoint, Down, TypeOK, RunnerRows, Written, CheckpointWellFormed,
         PublishedIsOneRun

LEMMA UpgradeKeeps == IInv /\ Upgrade => IInv'
  BY DEF IInv, Upgrade, disk, TypeOK, RunnerRows, Written, CheckpointWellFormed,
         PublishedIsOneRun

-----------------------------------------------------------------------------

\* Every reachable state satisfies the inductive invariant of the files.
THEOREM Invariance == Spec => []IInv
  <1>1. IInv /\ [Next]_vars => IInv'
    <2> SUFFICES ASSUME IInv, [Next]_vars PROVE IInv'
      OBVIOUS
    <2>1. CASE Start
      BY <2>1, StartKeeps
    <2>2. CASE Abort \/ Refuse
      BY <2>2, DownKeeps DEF Abort, Refuse
    <2>3. CASE Load
      BY <2>3, LoadKeeps
    <2>4. CASE RunArm
      BY <2>4, RunArmKeeps
    <2>5. CASE FinishArms
      BY <2>5, FinishArmsKeeps
    <2>6. CASE WriteCheckpoint
      BY <2>6, WriteCheckpointKeeps
    <2>7. CASE WriteResults
      BY <2>7, WriteResultsKeeps
    <2>8. CASE WriteManifest
      BY <2>8, WriteManifestKeeps
    <2>9. CASE RemoveCheckpoint
      BY <2>9, RemoveCheckpointKeeps
    <2>10. CASE Upgrade
      BY <2>10, UpgradeKeeps
    <2>11. CASE UNCHANGED vars
      BY <2>11 DEF vars, disk, IInv, TypeOK, RunnerRows, Written,
                   CheckpointWellFormed, PublishedIsOneRun
    <2> QED BY <2>1, <2>2, <2>3, <2>4, <2>5, <2>6, <2>7, <2>8, <2>9, <2>10, <2>11 DEF Next
  <1> QED BY InitIInv, <1>1, PTL DEF Spec

\* Every variable of the runner and every file has its type in every reachable state.
THEOREM TypeCorrect == Spec => []TypeOK
  BY Invariance, PTL DEF IInv

\* For a schedule of any length, and any number of crashes, restarts and updates of
\* the CLI, the rows of the checkpoint are ones loadResumeCheckpoint takes for an
\* exact prefix of one run.
THEOREM CheckpointAlwaysWellFormed == Spec => []CheckpointWellFormed
  BY Invariance, PTL DEF IInv

\* So are the rows of results.jsonl and of the manifest.
THEOREM PublishedAlwaysOneRun == Spec => []PublishedIsOneRun
  BY Invariance, PTL DEF IInv

\* A resumed run with completed rows keeps to their version of the CLI, whenever it
\* is updated.
THEOREM ResumeKeepsVersion == Spec => VersionKept
  <1>1. IInv /\ [Next]_vars =>
          [(checkpoint' # checkpoint /\ checkpoint' # None /\ runner.expected # None)
             => OneVersion(checkpoint'.rows)]_vars
    <2> SUFFICES ASSUME IInv, Next, checkpoint' # checkpoint, checkpoint' # None,
                        runner.expected # None
                 PROVE  OneVersion(checkpoint'.rows)
      OBVIOUS
    <2>1. CASE WriteCheckpoint
      <3>1. checkpoint'.rows = runner.rows /\ pc # "down"
        BY <2>1 DEF WriteCheckpoint
      <3>2. \A i \in DOMAIN runner.rows :
              runner.rows[i].completed => runner.rows[i].version = runner.expected
        BY <3>1 DEF IInv, RunnerRows
      <3> QED BY <3>1, <3>2 DEF OneVersion
    <2>2. CASE Start \/ Abort \/ Refuse \/ Load \/ RunArm \/ FinishArms \/ WriteResults
               \/ WriteManifest \/ RemoveCheckpoint \/ Upgrade
      BY <2>2 DEF Start, Abort, Refuse, Load, RunArm, FinishArms, WriteResults, WriteManifest,
                  RemoveCheckpoint, Upgrade, disk
    <2> QED BY <2>1, <2>2 DEF Next
  <1> QED BY Invariance, <1>1, PTL DEF Spec, VersionKept

\* removeResumeCheckpoint runs only when the whole schedule is published, completed,
\* in both files and in the checkpoint it removes.
THEOREM RemovalNeedsCompletion == Spec => RemovedWhenComplete
  <1>1. IInv /\ [Next]_vars =>
          [(checkpoint # None /\ checkpoint' = None)
             => /\ Len(results) = Arms
                /\ \A i \in DOMAIN results : results[i].completed
                /\ manifest = results
                /\ checkpoint.rows = results]_vars
    <2> SUFFICES ASSUME IInv, Next, checkpoint # None, checkpoint' = None
                 PROVE  /\ Len(results) = Arms
                        /\ \A i \in DOMAIN results : results[i].completed
                        /\ manifest = results
                        /\ checkpoint.rows = results
      OBVIOUS
    <2>1. CASE RemoveCheckpoint
      <3>1. /\ pc = "remove" /\ runner.then = "remove" /\ AllCompleted(runner.rows)
            /\ results = runner.rows /\ manifest = runner.rows /\ Len(runner.rows) = Arms
        BY <2>1 DEF IInv, RemoveCheckpoint, RunnerRows, Written
      <3>2. runner.rows # << >>
        BY <3>1, ArmsAssumption, EmptySeq
      <3> QED BY <3>1, <3>2 DEF IInv, Written, AllCompleted
    <2>2. CASE WriteCheckpoint
      <3>1. checkpoint' \in Checkpoint
        BY <2>2 DEF IInv, WriteCheckpoint, TypeOK, Runner, Checkpoint
      <3> QED BY <3>1, CheckpointAssumption
    <2>3. CASE Start \/ Abort \/ Refuse \/ Load \/ RunArm \/ FinishArms \/ WriteResults
               \/ WriteManifest \/ Upgrade
      BY <2>3 DEF Start, Abort, Refuse, Load, RunArm, FinishArms, WriteResults, WriteManifest,
                  Upgrade, disk
    <2> QED BY <2>1, <2>2, <2>3 DEF Next
  <1> QED BY Invariance, <1>1, PTL DEF Spec, RemovedWhenComplete

-----------------------------------------------------------------------------
(* The checkpoint is ahead *)

Dated(rows) == \A i \in DOMAIN rows : rows[i].stamp <= starts

\* A start chooses a stamp that nothing on disk has yet.
StampsArePast ==
    /\ pc # "down" => runner.stamp <= starts
    /\ checkpoint # None => Dated(checkpoint.rows)
    /\ results # None => Dated(results)
    /\ manifest # None => Dated(manifest)

OfRun(rows, stamp) == rows # << >> /\ rows[1].stamp = stamp

RunnerHas(rows) ==
    OfRun(rows, runner.stamp) => IsPrefix(Completed(rows), runner.rows)

\* Once it has loaded what there was, the runner has every completed row of its run.
RunnerLeads ==
    pc \notin {"down", "load"} =>
      /\ checkpoint # None => RunnerHas(checkpoint.rows)
      /\ results # None => RunnerHas(results)
      /\ manifest # None => RunnerHas(manifest)

LInv ==
    /\ IInv
    /\ StampsArePast
    /\ RunnerLeads
    /\ CheckpointLeads

LEMMA FirstRow ==
    ASSUME NEW rows \in Rows, rows # << >>
    PROVE  1 \in DOMAIN rows /\ rows[1] \in Row
  <1>1. Len(rows) \in Nat /\ Len(rows) > 0
    BY EmptySeq DEF Rows
  <1> QED BY <1>1, ElementOfSeq, LenProperties DEF Rows

LEMMA CompletedLength ==
    ASSUME NEW rows \in Rows
    PROVE  Len(Completed(rows)) = IF rows # << >> /\ ~rows[Len(rows)].completed
                                  THEN Len(rows) - 1 ELSE Len(rows)
  <1>1. CASE rows # << >> /\ ~rows[Len(rows)].completed
    <2> DEFINE last == Len(rows) - 1
    <2>1. rows \in Seq(Row) /\ Len(rows) \in Nat /\ Len(rows) > 0
      BY <1>1, EmptySeq DEF Rows
    <2>2. 1 \in Int /\ last \in Int /\ \A i \in 1..last : rows[i] \in Row
      BY <2>1, ElementOfSeq
    <2>3. last \in Nat
      BY <2>1
    <2>4. Completed(rows) = SubSeq(rows, 1, last)
      BY <1>1 DEF Completed
    <2> HIDE DEF last
    <2>5. Len(SubSeq(rows, 1, last)) = IF 1 <= last THEN last - 1 + 1 ELSE 0
      BY ONLY <2>2, SubSeqProperties, SMTT(30)
    <2>6. Len(Completed(rows)) = last
      <3>1. (IF 1 <= last THEN last - 1 + 1 ELSE 0) = last
        BY ONLY <2>3
      <3> QED BY <2>4, <2>5, <3>1
    <2> QED BY <1>1, <2>6 DEF last
  <1>2. CASE ~(rows # << >> /\ ~rows[Len(rows)].completed)
    BY <1>2 DEF Completed
  <1> QED BY <1>1, <1>2

LEMMA CompletedIsPrefix ==
    ASSUME NEW rows \in Rows, NEW config, WellFormed(rows, config)
    PROVE  IsPrefix(Completed(rows), rows)
  BY CompletedRows DEF IsPrefix

\* Completed rows at the head of others are at the head of the completed ones of these.
LEMMA PrefixIsCompleted ==
    ASSUME NEW r \in Rows, AllCompleted(r), NEW s \in Rows, NEW config, WellFormed(s, config),
           IsPrefix(r, s)
    PROVE  IsPrefix(r, Completed(s))
  <1> DEFINE c == Completed(s)
  <1>1. /\ c \in Rows /\ \A i \in DOMAIN c : c[i] = s[i]
        /\ Len(c) = IF s # << >> /\ ~s[Len(s)].completed THEN Len(s) - 1 ELSE Len(s)
    BY CompletedRows, CompletedLength
  <1> HIDE DEF c
  <1>2. /\ DOMAIN r = 1..Len(r) /\ DOMAIN s = 1..Len(s) /\ DOMAIN c = 1..Len(c)
        /\ Len(r) \in Nat /\ Len(s) \in Nat /\ Len(c) \in Nat
    BY <1>1, LenProperties DEF Rows
  <1>3. Len(r) <= Len(s) /\ \A i \in 1..Len(r) : r[i] = s[i] /\ r[i].completed
    BY <1>2 DEF IsPrefix, AllCompleted
  <1>4. Len(r) <= Len(c)
    <2>1. CASE Len(r) = Len(s) /\ s # << >> /\ ~s[Len(s)].completed
      <3>1. Len(s) > 0
        BY <1>2, <2>1, EmptySeq DEF Rows
      <3>2. Len(s) \in 1..Len(r)
        BY <1>2, <2>1, <3>1
      <3> QED BY <1>3, <2>1, <3>2
    <2>2. CASE Len(r) # Len(s)
      <3>1. Len(c) = Len(s) \/ Len(c) = Len(s) - 1
        BY <1>1
      <3>2. Len(r) \in Nat /\ Len(s) \in Nat /\ Len(c) \in Nat /\ Len(r) <= Len(s)
        BY <1>2, <1>3
      <3> QED BY ONLY <2>2, <3>1, <3>2
    <2>3. CASE ~(s # << >> /\ ~s[Len(s)].completed)
      BY <1>1, <1>3, <2>3
    <2> QED BY <2>1, <2>2, <2>3
  <1>5. ASSUME NEW i \in DOMAIN r PROVE r[i] = c[i]
    <2>1. i \in 1..Len(r)
      BY <1>2
    <2>2. i \in 1..Len(c)
      BY ONLY <1>2, <1>4, <2>1
    <2>3. r[i] = s[i] /\ i \in DOMAIN c
      BY <1>2, <1>3, <2>1, <2>2
    <2> QED BY <1>1, <2>3
  <1> QED BY <1>4, <1>5 DEF IsPrefix, c

LEMMA InitLInv == Init => LInv
  <1> SUFFICES ASSUME Init PROVE LInv
    OBVIOUS
  <1>1. IInv
    BY InitIInv
  <1>2. StampsArePast /\ RunnerLeads /\ CheckpointLeads
    BY DEF Init, StampsArePast, RunnerLeads, CheckpointLeads
  <1> QED BY <1>1, <1>2 DEF LInv

LEMMA StampIsNat ==
    ASSUME NEW rows \in Rows, NEW i \in DOMAIN rows
    PROVE  rows[i].stamp \in Nat
  <1>1. rows \in Seq(Row) /\ i \in 1..Len(rows)
    BY LenProperties DEF Rows
  <1>2. rows[i] \in Row
    BY <1>1, ElementOfSeq
  <1> QED BY <1>2, StartsAssumption DEF Row

LEMMA StartLeads == LInv /\ IInv' /\ Start => LInv'
  <1> SUFFICES ASSUME LInv, IInv', Start
               PROVE  StampsArePast' /\ RunnerLeads' /\ CheckpointLeads'
    BY DEF LInv
  <1>1. /\ runner'.stamp = starts + 1 /\ starts' = starts + 1 /\ starts \in Nat
        /\ checkpoint' = checkpoint /\ results' = results /\ manifest' = manifest
    BY StartsAssumption DEF Start, disk, LInv, IInv, TypeOK
  <1>2. ASSUME NEW rows \in Rows, Dated(rows)
        PROVE  /\ \A i \in DOMAIN rows : rows[i].stamp <= starts + 1
               /\ ~OfRun(rows, starts + 1)
    <2>1. \A i \in DOMAIN rows : rows[i].stamp \in Nat /\ rows[i].stamp <= starts
      BY <1>2, StampIsNat DEF Dated
    <2>2. \A i \in DOMAIN rows : rows[i].stamp <= starts + 1 /\ rows[i].stamp # starts + 1
      BY <1>1, <2>1
    <2> QED BY <2>2, FirstRow DEF OfRun
  <1>3. /\ checkpoint # None => checkpoint.rows \in Rows /\ Dated(checkpoint.rows)
        /\ results # None => results \in Rows /\ Dated(results)
        /\ manifest # None => manifest \in Rows /\ Dated(manifest)
    BY DEF LInv, IInv, TypeOK, Checkpoint, StampsArePast
  <1>4. StampsArePast'
    BY <1>1, <1>2, <1>3 DEF StampsArePast, Dated
  <1>5. RunnerLeads'
    BY <1>1, <1>2, <1>3 DEF RunnerLeads, RunnerHas
  <1>6. CheckpointLeads'
    BY <1>1 DEF LInv, CheckpointLeads
  <1> QED BY <1>4, <1>5, <1>6

LEMMA DownLeads == LInv /\ IInv' /\ Down /\ UNCHANGED disk => LInv'
  BY DEF LInv, Down, disk, StampsArePast, Dated, RunnerLeads, CheckpointLeads

LEMMA LoadLeads == LInv /\ IInv' /\ Load => LInv'
  <1> SUFFICES ASSUME LInv, IInv', Load
               PROVE  StampsArePast' /\ RunnerLeads' /\ CheckpointLeads'
    BY DEF LInv
  <1> DEFINE rows == checkpoint.rows
  <1>1. /\ checkpoint # None /\ rows \in Rows /\ rows # << >>
        /\ WellFormed(rows, runner.config)
    BY DEF Load, Accepted, LInv, IInv, TypeOK, Checkpoint
  <1>2. /\ runner'.rows = Completed(rows) /\ runner'.stamp = rows[1].stamp
        /\ checkpoint' = checkpoint /\ results' = results /\ manifest' = manifest
        /\ starts' = starts
    BY DEF Load, disk, LInv, IInv, TypeOK, Runner
  <1> HIDE DEF rows
  <1>3. ASSUME NEW file \in {results, manifest}, file # None, OfRun(file, rows[1].stamp)
        PROVE  IsPrefix(Completed(file), Completed(rows))
    <2>1. file \in Rows /\ WellFormed(file, file[1].config)
      BY <1>3 DEF LInv, IInv, TypeOK, PublishedIsOneRun, OfRun
    <2>2. Completed(file) \in Rows /\ AllCompleted(Completed(file))
      BY <2>1, CompletedRows
    <2>3. IsPrefix(Completed(file), rows)
      BY <1>1, <1>3 DEF LInv, CheckpointLeads, OfRun, rows
    <2> QED BY <1>1, <2>2, <2>3, PrefixIsCompleted
  <1>4. IsPrefix(Completed(rows), Completed(rows))
    <2>1. Completed(rows) \in Rows
      BY <1>1, CompletedRows
    <2>2. Len(Completed(rows)) \in Nat
      BY <2>1, LenProperties DEF Rows
    <2> QED BY <2>2 DEF IsPrefix
  <1>5. StampsArePast'
    <2>1. rows[1].stamp <= starts
      BY <1>1, FirstRow DEF LInv, StampsArePast, Dated, rows
    <2> QED BY <1>2, <2>1 DEF LInv, StampsArePast, Dated
  <1>6. RunnerLeads'
    BY <1>2, <1>3, <1>4 DEF RunnerLeads, RunnerHas, rows
  <1>7. CheckpointLeads'
    BY <1>2 DEF LInv, CheckpointLeads
  <1> QED BY <1>5, <1>6, <1>7

LEMMA RunArmLeads == LInv /\ IInv' /\ RunArm => LInv'
  <1> SUFFICES ASSUME LInv, IInv', RunArm
               PROVE  StampsArePast' /\ RunnerLeads' /\ CheckpointLeads'
    BY DEF LInv
  <1>1. PICK completed \in IF VersionMatches THEN BOOLEAN ELSE {FALSE} :
          runner' = [runner EXCEPT !.rows = Append(@, NextRow(completed)),
                                   !.then = IF completed THEN "arm" ELSE "fail"]
    BY DEF RunArm
  <1>2. /\ runner'.rows = Append(runner.rows, NextRow(completed))
        /\ runner'.stamp = runner.stamp /\ pc = "arm"
        /\ checkpoint' = checkpoint /\ results' = results /\ manifest' = manifest
        /\ starts' = starts
    BY <1>1 DEF RunArm, disk, LInv, IInv, TypeOK, Runner
  <1>3. /\ runner.rows \in Seq(Row) /\ NextRow(completed) \in Row
    <2>1. runner \in Runner /\ installed \in Versions /\ Len(runner.rows) < Arms
      BY <1>2 DEF RunArm, LInv, IInv, TypeOK
    <2>2. runner.rows \in Seq(Row) /\ Len(runner.rows) \in Nat
      BY <2>1, LenProperties DEF Runner, Rows
    <2>3. completed \in BOOLEAN
      BY <1>1
    <2> QED BY <2>1, <2>2, <2>3, ArmsAssumption DEF NextRow, Row, Runner
  <1>4. /\ Len(runner'.rows) = Len(runner.rows) + 1 /\ Len(runner.rows) \in Nat
        /\ DOMAIN runner.rows = 1..Len(runner.rows)
        /\ \A i \in DOMAIN runner.rows : runner'.rows[i] = runner.rows[i]
    BY <1>2, <1>3, AppendProperties, LenProperties
  <1>5. ASSUME NEW r \in Rows, IsPrefix(r, runner.rows)
        PROVE  IsPrefix(r, runner'.rows)
    <2>1. DOMAIN r = 1..Len(r) /\ Len(r) \in Nat
      BY LenProperties DEF Rows
    <2>2. Len(r) <= Len(runner.rows) /\ \A i \in DOMAIN r : r[i] = runner.rows[i]
      BY <1>5 DEF IsPrefix
    <2>3. Len(r) <= Len(runner'.rows)
      BY ONLY <1>4, <2>1, <2>2
    <2>4. \A i \in DOMAIN r : i \in DOMAIN runner.rows
      BY ONLY <1>4, <2>1, <2>2
    <2> QED BY <1>4, <2>2, <2>3, <2>4 DEF IsPrefix
  <1>6. /\ checkpoint # None => /\ RunnerHas(checkpoint.rows)
                                /\ Completed(checkpoint.rows) \in Rows
        /\ results # None => RunnerHas(results) /\ (results # << >> => Completed(results) \in Rows)
        /\ manifest # None
             => RunnerHas(manifest) /\ (manifest # << >> => Completed(manifest) \in Rows)
    BY <1>2, CompletedRows
       DEF LInv, IInv, TypeOK, Checkpoint, RunnerLeads, CheckpointWellFormed, PublishedIsOneRun
  <1>7. RunnerLeads'
    BY <1>2, <1>5, <1>6 DEF RunnerLeads, RunnerHas, OfRun
  <1>8. StampsArePast' /\ CheckpointLeads'
    BY <1>2 DEF LInv, StampsArePast, Dated, CheckpointLeads
  <1> QED BY <1>7, <1>8

LEMMA FinishArmsLeads == LInv /\ IInv' /\ FinishArms => LInv'
  <1> SUFFICES ASSUME LInv, IInv', FinishArms
               PROVE  StampsArePast' /\ RunnerLeads' /\ CheckpointLeads'
    BY DEF LInv
  <1>1. /\ runner'.rows = runner.rows /\ runner'.stamp = runner.stamp /\ pc = "arm"
        /\ checkpoint' = checkpoint /\ results' = results /\ manifest' = manifest
        /\ starts' = starts
    BY DEF FinishArms, disk, LInv, IInv, TypeOK, Runner
  <1> QED BY <1>1 DEF LInv, StampsArePast, Dated, RunnerLeads, RunnerHas, CheckpointLeads

\* What the runner writes is of its own run, and its completed rows head it.
LEMMA RunnerWrites ==
    ASSUME LInv, pc # "down"
    PROVE  /\ runner.rows \in Rows
           /\ Dated(runner.rows)
           /\ IsPrefix(Completed(runner.rows), runner.rows)
           /\ runner.rows # << >> => runner.rows[1].stamp = runner.stamp
  <1>1. runner.rows \in Rows
    BY DEF LInv, IInv, TypeOK, Runner
  <1>2. \A i \in DOMAIN runner.rows : runner.rows[i].stamp = runner.stamp
    BY DEF LInv, IInv, RunnerRows
  <1>3. Dated(runner.rows)
    BY <1>2 DEF LInv, StampsArePast, Dated
  <1>4. IsPrefix(Completed(runner.rows), runner.rows)
    BY <1>1, RunnerWellFormed, CompletedIsPrefix DEF LInv, IInv
  <1>5. runner.rows # << >> => runner.rows[1].stamp = runner.stamp
    BY <1>1, <1>2, FirstRow
  <1> QED BY <1>1, <1>3, <1>4, <1>5

LEMMA WriteCheckpointLeads == LInv /\ IInv' /\ WriteCheckpoint => LInv'
  <1> SUFFICES ASSUME LInv, IInv', WriteCheckpoint
               PROVE  StampsArePast' /\ RunnerLeads' /\ CheckpointLeads'
    BY DEF LInv
  <1>1. /\ pc = "checkpoint" /\ checkpoint'.rows = runner.rows /\ runner' = runner
        /\ results' = results /\ manifest' = manifest /\ starts' = starts
    BY DEF WriteCheckpoint
  <1>2. /\ Dated(runner.rows)
        /\ IsPrefix(Completed(runner.rows), runner.rows)
        /\ runner.rows # << >> => runner.rows[1].stamp = runner.stamp
    BY <1>1, RunnerWrites
  <1>3. StampsArePast'
    BY <1>1, <1>2 DEF LInv, StampsArePast, Dated
  <1>4. RunnerLeads'
    BY <1>1, <1>2 DEF LInv, RunnerLeads, RunnerHas
  <1>5. CheckpointLeads'
    BY <1>1, <1>2 DEF LInv, RunnerLeads, RunnerHas, OfRun, CheckpointLeads
  <1> QED BY <1>3, <1>4, <1>5

LEMMA WriteResultsLeads == LInv /\ IInv' /\ WriteResults => LInv'
  <1> SUFFICES ASSUME LInv, IInv', WriteResults
               PROVE  StampsArePast' /\ RunnerLeads' /\ CheckpointLeads'
    BY DEF LInv
  <1>1. /\ pc = "results" /\ results' = runner.rows /\ runner' = runner
        /\ checkpoint' = checkpoint /\ manifest' = manifest /\ starts' = starts
    BY DEF WriteResults
  <1>2. Dated(runner.rows) /\ IsPrefix(Completed(runner.rows), runner.rows)
    BY <1>1, RunnerWrites
  <1>3. runner.rows # << >> => checkpoint.rows = runner.rows
    BY <1>1 DEF LInv, IInv, Written
  <1>4. StampsArePast'
    BY <1>1, <1>2 DEF LInv, StampsArePast, Dated
  <1>5. RunnerLeads'
    BY <1>1, <1>2 DEF LInv, RunnerLeads, RunnerHas
  <1>6. CheckpointLeads'
    BY <1>1, <1>2, <1>3 DEF LInv, CheckpointLeads
  <1> QED BY <1>4, <1>5, <1>6

LEMMA WriteManifestLeads == LInv /\ IInv' /\ WriteManifest => LInv'
  <1> SUFFICES ASSUME LInv, IInv', WriteManifest
               PROVE  StampsArePast' /\ RunnerLeads' /\ CheckpointLeads'
    BY DEF LInv
  <1>1. /\ pc = "manifest" /\ manifest' = runner.rows
        /\ checkpoint' = checkpoint /\ results' = results /\ starts' = starts
        /\ pc' = "down" \/ runner' = runner
    BY DEF WriteManifest, Down
  <1>2. Dated(runner.rows) /\ IsPrefix(Completed(runner.rows), runner.rows)
    BY <1>1, RunnerWrites
  <1>3. runner.rows # << >> => checkpoint.rows = runner.rows
    BY <1>1 DEF LInv, IInv, Written
  <1>4. StampsArePast'
    BY <1>1, <1>2 DEF LInv, StampsArePast, Dated
  <1>5. RunnerLeads'
    BY <1>1, <1>2 DEF LInv, RunnerLeads, RunnerHas
  <1>6. CheckpointLeads'
    BY <1>1, <1>2, <1>3 DEF LInv, CheckpointLeads
  <1> QED BY <1>4, <1>5, <1>6

LEMMA RemoveCheckpointLeads == LInv /\ IInv' /\ RemoveCheckpoint => LInv'
  BY DEF LInv, RemoveCheckpoint, Down, StampsArePast, Dated, RunnerLeads, CheckpointLeads

\* A step that changes none of what LInv is about: an update, or a stutter.
LEMMA QuietLeads == LInv /\ IInv' /\ UNCHANGED <<disk, pc, runner, starts>> => LInv'
  BY DEF LInv, disk, StampsArePast, Dated, RunnerLeads, RunnerHas, CheckpointLeads

\* The stamps, the runner and the checkpoint stay in step in every reachable state.
THEOREM ProgressInvariance == Spec => []LInv
  <1>1. LInv /\ IInv' /\ [Next]_vars => LInv'
    <2> SUFFICES ASSUME LInv, IInv', [Next]_vars PROVE LInv'
      OBVIOUS
    <2>1. CASE Start
      BY <2>1, StartLeads
    <2>2. CASE Abort \/ Refuse
      BY <2>2, DownLeads DEF Abort, Refuse
    <2>3. CASE Load
      BY <2>3, LoadLeads
    <2>4. CASE RunArm
      BY <2>4, RunArmLeads
    <2>5. CASE FinishArms
      BY <2>5, FinishArmsLeads
    <2>6. CASE WriteCheckpoint
      BY <2>6, WriteCheckpointLeads
    <2>7. CASE WriteResults
      BY <2>7, WriteResultsLeads
    <2>8. CASE WriteManifest
      BY <2>8, WriteManifestLeads
    <2>9. CASE RemoveCheckpoint
      BY <2>9, RemoveCheckpointLeads
    <2>10. CASE Upgrade \/ UNCHANGED vars
      BY <2>10, QuietLeads DEF Upgrade, vars
    <2> QED BY <2>1, <2>2, <2>3, <2>4, <2>5, <2>6, <2>7, <2>8, <2>9, <2>10 DEF Next
  <1> QED BY InitLInv, Invariance, <1>1, PTL DEF Spec

\* However often the study dies and resumes, and wherever, a completed arm that is in a
\* published file of the checkpoint's run is in the checkpoint too: no resume pays for it again.
THEOREM CheckpointAlwaysLeads == Spec => []CheckpointLeads
  BY ProgressInvariance, PTL DEF LInv

\* A runner that goes on with a run keeps every completed row its checkpoint had, in place.
THEOREM ProgressAlwaysKept == Spec => ProgressKept
  <1>1. LInv /\ [Next]_vars =>
          [(/\ checkpoint' # checkpoint /\ checkpoint # None /\ checkpoint' # None
            /\ checkpoint.rows # << >> /\ runner.stamp = checkpoint.rows[1].stamp)
             => IsPrefix(Completed(checkpoint.rows), checkpoint'.rows)]_vars
    <2> SUFFICES ASSUME LInv, Next, checkpoint' # checkpoint, checkpoint # None,
                        checkpoint' # None, checkpoint.rows # << >>,
                        runner.stamp = checkpoint.rows[1].stamp
                 PROVE  IsPrefix(Completed(checkpoint.rows), checkpoint'.rows)
      OBVIOUS
    <2>1. CASE WriteCheckpoint
      BY <2>1 DEF WriteCheckpoint, LInv, RunnerLeads, RunnerHas, OfRun
    <2>2. CASE RemoveCheckpoint
      BY <2>2 DEF RemoveCheckpoint
    <2>3. CASE Start \/ Abort \/ Refuse \/ Load \/ RunArm \/ FinishArms \/ WriteResults
               \/ WriteManifest \/ Upgrade
      <3>1. checkpoint' = checkpoint
        BY <2>3 DEF Start, Abort, Refuse, Load, RunArm, FinishArms, WriteResults, WriteManifest,
                    Upgrade, disk
      <3> QED BY <3>1
    <2> QED BY <2>1, <2>2, <2>3 DEF Next
  <1> QED BY ProgressInvariance, <1>1, PTL DEF Spec, ProgressKept

-----------------------------------------------------------------------------
(* The receipts: the broker's count of runs, what the messages of a          *)
(* connection let its two ends know of each other, and what seal relies on.  *)

Digest == Contents \cup {Incomplete}
RunRecord == [id : 0 .. MaxRuns, started : 0 .. 2 * MaxRuns, before : Digest]
ReceiptRecord ==
    [id : 1 .. MaxRuns, sequence : 1 .. MaxRuns, started : 1 .. 2 * MaxRuns,
     completed : 1 .. 2 * MaxRuns, stable : BOOLEAN, overlapped : BOOLEAN]

\* Every run that was granted is recorded, in progress or lost, and has taken one step
\* number when it was granted and one when it was recorded.
Counting ==
    /\ Len(records) + activeRuns <= nextID
    /\ nextStep = nextID + Len(records)

\* A handler has a run from its grant until it is recorded or counted out.
HasRun(w) ==
    /\ handler[w] \in {"granted", "waiting", "finished"} => run[w] # NoRun
    /\ handler[w] \in {"none", "accepted", "start", "checked", "done"} => run[w] = NoRun
    /\ run[w] # NoRun => run[w].id \in 1..nextID /\ run[w].started \in 1..nextStep

HandlerRuns == \A w \in Wrappers : HasRun(w)

\* Ids and step numbers are used once.
Numbers ==
    /\ \A i \in DOMAIN records :
         records[i].id <= nextID /\ records[i].completed <= nextStep
    /\ \A w \in InProgress, i \in DOMAIN records :
         /\ run[w].id # records[i].id
         /\ run[w].started \notin {records[i].started, records[i].completed}
    /\ \A w, v \in InProgress : w # v =>
         run[w].id # run[v].id /\ run[w].started # run[v].started

HasReceipt(id) == \E i \in DOMAIN records : records[i].id = id

\* How far a wrapper and its handler can be apart.
Session(w) ==
    /\ wrapper[w] \in {"idle", "dialed", "starting"} => ticket[w] = 0
    /\ toServer[w] = "start" \/ toWrapper[w] > 0 \/ handler[w] \in {"checked", "granted", "waiting", "finished"}
         => wrapper[w] \notin {"idle", "dialed"}
    /\ ticket[w] > 0 \/ toWrapper[w] > 0 => handler[w] \in {"waiting", "finished", "leaving", "done"}
    /\ (ticket[w] > 0 \/ toWrapper[w] > 0) /\ wrapper[w] \in {"starting", "running"}
         /\ handler[w] \in {"leaving", "done"} => w \in severed
    /\ handler[w] = "finished" => wrapper[w] \in {"reporting", "gone"}
    /\ toServer[w] = "finish" =>
         /\ wrapper[w] \in {"reporting", "gone"}
         /\ handler[w] = "waiting" \/ (w \in severed /\ handler[w] \in {"leaving", "done"})
    /\ handler[w] \in {"waiting", "finished"} =>
         ticket[w] \in {0, run[w].id} /\ toWrapper[w] \in {NoAnswer, 0, run[w].id}
    /\ wrapper[w] = "reporting" =>
         /\ ticket[w] > 0
         /\ toServer[w] = "finish" \/ handler[w] = "finished" \/ HasReceipt(ticket[w])

Sessions == \A w \in Wrappers : Session(w)

\* What a seal has achieved at each of its steps.
Sealing ==
    /\ serving \in Wrappers => handler[serving] = "accepted"
    /\ broker # "harness" => sealed
    /\ broker \notin {"harness", "sealing"} => ~listening
    /\ broker \in {"harness", "sealing", "stopping", "counted"} => severed = {}
    /\ broker \in {"counted", "joining", "sealed", "failed"} => serving = "done"
    /\ broker \in {"sealed", "failed"} => \A w \in Wrappers : handler[w] \in {"none", "done"}
    /\ broker = "sealed" => stillActive = 0

\* If no run was active when seal counted them, none is ever again.
Quiet ==
    broker \in {"counted", "joining", "sealed"} /\ stillActive = 0 =>
      \A w \in Wrappers :
        /\ run[w] = NoRun
        /\ toServer[w] # "finish"
        /\ wrapper[w] = "running" => ticket[w] = 0
        /\ wrapper[w] = "starting" => toWrapper[w] <= 0

\* Before the first edit nothing is disturbed; after it, what was disturbed began before it.
Edits ==
    /\ edits = 0 =>
         /\ project = Baseline /\ disturbed = {}
         /\ \A w \in InProgress : run[w].before \in {Baseline, Incomplete}
         /\ \A i \in DOMAIN records : ~records[i].overlapped
    /\ edits = 1 =>
         /\ project # Baseline
         /\ \A w \in disturbed \cap InProgress : run[w].before \in {Baseline, Incomplete}
    /\ \A w \in disturbed : ticket[w] > 0

CollectorInv ==
    /\ CollectorTypeOK /\ Counting /\ HandlerRuns /\ Numbers /\ Sessions /\ Sealing /\ Quiet /\ Edits
    /\ ReceiptsOrdered /\ OverlapIsSeen
-----------------------------------------------------------------------------
(* Helpers *)

StepOf(w) == WrapperStep(w) \/ HandlerStep(w) \/ StartDeadline(w)

\* Steps that touch neither runs, records and their numbers nor the project.
Bystander ==
    UNCHANGED <<records, nextID, nextStep, activeRuns, run, project, edits, disturbed>>

\* The receipts at hand stay when one is appended, and only its id is new.
LEMMA AppendReceipt ==
    ASSUME CollectorTypeOK, NEW r, records' = Append(records, r)
    PROVE  /\ Len(records') = Len(records) + 1
           /\ DOMAIN records' = 1..(Len(records) + 1) /\ DOMAIN records = 1..Len(records)
           /\ Len(records) \in Nat
           /\ \A i \in DOMAIN records : records'[i] = records[i]
           /\ records'[Len(records) + 1] = r
  <1>1. records \in Seq(ReceiptRecord)
    BY DEF CollectorTypeOK, ReceiptRecord
  <1>2. records \in Seq(ReceiptRecord \cup {r})
    <2>1. \A i \in 1..Len(records) : records[i] \in ReceiptRecord \cup {r}
      BY <1>1, ElementOfSeq
    <2> QED BY <1>1, <2>1, SeqDef
  <1> QED BY <1>2, AppendProperties

\* Every step but the appending one keeps the receipts as they are, and none loses one.
LEMMA ReceiptsStay ==
    ASSUME CollectorTypeOK, NEW w \in Wrappers, StepOf(w), NEW id, HasReceipt(id)
    PROVE  HasReceipt(id)'
  <1>1. CASE Record(w)
    <2>1. PICK r : records' = Append(records, r)
      BY <1>1 DEF Record
    <2>2. PICK i \in DOMAIN records : records[i].id = id
      BY DEF HasReceipt
    <2>3. i \in DOMAIN records' /\ records'[i] = records[i]
      BY <2>1, <2>2, AppendReceipt
    <2> QED BY <2>2, <2>3 DEF HasReceipt
  <1>2. CASE UNCHANGED records
    BY <1>2 DEF HasReceipt
  <1> QED BY <1>1, <1>2 DEF StepOf, WrapperStep, HandlerStep, StartDeadline, Dial, SendStart, ReadAnswer,
             GiveUp, ChildEnds, Exit, NextCommand, CheckPeer, RefuseStart, Grant, TurnAway,
             SendTicket, TicketUnsent, ReadFinish, RunLost, Leave, fields

\* A step of one wrapper or its handler leaves the others where they are.
LEMMA Others ==
    ASSUME CollectorTypeOK, NEW w \in Wrappers, NEW v \in Wrappers, v # w, StepOf(w)
    PROVE  /\ wrapper'[v] = wrapper[v] /\ ticket'[v] = ticket[v]
           /\ toServer'[v] = toServer[v] /\ toWrapper'[v] = toWrapper[v]
           /\ handler'[v] = handler[v] /\ run'[v] = run[v]
           /\ v \in severed' <=> v \in severed
           /\ v \in disturbed' <=> v \in disturbed
  <1> USE DEF CollectorTypeOK, wrapperVars, socketVars, handlerVars, projectVars
  <1>1. CASE WrapperStep(w)
    BY <1>1 DEF WrapperStep, Dial, SendStart, ReadAnswer, GiveUp, ChildEnds, Exit, NextCommand
  <1>2. CASE CheckPeer(w) \/ RefuseStart(w) \/ StartDeadline(w) \/ Grant(w) \/ TurnAway(w)
    BY <1>2 DEF CheckPeer, RefuseStart, StartDeadline, Grant, TurnAway
  <1>3. CASE SendTicket(w) \/ TicketUnsent(w) \/ ReadFinish(w) \/ RunLost(w) \/ Record(w) \/ Leave(w)
    BY <1>3 DEF SendTicket, TicketUnsent, ReadFinish, RunLost, Record, Leave
  <1> QED BY <1>1, <1>2, <1>3 DEF StepOf, HandlerStep

-----------------------------------------------------------------------------
(* Sessions *)

\* What a wrapper does to its own session.
LEMMA WrapperSession ==
    ASSUME CollectorInv, NEW w \in Wrappers, WrapperStep(w)
    PROVE  Session(w)'
  <1> USE DEF CollectorInv, CollectorTypeOK, Sessions, Session, wrapperVars, socketVars, fields,
              handlerVars, HasReceipt
  <1>1. CASE Dial(w)
    BY <1>1 DEF Dial
  <1>2. CASE SendStart(w)
    BY <1>2 DEF SendStart
  <1>3. CASE ReadAnswer(w)
    BY <1>3 DEF ReadAnswer, NoAnswer
  <1>4. CASE GiveUp(w)
    BY <1>4 DEF GiveUp
  <1>5. CASE ChildEnds(w)
    BY <1>5 DEF ChildEnds, Connected
  <1>6. CASE Exit(w)
    BY <1>6 DEF Exit
  <1>7. CASE NextCommand(w)
    BY <1>7 DEF NextCommand, NoAnswer
  <1> QED BY <1>1, <1>2, <1>3, <1>4, <1>5, <1>6, <1>7 DEF WrapperStep

\* What a handler does to its wrapper's session.
LEMMA HandlerSession ==
    ASSUME CollectorInv, NEW w \in Wrappers, HandlerStep(w) \/ StartDeadline(w)
    PROVE  Session(w)'
  <1> USE DEF CollectorInv, CollectorTypeOK, Sessions, Session, wrapperVars, socketVars, fields,
              handlerVars
  <1>r. HasReceipt(ticket[w]) => HasReceipt(ticket[w])'
    BY ReceiptsStay DEF StepOf, HandlerStep, StartDeadline, CheckPeer, RefuseStart, Grant, TurnAway,
       SendTicket, TicketUnsent, ReadFinish, RunLost, Record, Leave
  <1>1. CASE CheckPeer(w)
    BY <1>1, <1>r DEF CheckPeer, Received
  <1>2. CASE RefuseStart(w)
    BY <1>2, <1>r DEF RefuseStart, Received, ReadFails, Rejected
  <1>3. CASE StartDeadline(w)
    BY <1>3, <1>r DEF StartDeadline
  <1>4. CASE Grant(w)
    BY <1>4, <1>r DEF Grant
  <1>5. CASE TurnAway(w)
    BY <1>5, <1>r DEF TurnAway, Rejected
  <1>6. CASE SendTicket(w)
    BY <1>6, <1>r DEF SendTicket, HandlerRuns, HasRun
  <1>7. CASE TicketUnsent(w)
    BY <1>7, <1>r DEF TicketUnsent
  <1>8. CASE ReadFinish(w)
    BY <1>8, <1>r DEF ReadFinish, Received
  <1>9. CASE RunLost(w)
    BY <1>9, <1>r DEF RunLost, ReadFails
  <1>10. CASE Record(w)
    <2>1. PICK after \in Snapshots : records' = Append(records, Receipt(w, after))
      BY <1>10 DEF Record
    <2>2. \E i \in DOMAIN records' : records'[i].id = run[w].id
      <3>1. records'[Len(records) + 1].id = run[w].id /\ Len(records) + 1 \in DOMAIN records'
        BY <2>1, AppendReceipt DEF Receipt
      <3> QED BY <3>1
    <2>3. handler[w] = "finished" /\ handler'[w] = "leaving" /\ ticket[w] \in {0, run[w].id}
      BY <1>10 DEF Record
    <2> HIDE DEF CollectorTypeOK, Sessions, Session
    <2>4. Session(w)
      BY DEF Sessions
    <2>5. UNCHANGED <<wrapper, ticket, toServer, toWrapper, severed>>
      BY <1>10 DEF Record
    <2>6. ticket[w] > 0 => HasReceipt(ticket[w])'
      BY <2>2, <2>3, <2>5 DEF HasReceipt
    <2> QED BY <2>3, <2>4, <2>5, <2>6 DEF Session
  <1>11. CASE Leave(w)
    BY <1>11, <1>r DEF Leave
  <1> QED BY <1>1, <1>2, <1>3, <1>4, <1>5, <1>6, <1>7, <1>8, <1>9, <1>10, <1>11 DEF HandlerStep

\* Every session keeps its shape at every step.
LEMMA SessionsStep ==
    ASSUME CollectorInv, CollectorNext
    PROVE  Sessions'
  <1> SUFFICES ASSUME NEW v \in Wrappers
               PROVE  Session(v)'
    BY DEF Sessions
  <1>0. CollectorTypeOK /\ Session(v)
    BY DEF CollectorInv, Sessions
  <1>1. ASSUME NEW w \in Wrappers, StepOf(w)
        PROVE  Session(v)'
    <2>1. CASE v = w
      BY <1>1, <2>1, WrapperSession, HandlerSession DEF StepOf
    <2>2. CASE v # w
      <3>1. HasReceipt(ticket[v]) => HasReceipt(ticket[v])'
        <4>1. ticket'[v] = ticket[v]
          BY <1>0, <1>1, <2>2, Others
        <4> QED BY <1>0, <1>1, <4>1, ReceiptsStay DEF HasReceipt
      <3> QED BY <1>0, <1>1, <2>2, <3>1, Others DEF Session
    <2> QED BY <2>1, <2>2
  <1>2. ASSUME NEW w \in Wrappers, Accept(w) \/ Register(w)
        PROVE  Session(v)'
    <2>1. UNCHANGED <<wrapper, ticket, toServer, toWrapper, severed, run, records>>
      BY <1>2 DEF Accept, Register, wrapperVars, socketVars, fields
    <2>2. \/ handler'[v] = handler[v]
          \/ handler[v] \in {"none", "accepted"} /\ handler'[v] \in {"accepted", "start"}
      <3>2. CASE Accept(w)
        BY <1>0, <3>2 DEF Accept, CollectorTypeOK
      <3>3. CASE Register(w)
        <4>1. serving = w /\ (serving \in Wrappers => handler[serving] = "accepted")
          BY <3>3 DEF Register, CollectorInv, Sealing
        <4>2. handler[w] = "accepted"
          BY <4>1
        <4>3. handler' = [handler EXCEPT ![w] = "start"]
          BY <3>3 DEF Register
        <4> QED BY <1>0, <4>2, <4>3 DEF CollectorTypeOK
      <3> QED BY <1>2, <3>2, <3>3
    <2> QED BY <1>0, <2>1, <2>2 DEF Session, HasReceipt
  <1>3. CASE ServeEnds \/ Seal \/ BrokerStep \/ Edit
    <2>1. UNCHANGED <<wrapper, ticket, toServer, toWrapper, handler, run, records>>
          /\ (v \in severed => v \in severed')
      BY <1>3 DEF ServeEnds, Seal, BrokerStep, StopAccepting, CountActive, CloseConnections, Join,
                  Edit, wrapperVars, socketVars, fields, handlerVars
    <2> QED BY <1>0, <2>1 DEF Session, HasReceipt
  <1> QED BY <1>1, <1>2, <1>3 DEF CollectorNext, StepOf, ServeStep

-----------------------------------------------------------------------------
(* Runs and their numbers *)

LEMMA RunBegins ==
    ASSUME CollectorTypeOK, NEW w \in Wrappers, run[w] = NoRun, NEW r \in RunRecord, r # NoRun,
           run' = [run EXCEPT ![w] = r]
    PROVE  /\ InProgress' = InProgress \cup {w} /\ w \notin InProgress
           /\ Cardinality(InProgress') = Cardinality(InProgress) + 1
  <1>1. InProgress' = InProgress \cup {w} /\ w \notin InProgress
    BY DEF InProgress, CollectorTypeOK
  <1>2. IsFiniteSet(InProgress)
    BY WrappersAssumption, FS_Subset DEF InProgress
  <1> QED BY <1>1, <1>2, FS_AddElement

LEMMA RunEnds ==
    ASSUME CollectorTypeOK, NEW w \in Wrappers, run[w] # NoRun, run' = [run EXCEPT ![w] = NoRun]
    PROVE  /\ InProgress' = InProgress \ {w} /\ w \in InProgress
           /\ Cardinality(InProgress') = Cardinality(InProgress) - 1
           /\ Cardinality(InProgress) > 0
  <1>1. InProgress' = InProgress \ {w} /\ w \in InProgress
    BY DEF InProgress, CollectorTypeOK
  <1>2. IsFiniteSet(InProgress)
    BY WrappersAssumption, FS_Subset DEF InProgress
  <1>3. Cardinality(InProgress') = Cardinality(InProgress) - 1
    BY <1>1, <1>2, FS_RemoveElement
  <1>4. Cardinality(InProgress) \in Nat /\ Cardinality(InProgress) # 0
    BY <1>1, <1>2, FS_CardinalityType, FS_EmptySet
  <1> QED BY <1>1, <1>3, <1>4

\* The active runs are a number of its own kind.
LEMMA ActiveIsNat ==
    ASSUME CollectorTypeOK
    PROVE  activeRuns \in Nat
  <1>1. IsFiniteSet(InProgress)
    BY WrappersAssumption, FS_Subset DEF InProgress
  <1> QED BY <1>1, FS_CardinalityType DEF CollectorTypeOK

\* What a granted run is.
LEMMA Granted ==
    ASSUME CollectorInv, NEW w \in Wrappers, Grant(w)
    PROVE  \E r \in RunRecord :
             /\ run[w] = NoRun /\ run' = [run EXCEPT ![w] = r] /\ r # NoRun
             /\ r.id = nextID + 1 /\ r.started = nextStep + 1 /\ r.before \in Snapshots
             /\ nextID' = nextID + 1 /\ nextStep' = nextStep + 1 /\ activeRuns' = activeRuns + 1
             /\ nextID + 1 \in 1..MaxRuns /\ nextStep + 1 \in 1 .. 2 * MaxRuns
             /\ UNCHANGED <<records, project, edits, disturbed>>
  <1>1. PICK before \in Snapshots :
          run' = [run EXCEPT ![w] = [id |-> nextID', started |-> nextStep', before |-> before]]
    BY DEF Grant
  <1> DEFINE r == [id |-> nextID + 1, started |-> nextStep + 1, before |-> before]
  <1>2. /\ nextID' = nextID + 1 /\ nextStep' = nextStep + 1 /\ activeRuns' = activeRuns + 1
        /\ nextID < MaxRuns /\ handler[w] = "checked"
        /\ UNCHANGED <<records, project, edits, disturbed>>
    BY DEF Grant, projectVars
  <1>3. nextID \in 0..MaxRuns /\ MaxRuns \in Nat /\ nextStep = nextID + Len(records)
        /\ Len(records) <= nextID /\ Len(records) \in Nat
    BY BoundsAssumption DEF CollectorInv, CollectorTypeOK, Counting
  <1>4. nextID + 1 \in 1..MaxRuns /\ nextStep + 1 \in 1 .. 2 * MaxRuns
    BY <1>2, <1>3
  <1>5. before \in Digest
    BY DEF CollectorInv, CollectorTypeOK, Snapshots, Digest
  <1>6. r \in RunRecord /\ r # NoRun
    BY <1>4, <1>5 DEF RunRecord, NoRun
  <1>7. run[w] = NoRun
    BY <1>2 DEF CollectorInv, HandlerRuns, HasRun
  <1> QED BY <1>1, <1>2, <1>4, <1>6, <1>7

\* What a recorded run leaves.
LEMMA Recorded ==
    ASSUME CollectorInv, NEW w \in Wrappers, Record(w)
    PROVE  \E after \in Snapshots :
             /\ run[w] # NoRun /\ run' = [run EXCEPT ![w] = NoRun]
             /\ records' = Append(records, Receipt(w, after)) /\ Receipt(w, after) \in ReceiptRecord
             /\ run[w].id \in 1..nextID /\ run[w].started \in 1..nextStep
             /\ nextStep' = nextStep + 1 /\ nextStep + 1 \in 1 .. 2 * MaxRuns
             /\ Len(records) + 1 <= nextID /\ activeRuns' = activeRuns - 1 /\ activeRuns > 0
             /\ UNCHANGED <<nextID, project, edits, disturbed>>
  <1>1. PICK after \in Snapshots : records' = Append(records, Receipt(w, after))
    BY DEF Record
  <1>2. /\ run' = [run EXCEPT ![w] = NoRun] /\ handler[w] = "finished"
        /\ nextStep' = nextStep + 1 /\ activeRuns' = activeRuns - 1
        /\ UNCHANGED <<nextID, project, edits, disturbed>>
    BY DEF Record, projectVars
  <1>3. run[w] # NoRun /\ run[w].id \in 1..nextID /\ run[w].started \in 1..nextStep
    BY <1>2 DEF CollectorInv, HandlerRuns, HasRun
  <1>4. activeRuns > 0
    BY <1>2, <1>3, RunEnds DEF CollectorInv, CollectorTypeOK
  <1>5. /\ nextID \in 0..MaxRuns /\ MaxRuns \in Nat /\ nextStep = nextID + Len(records)
        /\ Len(records) + activeRuns <= nextID /\ Len(records) \in Nat /\ activeRuns \in Nat
    BY BoundsAssumption, ActiveIsNat DEF CollectorInv, CollectorTypeOK, Counting
  <1>6. Len(records) + 1 <= nextID /\ nextStep + 1 \in 1 .. 2 * MaxRuns
    BY <1>4, <1>5
  <1>7. Receipt(w, after) \in ReceiptRecord
    <2>1. run[w].id \in 1..MaxRuns /\ run[w].started \in 1 .. 2 * MaxRuns
          /\ Len(records) + 1 \in 1..MaxRuns
      BY <1>3, <1>5, <1>6
    <2>2. (w \in disturbed) \in BOOLEAN
      OBVIOUS
    <2>3. (Incomplete \notin {run[w].before, after} /\ run[w].before = after) \in BOOLEAN
      OBVIOUS
    <2> QED BY <1>6, <2>1, <2>2, <2>3 DEF Receipt, ReceiptRecord
  <1> QED BY <1>1, <1>2, <1>3, <1>4, <1>6, <1>7

\* A run that is left without a receipt is counted out.
LEMMA Left ==
    ASSUME CollectorTypeOK, NEW w \in Wrappers, Leave(w)
    PROVE  /\ run' = [run EXCEPT ![w] = NoRun] /\ handler' = [handler EXCEPT ![w] = "done"]
           /\ InProgress' \subseteq InProgress
           /\ activeRuns' = Cardinality(InProgress') /\ activeRuns' \in Nat /\ activeRuns' <= activeRuns
           /\ UNCHANGED <<records, nextID, nextStep, project, edits, disturbed>>
  <1>1. /\ run' = [run EXCEPT ![w] = NoRun] /\ handler' = [handler EXCEPT ![w] = "done"]
        /\ activeRuns' = activeRuns - (IF run[w] = NoRun THEN 0 ELSE 1)
        /\ UNCHANGED <<records, nextID, nextStep, project, edits, disturbed>>
    BY DEF Leave, projectVars
  <1>2. activeRuns = Cardinality(InProgress) /\ activeRuns \in Nat
    BY ActiveIsNat DEF CollectorTypeOK
  <1>3. CASE run[w] = NoRun
    <2>1. run' = run
      BY <1>1, <1>3 DEF CollectorTypeOK
    <2> QED BY <1>1, <1>2, <1>3, <2>1 DEF InProgress
  <1>4. CASE run[w] # NoRun
    <2>1. /\ InProgress' = InProgress \ {w} /\ Cardinality(InProgress) > 0
          /\ Cardinality(InProgress') = Cardinality(InProgress) - 1
      BY <1>1, <1>4, RunEnds
    <2>2. activeRuns' = activeRuns - 1
      BY <1>1, <1>4
    <2> QED BY <1>1, <1>2, <2>1, <2>2
  <1> QED BY <1>1, <1>3, <1>4

\* What each step does to runs, receipts and project.
LEMMA RunCases ==
    ASSUME CollectorNext
    PROVE  \/ \E w \in Wrappers : Grant(w) \/ Record(w) \/ Leave(w) \/ NextCommand(w)
           \/ Edit
           \/ Bystander
  <1>1. ASSUME NEW w \in Wrappers, StepOf(w), ~Grant(w), ~Record(w), ~Leave(w), ~NextCommand(w)
        PROVE  Bystander
    <2>1. CASE WrapperStep(w)
      BY <1>1, <2>1 DEF WrapperStep, Dial, SendStart, ReadAnswer, GiveUp, ChildEnds, Exit, fields,
                        handlerVars, projectVars, Bystander
    <2>2. CASE HandlerStep(w)
      BY <1>1, <2>2 DEF HandlerStep, CheckPeer, RefuseStart, TurnAway, SendTicket, TicketUnsent,
                        ReadFinish, RunLost, fields, projectVars, Bystander
    <2>3. CASE StartDeadline(w)
      BY <2>3 DEF StartDeadline, fields, projectVars, Bystander
    <2> QED BY <1>1, <2>1, <2>2, <2>3 DEF StepOf
  <1>2. CASE ServeStep \/ Seal \/ BrokerStep
    BY <1>2 DEF ServeStep, ServeEnds, Accept, Register, Seal, BrokerStep, StopAccepting, CountActive,
         CloseConnections, Join, fields, handlerVars, projectVars, Bystander
  <1> QED BY <1>1, <1>2 DEF CollectorNext, StepOf

\* NextCommand and Edit change nothing of runs and receipts.
LEMMA RunsRest ==
    ASSUME Bystander \/ Edit \/ \E w \in Wrappers : NextCommand(w)
    PROVE  UNCHANGED <<records, nextID, nextStep, activeRuns, run, InProgress>>
  BY DEF Bystander, Edit, NextCommand, fields, handlerVars, InProgress

LEMMA CountingStep ==
    ASSUME CollectorInv, CollectorNext
    PROVE  Counting'
  <1>0. /\ Len(records) \in Nat /\ nextID \in Nat /\ activeRuns \in Nat /\ Counting
        /\ activeRuns = Cardinality(InProgress)
    BY ActiveIsNat DEF CollectorInv, CollectorTypeOK
  <1>1. ASSUME NEW w \in Wrappers, Grant(w)
        PROVE  Counting'
    BY <1>0, <1>1, Granted DEF Counting
  <1>2. ASSUME NEW w \in Wrappers, Record(w)
        PROVE  Counting'
    <2>1. /\ nextStep' = nextStep + 1 /\ activeRuns' = activeRuns - 1 /\ nextID' = nextID
          /\ \E r : records' = Append(records, r)
      BY <1>2, Recorded
    <2>2. Len(records') = Len(records) + 1
      BY <2>1, AppendReceipt DEF CollectorInv
    <2> QED BY <1>0, <2>1, <2>2 DEF Counting
  <1>3. ASSUME NEW w \in Wrappers, Leave(w)
        PROVE  Counting'
    BY <1>0, <1>3, Left DEF Counting, CollectorInv
  <1>4. CASE Bystander \/ Edit \/ \E w \in Wrappers : NextCommand(w)
    BY <1>0, <1>4, RunsRest DEF Counting
  <1> QED BY <1>1, <1>2, <1>3, <1>4, RunCases

\* Ids and steps of runs in progress differ from those of receipts and of each other.
LEMMA NumbersStep ==
    ASSUME CollectorInv, CollectorNext
    PROVE  Numbers'
  <1>0. Numbers /\ CollectorTypeOK /\ nextID \in Nat /\ nextStep \in Nat /\ Len(records) \in Nat
    BY DEF CollectorInv, CollectorTypeOK
  <1>a. /\ \A i \in DOMAIN records : records[i] \in ReceiptRecord
        /\ \A v \in InProgress : run[v].id \in 1..nextID /\ run[v].started \in 1..nextStep
    <2>1. records \in Seq(ReceiptRecord)
      BY DEF CollectorInv, CollectorTypeOK, ReceiptRecord
    <2> QED BY <2>1, ElementOfSeq DEF CollectorInv, HandlerRuns, HasRun, InProgress
  <1>b. \A i \in DOMAIN records : /\ records[i].id \in 1..nextID
                                  /\ records[i].started \in Nat
                                  /\ records[i].completed \in 1..nextStep
                                  /\ records[i].started < records[i].completed
    BY <1>0, <1>a DEF Numbers, ReceiptRecord, CollectorInv, ReceiptsOrdered
  <1>1. ASSUME NEW w \in Wrappers, Grant(w)
        PROVE  Numbers'
    <2>1. PICK r \in RunRecord :
             /\ run[w] = NoRun /\ run' = [run EXCEPT ![w] = r] /\ r # NoRun
             /\ r.id = nextID + 1 /\ r.started = nextStep + 1
             /\ nextID' = nextID + 1 /\ nextStep' = nextStep + 1
             /\ UNCHANGED records
      BY <1>1, Granted
    <2>2. InProgress' = InProgress \cup {w} /\ w \notin InProgress
      BY <1>0, <2>1, RunBegins
    <2>3. run'[w] = r /\ \A v \in InProgress : run'[v] = run[v] /\ v # w
      BY <1>0, <2>1, <2>2 DEF InProgress, CollectorTypeOK
    <2>4. \A i \in DOMAIN records' : records'[i].id <= nextID' /\ records'[i].completed <= nextStep'
      BY <1>0, <1>b, <2>1
    <2>5. \A v \in InProgress', i \in DOMAIN records' :
             /\ run'[v].id # records'[i].id
             /\ run'[v].started \notin {records'[i].started, records'[i].completed}
      BY <1>0, <1>b, <2>1, <2>2, <2>3 DEF Numbers
    <2>6. \A v, u \in InProgress' : v # u => run'[v].id # run'[u].id /\ run'[v].started # run'[u].started
      BY <1>0, <1>a, <2>1, <2>2, <2>3 DEF Numbers
    <2> QED BY <2>4, <2>5, <2>6 DEF Numbers
  <1>2. ASSUME NEW w \in Wrappers, Record(w)
        PROVE  Numbers'
    <2>1. PICK after \in Snapshots :
             /\ run[w] # NoRun /\ run' = [run EXCEPT ![w] = NoRun]
             /\ records' = Append(records, Receipt(w, after))
             /\ run[w].id \in 1..nextID /\ run[w].started \in 1..nextStep
             /\ nextStep' = nextStep + 1 /\ UNCHANGED nextID
      BY <1>2, Recorded
    <2>2. InProgress' = InProgress \ {w} /\ w \in InProgress
      BY <1>0, <2>1, RunEnds
    <2>3. \A v \in InProgress' : run'[v] = run[v] /\ v \in InProgress /\ v # w
      BY <1>0, <2>1, <2>2 DEF InProgress, CollectorTypeOK
    <2>4. \A i \in DOMAIN records' :
             \/ i \in DOMAIN records /\ records'[i] = records[i]
             \/ /\ records'[i].id = run[w].id /\ records'[i].started = run[w].started
                /\ records'[i].completed = nextStep + 1
      <3>1. \A i \in 1..(Len(records) + 1) : i \in 1..Len(records) \/ i = Len(records) + 1
        BY <1>0
      <3>2. /\ Receipt(w, after).id = run[w].id /\ Receipt(w, after).started = run[w].started
            /\ Receipt(w, after).completed = nextStep + 1
        BY DEF Receipt
      <3> QED BY <1>0, <2>1, <3>1, <3>2, AppendReceipt
    <2>5. \A i \in DOMAIN records' : records'[i].id <= nextID' /\ records'[i].completed <= nextStep'
      BY <1>0, <1>b, <2>1, <2>4
    <2>6. \A v \in InProgress', i \in DOMAIN records' :
             /\ run'[v].id # records'[i].id
             /\ run'[v].started \notin {records'[i].started, records'[i].completed}
      BY <1>0, <1>a, <2>1, <2>2, <2>3, <2>4 DEF Numbers
    <2>7. \A v, u \in InProgress' : v # u => run'[v].id # run'[u].id /\ run'[v].started # run'[u].started
      BY <1>0, <2>3 DEF Numbers
    <2> QED BY <2>5, <2>6, <2>7 DEF Numbers
  <1>3. ASSUME NEW w \in Wrappers, Leave(w)
        PROVE  Numbers'
    <2>1. /\ run' = [run EXCEPT ![w] = NoRun] /\ InProgress' \subseteq InProgress
          /\ UNCHANGED <<records, nextID, nextStep>>
      BY <1>0, <1>3, Left
    <2>2. \A v \in InProgress' : run'[v] = run[v] /\ v \in InProgress
      BY <1>0, <2>1 DEF InProgress, CollectorTypeOK
    <2> QED BY <1>0, <2>1, <2>2 DEF Numbers
  <1>4. CASE Bystander \/ Edit \/ \E w \in Wrappers : NextCommand(w)
    BY <1>0, <1>4, RunsRest DEF Numbers
  <1> QED BY <1>1, <1>2, <1>3, <1>4, RunCases

\* A new receipt is the last to complete, and shares its numbers with none.
LEMMA OrderedStep ==
    ASSUME CollectorInv, CollectorNext
    PROVE  ReceiptsOrdered'
  <1>0. /\ ReceiptsOrdered /\ CollectorTypeOK /\ Numbers /\ nextID \in Nat /\ nextStep \in Nat
        /\ Len(records) \in Nat
    BY DEF CollectorInv, CollectorTypeOK
  <1>1. ASSUME NEW w \in Wrappers, Record(w)
        PROVE  ReceiptsOrdered'
    <2>1. PICK after \in Snapshots :
             /\ run[w] # NoRun /\ records' = Append(records, Receipt(w, after))
             /\ run[w].started \in 1..nextStep
      BY <1>1, Recorded
    <2> DEFINE n == Len(records) + 1
               new == Receipt(w, after)
    <2>2. /\ new.id = run[w].id /\ new.started = run[w].started
          /\ new.completed = nextStep + 1 /\ new.sequence = n
      BY DEF Receipt
    <2>3. /\ DOMAIN records' = 1..n /\ DOMAIN records = 1..Len(records) /\ records'[n] = new
          /\ \A i \in DOMAIN records : records'[i] = records[i]
      BY <1>0, <2>1, AppendReceipt
    <2> HIDE DEF new
    <2>4. w \in InProgress
      BY <2>1 DEF InProgress
    <2>5. \A i \in DOMAIN records :
            /\ records[i].completed < new.completed
            /\ new.started \notin {records[i].started, records[i].completed}
            /\ records[i].id # new.id
      <3>1. \A i \in DOMAIN records : records[i].completed \in Nat
        <4>1. records \in Seq(ReceiptRecord)
          BY <1>0 DEF CollectorTypeOK, ReceiptRecord
        <4>2. \A i \in DOMAIN records : records[i] \in ReceiptRecord
          BY <4>1, ElementOfSeq
        <4> QED BY <4>2, BoundsAssumption DEF ReceiptRecord
      <3> QED BY <1>0, <2>2, <2>4, <3>1 DEF Numbers
    <2>6. new.started < new.completed
      BY <1>0, <2>1, <2>2
    <2>7. \A i \in DOMAIN records' : i = n \/ (i \in DOMAIN records /\ i < n)
      BY <1>0, <2>3
    <2> QED BY <1>0, <2>2, <2>3, <2>5, <2>6, <2>7 DEF ReceiptsOrdered
  <1>2. CASE UNCHANGED records
    BY <1>0, <1>2 DEF ReceiptsOrdered
  <1>3. ASSUME NEW w \in Wrappers, Grant(w) \/ Leave(w)
        PROVE  UNCHANGED records
    BY <1>3 DEF Grant, Leave
  <1> QED BY <1>1, <1>2, <1>3, RunCases, RunsRest

-----------------------------------------------------------------------------
(* Types, handlers and the seal *)

RunTypes ==
    /\ run \in [Wrappers -> RunRecord]
    /\ records \in Seq(ReceiptRecord)
    /\ Len(records) <= nextID /\ nextID \in 0 .. MaxRuns /\ nextStep \in 0 .. 2 * MaxRuns
    /\ activeRuns = Cardinality(InProgress)

OtherTypes ==
    /\ wrapper \in [Wrappers -> {"idle", "dialed", "starting", "running", "reporting", "gone"}]
    /\ ticket \in [Wrappers -> 0 .. MaxRuns]
    /\ toServer \in [Wrappers -> {"nothing", "start", "finish"}]
    /\ toWrapper \in [Wrappers -> NoAnswer .. MaxRuns]
    /\ handler \in [Wrappers -> {"none", "accepted", "start", "checked", "granted",
                               "waiting", "finished", "leaving", "done"}]
    /\ serving \in Wrappers \cup {"accept", "done"} /\ listening \in BOOLEAN
    /\ connections \subseteq Wrappers /\ severed \subseteq Wrappers /\ sealed \in BOOLEAN
    /\ broker \in {"harness", "sealing", "stopping", "counted", "joining", "sealed", "failed"}
    /\ stillActive \in 0 .. MaxRuns
    /\ project \in Contents /\ edits \in 0 .. MaxEdits /\ disturbed \subseteq Wrappers

LEMMA TypeStep ==
    ASSUME CollectorInv, CollectorNext
    PROVE  CollectorTypeOK'
  <1>0. CollectorTypeOK
    BY DEF CollectorInv
  <1>1. RunTypes'
    <2>0. /\ run \in [Wrappers -> RunRecord] /\ NoRun \in RunRecord
          /\ records \in Seq(ReceiptRecord) /\ Len(records) \in Nat
          /\ Len(records) <= nextID /\ nextID \in 0 .. MaxRuns /\ nextStep \in 0 .. 2 * MaxRuns
          /\ activeRuns = Cardinality(InProgress)
      <3>1. NoRun \in RunRecord
        BY BoundsAssumption DEF NoRun, RunRecord, Digest
      <3> QED BY <1>0, <3>1 DEF CollectorTypeOK, RunRecord, ReceiptRecord, Digest
    <2>1. ASSUME NEW w \in Wrappers, Grant(w)
          PROVE  RunTypes'
      <3>1. PICK r \in RunRecord :
             /\ run[w] = NoRun /\ run' = [run EXCEPT ![w] = r] /\ r # NoRun
             /\ nextID' = nextID + 1 /\ nextStep' = nextStep + 1 /\ activeRuns' = activeRuns + 1
             /\ nextID + 1 \in 1..MaxRuns /\ nextStep + 1 \in 1 .. 2 * MaxRuns
             /\ UNCHANGED records
        BY <2>1, Granted
      <3>2. Cardinality(InProgress') = Cardinality(InProgress) + 1
        BY <1>0, <3>1, RunBegins
      <3> QED BY <2>0, <3>1, <3>2 DEF RunTypes
    <2>2. ASSUME NEW w \in Wrappers, Record(w)
          PROVE  RunTypes'
      <3>1. PICK after \in Snapshots :
             /\ run[w] # NoRun /\ run' = [run EXCEPT ![w] = NoRun]
             /\ records' = Append(records, Receipt(w, after)) /\ Receipt(w, after) \in ReceiptRecord
             /\ nextStep' = nextStep + 1 /\ nextStep + 1 \in 1 .. 2 * MaxRuns
             /\ Len(records) + 1 <= nextID /\ activeRuns' = activeRuns - 1
             /\ UNCHANGED nextID
        BY <2>2, Recorded
      <3>2. Cardinality(InProgress') = Cardinality(InProgress) - 1
        BY <1>0, <3>1, RunEnds
      <3>3. records' \in Seq(ReceiptRecord) /\ Len(records') = Len(records) + 1
        BY <2>0, <3>1, AppendProperties
      <3> QED BY <2>0, <3>1, <3>2, <3>3 DEF RunTypes
    <2>3. ASSUME NEW w \in Wrappers, Leave(w)
          PROVE  RunTypes'
      <3>1. run' = [run EXCEPT ![w] = NoRun] /\ activeRuns' = Cardinality(InProgress')
            /\ UNCHANGED <<records, nextID, nextStep>>
        BY <1>0, <2>3, Left
      <3> QED BY <2>0, <3>1 DEF RunTypes
    <2>4. CASE Bystander \/ Edit \/ \E w \in Wrappers : NextCommand(w)
      BY <2>0, <2>4, RunsRest DEF RunTypes
    <2> QED BY <2>1, <2>2, <2>3, <2>4, RunCases
  <1>2. OtherTypes'
    <2> USE <1>0, BoundsAssumption DEF CollectorTypeOK, OtherTypes, wrapperVars, socketVars, fields,
                                           handlerVars, brokerVars, projectVars
    <2>1. ASSUME NEW w \in Wrappers, WrapperStep(w)
          PROVE  OtherTypes'
      <3>1. CASE Dial(w) \/ SendStart(w) \/ GiveUp(w) \/ ChildEnds(w) \/ Exit(w)
        BY <3>1 DEF Dial, SendStart, GiveUp, ChildEnds, Exit
      <3>2. CASE ReadAnswer(w)
        BY <3>2 DEF ReadAnswer, NoAnswer
      <3>3. CASE NextCommand(w)
        BY <3>3 DEF NextCommand, NoAnswer
      <3> QED BY <2>1, <3>1, <3>2, <3>3 DEF WrapperStep
    <2>2. ASSUME NEW w \in Wrappers, HandlerStep(w) \/ StartDeadline(w)
          PROVE  OtherTypes'
      <3>1. CASE CheckPeer(w) \/ StartDeadline(w) \/ Grant(w) \/ TicketUnsent(w)
        BY <3>1 DEF CheckPeer, StartDeadline, Grant, TicketUnsent
      <3>4. CASE ReadFinish(w) \/ RunLost(w)
        BY <3>4 DEF ReadFinish, RunLost
      <3>5. CASE Record(w)
        BY <3>5 DEF Record
      <3>6. CASE Leave(w)
        <4>1. /\ handler' = [handler EXCEPT ![w] = "done"] /\ connections' \subseteq connections
              /\ UNCHANGED <<wrapper, ticket, toServer, toWrapper, severed, listening, serving, sealed,
                             broker, stillActive, project, edits, disturbed>>
          BY <3>6 DEF Leave
        <4> QED BY <4>1
      <3>2. CASE RefuseStart(w) \/ TurnAway(w)
        <4>1. Rejected \in NoAnswer .. MaxRuns
          BY DEF Rejected, NoAnswer
        <4>2. CASE RefuseStart(w)
          BY <4>1, <4>2 DEF RefuseStart
        <4>3. CASE TurnAway(w)
          BY <4>1, <4>3 DEF TurnAway
        <4> QED BY <3>2, <4>2, <4>3
      <3>3. CASE SendTicket(w)
        BY <3>3 DEF SendTicket, NoAnswer
      <3> QED BY <2>2, <3>1, <3>2, <3>3, <3>4, <3>5, <3>6 DEF HandlerStep
    <2>3. CASE ServeStep
      BY <2>3 DEF ServeStep, ServeEnds, Accept, Register
    <2>4. CASE CountActive
      <3>1. activeRuns \in 0 .. MaxRuns
        BY ActiveIsNat DEF CollectorInv, Counting
      <3> QED BY <2>4, <3>1 DEF CountActive
    <2>5. CASE Seal \/ StopAccepting \/ CloseConnections \/ Join
      BY <2>5 DEF Seal, StopAccepting, CloseConnections, Join
    <2>6. CASE Edit
      BY <2>6 DEF Edit
    <2> QED BY <2>1, <2>2, <2>3, <2>4, <2>5, <2>6 DEF CollectorNext, BrokerStep
  <1> QED BY <1>1, <1>2 DEF RunTypes, OtherTypes, CollectorTypeOK, RunRecord, ReceiptRecord, Digest

LEMMA HandlerRunsStep ==
    ASSUME CollectorInv, CollectorNext
    PROVE  HandlerRuns'
  <1> SUFFICES ASSUME NEW v \in Wrappers
               PROVE  HasRun(v)'
    BY DEF HandlerRuns
  <1>0. CollectorTypeOK /\ nextID \in Nat /\ nextStep \in Nat /\ HasRun(v)
    <2>1. CollectorTypeOK /\ HasRun(v)
      BY DEF CollectorInv, HandlerRuns
    <2> QED BY <2>1, BoundsAssumption DEF CollectorTypeOK
  <1> DEFINE Grows == nextID' \in Nat /\ nextStep' \in Nat /\ nextID <= nextID' /\ nextStep <= nextStep'
  <1>1. Grows
    <2>1. ASSUME NEW w \in Wrappers, Grant(w) \/ Record(w) \/ Leave(w)
          PROVE  Grows
      BY <1>0, <2>1 DEF Grant, Record, Leave
    <2> QED BY <1>0, <2>1, RunCases, RunsRest
  <1>2. ASSUME NEW w \in Wrappers, StepOf(w)
        PROVE  HasRun(v)'
    <2>1. CASE v # w
      <3>1. handler'[v] = handler[v] /\ run'[v] = run[v]
        BY <1>0, <1>2, <2>1, Others
      <3> QED BY <1>0, <1>1, <3>1 DEF HasRun
    <2>2. CASE v = w /\ Grant(w)
      <3>1. PICK r \in RunRecord :
             /\ run' = [run EXCEPT ![w] = r] /\ r # NoRun
             /\ r.id = nextID + 1 /\ r.started = nextStep + 1
             /\ nextID' = nextID + 1 /\ nextStep' = nextStep + 1
        BY <2>2, Granted DEF CollectorInv
      <3>2. run'[v] = r /\ handler'[v] = "granted"
        BY <1>0, <2>2, <3>1 DEF CollectorTypeOK, Grant
      <3> QED BY <1>0, <3>1, <3>2 DEF HasRun
    <2>3. CASE v = w /\ (Record(w) \/ Leave(w))
      <3>1. run'[v] = NoRun /\ handler'[v] \in {"leaving", "done"}
        BY <1>0, <2>3 DEF CollectorTypeOK, Record, Leave
      <3> QED BY <3>1 DEF HasRun
    <2>4. CASE v = w /\ ~Grant(w) /\ ~Record(w) /\ ~Leave(w)
      <3>1. run' = run /\ (handler'[v] # handler[v] =>
                \/ handler[v] \in {"start", "checked"} /\ handler'[v] = "leaving"
                \/ handler[v] = "start" /\ handler'[v] = "checked"
                \/ handler[v] \in {"granted", "waiting"} /\ handler'[v] = "leaving"
                \/ handler[v] = "granted" /\ handler'[v] = "waiting"
                \/ handler[v] = "waiting" /\ handler'[v] = "finished"
                \/ handler[v] = "done" /\ handler'[v] = "none")
        <4>1. CASE WrapperStep(w)
          BY <1>0, <2>4, <4>1 DEF CollectorTypeOK, WrapperStep, Dial, SendStart, ReadAnswer, GiveUp, ChildEnds,
                             Exit, NextCommand, handlerVars
        <4>2. CASE HandlerStep(w) \/ StartDeadline(w)
          BY <1>0, <2>4, <4>2 DEF CollectorTypeOK, HandlerStep, StartDeadline, CheckPeer, RefuseStart, TurnAway,
                             SendTicket, TicketUnsent, ReadFinish, RunLost
        <4> QED BY <1>2, <4>1, <4>2 DEF StepOf
      <3> QED BY <1>0, <1>1, <3>1 DEF HasRun
    <2> QED BY <2>1, <2>2, <2>3, <2>4
  <1>3. ASSUME NEW w \in Wrappers, Accept(w) \/ Register(w)
        PROVE  HasRun(v)'
    <2>1. UNCHANGED <<run, nextID, nextStep>>
      BY <1>3 DEF Accept, Register, fields
    <2>2. \/ handler'[v] = handler[v]
          \/ handler[v] \in {"none", "accepted"} /\ handler'[v] \in {"accepted", "start"}
      <3>1. CASE Accept(w)
        BY <1>0, <3>1 DEF Accept, CollectorTypeOK
      <3>2. CASE Register(w)
        <4>1. serving = w /\ (serving \in Wrappers => handler[serving] = "accepted")
          BY <3>2 DEF Register, CollectorInv, Sealing
        <4>2. handler[w] = "accepted"
          BY <4>1
        <4>3. handler' = [handler EXCEPT ![w] = "start"]
          BY <3>2 DEF Register
        <4> QED BY <1>0, <4>2, <4>3 DEF CollectorTypeOK
      <3> QED BY <1>3, <3>1, <3>2
    <2> QED BY <1>0, <2>1, <2>2 DEF HasRun
  <1>4. CASE ServeEnds \/ Seal \/ BrokerStep \/ Edit
    <2>1. UNCHANGED <<run, handler, nextID, nextStep>>
      BY <1>4 DEF ServeEnds, Seal, BrokerStep, StopAccepting, CountActive, CloseConnections, Join,
                  Edit, fields, handlerVars
    <2> QED BY <1>0, <2>1 DEF HasRun
  <1> QED BY <1>2, <1>3, <1>4 DEF CollectorNext, StepOf, ServeStep

\* The seal's steps are in order, and what it has closed stays closed.
LEMMA SealingStep ==
    ASSUME CollectorInv, CollectorNext
    PROVE  Sealing'
  <1>0. Sealing /\ CollectorTypeOK
    BY DEF CollectorInv
  <1>1. ASSUME NEW w \in Wrappers, WrapperStep(w)
        PROVE  Sealing'
    <2>1. UNCHANGED <<serving, listening, sealed, broker, stillActive>>
      BY <1>1 DEF WrapperStep, Dial, SendStart, ReadAnswer, GiveUp, ChildEnds, Exit, NextCommand,
                  socketVars, fields, handlerVars, brokerVars
    <2>2. CASE NextCommand(w)
      <3>1. /\ listening /\ handler[w] = "done" /\ handler' = [handler EXCEPT ![w] = "none"]
            /\ severed' \subseteq severed
        BY <2>2 DEF NextCommand
      <3> QED BY <1>0, <2>1, <3>1 DEF Sealing, CollectorTypeOK
    <2>3. CASE ~NextCommand(w)
      <3>1. UNCHANGED <<handler, severed>>
        BY <1>1, <2>3 DEF WrapperStep, Dial, SendStart, ReadAnswer, GiveUp, ChildEnds, Exit,
                    socketVars, handlerVars
      <3> QED BY <1>0, <2>1, <3>1 DEF Sealing
    <2> QED BY <2>2, <2>3
  <1>2. ASSUME NEW w \in Wrappers, HandlerStep(w) \/ StartDeadline(w)
        PROVE  Sealing'
    <2>1. UNCHANGED <<serving, listening, sealed, broker, stillActive, severed>>
      <3>1. CASE CheckPeer(w) \/ RefuseStart(w) \/ StartDeadline(w) \/ Grant(w) \/ TurnAway(w)
        BY <3>1 DEF CheckPeer, RefuseStart, StartDeadline, Grant, TurnAway, socketVars, fields, brokerVars
      <3>2. CASE SendTicket(w) \/ TicketUnsent(w) \/ ReadFinish(w) \/ RunLost(w) \/ Record(w) \/ Leave(w)
        BY <3>2 DEF SendTicket, TicketUnsent, ReadFinish, RunLost, Record, Leave, socketVars, fields, brokerVars
      <3> QED BY <1>2, <3>1, <3>2 DEF HandlerStep
    <2>2. /\ handler[w] \notin {"none", "accepted", "done"}
          /\ \A v \in Wrappers : v # w => handler'[v] = handler[v]
      <3>1. CASE CheckPeer(w) \/ RefuseStart(w) \/ StartDeadline(w) \/ Grant(w) \/ TurnAway(w)
        BY <1>0, <3>1 DEF CheckPeer, RefuseStart, StartDeadline, Grant, TurnAway, CollectorTypeOK
      <3>2. CASE SendTicket(w) \/ TicketUnsent(w) \/ ReadFinish(w) \/ RunLost(w) \/ Record(w) \/ Leave(w)
        BY <1>0, <3>2 DEF SendTicket, TicketUnsent, ReadFinish, RunLost, Record, Leave, CollectorTypeOK
      <3> QED BY <1>2, <3>1, <3>2 DEF HandlerStep
    <2>3. serving # w /\ broker \notin {"sealed", "failed"}
      BY <1>0, <2>2 DEF Sealing
    <2> QED BY <1>0, <2>1, <2>2, <2>3 DEF Sealing
  <1>3. ASSUME NEW w \in Wrappers, Accept(w)
        PROVE  Sealing'
    <2>1. /\ listening /\ serving' = w /\ handler' = [handler EXCEPT ![w] = "accepted"]
          /\ UNCHANGED <<listening, sealed, broker, stillActive, severed>>
      BY <1>3 DEF Accept, socketVars, fields, brokerVars
    <2> QED BY <1>0, <2>1 DEF Sealing, CollectorTypeOK
  <1>4. ASSUME NEW w \in Wrappers, Register(w)
        PROVE  Sealing'
    <2>1. /\ serving = w /\ serving' = "accept" /\ handler' = [handler EXCEPT ![w] = "start"]
          /\ UNCHANGED <<listening, sealed, broker, stillActive, severed>>
      BY <1>4 DEF Register, socketVars, brokerVars
    <2>2. broker \in {"harness", "sealing", "stopping"}
      BY <1>0, <2>1, ServingAssumption DEF Sealing, CollectorTypeOK
    <2> QED BY <1>0, <2>1, <2>2, ServingAssumption DEF Sealing
  <1>5. CASE ServeEnds \/ Seal \/ BrokerStep \/ Edit
    <2>1. handler' = handler
      BY <1>5 DEF ServeEnds, Seal, BrokerStep, StopAccepting, CountActive, CloseConnections, Join,
                  Edit, handlerVars
    <2>2. CASE ServeEnds
      BY <1>0, <2>1, <2>2, ServingAssumption DEF ServeEnds, Sealing, socketVars, fields, brokerVars
    <2>3. CASE Seal
      BY <1>0, <2>1, <2>3 DEF Seal, Sealing, socketVars, handlerVars
    <2>4. CASE StopAccepting
      BY <1>0, <2>1, <2>4 DEF StopAccepting, Sealing, fields, handlerVars
    <2>5. CASE CountActive
      BY <1>0, <2>1, <2>5 DEF CountActive, Sealing, socketVars, fields, handlerVars
    <2>6. CASE CloseConnections
      BY <1>0, <2>1, <2>6 DEF CloseConnections, Sealing, fields, handlerVars
    <2>7. CASE Join
      <3>1. stillActive \in Nat
        BY <1>0, BoundsAssumption DEF CollectorTypeOK
      <3> QED BY <1>0, <2>1, <2>7, <3>1 DEF Join, Sealing, socketVars, fields, handlerVars
    <2>8. CASE Edit
      BY <1>0, <2>1, <2>8 DEF Edit, Sealing, socketVars, fields, handlerVars, brokerVars
    <2> QED BY <1>5, <2>2, <2>3, <2>4, <2>5, <2>6, <2>7, <2>8 DEF BrokerStep
  <1> QED BY <1>1, <1>2, <1>3, <1>4, <1>5 DEF CollectorNext, ServeStep

\* Without an active run no wrapper is observed and none has left an exit code behind.
LEMMA NoneActive ==
    ASSUME CollectorInv, broker = "stopping", activeRuns = 0, NEW w \in Wrappers
    PROVE  /\ run[w] = NoRun /\ toServer[w] # "finish"
           /\ wrapper[w] = "running" => ticket[w] = 0
           /\ wrapper[w] = "starting" => toWrapper[w] <= 0
  <1>1. CollectorTypeOK /\ Session(w) /\ HasRun(w) /\ severed = {}
    BY DEF CollectorInv, Sessions, HandlerRuns, Sealing
  <1>2. InProgress = {}
    <2>1. IsFiniteSet(InProgress)
      BY WrappersAssumption, FS_Subset DEF InProgress
    <2> QED BY <1>1, <2>1, FS_EmptySet DEF CollectorTypeOK
  <1>3. run[w] = NoRun /\ handler[w] \notin {"granted", "waiting", "finished"}
    BY <1>1, <1>2 DEF InProgress, HasRun
  <1>4. ticket[w] \in Nat /\ toWrapper[w] \in Int
    BY <1>1, BoundsAssumption DEF CollectorTypeOK, NoAnswer
  <1> QED BY <1>1, <1>3, <1>4 DEF Session

LEMMA QuietStep ==
    ASSUME CollectorInv, CollectorNext
    PROVE  Quiet'
  <1>0. CollectorTypeOK /\ Quiet /\ Sealing /\ HandlerRuns /\ Sessions
    BY DEF CollectorInv
  <1> SUFFICES ASSUME broker' \in {"counted", "joining", "sealed"}, stillActive' = 0, NEW v \in Wrappers
               PROVE  /\ run'[v] = NoRun /\ toServer'[v] # "finish"
                      /\ wrapper'[v] = "running" => ticket'[v] = 0
                      /\ wrapper'[v] = "starting" => toWrapper'[v] <= 0
    BY DEF Quiet
  <1>1. CASE CountActive
    BY <1>1, NoneActive DEF CountActive, wrapperVars, socketVars, handlerVars
  <1>2. CASE ~CountActive
    <2>1. broker \in {"counted", "joining", "sealed"} /\ stillActive = 0
      BY <1>2 DEF CollectorNext, WrapperStep, HandlerStep, ServeStep, BrokerStep, StartDeadline, Dial, SendStart,
         ReadAnswer, GiveUp, ChildEnds, Exit, NextCommand, CheckPeer, RefuseStart, Grant, TurnAway,
         SendTicket, TicketUnsent, ReadFinish, RunLost, Record, Leave, Accept, Register, ServeEnds,
         Seal, StopAccepting, CloseConnections, Join, Edit, brokerVars
    <2>2. \A w \in Wrappers :
            /\ run[w] = NoRun /\ toServer[w] # "finish"
            /\ wrapper[w] = "running" => ticket[w] = 0
            /\ wrapper[w] = "starting" => toWrapper[w] <= 0
            /\ handler[w] \notin {"granted", "waiting", "finished"}
      BY <1>0, <2>1 DEF Quiet, HandlerRuns, HasRun
    <2>3. sealed /\ ~listening
      BY <1>0, <2>1 DEF Sealing
    <2> DEFINE Undone == /\ run'[v] = NoRun /\ toServer'[v] # "finish"
                         /\ wrapper'[v] = "running" => ticket'[v] = 0
                         /\ wrapper'[v] = "starting" => toWrapper'[v] <= 0
    <2>4. ASSUME NEW w \in Wrappers, StepOf(w), v # w
          PROVE  Undone
      BY <1>0, <2>2, <2>4, Others
    <2>5. CASE WrapperStep(v)
      <3>1. ticket[v] \in Nat /\ toWrapper[v] \in NoAnswer .. MaxRuns /\ Session(v)
        BY <1>0, BoundsAssumption DEF CollectorTypeOK, Sessions
      <3>2. run' = run
        BY <2>5 DEF WrapperStep, Dial, SendStart, ReadAnswer, GiveUp, ChildEnds, Exit, NextCommand,
                    handlerVars
      <3>3. CASE Dial(v)
        BY <1>0, <2>2, <2>3, <3>1, <3>2, <3>3 DEF Dial, Session, CollectorTypeOK, socketVars
      <3>4. CASE SendStart(v)
        BY <1>0, <2>2, <3>1, <3>2, <3>4, BoundsAssumption DEF SendStart, Session, CollectorTypeOK, NoAnswer
      <3>5. CASE ReadAnswer(v)
        <4>1. /\ wrapper[v] = "starting" /\ toWrapper[v] # NoAnswer
              /\ ticket' = [ticket EXCEPT ![v] = toWrapper[v]]
              /\ wrapper' = [wrapper EXCEPT ![v] = "running"]
              /\ UNCHANGED toServer
          BY <3>5 DEF ReadAnswer
        <4>2. toWrapper[v] = 0
          BY <2>2, <3>1, <4>1, BoundsAssumption DEF NoAnswer
        <4>3. wrapper'[v] = "running" /\ ticket'[v] = 0
          BY <1>0, <4>1, <4>2 DEF CollectorTypeOK
        <4> QED BY <2>2, <3>2, <4>1, <4>3
      <3>6. CASE GiveUp(v)
        BY <1>0, <2>2, <3>1, <3>2, <3>6 DEF GiveUp, Session, CollectorTypeOK, socketVars
      <3>7. CASE ChildEnds(v) \/ Exit(v)
        BY <1>0, <2>2, <3>1, <3>2, <3>7 DEF ChildEnds, Exit, CollectorTypeOK, socketVars
      <3>8. CASE NextCommand(v)
        BY <2>3, <3>8 DEF NextCommand
      <3> QED BY <2>5, <3>3, <3>4, <3>5, <3>6, <3>7, <3>8 DEF WrapperStep
    <2>6. CASE HandlerStep(v) \/ StartDeadline(v)
      <3>1. toWrapper[v] \in NoAnswer .. MaxRuns
        BY <1>0 DEF CollectorTypeOK
      <3>2. CASE CheckPeer(v) \/ RefuseStart(v) \/ StartDeadline(v) \/ TurnAway(v)
        BY <1>0, <2>2, <3>1, <3>2, BoundsAssumption
           DEF CheckPeer, RefuseStart, StartDeadline, TurnAway, CollectorTypeOK, wrapperVars,
               socketVars, Rejected, NoAnswer
      <3>3. CASE Leave(v)
        <4>1. UNCHANGED <<wrapper, ticket, toServer, toWrapper>> /\ run' = [run EXCEPT ![v] = NoRun]
          BY <3>3 DEF Leave, wrapperVars, socketVars
        <4> QED BY <1>0, <2>2, <4>1 DEF CollectorTypeOK
      <3>4. CASE Grant(v) \/ SendTicket(v) \/ TicketUnsent(v) \/ ReadFinish(v) \/ RunLost(v) \/ Record(v)
        BY <2>2, <2>3, <3>4 DEF Grant, SendTicket, TicketUnsent, ReadFinish, RunLost, Record
      <3> QED BY <2>6, <3>2, <3>3, <3>4 DEF HandlerStep
    <2>7. CASE ServeStep \/ Seal \/ BrokerStep \/ Edit
      <3>1. UNCHANGED <<wrapper, ticket, toServer, toWrapper, run>>
        BY <2>7 DEF ServeStep, ServeEnds, Accept, Register, Seal, BrokerStep, StopAccepting, CountActive,
                    CloseConnections, Join, Edit, wrapperVars, socketVars, handlerVars
      <3> QED BY <2>2, <3>1
    <2> QED BY <2>4, <2>5, <2>6, <2>7 DEF CollectorNext, StepOf
  <1> QED BY <1>1, <1>2

-----------------------------------------------------------------------------
(* Edits of the project *)

\* What a step other than an edit does to the disturbed: none is added, and a ticket is
\* taken from nobody but a wrapper that is over.
LEMMA DisturbedStay ==
    ASSUME CollectorInv, CollectorNext, ~Edit
    PROVE  /\ disturbed' \subseteq disturbed /\ UNCHANGED <<project, edits>>
           /\ \A v \in disturbed' : ticket'[v] = ticket[v]
  <1>0. CollectorTypeOK /\ Sessions /\ (\A v \in disturbed : ticket[v] > 0)
    BY DEF CollectorInv, Edits
  <1>1. ASSUME NEW w \in Wrappers, NextCommand(w)
        PROVE  /\ disturbed' \subseteq disturbed /\ UNCHANGED <<project, edits>>
               /\ \A v \in disturbed' : ticket'[v] = ticket[v]
    BY <1>0, <1>1 DEF NextCommand, CollectorTypeOK
  <1>2. ASSUME NEW w \in Wrappers, ReadAnswer(w)
        PROVE  /\ disturbed' \subseteq disturbed /\ UNCHANGED <<project, edits>>
               /\ \A v \in disturbed' : ticket'[v] = ticket[v]
    <2>1. w \notin disturbed
      BY <1>0, <1>2 DEF ReadAnswer, Sessions, Session
    <2> QED BY <1>0, <1>2, <2>1 DEF ReadAnswer, CollectorTypeOK, projectVars
  <1>3. CASE ~(\E w \in Wrappers : NextCommand(w) \/ ReadAnswer(w))
    <2>1. UNCHANGED <<project, edits, disturbed, ticket>>
      <3>1. CASE \E w \in Wrappers : WrapperStep(w)
        BY <1>3, <3>1 DEF WrapperStep, Dial, SendStart, GiveUp, ChildEnds, Exit, projectVars
      <3>2. CASE \E w \in Wrappers : HandlerStep(w) \/ StartDeadline(w)
        BY <3>2 DEF HandlerStep, StartDeadline, CheckPeer, RefuseStart, Grant, TurnAway, SendTicket,
             TicketUnsent, ReadFinish, RunLost, Record, Leave, wrapperVars, projectVars
      <3>3. CASE ServeStep \/ Seal \/ BrokerStep
        BY <3>3 DEF ServeStep, ServeEnds, Accept, Register, Seal, BrokerStep, StopAccepting, CountActive,
                    CloseConnections, Join, wrapperVars, projectVars
      <3> QED BY <3>1, <3>2, <3>3 DEF CollectorNext
    <2> QED BY <2>1
  <1> QED BY <1>1, <1>2, <1>3

LEMMA EditsStep ==
    ASSUME CollectorInv, CollectorNext
    PROVE  Edits'
  <1>0. /\ CollectorTypeOK /\ Edits /\ Sessions /\ edits \in Nat
        /\ \A v \in Wrappers : ticket[v] \in Nat
    BY BoundsAssumption DEF CollectorInv, CollectorTypeOK
  <1>1. CASE Edit
    <2>1. /\ edits' = edits + 1 /\ project' \in Contents \ {project}
          /\ disturbed' = disturbed \cup {w \in Wrappers : wrapper[w] = "running" /\ ticket[w] > 0}
          /\ UNCHANGED <<run, ticket, records, InProgress>>
      BY <1>1 DEF Edit, wrapperVars, fields, handlerVars, InProgress
    <2>2. edits' # 0 /\ (edits' = 1 => edits = 0)
      BY <1>0, <2>1
    <2> QED BY <1>0, <2>1, <2>2 DEF Edits
  <1>2. CASE ~Edit
    <2>0. /\ disturbed' \subseteq disturbed /\ UNCHANGED <<project, edits>>
          /\ \A v \in disturbed' : ticket'[v] = ticket[v]
      BY <1>2, DisturbedStay
    <2>1. ASSUME NEW w \in Wrappers, Grant(w)
          PROVE  Edits'
      <3>1. PICK r \in RunRecord :
             /\ run[w] = NoRun /\ run' = [run EXCEPT ![w] = r] /\ r # NoRun
             /\ r.before \in Snapshots /\ UNCHANGED records
        BY <2>1, Granted
      <3>2. InProgress' = InProgress \cup {w} /\ w \notin InProgress
        BY <1>0, <3>1, RunBegins
      <3>3. run'[w] = r /\ \A v \in InProgress : run'[v] = run[v]
        BY <1>0, <3>1, <3>2 DEF InProgress, CollectorTypeOK
      <3>4. w \notin disturbed
        BY <1>0, <2>1 DEF Grant, Sessions, Session, Edits
      <3>5. project = Baseline => r.before \in {Baseline, Incomplete}
        BY <3>1 DEF Snapshots
      <3> QED BY <1>0, <2>0, <3>1, <3>2, <3>3, <3>4, <3>5 DEF Edits
    <2>2. ASSUME NEW w \in Wrappers, Record(w)
          PROVE  Edits'
      <3>1. PICK after \in Snapshots :
             /\ run[w] # NoRun /\ run' = [run EXCEPT ![w] = NoRun]
             /\ records' = Append(records, Receipt(w, after))
        BY <2>2, Recorded
      <3>2. InProgress' = InProgress \ {w}
        BY <1>0, <3>1, RunEnds
      <3>3. \A v \in InProgress' : run'[v] = run[v] /\ v \in InProgress
        BY <1>0, <3>1, <3>2 DEF InProgress, CollectorTypeOK
      <3>4. \A i \in DOMAIN records' : \/ i \in DOMAIN records /\ records'[i] = records[i]
                                       \/ records'[i].overlapped = (w \in disturbed)
        <4>1. Receipt(w, after).overlapped = (w \in disturbed)
          BY DEF Receipt
        <4>2. \A i \in 1..(Len(records) + 1) : i \in 1..Len(records) \/ i = Len(records) + 1
          BY <1>0 DEF CollectorTypeOK
        <4> QED BY <1>0, <3>1, <4>1, <4>2, AppendReceipt
      <3> QED BY <1>0, <2>0, <3>3, <3>4 DEF Edits
    <2>3. ASSUME NEW w \in Wrappers, Leave(w)
          PROVE  Edits'
      <3>1. run' = [run EXCEPT ![w] = NoRun] /\ InProgress' \subseteq InProgress /\ UNCHANGED records
        BY <1>0, <2>3, Left
      <3>2. \A v \in InProgress' : run'[v] = run[v] /\ v \in InProgress
        BY <1>0, <3>1 DEF InProgress, CollectorTypeOK
      <3> QED BY <1>0, <2>0, <3>1, <3>2 DEF Edits
    <2>4. CASE Bystander \/ \E w \in Wrappers : NextCommand(w)
      <3>1. UNCHANGED <<records, run, InProgress>>
        BY <2>4, RunsRest
      <3> QED BY <1>0, <2>0, <3>1 DEF Edits
    <2> QED BY <1>2, <2>1, <2>2, <2>3, <2>4, RunCases
  <1> QED BY <1>1, <1>2

LEMMA OverlapStep ==
    ASSUME CollectorInv, CollectorNext
    PROVE  OverlapIsSeen'
  <1>0. CollectorTypeOK /\ Edits /\ OverlapIsSeen /\ edits \in Nat
    BY BoundsAssumption DEF CollectorInv, CollectorTypeOK
  <1> SUFFICES ASSUME edits' = 1
               PROVE  \A i \in DOMAIN records' : records'[i].overlapped => ~records'[i].stable
    BY DEF OverlapIsSeen
  <1>1. CASE Edit
    <2>1. edits = 0 /\ records' = records
      BY <1>0, <1>1 DEF Edit, fields
    <2> QED BY <1>0, <2>1 DEF Edits
  <1>2. CASE ~Edit
    <2>0. edits = 1
      BY <1>2, DisturbedStay
    <2>1. ASSUME NEW w \in Wrappers, Record(w)
          PROVE  \A i \in DOMAIN records' : records'[i].overlapped => ~records'[i].stable
      <3>1. PICK after \in Snapshots :
             run[w] # NoRun /\ records' = Append(records, Receipt(w, after))
        BY <2>1, Recorded
      <3>2. w \in disturbed => run[w].before \in {Baseline, Incomplete}
        BY <1>0, <2>0, <3>1 DEF Edits, InProgress
      <3>3. after \in {project, Incomplete} /\ project # Baseline
        BY <1>0, <2>0 DEF Snapshots, Edits
      <3>4. Receipt(w, after).overlapped => ~Receipt(w, after).stable
        BY <3>2, <3>3 DEF Receipt
      <3>5. \A i \in 1..(Len(records) + 1) : i \in 1..Len(records) \/ i = Len(records) + 1
        BY <1>0 DEF CollectorTypeOK
      <3> QED BY <1>0, <2>0, <3>1, <3>4, <3>5, AppendReceipt DEF OverlapIsSeen
    <2>2. ASSUME NEW w \in Wrappers, Grant(w) \/ Leave(w)
          PROVE  records' = records
      BY <2>2 DEF Grant, Leave
    <2> QED BY <1>0, <1>2, <2>0, <2>1, <2>2, RunCases, RunsRest DEF OverlapIsSeen
  <1> QED BY <1>1, <1>2

-----------------------------------------------------------------------------
(* The invariant and what follows *)

LEMMA InitCollector == CollectorInit => CollectorInv
  <1> SUFFICES ASSUME CollectorInit
               PROVE  CollectorInv
    OBVIOUS
  <1>1. InProgress = {} /\ records = << >> /\ DOMAIN records = {} /\ Len(records) = 0
    BY DEF CollectorInit, InProgress
  <1>2. CollectorTypeOK
    <2>1. 0 \in 0 .. MaxRuns /\ 0 \in 0 .. 2 * MaxRuns /\ NoAnswer \in NoAnswer .. MaxRuns
          /\ 0 \in 0 .. MaxEdits
      BY BoundsAssumption DEF NoAnswer
    <2>2. NoRun \in RunRecord
      BY <2>1 DEF NoRun, RunRecord, Digest
    <2>3. Cardinality(InProgress) = 0
      BY <1>1, FS_EmptySet
    <2>4. /\ run \in [Wrappers -> RunRecord]
          /\ wrapper \in [Wrappers -> {"idle", "dialed", "starting", "running", "reporting", "gone"}]
          /\ handler \in [Wrappers -> {"none", "accepted", "start", "checked", "granted",
                                       "waiting", "finished", "leaving", "done"}]
      BY <2>2 DEF CollectorInit
    <2>5. /\ ticket \in [Wrappers -> 0 .. MaxRuns]
          /\ toServer \in [Wrappers -> {"nothing", "start", "finish"}]
          /\ toWrapper \in [Wrappers -> NoAnswer .. MaxRuns]
      BY <2>1 DEF CollectorInit
    <2>6. /\ connections \subseteq Wrappers /\ severed \subseteq Wrappers /\ disturbed \subseteq Wrappers
          /\ stillActive \in 0 .. MaxRuns /\ project \in Contents /\ edits \in 0 .. MaxEdits
          /\ nextID \in 0 .. MaxRuns /\ nextStep \in 0 .. 2 * MaxRuns
      BY <2>1, ContentsAssumption DEF CollectorInit
    <2>7. /\ records \in Seq([id : 1 .. MaxRuns, sequence : 1 .. MaxRuns, started : 1 .. 2 * MaxRuns,
                            completed : 1 .. 2 * MaxRuns, stable : BOOLEAN, overlapped : BOOLEAN])
          /\ Len(records) <= nextID
          /\ activeRuns = Cardinality(InProgress)
      BY <1>1, <2>3 DEF CollectorInit
    <2>8. /\ serving \in Wrappers \cup {"accept", "done"} /\ listening \in BOOLEAN /\ sealed \in BOOLEAN
          /\ broker \in {"harness", "sealing", "stopping", "counted", "joining", "sealed", "failed"}
      BY DEF CollectorInit
    <2> QED BY <2>4, <2>5, <2>6, <2>7, <2>8 DEF CollectorTypeOK, RunRecord, Digest
  <1>3. Counting /\ HandlerRuns /\ Numbers /\ ReceiptsOrdered /\ OverlapIsSeen
    BY <1>1 DEF CollectorInit, Counting, HandlerRuns, HasRun, Numbers, ReceiptsOrdered, OverlapIsSeen
  <1>4. Sessions
    BY DEF CollectorInit, Sessions, Session, NoAnswer
  <1>5. Sealing /\ Quiet
    BY ServingAssumption DEF CollectorInit, Sealing, Quiet
  <1>6. Edits
    BY <1>1 DEF CollectorInit, Edits
  <1> QED BY <1>2, <1>3, <1>4, <1>5, <1>6 DEF CollectorInv

LEMMA NextCollector == CollectorInv /\ [CollectorNext]_collectorVars => CollectorInv'
  <1> SUFFICES ASSUME CollectorInv, [CollectorNext]_collectorVars
               PROVE  CollectorInv'
    OBVIOUS
  <1>1. CASE CollectorNext
    BY <1>1, TypeStep, CountingStep, HandlerRunsStep, NumbersStep, SessionsStep, SealingStep, QuietStep,
       EditsStep, OrderedStep, OverlapStep DEF CollectorInv
  <1>2. CASE UNCHANGED collectorVars
    <2> USE <1>2 DEF collectorVars, wrapperVars, socketVars, fields, handlerVars, brokerVars, projectVars, CollectorInv
    <2>1. CollectorTypeOK' /\ Counting' /\ HandlerRuns' /\ Numbers'
      BY DEF CollectorTypeOK, Counting, HandlerRuns, HasRun, Numbers, InProgress
    <2>2. Sessions' /\ Sealing' /\ Quiet'
      BY DEF Sessions, Session, HasReceipt, Sealing, Quiet
    <2>3. Edits' /\ ReceiptsOrdered' /\ OverlapIsSeen'
      BY DEF Edits, ReceiptsOrdered, OverlapIsSeen, InProgress
    <2> QED BY <2>1, <2>2, <2>3
  <1> QED BY <1>1, <1>2

LEMMA CollectorInvariance == CollectorSpec => []CollectorInv
  BY InitCollector, NextCollector, PTL DEF CollectorSpec

\* The collector's fields keep their types and bounds, and activeRuns counts exactly the
\* runs that were granted and have neither been recorded nor counted out.
THEOREM CollectorTypeCorrect == CollectorSpec => []CollectorTypeOK
  BY CollectorInvariance, PTL DEF CollectorInv

\* For any number of wrappers, any bound on runs and any edits: what a successful seal
\* returns has every exit code that was sent, misses no command that still runs, tells how
\* commands overlapped, and calls none stable that the one edit overlapped.
THEOREM ReceiptsAlwaysWhole == CollectorSpec => []ReceiptsAreWhole
  <1>1. CollectorInv => ReceiptsAreWhole
    <2> SUFFICES ASSUME CollectorInv
                 PROVE  ReceiptsAreWhole
      OBVIOUS
    <2>1. ASSUME broker = "sealed", NEW w \in Wrappers
          PROVE  /\ run[w] = NoRun /\ toServer[w] # "finish"
                 /\ wrapper[w] = "running" => ticket[w] = 0
                 /\ wrapper[w] = "starting" => toWrapper[w] <= 0
                 /\ wrapper[w] = "reporting" => HasReceipt(ticket[w])
      <3>1. stillActive = 0
        BY <2>1 DEF CollectorInv, Sealing
      <3>2. HasRun(w) /\ Session(w)
        BY DEF CollectorInv, HandlerRuns, Sessions
      <3> QED BY <2>1, <3>1, <3>2 DEF CollectorInv, Quiet, HasRun, Session
    <2>2. NoRunEscapesSeal
      BY <2>1 DEF NoRunEscapesSeal
    <2>3. EveryFinishRecorded
      BY <2>1 DEF EveryFinishRecorded, HasReceipt
    <2> QED BY <2>2, <2>3 DEF ReceiptsAreWhole, CollectorInv
  <1> QED BY <1>1, CollectorInvariance, PTL

\* The receipts that seal has returned are final: no handler is left to add to them.
THEOREM RecordsAlwaysFrozen == CollectorSpec => RecordsFrozen
  <1>1. CollectorInv /\ [CollectorNext]_collectorVars =>
          [(broker \in {"sealed", "failed"}) => (records' = records)]_collectorVars
    <2> SUFFICES ASSUME CollectorInv, CollectorNext, broker \in {"sealed", "failed"}
                 PROVE  records' = records
      OBVIOUS
    <2>1. ASSUME NEW w \in Wrappers, Record(w)
          PROVE  FALSE
      BY <2>1 DEF Record, CollectorInv, Sealing
    <2>2. ASSUME NEW w \in Wrappers, Grant(w) \/ Leave(w)
          PROVE  records' = records
      BY <2>2 DEF Grant, Leave
    <2> QED BY <2>1, <2>2, RunCases, RunsRest
  <1> QED BY <1>1, CollectorInvariance, PTL DEF CollectorSpec, RecordsFrozen
=============================================================================
