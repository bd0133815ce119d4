-------------------------------- MODULE Scoring --------------------------------
(***************************************************************************)
(* evals/score.go: a file of result rows is read line by line, compared,   *)
(* held to the acceptance criteria when there are some, and printed as a   *)
(* scorecard.  The first error ends it with nothing printed.               *)
(***************************************************************************)
EXTENDS Naturals, Sequences, FiniteSets, FiniteSetsExt, SequencesExt

CONSTANTS
    Lines,        \* the rows a file may have
    MaxLines,
    InstalledAB,  \* the study whose control has no plugin
    EmptyPlugin,  \* the hash of the empty set of plugins
    MinimumPairs  \* of the acceptance criteria

ASSUME ScoringConstants == MaxLines \in Nat /\ MinimumPairs \in Nat

VARIABLES
    scored,    \* those read so far
    stage,     \* what run has done
    criteria,  \* --acceptance-criteria is given
    card       \* the behavioral cells as printed

scoringVars == <<scored, stage, criteria, card>>

Arms == {"treatment", "control"}

-----------------------------------------------------------------------------
(* One row *)

\* validateRow: what the other checks rely on.
ValidRow(row) ==
    /\ row.class \in {"behavioral", "regression", "activation"}
    /\ row.class = "behavioral" => row.arm \in Arms
    /\ row.class = "regression" => row.arm = "regression"
    /\ row.class = "activation" =>
         row.arm = "treatment" /\ row.plugin # EmptyPlugin /\ row.outcome = (row.verdict = "pass")
    /\ row.status = "completed"
    /\ row.verdict \in {"pass", "fail"}
    /\ row.verdict = "pass" => row.rc = 0
    /\ row.study = InstalledAB /\ row.class = "behavioral" => row.rc = 0

\* comparisonIdentity: study, case, harness, source, prompt, fixture and environment.
Identity(row) == <<row.study, row.case, row.provenance>>

\* comparisonVerdict
ComparisonVerdict(row) ==
    IF row.study = InstalledAB /\ row.class = "behavioral"
    THEN IF row.outcome THEN "pass" ELSE "fail"
    ELSE row.verdict

Behavioral(all) == {i \in DOMAIN all : all[i].class = "behavioral"}
Activation(all) == {i \in DOMAIN all : all[i].class = "activation"}
Cells(all, of) == {Identity(all[i]) : i \in of}
InCell(all, of, cell) == {i \in of : Identity(all[i]) = cell}
InArm(all, of, arm) == {i \in of : all[i].arm = arm}

-----------------------------------------------------------------------------
(* validateComparisons *)

BlockOf(row) == <<row.study, row.case, row.block>>

\* One treatment and one control, run on the same things; in the installed study the
\* control, and it alone, has no plugin.
\* Mutant: two rows, of whichever arms.
BlockOfTwo(all, block) ==
    /\ Cardinality(block) = 2
    /\ \A i, j \in block : Identity(all[i]) = Identity(all[j])

ValidBlock(all, block) ==
    /\ Cardinality(block) = 2
    /\ \A i, j \in block :
         /\ i # j => all[i].arm # all[j].arm
         /\ Identity(all[i]) = Identity(all[j])
    /\ \A i \in block :
         all[i].study = InstalledAB => (all[i].plugin = EmptyPlugin <=> all[i].arm = "control")

\* Mutant: only the arms' sizes are compared.
CellOfEqualArms(all, cell) ==
    Cardinality(InArm(all, cell, "treatment")) = Cardinality(InArm(all, cell, "control"))

ValidCell(all, cell) ==
    /\ Cardinality(InArm(all, cell, "treatment")) = Cardinality(InArm(all, cell, "control"))
    /\ \A arm \in Arms : Cardinality({all[i].plugin : i \in InArm(all, cell, arm)}) = 1
    /\ Cardinality({all[i].metrics : i \in cell}) = 1

\* validateActivationRows: within a cell no block twice, one plugin and one set of metrics;
\* within a group, which is a cell without its case, as many rows of every case.
Group(row) == <<row.study, row.provenance>>

ValidActivation(all) ==
    LET rowsOf == Activation(all) IN
      /\ \A i, j \in rowsOf :
           Identity(all[i]) = Identity(all[j]) =>
             /\ i # j => all[i].block # all[j].block
             /\ all[i].plugin = all[j].plugin /\ all[i].metrics = all[j].metrics
      /\ \A i, j \in rowsOf :
           LET Same(n) == {k \in rowsOf :
                             Group(all[k]) = Group(all[n]) /\ all[k].case = all[n].case} IN
             Group(all[i]) = Group(all[j]) => Cardinality(Same(i)) = Cardinality(Same(j))

Comparable(all) ==
    /\ ValidActivation(all)
    /\ \A block \in {BlockOf(all[i]) : i \in Behavioral(all)} :
         ValidBlock(all, {i \in Behavioral(all) : BlockOf(all[i]) = block})
    /\ \A cell \in Cells(all, Behavioral(all)) :
         ValidCell(all, InCell(all, Behavioral(all), cell))

-----------------------------------------------------------------------------
(* validateStudyAcceptance *)

Passed(all, of) == Cardinality({i \in of : all[i].verdict = "pass"})

\* Mutant: the arms' passes are weighed against each other.
AcceptedByDelta(all, cell) ==
    /\ Cardinality(InArm(all, cell, "treatment")) >= MinimumPairs
    /\ Passed(all, InArm(all, cell, "treatment")) >= Passed(all, InArm(all, cell, "control"))

CellAccepted(all, cell) ==
    LET treatment == InArm(all, cell, "treatment")
        control == InArm(all, cell, "control") IN
      /\ Cardinality(treatment) = Cardinality(control)
      /\ Cardinality(treatment) >= MinimumPairs
      /\ Passed(all, treatment) = Cardinality(treatment)

StudyAccepted(all) ==
    LET counted == {i \in DOMAIN all : ~ all[i].reportOnly} IN
      /\ \A i \in DOMAIN all :
           all[i].class = "behavioral" /\ all[i].study = InstalledAB /\ all[i].bounded
      /\ counted # {}
      /\ \A cell \in Cells(all, counted) : CellAccepted(all, InCell(all, counted, cell))

-----------------------------------------------------------------------------
(* printScorecard *)

\* A cell's pairs are kept by block and arm, the last row of each.
LastOf(all, cell, block, arm) ==
    LET of == {i \in InArm(all, cell, arm) : all[i].block = block} IN
      IF of = {} THEN "none" ELSE ComparisonVerdict(all[Max(of)])

\* discordantOutcomes
Discordant(all, cell, winner, loser) ==
    Cardinality({block \in {all[i].block : i \in cell} :
      LastOf(all, cell, block, winner) = "pass" /\ LastOf(all, cell, block, loser) = "fail"})

PassesOf(all, cell, arm) ==
    Cardinality({i \in InArm(all, cell, arm) : ComparisonVerdict(all[i]) = "pass"})

\* pairedDurationMeans: shown when every row of both arms has a duration.
\* Mutant: shown when either arm's rows all do.
TimedByArm(all, cell) ==
    \E arm \in Arms : \A i \in InArm(all, cell, arm) : all[i].timed

DurationsShown(all, cell) ==
    LET pairs == Cardinality({all[i].block : i \in cell})
        Timed(arm) == Cardinality({i \in InArm(all, cell, arm) : all[i].timed}) IN
      pairs > 0 /\ Timed("treatment") = pairs /\ Timed("control") = pairs

CellCard(all, key) ==
    LET cell == InCell(all, Behavioral(all), key) IN
      [key |-> key,
       n |-> [arm \in Arms |-> Cardinality(InArm(all, cell, arm))],
       pass |-> [arm \in Arms |-> PassesOf(all, cell, arm)],
       treatmentOnly |-> Discordant(all, cell, "treatment", "control"),
       controlOnly |-> Discordant(all, cell, "control", "treatment"),
       durations |-> DurationsShown(all, cell)]

-----------------------------------------------------------------------------
(* run *)

ScoringInit ==
    /\ scored = << >>
    /\ stage = "reading"
    /\ criteria \in BOOLEAN
    /\ card = {}

\* loadRows: a line that is no valid row, or has a run_id of an earlier one, ends it.
\* Mutant: a run may be there twice.
FreshAny(row) == ValidRow(row)

Fresh(row) == ValidRow(row) /\ \A i \in DOMAIN scored : scored[i].run # row.run

ReadLine ==
    /\ stage = "reading" /\ Len(scored) < MaxLines
    /\ \E row \in Lines :
         IF Fresh(row) THEN scored' = Append(scored, row) /\ UNCHANGED stage
         ELSE UNCHANGED scored /\ stage' = "failed"
    /\ UNCHANGED <<criteria, card>>

EndOfFile ==
    /\ stage = "reading"
    /\ stage' = IF scored = << >> THEN "failed" ELSE "loaded"
    /\ UNCHANGED <<scored, criteria, card>>

CompareRows ==
    /\ stage = "loaded"
    /\ stage' = IF Comparable(scored) THEN "compared" ELSE "failed"
    /\ UNCHANGED <<scored, criteria, card>>

AcceptRows ==
    /\ stage = "compared" /\ criteria
    /\ stage' = IF StudyAccepted(scored) THEN "accepted" ELSE "failed"
    /\ UNCHANGED <<scored, criteria, card>>

PrintCard ==
    /\ stage = IF criteria THEN "accepted" ELSE "compared"
    /\ card' = {CellCard(scored, key) : key \in Cells(scored, Behavioral(scored))}
    /\ stage' = "printed"
    /\ UNCHANGED <<scored, criteria>>

ScoringNext == ReadLine \/ EndOfFile \/ CompareRows \/ AcceptRows \/ PrintCard

ScoringSpec == ScoringInit /\ [][ScoringNext]_scoringVars

-----------------------------------------------------------------------------
(* Properties *)

\* The stages of a run, and its rows one a run id.
ScoringTypeOK ==
    /\ stage \in {"reading", "loaded", "compared", "accepted", "printed", "failed"}
    /\ criteria \in BOOLEAN
    /\ scored \in Seq(Lines) /\ Len(scored) <= MaxLines
    /\ \A i, j \in DOMAIN scored : scored[i].run = scored[j].run => i = j
    /\ card # {} => stage = "printed"

\* The two ways the scorecard tells a cell's outcome agree: the difference between the arms'
\* passes is the difference between the pairs only one of them won, over equal arms.
PairsTellTheDelta ==
    \A c \in card :
      /\ c.n["treatment"] = c.n["control"]
      /\ c.pass["treatment"] + c.controlOnly = c.pass["control"] + c.treatmentOnly

\* No cell of the scorecard mixes what was compared: each arm is of one plugin, the control
\* of the installed study of none, and a row has its counterpart with the same metrics.
CellsCompareLikeWithLike ==
    \A c \in card :
      LET cell == {i \in DOMAIN scored :
                     scored[i].class = "behavioral" /\ Identity(scored[i]) = c.key} IN
        \A i \in cell :
          /\ \E j \in cell : /\ scored[j].arm # scored[i].arm
                             /\ scored[j].block = scored[i].block
                             /\ scored[j].metrics = scored[i].metrics
          /\ \A j \in cell : scored[j].arm = scored[i].arm => scored[j].plugin = scored[i].plugin
          /\ scored[i].study = InstalledAB =>
               (scored[i].plugin = EmptyPlugin <=> scored[i].arm = "control")

\* Durations are compared over the same runs: both means are of every pair or of none.
DurationsCompareAllPairs ==
    \A c \in card :
      c.durations => \A i \in DOMAIN scored :
                       scored[i].class = "behavioral" /\ Identity(scored[i]) = c.key => scored[i].timed

\* A scorecard under acceptance criteria has, of every case that counts, enough pairs, and
\* no treatment run that failed.
AcceptedScorecard ==
    stage = "printed" /\ criteria =>
      \A i \in DOMAIN scored :
        ~ scored[i].reportOnly =>
          /\ scored[i].arm = "treatment" => scored[i].verdict = "pass"
          /\ Cardinality({scored[j].block : j \in {k \in DOMAIN scored :
               Identity(scored[k]) = Identity(scored[i])}}) >= MinimumPairs

=============================================================================
