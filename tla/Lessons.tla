------------------------------ MODULE Lessons ------------------------------
(***************************************************************************)
(* The lesson ledger (extras/scripts/writing-agent-instructions/lessons.go)*)
(* of one project: add, prove, promote, review, retire.                    *)
(*                                                                         *)
(* A lesson is one JSON file.  Every command but add loads the file, does  *)
(* its checks - prove runs a check in a worktree of an old commit and then *)
(* in the current tree, which takes long - and renames a new file over it. *)
(* Nothing is locked.  add creates the file exclusively and then writes    *)
(* it, so a kill in between leaves a torn one.                             *)
(*                                                                         *)
(* Abstractions.  Time is counted in days.  A check is a model value; what *)
(* it says of the old commit (CaughtThere) is fixed, what it says of the   *)
(* current tree changes with edits.  The overlay of check files into the   *)
(* old tree is part of what the check says there.  A scorecard is the      *)
(* window it was made for and the day it was made; it counts what recurred *)
(* in that window.  Text, export and list are left out: they print.        *)
(***************************************************************************)
EXTENDS Naturals, Sequences, FiniteSets

CONSTANTS
    LessonIds,    \* ids
    Curators,    \* processes that run commands
    Checks,       \* check commands
    CaughtThere,  \* the ones that fail at the old commit
    NoLesson,     \* no file, nothing loaded
    Torn,         \* a file that is not a lesson
    MaxAge,       \* max_age_days
    LastDay,      \* bound: days considered
    MaxCommands   \* bound: commands started

VARIABLES
    ledger,     \* the files of the store
    task,       \* the running commands and their locals
    green,      \* checks that pass on the current tree
    anchored,   \* the target of the lesson contains its anchor
    day,        \* today
    recurred,   \* days on which the class of the lesson was seen
    review,     \* what the last review said, and of which scorecard
    started,    \* commands so far
    overlapped  \* history: commands that saved over a file changed since their load

world       == <<green, anchored, day, recurred>>
lessonVars  == <<ledger, task, world, review, started, overlapped>>

Statuses == {"candidate", "proven", "promoted", "retired"}
Surfaces == {"check", "instructions"}
\* proof: NoLesson, a check command, or "ab"; promotedAt: 0 before promotion.
LessonRecords ==
    [surface : Surfaces, sources : 1..2, status : Statuses, proof : Checks \cup {NoLesson, "ab"},
     created : 1..LastDay, promotedAt : 0..LastDay, steps : Nat]

\* What is asked of the constants: a lesson, a missing file and a torn one are told apart, and no
\* proof is taken for none.
LessonsConstants ==
    /\ NoLesson \notin LessonRecords /\ Torn \notin LessonRecords /\ NoLesson # Torn
    /\ NoLesson \notin Checks \cup {"ab"}
    /\ LastDay \in Nat \ {0} /\ MaxCommands \in Nat

Done == [op |-> "none"]
Scorecards == [since : 1..LastDay, made : 1..LastDay]

LessonsInit ==
    /\ ledger = [i \in LessonIds |-> NoLesson]
    /\ task = [s \in Curators |-> Done]
    /\ green \in SUBSET Checks
    /\ anchored = FALSE
    /\ day = 1
    /\ recurred = {}
    /\ review = Done
    /\ started = 0
    /\ overlapped = FALSE

----------------------------------------------------------------------------
(* The project                                                             *)

World(step) == step /\ review' = Done /\ UNCHANGED <<ledger, task, started, overlapped>>

NextDay    == day < LastDay /\ day' = day + 1 /\ World(UNCHANGED <<green, anchored, recurred>>)
Recur      == recurred' = recurred \cup {day} /\ day \notin recurred
                /\ World(UNCHANGED <<green, anchored, day>>)
EditTree   == \E c \in Checks :
                 /\ green' = (IF c \in green THEN green \ {c} ELSE green \cup {c})
                 /\ World(UNCHANGED <<anchored, day, recurred>>)
EditTarget == anchored' = ~anchored /\ World(UNCHANGED <<green, day, recurred>>)

----------------------------------------------------------------------------
(* The commands                                                            *)

Quiet == UNCHANGED <<world, overlapped>> /\ review' = Done

Start(s, record) ==
    /\ task[s] = Done /\ started < MaxCommands
    /\ task' = [task EXCEPT ![s] = record]
    /\ started' = started + 1
    /\ UNCHANGED ledger /\ Quiet

Goto(s, record) ==
    /\ task' = [task EXCEPT ![s] = record]
    /\ UNCHANGED <<ledger, started>> /\ Quiet

StartAddLesson(s) == \E i \in LessonIds, surface \in Surfaces, sources \in 1..2 :
    Start(s, [op |-> "add", at |-> "create", id |-> i, surface |-> surface, sources |-> sources])

\* os.O_EXCL: the file is there and empty before it is written.
CreateLesson(s) ==
    /\ task[s].op = "add" /\ task[s].at = "create"
    /\ IF ledger[task[s].id] = NoLesson
       THEN /\ ledger' = [ledger EXCEPT ![task[s].id] = Torn]
            /\ task' = [task EXCEPT ![s].at = "write"]
       ELSE /\ task' = [task EXCEPT ![s] = Done]
            /\ UNCHANGED ledger
    /\ UNCHANGED started /\ Quiet

WriteLesson(s) ==
    /\ task[s].op = "add" /\ task[s].at = "write"
    /\ ledger' = [ledger EXCEPT ![task[s].id] =
          [surface |-> task[s].surface, sources |-> task[s].sources, status |-> "candidate",
           proof |-> NoLesson, created |-> day, promotedAt |-> 0, steps |-> 1]]
    /\ task' = [task EXCEPT ![s] = Done]
    /\ UNCHANGED started /\ Quiet

\* prove and promote refuse a retired lesson, and every command a torn file.
Loadable(op, i) == /\ ledger[i] \notin {NoLesson, Torn}
                   /\ op # "retire" => ledger[i].status # "retired"

\* load; --ab proves no check lesson and a check no other one.
StartProve(s) == \E i \in LessonIds, proof \in Checks \cup {"ab"} :
    /\ Loadable("prove", i)
    /\ (proof = "ab") = (ledger[i].surface # "check")
    /\ Start(s, [op |-> "prove", at |-> IF proof = "ab" THEN "save" ELSE "past", id |-> i,
                 proof |-> proof, loaded |-> ledger[i]])

\* Mutant: a check that passes at the old commit is accepted.
RunPastAnyway(s) ==
    /\ task[s].op = "prove" /\ task[s].at = "past"
    /\ Goto(s, [task[s] EXCEPT !.at = "now"])

\* The check has to fail where the mistake happened.
RunPast(s) ==
    /\ task[s].op = "prove" /\ task[s].at = "past"
    /\ Goto(s, IF task[s].proof \in CaughtThere THEN [task[s] EXCEPT !.at = "now"] ELSE Done)

RunNow(s) ==
    /\ task[s].op = "prove" /\ task[s].at = "now"
    /\ Goto(s, IF task[s].proof \in green THEN [task[s] EXCEPT !.at = "save"] ELSE Done)

\* A proof can stand in for the second source; a check lesson needs its proof.
StartPromote(s) == \E i \in LessonIds :
    /\ Loadable("promote", i)
    /\ ledger[i].proof # NoLesson \/ ledger[i].sources >= 2
    /\ ledger[i].surface = "check" => ledger[i].proof \in Checks
    /\ Start(s, [op |-> "promote", at |-> "verify", id |-> i, loaded |-> ledger[i]])

\* The check passes now, or the anchor reads back from the target.
VerifyPromotion(s) ==
    /\ task[s].op = "promote" /\ task[s].at = "verify"
    /\ LET l == task[s].loaded
       IN Goto(s, IF (l.surface = "check" /\ l.proof \in green)
                       \/ (l.surface # "check" /\ anchored)
                  THEN [task[s] EXCEPT !.at = "save"] ELSE Done)

StartRetire(s) == \E i \in LessonIds :
    /\ Loadable("retire", i)
    /\ Start(s, [op |-> "retire", at |-> "save", id |-> i, loaded |-> ledger[i]])

\* What a command makes of the lesson it has loaded.
Outcome(t) ==
    LET l == [t.loaded EXCEPT !.steps = @ + 1]
    IN CASE t.op = "prove"   -> [l EXCEPT !.proof = t.proof,
                                   !.status = IF @ = "candidate" THEN "proven" ELSE @]
         [] t.op = "promote" -> [l EXCEPT !.status = "promoted", !.promotedAt = day]
         [] t.op = "retire"  -> [l EXCEPT !.status = "retired"]

\* Mutant: the file is truncated and then written.
SaveInPlace(s) ==
    /\ task[s].op \in {"prove", "promote", "retire"} /\ task[s].at = "save"
    /\ ledger' = [ledger EXCEPT ![task[s].id] = Torn]
    /\ task' = [task EXCEPT ![s] = Done]
    /\ UNCHANGED <<started, world, overlapped>> /\ review' = Done

\* save: a temporary file renamed over whatever is there now.
Save(s) ==
    /\ task[s].op \in {"prove", "promote", "retire"} /\ task[s].at = "save"
    /\ ledger' = [ledger EXCEPT ![task[s].id] = Outcome(task[s])]
    /\ overlapped' = (overlapped \/ ledger[task[s].id] # task[s].loaded)
    /\ task' = [task EXCEPT ![s] = Done]
    /\ UNCHANGED <<started, world>> /\ review' = Done

KillCurator(s) ==
    /\ task[s] # Done
    /\ Goto(s, Done)

----------------------------------------------------------------------------
(* review                                                                  *)

\* session-mine scorecard --since: what recurred from `since` until it ran.
Recurrences(card) == Cardinality({d \in recurred : card.since <= d /\ d <= card.made})

\* Mutant: a window that starts before the promotion is judged too.
JudgeAnyWindow(l, card) ==
    CASE Recurrences(card) > 0             -> "recurring"
      [] Recurrences(card) = 0 /\ day - l.promotedAt > MaxAge -> "stale"
      [] OTHER                             -> "holding"

Judge(l, card) ==
    CASE card.since < l.promotedAt -> "unknown"
      [] card.since >= l.promotedAt /\ Recurrences(card) > 0 -> "recurring"
      [] card.since >= l.promotedAt /\ Recurrences(card) = 0
           /\ day - l.promotedAt > MaxAge -> "stale"
      [] OTHER -> "holding"

VerdictOf(l, card) ==
    CASE l.status = "retired"  -> "skipped"
      [] l.status = "promoted" -> Judge(l, card)
      [] OTHER -> IF day - l.created > MaxAge THEN "expired" ELSE "waiting"

\* `all` fails when one file cannot be loaded.
Review(card) ==
    /\ card.made <= day /\ card.since <= card.made
    /\ review' = [op |-> "review", card |-> card,
                  verdicts |-> IF \E i \in LessonIds : ledger[i] = Torn THEN Torn
                               ELSE [i \in LessonIds |->
                                        IF ledger[i] = NoLesson THEN "skipped"
                                        ELSE VerdictOf(ledger[i], card)]]
    /\ review' # review
    /\ UNCHANGED <<ledger, task, world, started, overlapped>>

LessonsNext ==
    \/ NextDay \/ Recur \/ EditTree \/ EditTarget
    \/ \E s \in Curators :
          \/ StartAddLesson(s) \/ CreateLesson(s) \/ WriteLesson(s)
          \/ StartProve(s) \/ RunPast(s) \/ RunNow(s)
          \/ StartPromote(s) \/ VerifyPromotion(s)
          \/ StartRetire(s)
          \/ Save(s) \/ KillCurator(s)
    \/ \E card \in Scorecards : Review(card)

LessonsSpec == LessonsInit /\ [][LessonsNext]_lessonVars

----------------------------------------------------------------------------
(* Properties                                                              *)

Saved(i) == ledger[i] \notin {NoLesson, Torn}

\* Types of the stored state.
LessonsTypeOK ==
    /\ \A i \in LessonIds : Saved(i) => ledger[i] \in LessonRecords
    /\ green \subseteq Checks /\ anchored \in BOOLEAN
    /\ day \in 1..LastDay /\ recurred \subseteq 1..LastDay
    /\ started \in 0..MaxCommands /\ overlapped \in BOOLEAN

\* Whatever commands overlap: a check lesson that counts as proven or promoted
\* carries a check that fails where the mistake happened, and an instruction is
\* promoted only on a proof or a second source (cmdProve, cmdPromote).
ProofStandsBehind ==
    \A i \in LessonIds : Saved(i) =>
       /\ ledger[i].surface = "check" /\ ledger[i].status \in {"proven", "promoted"}
            => ledger[i].proof \in CaughtThere
       /\ ledger[i].status = "promoted" => ledger[i].proof # NoLesson \/ ledger[i].sources >= 2

\* A lesson once written is never torn and never gone, even if a command is
\* killed while it saves (save).
StaysWhole == \A i \in LessonIds : Saved(i) => Saved(i)'

\* A retired lesson stays retired and no step of its history is lost, unless
\* two commands overlap: then the later save wins with what it loaded
\* (cmdProve and cmdPromote refuse a retired lesson only when they load it).
KeepsHistory ==
    \A i \in LessonIds : Saved(i) /\ Saved(i)' /\ ledger'[i] # ledger[i] /\ ~overlapped' =>
      /\ ledger[i].status # "retired" \/ ledger'[i].status = "retired"
      /\ ledger'[i].steps = ledger[i].steps + 1

\* A lesson is called recurring only when its class was seen on or after the
\* day of its promotion (cmdReview, recurrences).
RecurringIsReal ==
    review # Done /\ review.verdicts # Torn =>
       \A i \in LessonIds : review.verdicts[i] = "recurring" =>
          \E d \in recurred : d >= ledger[i].promotedAt
=============================================================================
