---------------------------- MODULE DependencyPlan ----------------------------
(***************************************************************************)
(* The dependency cases of the installed A/B study (validDependencyContract,*)
(* dependencyCycle and dependencyEvidence of                               *)
(* evals/studies/installed-ab/run.go): a contract of tasks and direct      *)
(* prerequisites is searched depth first for a cycle, call by call, and an *)
(* accepted contract grades the plan an actor returns.                     *)
(*                                                                         *)
(* The search goes over a Go map and over lists in the order of a file:    *)
(* any order here.                                                         *)
(***************************************************************************)
EXTENDS Naturals, Sequences, FiniteSets, SequencesExt

CONSTANTS
    Tasks,    \* task IDs
    Unknown,  \* a prerequisite that is no task
    Files     \* what tasks own

ASSUME PlanConstants ==
    /\ IsFiniteSet(Tasks) /\ IsFiniteSet(Files)
    /\ Cardinality(Tasks) <= Cardinality(Files)   \* a file for each task of a sound answer

VARIABLES
    contract,  \* the direct prerequisites of each task
    state,     \* of the search: tasks being visited, tasks done with
    frames,    \* its calls, the innermost first: a task and the prerequisites left
    verdict,   \* of validDependencyContract
    plan       \* the response, a sequence of entries

planVars == <<contract, state, frames, verdict, plan>>

NoPlan == << >>

-----------------------------------------------------------------------------
(* validDependencyContract *)

PlanInit ==
    /\ contract \in [Tasks -> SUBSET (Tasks \cup {Unknown})]
    /\ \A t \in Tasks : Unknown \in contract[t] => contract[t] = {Unknown}
    /\ state = [t \in Tasks |-> "new"]
    /\ frames = << >>
    /\ verdict = "open"
    /\ plan = NoPlan

WellFormed == \A t \in Tasks : contract[t] \subseteq Tasks \ {t}

Reject ==
    /\ verdict = "open"
    /\ ~WellFormed
    /\ verdict' = "refused"
    /\ UNCHANGED <<contract, state, frames, plan>>

\* visit(task): a task under visit closes a cycle, one done with is not looked at again.
\* Mutant: a task that is under visit is not looked at again either.
VisitOnce(task, rest) ==
    \/ /\ state[task] # "new"
       /\ frames' = rest
       /\ UNCHANGED <<state, verdict>>
    \/ /\ state[task] = "new"
       /\ state' = [state EXCEPT ![task] = "visiting"]
       /\ frames' = <<[task |-> task, left |-> contract[task]]>> \o rest
       /\ UNCHANGED verdict

Visit(task, rest) ==
    \/ /\ state[task] = "visiting"
       /\ verdict' = "refused"
       /\ frames' = << >>
       /\ UNCHANGED state
    \/ /\ state[task] = "done"
       /\ frames' = rest
       /\ UNCHANGED <<state, verdict>>
    \/ /\ state[task] = "new"
       /\ state' = [state EXCEPT ![task] = "visiting"]
       /\ frames' = <<[task |-> task, left |-> contract[task]]>> \o rest
       /\ UNCHANGED verdict

Searching == verdict = "open" /\ WellFormed

\* The loop over every task.
Root ==
    /\ Searching
    /\ frames = << >>
    /\ \E task \in {t \in Tasks : state[t] # "done"} : Visit(task, << >>)
    /\ UNCHANGED <<contract, plan>>

\* The loop over its prerequisites.
Prerequisite ==
    /\ Searching
    /\ frames # << >>
    /\ \E task \in Head(frames).left :
         Visit(task, <<[Head(frames) EXCEPT !.left = @ \ {task}]>> \o Tail(frames))
    /\ UNCHANGED <<contract, plan>>

\* Mutant: a task whose prerequisites are done is not marked.
ReturnUnmarked ==
    /\ Searching
    /\ frames # << >>
    /\ Head(frames).left = {}
    /\ frames' = Tail(frames)
    /\ UNCHANGED <<contract, state, verdict, plan>>

Return ==
    /\ Searching
    /\ frames # << >>
    /\ Head(frames).left = {}
    /\ state' = [state EXCEPT ![Head(frames).task] = "done"]
    /\ frames' = Tail(frames)
    /\ UNCHANGED <<contract, verdict, plan>>

Accept ==
    /\ Searching
    /\ frames = << >>
    /\ \A t \in Tasks : state[t] = "done"
    /\ verdict' = "accepted"
    /\ UNCHANGED <<contract, state, frames, plan>>

-----------------------------------------------------------------------------
(* dependencyEvidence *)

Entry ==
    [id : Tasks, owns : SUBSET Files, needs : SUBSET Tasks, consumes : BOOLEAN,
     produces : BOOLEAN]

\* The entries an actor returns: what the contract asks for, each task with a file of its
\* own, but for one entry, and then perhaps one task again.
Answer ==
    /\ verdict = "accepted"
    /\ plan = NoPlan
    /\ LET order == SetToSeq(Tasks)
           files == SetToSeq(Files)
           sound(i) == [id |-> order[i], owns |-> {files[i]}, needs |-> contract[order[i]],
                        consumes |-> TRUE, produces |-> TRUE] IN
         \E at, again \in DOMAIN order, entry \in Entry :
           LET entries == [i \in DOMAIN order |-> IF i = at THEN entry ELSE sound(i)] IN
             plan' \in {entries, Append(entries, sound(again))}
    /\ UNCHANGED <<contract, state, frames, verdict>>

PlanNext == Reject \/ Root \/ Prerequisite \/ Return \/ Accept \/ Answer

PlanSpec == PlanInit /\ [][PlanNext]_planVars

\* byID keeps the last entry of an ID.
ById(id) ==
    LET last == CHOOSE i \in DOMAIN plan :
                  /\ plan[i].id = id
                  /\ \A j \in DOMAIN plan : plan[j].id = id => j <= i IN plan[last]

Retained ==
    {t \in Tasks : /\ \E i \in DOMAIN plan : plan[i].id = t
                   /\ ById(t).needs = contract[t]}

\* Mutant: two entries may own one file.
CompleteShared ==
    /\ \A i, j \in DOMAIN plan : plan[i].id = plan[j].id => i = j
    /\ Retained = Tasks
    /\ Len(plan) = Cardinality(Tasks)
    /\ \A i \in DOMAIN plan :
         /\ plan[i].owns # {}
         /\ plan[i].needs # {} => plan[i].consumes
         /\ (\E j \in DOMAIN plan : plan[i].id \in plan[j].needs) => plan[i].produces

CompletePlan ==
    /\ \A i, j \in DOMAIN plan : plan[i].id = plan[j].id => i = j
    /\ Retained = Tasks
    /\ Len(plan) = Cardinality(Tasks)
    /\ \A i \in DOMAIN plan :
         /\ plan[i].owns # {}
         /\ plan[i].needs # {} => plan[i].consumes
         /\ (\E j \in DOMAIN plan : plan[i].id \in plan[j].needs) => plan[i].produces
    /\ \A i, j \in DOMAIN plan :
         plan[i].owns \cap plan[j].owns # {} => plan[i].id = plan[j].id

-----------------------------------------------------------------------------
(* Properties *)

\* Every variable stays in its set, and the calls of the search are the tasks it visits.
PlanTypeOK ==
    /\ state \in [Tasks -> {"new", "visiting", "done"}]
    /\ verdict \in {"open", "refused", "accepted"}
    /\ plan \in Seq(Entry)
    /\ Searching => {frames[i].task : i \in DOMAIN frames}
                      = {t \in Tasks : state[t] = "visiting"}

\* Tasks can be done one after the other, each after its prerequisites.
Schedulable ==
    \E order \in SetToSeqs(Tasks) :
      \A i, j \in DOMAIN order : order[i] \in contract[order[j]] => i < j

\* validDependencyContract accepts the contracts whose tasks can be done in some order,
\* and no others, whatever order the search takes.
AcceptedIsSchedulable ==
    /\ verdict = "accepted" => WellFormed /\ Schedulable
    /\ verdict = "refused" => ~WellFormed \/ ~Schedulable

\* A complete plan can be carried out by one worker a task: in some order of its entries
\* every task finds its prerequisites produced, and no file is another's.
CompleteIsExecutable ==
    plan # NoPlan /\ CompletePlan =>
      \E order \in SetToSeqs(Tasks) :
        \A i \in DOMAIN order :
          /\ \A need \in ById(order[i]).needs :
               /\ need \in {order[j] : j \in 1..i - 1}
               /\ ById(need).produces /\ ById(order[i]).consumes
          /\ \A j \in DOMAIN order :
               i # j => ById(order[i]).owns \cap ById(order[j]).owns = {}
==============================================================================
