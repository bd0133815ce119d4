----------------------------- MODULE StudyProofs -----------------------------
(***************************************************************************)
(* Proofs about the parts of Evaluation that are of a whole study: its     *)
(* inputs, its acceptance, its scoring, the resume proof and the trigger   *)
(* study.  They are laid out as in EvaluationProofs.                       *)
(***************************************************************************)
EXTENDS EvaluationProofs

-----------------------------------------------------------------------------
(* The inputs of a study (StudyInputs) *)

\* From the listing of the plugin on, the tree wanted was HEAD's; what is hashed is of it, and
\* once every name was looked for it is all of it; what the arms get is what was hashed.
InputsInv ==
    /\ InputsTypeOK
    /\ head \in heads
    /\ pc \in {"list", "read", "load"} => study.index \in 1..Len(Catalogs)
    /\ pc = "read" => study.want \in Tree
    /\ pc \in {"list", "read", "load", "broker", "tree"} => study.hashed = Nothing
    /\ pc \in {"open", "walk", "reopen", "copy", "arm", "actor"} =>
         /\ study.want \in heads
         /\ \A f \in PluginFiles : study.hashed[f] \in {Absent, study.want[f]}
    /\ pc \in {"reopen", "copy", "arm", "actor"} =>
         \A f \in PluginFiles : study.want[f] # Absent => study.hashed[f] # Absent
    /\ pc \in {"arm", "actor"} => study.staged = study.hashed
    /\ study.ran \in {Pin, Absent}
    /\ pc # "actor" => study.ran = Absent

LEMMA InitInputsInv == ASSUME InputsInit PROVE InputsInv
  <1>1. Len(Catalogs) \in Nat /\ Len(Catalogs) > 0
    BY InputsConstants
  <1>2. study \in Study
    BY <1>1, InputsConstants DEF InputsInit, Study, Nothing
  <1>3. head \in Tree
    BY DEF InputsInit, Tree
  <1>4. InputsTypeOK
    BY <1>2, <1>3, InputsConstants DEF InputsInit, InputsTypeOK
  <1> QED BY <1>1, <1>4 DEF InputsInv, InputsInit

\* Each read of the runner, of files that are as they are when it is made.
LEMMA RunnerKeepsInputsInv ==
    ASSUME InputsInv, Runner PROVE InputsInv'
  <1>0. /\ Len(Catalogs) \in Nat /\ Len(Catalogs) > 0
        /\ \A i \in 1..Len(Catalogs) : Catalogs[i] \in ToSet(Catalogs)
    BY InputsConstants DEF ToSet
  <1>1. /\ head \in Tree /\ heads \subseteq Tree /\ worktree \in Tree /\ broker \in Brokers
        /\ edits \in 0..MaxEdits /\ study \in Study
    BY DEF InputsInv, InputsTypeOK
  <1>2. /\ study.index \in 1..Len(Catalogs) + 1 /\ study.want \in Tree \cup {Absent}
        /\ study.loaded \in [ToSet(Catalogs) -> Contents \cup {Absent}]
        /\ study.names \in SUBSET PluginFiles
        /\ study.hashed \in [PluginFiles -> Contents \cup {Absent}]
        /\ study.staged \in [PluginFiles -> Contents \cup {Absent}]
        /\ study.arm \in 0..StudyArms /\ study.ran \in Brokers \cup {Absent}
        /\ study = [index |-> study.index, want |-> study.want, loaded |-> study.loaded,
                    names |-> study.names, hashed |-> study.hashed, staged |-> study.staged,
                    arm |-> study.arm, ran |-> study.ran]
    BY <1>1 DEF Study
  <1>3. /\ head' = head /\ heads' = heads /\ worktree' = worktree /\ broker' = broker
        /\ edits' = edits
    BY DEF Runner
  <1>4. pc # "actor" /\ Go("refused") /\ UNCHANGED study => InputsInv'
    BY <1>1, <1>3 DEF Go, InputsInv, InputsTypeOK
  <1>5. CASE ListCatalog
    <2>1. CASE study' = [study EXCEPT !.want = head] /\ Go("read")
      <3>1. study' \in Study
        BY <2>1, <1>1, <1>2 DEF Study
      <3> QED BY <3>1, <2>1, <1>5, <1>1, <1>2, <1>3 DEF ListCatalog, Go, InputsInv, InputsTypeOK
    <2> QED BY <2>1, <1>4, <1>5 DEF ListCatalog, Refuse
  <1>6. CASE ReadCatalog
    <2> DEFINE last == study.index = Len(Catalogs)
    <2>1. CASE /\ study' = [study EXCEPT !.index = IF last THEN 1 ELSE @ + 1]
               /\ Go(IF last THEN "load" ELSE "list")
      <3>1. study.index \in 1..Len(Catalogs) /\ pc = "read" /\ study.hashed = Nothing
        BY <1>6 DEF ReadCatalog, InputsInv
      <3>2. study'.index \in 1..Len(Catalogs)
        BY <2>1, <3>1, <1>0, <1>2
      <3>3. /\ study' = [study EXCEPT !.index = study'.index]
            /\ study'.hashed = study.hashed /\ study'.ran = study.ran
        BY <2>1, <1>2
      <3>4. study' \in Study
        BY <3>2, <3>3, <1>1, <1>0 DEF Study
      <3> QED BY <2>1, <3>1, <3>2, <3>3, <3>4, <1>1, <1>3 DEF Go, InputsInv, InputsTypeOK
    <2> QED BY <2>1, <1>4, <1>6 DEF ReadCatalog, Refuse
  <1>7. CASE LoadCatalog
    <2> DEFINE path == Catalogs[study.index]
               last == study.index = Len(Catalogs)
    <2>1. CASE /\ worktree[path] \notin {Absent, Link}
               /\ study' = [study EXCEPT !.loaded[path] = worktree[path], !.index = @ + 1]
               /\ Go(IF last THEN "broker" ELSE "load")
      <3>1. study.index \in 1..Len(Catalogs) /\ pc = "load" /\ study.hashed = Nothing
        BY <1>7 DEF LoadCatalog, InputsInv
      <3>2. path \in ToSet(Catalogs) /\ worktree[path] \in Contents
        BY <2>1, <3>1, <1>0, <1>1 DEF Tree, Paths
      <3>3. [study.loaded EXCEPT ![path] = worktree[path]] \in
              [ToSet(Catalogs) -> Contents \cup {Absent}]
        BY <3>2, <1>2
      <3>4. study' = [study EXCEPT !.index = study.index + 1,
                                   !.loaded = [study.loaded EXCEPT ![path] = worktree[path]]]
        BY <2>1, <1>2
      <3> HIDE DEF path
      <3>a. study.index + 1 \in 1..Len(Catalogs) + 1
        BY <3>1, <1>0
      <3>5. study' \in Study /\ study'.hashed = study.hashed /\ study'.ran = study.ran
            /\ study'.index = study.index + 1
        BY <3>a, <3>3, <3>4, <1>1, <1>2 DEF Study
      <3>6. ~last => study.index + 1 \in 1..Len(Catalogs)
        BY <3>1, <1>0
      <3> QED BY <2>1, <3>1, <3>5, <3>6, <1>1, <1>3 DEF Go, InputsInv, InputsTypeOK
    <2> QED BY <2>1, <1>4, <1>7 DEF LoadCatalog, Refuse
  <1>8. CASE ValidateBroker
    <2>1. CASE Go("tree") /\ UNCHANGED study
      BY <2>1, <1>8, <1>1, <1>3 DEF ValidateBroker, Go, InputsInv, InputsTypeOK
    <2> QED BY <2>1, <1>4, <1>8 DEF ValidateBroker, Refuse
  <1>9. CASE ListPlugin
    <2>1. CASE study' = [study EXCEPT !.want = head] /\ Go("open")
      <3>1. study' \in Study /\ study'.want = head /\ study'.hashed = Nothing
            /\ study'.ran = study.ran
        BY <2>1, <1>9, <1>1, <1>2 DEF Study, ListPlugin, InputsInv
      <3> QED BY <3>1, <2>1, <1>9, <1>1, <1>3 DEF ListPlugin, Go, InputsInv, InputsTypeOK, Nothing
    <2> QED BY <2>1, <1>4, <1>9 DEF ListPlugin, Refuse
  <1>10. CASE OpenPlugin
    <2> DEFINE on == {f \in PluginFiles : worktree[f] # Absent}
    <2>1. study' = [study EXCEPT !.names = on] /\ on \in SUBSET PluginFiles
      BY <1>10 DEF OpenPlugin
    <2>2. study' \in Study
      BY <2>1, <1>1 DEF Study
    <2>3. study'.want = study.want /\ study'.hashed = study.hashed /\ study'.ran = study.ran
      BY <2>1, <1>2
    <2> QED BY <2>2, <2>3, <1>10, <1>1, <1>3 DEF OpenPlugin, Go, InputsInv, InputsTypeOK
  <1>11. CASE HashFile
    <2>1. PICK f \in PluginFiles :
            IF worktree[f] \in {Absent, Link} \/ worktree[f] # study.want[f]
            THEN Refuse
            ELSE /\ study' = [study EXCEPT !.hashed[f] = worktree[f], !.names = @ \ {f}]
                 /\ UNCHANGED pc
      BY <1>11 DEF HashFile
    <2>2. CASE /\ worktree[f] \notin {Absent, Link} /\ worktree[f] = study.want[f]
               /\ study' = [study EXCEPT !.hashed[f] = worktree[f], !.names = @ \ {f}]
               /\ UNCHANGED pc
      <3>1. worktree[f] \in Contents
        BY <2>2, <1>1 DEF Tree, Paths
      <3>2. /\ study'.hashed = [study.hashed EXCEPT ![f] = worktree[f]]
            /\ study'.want = study.want /\ study'.ran = study.ran
            /\ study' = [study EXCEPT !.hashed = [study.hashed EXCEPT ![f] = worktree[f]],
                                      !.names = study.names \ {f}]
        BY <2>2, <1>2
      <3>3. study' \in Study
        <4>1. [study.hashed EXCEPT ![f] = worktree[f]] \in [PluginFiles -> Contents \cup {Absent}]
          BY <3>1, <1>2
        <4> QED BY <4>1, <3>2, <1>1, <1>2 DEF Study
      <3>4. \A g \in PluginFiles : study'.hashed[g] \in {Absent, study.want[g]}
        BY <3>2, <2>2, <1>2, <1>11 DEF HashFile, InputsInv
      <3> QED BY <2>2, <3>2, <3>3, <3>4, <1>11, <1>1, <1>3 DEF HashFile, InputsInv, InputsTypeOK
    <2> QED BY <2>1, <2>2, <1>4, <1>11 DEF Refuse, HashFile
  <1>12. CASE Hashed
    <2>1. CASE /\ \A f \in PluginFiles : study.want[f] # Absent => study.hashed[f] # Absent
               /\ Go("reopen") /\ UNCHANGED study
      BY <2>1, <1>12, <1>1, <1>3 DEF Hashed, Go, InputsInv, InputsTypeOK
    <2> QED BY <2>1, <1>4, <1>12 DEF Hashed, Refuse
  <1>13. CASE CopyFile
    <2>1. PICK f \in PluginFiles :
            IF worktree[f] \in {Absent, Link}
            THEN Refuse
            ELSE /\ study' = [study EXCEPT !.staged[f] = worktree[f], !.names = @ \ {f}]
                 /\ UNCHANGED pc
      BY <1>13 DEF CopyFile
    <2>2. CASE /\ worktree[f] \notin {Absent, Link}
               /\ study' = [study EXCEPT !.staged[f] = worktree[f], !.names = @ \ {f}]
               /\ UNCHANGED pc
      <3>1. worktree[f] \in Contents
        BY <2>2, <1>1 DEF Tree, Paths
      <3>2. /\ study'.hashed = study.hashed /\ study'.want = study.want /\ study'.ran = study.ran
            /\ study' = [study EXCEPT !.staged = [study.staged EXCEPT ![f] = worktree[f]],
                                      !.names = study.names \ {f}]
        BY <2>2, <1>2
      <3>3. study' \in Study
        <4>1. [study.staged EXCEPT ![f] = worktree[f]] \in [PluginFiles -> Contents \cup {Absent}]
          BY <3>1, <1>2
        <4> QED BY <4>1, <3>2, <1>1, <1>2 DEF Study
      <3> QED BY <2>2, <3>2, <3>3, <1>13, <1>1, <1>3 DEF CopyFile, InputsInv, InputsTypeOK
    <2> QED BY <2>1, <2>2, <1>4, <1>13 DEF Refuse, CopyFile
  <1>14. CASE Staged
    <2>1. CASE study.staged = study.hashed /\ Go("arm") /\ UNCHANGED study
      BY <2>1, <1>14, <1>1, <1>3 DEF Staged, Go, InputsInv, InputsTypeOK
    <2> QED BY <2>1, <1>4, <1>14 DEF Staged, Refuse
  <1>15. CASE StartArm
    <2>1. CASE /\ broker = Pin /\ study.arm < StudyArms
               /\ study' = [study EXCEPT !.arm = @ + 1, !.ran = broker] /\ Go("actor")
      <3>1. study.arm + 1 \in 0..StudyArms
        BY <2>1, <1>2, InputsConstants
      <3>2. study' \in Study /\ study'.ran = Pin /\ study'.want = study.want
            /\ study'.hashed = study.hashed /\ study'.staged = study.staged
        BY <2>1, <3>1, <1>1, <1>2 DEF Study
      <3> QED BY <2>1, <3>2, <1>15, <1>1, <1>3 DEF StartArm, Go, InputsInv, InputsTypeOK
    <2> QED BY <2>1, <1>4, <1>15 DEF StartArm, Refuse
  <1>16. CASE EndArm
    <2>1. study' \in Study /\ study'.ran = Absent /\ study'.want = study.want
          /\ study'.hashed = study.hashed /\ study'.staged = study.staged
      BY <1>16, <1>1, <1>2 DEF EndArm, Study
    <2> QED BY <2>1, <1>16, <1>1, <1>3 DEF EndArm, Go, InputsInv, InputsTypeOK
  <1> QED BY <1>5, <1>6, <1>7, <1>8, <1>9, <1>10, <1>11, <1>12, <1>13, <1>14, <1>15, <1>16
          DEF Runner

LEMMA OthersKeepInputsInv ==
    ASSUME InputsInv, Others PROVE InputsInv'
  <1>1. /\ head \in Tree /\ heads \subseteq Tree /\ worktree \in Tree /\ broker \in Brokers
        /\ edits \in 0..MaxEdits /\ head \in heads
    BY DEF InputsInv, InputsTypeOK
  <1>2. edits' \in 0..MaxEdits /\ pc' = pc /\ study' = study
    BY <1>1, InputsConstants DEF Others
  <1>3. /\ head' \in Tree /\ heads' \subseteq Tree /\ worktree' \in Tree /\ broker' \in Brokers
        /\ head' \in heads' /\ heads \subseteq heads'
    <2>1. CASE Edit
      <3>1. PICK f \in Paths, content \in Contents \cup {Link, Absent} :
              worktree' = [worktree EXCEPT ![f] = content]
        BY <2>1 DEF Edit
      <3> QED BY <2>1, <3>1, <1>1 DEF Edit, Tree
    <2>2. CASE Commit
      BY <2>2, <1>1 DEF Commit
    <2>3. CASE Rebuild
      BY <2>3, <1>1 DEF Rebuild
    <2> QED BY <2>1, <2>2, <2>3 DEF Others
  <1>4. InputsTypeOK'
    BY <1>2, <1>3 DEF InputsInv, InputsTypeOK
  <1> QED BY <1>2, <1>3, <1>4 DEF InputsInv

LEMMA NextInputsInv ==
    ASSUME InputsInv, [InputsNext]_inputVars PROVE InputsInv'
  <1>1. CASE UNCHANGED inputVars
    BY <1>1 DEF inputVars, InputsInv, InputsTypeOK
  <1> QED BY <1>1, RunnerKeepsInputsInv, OthersKeepInputsInv DEF InputsNext

LEMMA InputsInvSays ==
    ASSUME InputsInv PROVE InputsTypeOK /\ StagedPluginIsCommitted /\ ArmsRunPinnedBroker
  <1>1. ASSUME pc \in {"arm", "actor"}
        PROVE Plugin(study.want) = [f \in {g \in PluginFiles : study.staged[g] # Absent}
                                      |-> study.staged[f]]
    <2>1. /\ \A f \in PluginFiles : study.hashed[f] \in {Absent, study.want[f]}
          /\ \A f \in PluginFiles : study.want[f] # Absent => study.hashed[f] # Absent
          /\ study.staged = study.hashed
      BY <1>1 DEF InputsInv
    <2>2. \A f \in PluginFiles : study.staged[f] = study.want[f]
      BY <2>1
    <2>3. {g \in PluginFiles : study.staged[g] # Absent} =
            {g \in PluginFiles : study.want[g] # Absent}
      BY <2>2
    <2> QED BY <2>2, <2>3 DEF Plugin
  <1>2. StagedPluginIsCommitted
    BY <1>1 DEF StagedPluginIsCommitted, InputsInv
  <1> QED BY <1>2 DEF InputsInv, ArmsRunPinnedBroker

LEMMA InputsSteps ==
    ASSUME [Next]_evaluationVars, part' = "inputs"
    PROVE  part = "inputs" /\ [InputsNext]_inputVars
  BY DEF Next, evaluationVars, Only, BrokerStep, InputsStep, CaseStep, TddStep, PlanStep,
     AcceptanceStep, TriggerStep, ScoringStep, TraceStep, ProofStep

\* However the checkout is edited while the study reads it, every plugin directory an arm
\* mounts holds one committed tree whole, and every arm runs the broker that was pinned.
THEOREM InputsArePinnedHolds == Spec => []InputsArePinned
  <1> DEFINE Inv == part = "inputs" => InputsInv
  <1>1. Init => Inv
    BY InitInputsInv DEF Init
  <1>2. Inv /\ [Next]_evaluationVars => Inv'
    BY InputsSteps, NextInputsInv
  <1>3. Inv => InputsArePinned
    BY InputsInvSays DEF InputsArePinned
  <1> QED BY <1>1, <1>2, <1>3, PTL DEF Spec

-----------------------------------------------------------------------------
(* The schedule and the acceptance of a study (StudyAcceptance) *)

BothArms == {"treatment", "control"}

\* A study's row is of its slot, and only the last of a run that failed is no result.
AcceptanceInv ==
    /\ rows \in Seq(Row) /\ Len(rows) <= Slots
    /\ published \in BOOLEAN /\ over \in BOOLEAN /\ failed \in BOOLEAN
    /\ \A n \in 1..Len(rows) :
         /\ rows[n].case = Slot(n).case /\ rows[n].repetition = Slot(n).repetition
         /\ rows[n].arm = Slot(n).arm
         /\ ~rows[n].completed <=> failed /\ n = Len(rows)
    /\ failed => Len(rows) > 0
    /\ over => ~failed /\ Len(rows) = Slots /\ published = Accepted(rows)

\* Division, and what it tells of products.
LEMMA DivMod ==
    ASSUME NEW a \in Nat, NEW p \in Nat \ {0}
    PROVE  a \div p \in Nat /\ a % p \in 0..p - 1 /\ a = p * (a \div p) + (a % p)
  OBVIOUS

LEMMA Multiples ==
    ASSUME NEW a \in Nat, NEW b \in Nat, NEW p \in Nat \ {0}, a < b
    PROVE  p * b >= p * a + p /\ p * a \in Nat /\ p * b \in Nat
  <1>1. PICK d \in Nat : b = a + 1 + d
    <2>1. b - a - 1 \in Nat /\ b = a + 1 + (b - a - 1)
      OBVIOUS
    <2> QED BY <2>1
  <1>2. p * b = p * a + p + p * d
    BY <1>1
  <1>3. p * d \in Nat /\ p * a \in Nat
    OBVIOUS
  <1> QED BY <1>2, <1>3

\* Where the block of a case and a repetition starts in the schedule.
Start(i, r) == 2 * (PairedRuns * (i - 1) + r - 1) + 1

LEMMA StartIn ==
    ASSUME NEW i \in 1..Len(Catalog), NEW r \in 1..PairedRuns
    PROVE  Start(i, r) \in Nat /\ Start(i, r) >= 1 /\ Start(i, r) + 1 <= Slots /\ Slots \in Nat
  <1> DEFINE p == PairedRuns
             n == Len(Catalog)
             a == p * (i - 1)
             b == p * n
  <1>1. p \in Nat \ {0} /\ n \in Nat
    BY AcceptanceConstants
  <1>2. i - 1 \in Nat /\ i - 1 < n /\ r \in Nat /\ 1 <= r /\ r <= p
    BY <1>1
  <1>s. Slots = 2 * p * n /\ Start(i, r) = 2 * (a + r - 1) + 1
    BY DEF Slots, Start
  <1> HIDE DEF p, n
  <1>3. b >= a + p /\ a \in Nat /\ b \in Nat
    BY <1>1, <1>2, Multiples
  <1>4. Slots = 2 * b
    BY <1>s, <1>1
  <1> HIDE DEF a, b
  <1> QED BY <1>1, <1>2, <1>3, <1>4, <1>s

LEMMA StartsDiffer ==
    ASSUME NEW i \in 1..Len(Catalog), NEW r \in 1..PairedRuns,
           NEW j \in 1..Len(Catalog), NEW s \in 1..PairedRuns
    PROVE  /\ Start(i, r) # Start(j, s) + 1
           /\ Start(i, r) = Start(j, s) => i = j /\ r = s
  <1> DEFINE p == PairedRuns
             a == p * (i - 1)
             b == p * (j - 1)
  <1>1. /\ p \in Nat \ {0} /\ i - 1 \in Nat /\ j - 1 \in Nat /\ r \in Nat /\ s \in Nat
        /\ 1 <= r /\ r <= p /\ 1 <= s /\ s <= p
    BY AcceptanceConstants
  <1>2. Start(i, r) = 2 * (a + r - 1) + 1 /\ Start(j, s) = 2 * (b + s - 1) + 1
    BY DEF Start
  <1> HIDE DEF p
  <1>3. i - 1 < j - 1 => b >= a + p
    BY <1>1, Multiples
  <1>4. j - 1 < i - 1 => a >= b + p
    BY <1>1, Multiples
  <1>5. a \in Nat /\ b \in Nat
    BY <1>1
  <1>6. i = j => a = b
    OBVIOUS
  <1> HIDE DEF a, b
  <1>7. Start(i, r) # Start(j, s) + 1
    BY <1>1, <1>2, <1>5
  <1>8. ASSUME Start(i, r) = Start(j, s) PROVE i = j /\ r = s
    <2>1. a + r = b + s
      BY <1>1, <1>2, <1>5, <1>8
    <2>2. i = j
      BY <1>1, <1>3, <1>4, <1>5, <2>1
    <2> QED BY <1>1, <1>5, <1>6, <2>1, <2>2
  <1> QED BY <1>7, <1>8

\* A slot is the first or the second of the block of a case and a repetition.
LEMMA SlotIs ==
    ASSUME NEW n \in 1..Slots
    PROVE  \E i \in 1..Len(Catalog), r \in 1..PairedRuns :
             /\ Slot(n).case = Catalog[i] /\ Slot(n).repetition = r
             /\ \/ n = Start(i, r) /\ Slot(n).arm = FirstArm(i, r)
                \/ n = Start(i, r) + 1 /\ Slot(n).arm = Other(FirstArm(i, r))
  <1> DEFINE p == PairedRuns
             N == Len(Catalog)
             block == (n - 1) \div 2
             parity == (n - 1) % 2
             a == block \div p
             m == block % p
             i == a + 1
             r == m + 1
  <1>1. p \in Nat \ {0} /\ N \in Nat /\ p * N \in Nat
    BY AcceptanceConstants
  <1>2. Slots = 2 * (p * N)
    BY <1>1 DEF Slots
  <1>3. n \in Nat /\ n - 1 \in Nat /\ n <= Slots
    BY <1>1, <1>2
  <1>4. block \in Nat /\ parity \in 0..1 /\ n - 1 = 2 * block + parity
    BY <1>3
  <1>5. n % 2 = 1 <=> parity = 0
    BY <1>3
  <1>s. Slot(n) = [case |-> Catalog[i], repetition |-> r,
                   arm |-> IF n % 2 = 1 THEN FirstArm(i, r) ELSE Other(FirstArm(i, r))]
    BY DEF Slot
  <1>t. Start(i, r) = 2 * (p * (i - 1) + r - 1) + 1
    BY DEF Start
  <1> HIDE DEF p, N, block, parity
  <1>6. a \in Nat /\ m \in 0..p - 1 /\ block = p * a + m
    BY <1>1, <1>4, DivMod
  <1> HIDE DEF a, m
  <1>7. i - 1 = a /\ r - 1 = m /\ p * a \in Nat
    BY <1>1, <1>6
  <1>8. a < N
    <2>1. SUFFICES ASSUME N <= a PROVE FALSE
      BY <1>1, <1>6
    <2>2. p * N <= p * a
      <3>1. CASE N = a
        BY <3>1, <1>7
      <3>2. CASE N < a
        <4>1. p * a >= p * N + p
          BY <1>1, <1>6, <3>2, Multiples
        <4> QED BY <1>1, <1>7, <4>1
      <3> QED BY <1>1, <1>6, <2>1, <3>1, <3>2
    <2>3. block < p * N
      <3> DEFINE b == p * N
      <3> HIDE DEF b
      <3>1. b \in Nat /\ n <= 2 * b
        BY <1>1, <1>2, <1>3 DEF b
      <3>2. block < b
        BY <1>3, <1>4, <3>1
      <3> QED BY <3>2 DEF b
    <2> DEFINE b == p * N
               d == p * a
    <2>4. b <= d /\ block < b /\ block = d + m /\ b \in Nat /\ d \in Nat /\ m \in Nat
      BY <1>1, <1>6, <1>7, <2>2, <2>3
    <2> HIDE DEF b, d
    <2> QED BY <2>4
  <1>9. i \in 1..N /\ r \in 1..p
    BY <1>1, <1>6, <1>8
  <1>10. Start(i, r) = 2 * block + 1
    <2> DEFINE d == p * a
    <2>1. block = d + m /\ d \in Nat /\ m \in Nat /\ Start(i, r) = 2 * (d + r - 1) + 1
      BY <1>6, <1>7, <1>t
    <2> HIDE DEF d
    <2> QED BY <2>1
  <1>11. n = Start(i, r) + parity
    BY <1>3, <1>4, <1>10
  <1>12. /\ Slot(n).case = Catalog[i] /\ Slot(n).repetition = r
         /\ Slot(n).arm = IF n % 2 = 1 THEN FirstArm(i, r) ELSE Other(FirstArm(i, r))
    BY <1>s
  <1>13. Start(i, r) \in Nat
    BY <1>4, <1>10
  <1>14. \/ n = Start(i, r) /\ Slot(n).arm = FirstArm(i, r)
         \/ n = Start(i, r) + 1 /\ Slot(n).arm = Other(FirstArm(i, r))
    BY <1>4, <1>5, <1>11, <1>12, <1>13
  <1> HIDE DEF i, r
  <1> QED BY <1>9, <1>12, <1>14 DEF N, p

\* And a block has its first slot where it starts, and its second after it.
LEMMA SlotsOf ==
    ASSUME NEW i \in 1..Len(Catalog), NEW r \in 1..PairedRuns
    PROVE  /\ Slot(Start(i, r)).case = Catalog[i] /\ Slot(Start(i, r)).repetition = r
           /\ Slot(Start(i, r)).arm = FirstArm(i, r)
           /\ Slot(Start(i, r) + 1).case = Catalog[i] /\ Slot(Start(i, r) + 1).repetition = r
           /\ Slot(Start(i, r) + 1).arm = Other(FirstArm(i, r))
  <1> DEFINE n == Start(i, r)
  <1>1. n \in 1..Slots /\ n + 1 \in 1..Slots /\ n \in Nat
    BY StartIn
  <1>2. PICK j \in 1..Len(Catalog), s \in 1..PairedRuns :
          /\ Slot(n).case = Catalog[j] /\ Slot(n).repetition = s
          /\ \/ n = Start(j, s) /\ Slot(n).arm = FirstArm(j, s)
             \/ n = Start(j, s) + 1 /\ Slot(n).arm = Other(FirstArm(j, s))
    BY <1>1, SlotIs
  <1>3. j = i /\ s = r /\ n = Start(j, s)
    BY <1>2, StartsDiffer
  <1>4. PICK k \in 1..Len(Catalog), t \in 1..PairedRuns :
          /\ Slot(n + 1).case = Catalog[k] /\ Slot(n + 1).repetition = t
          /\ \/ n + 1 = Start(k, t) /\ Slot(n + 1).arm = FirstArm(k, t)
             \/ n + 1 = Start(k, t) + 1 /\ Slot(n + 1).arm = Other(FirstArm(k, t))
    BY <1>1, SlotIs
  <1>5. n + 1 # Start(k, t)
    BY StartsDiffer
  <1>6. Start(k, t) \in Nat
    BY StartIn
  <1>7. n = Start(k, t)
    BY <1>1, <1>4, <1>5, <1>6
  <1>8. k = i /\ t = r
    BY <1>7, StartsDiffer
  <1>9. /\ Slot(n).case = Catalog[i] /\ Slot(n).repetition = r /\ Slot(n).arm = FirstArm(i, r)
    BY <1>1, <1>2, <1>3
  <1>10. /\ Slot(n + 1).case = Catalog[i] /\ Slot(n + 1).repetition = r
         /\ Slot(n + 1).arm = Other(FirstArm(i, r))
    BY <1>4, <1>5, <1>8
  <1> QED BY <1>9, <1>10

LEMMA ArmsAlternate ==
    /\ \A i, r : FirstArm(i, r) \in BothArms
    /\ \A arm \in BothArms : Other(arm) \in BothArms /\ Other(arm) # arm
    /\ \A i \in Nat, r \in Nat \ {0} : r > 1 => FirstArm(i, r - 1) = Other(FirstArm(i, r))
  <1>1. /\ \A i, r : FirstArm(i, r) \in BothArms
        /\ \A arm \in BothArms : Other(arm) \in BothArms /\ Other(arm) # arm
    BY DEF FirstArm, Other, BothArms
  <1>2. ASSUME NEW i \in Nat, NEW r \in Nat, r > 1
        PROVE  FirstArm(i, r - 1) = Other(FirstArm(i, r))
    <2>1. (i - 1 + r) % 2 = 1 <=> ~((i - 1 + (r - 1)) % 2 = 1)
      BY <1>2
    <2> QED BY <2>1 DEF FirstArm, Other
  <1> QED BY <1>1, <1>2

LEMMA AcceptedIsBoolean == \A all : Accepted(all) \in BOOLEAN
  BY DEF Accepted

LEMMA InitAcceptanceInv == ASSUME AcceptanceInit PROVE AcceptanceInv
  <1>1. /\ rows = << >> /\ failed = FALSE /\ published = FALSE /\ over = FALSE
        /\ rows \in Seq(Row) /\ Len(rows) = 0
    BY DEF AcceptanceInit
  <1>2. Slots \in Nat
    BY AcceptanceConstants DEF Slots
  <1>3. \A n \in 1..Len(rows) : FALSE
    BY <1>1
  <1>4. Len(rows) <= Slots
    BY <1>1, <1>2
  <1> QED BY <1>1, <1>3, <1>4 DEF AcceptanceInv

\* A row of the next slot.
LEMMA AppendKeeps ==
    ASSUME AcceptanceInv, ~over, ~failed, Len(rows) < Slots,
           NEW completed \in BOOLEAN, NEW succeeds \in BOOLEAN, NEW activation \in BOOLEAN,
           LET slot == Slot(Len(rows) + 1) IN
             Publish(Append(rows, [case |-> slot.case, repetition |-> slot.repetition,
                                   arm |-> slot.arm, completed |-> completed,
                                   outcome |-> succeeds, activation |-> activation])),
           failed' = ~completed, over' = over
    PROVE  AcceptanceInv'
  <1> DEFINE n == Len(rows) + 1
             row == [case |-> Slot(n).case, repetition |-> Slot(n).repetition,
                     arm |-> Slot(n).arm, completed |-> completed,
                     outcome |-> succeeds, activation |-> activation]
  <1>1. rows' = Append(rows, row) /\ published' \in BOOLEAN
    BY AcceptedIsBoolean DEF Publish
  <1>2. rows \in Seq(Row) /\ Len(rows) \in Nat /\ Slots \in Nat /\ n \in 1..Slots
    BY AcceptanceConstants DEF AcceptanceInv, Slots
  <1>3. PICK i \in 1..Len(Catalog), r \in 1..PairedRuns :
          Slot(n).case = Catalog[i] /\ Slot(n).repetition = r
          /\ (Slot(n).arm = FirstArm(i, r) \/ Slot(n).arm = Other(FirstArm(i, r)))
    BY <1>2, SlotIs
  <1>4. Slot(n).arm \in BothArms
    BY <1>3, ArmsAlternate
  <1>5. Catalog[i] \in ToSet(Catalog)
    BY AcceptanceConstants DEF ToSet
  <1>6. /\ row \in Row /\ row.case = Slot(n).case /\ row.repetition = Slot(n).repetition
        /\ row.arm = Slot(n).arm /\ row.completed = completed
    BY <1>3, <1>4, <1>5 DEF Row, BothArms
  <1> HIDE DEF row
  <1>7. /\ rows' \in Seq(Row) /\ Len(rows') = n /\ rows'[n] = row
        /\ \A k \in 1..Len(rows) : rows'[k] = rows[k]
    BY <1>1, <1>2, <1>6
  <1>8. \A k \in 1..Len(rows') : k \in 1..Len(rows) \/ k = n
    BY <1>2, <1>7
  <1>9. \A k \in 1..Len(rows') :
          /\ rows'[k].case = Slot(k).case /\ rows'[k].repetition = Slot(k).repetition
          /\ rows'[k].arm = Slot(k).arm
          /\ ~rows'[k].completed <=> failed' /\ k = Len(rows')
    <2> TAKE k \in 1..Len(rows')
    <2>1. CASE k \in 1..Len(rows)
      <3>1. k # Len(rows') /\ rows'[k] = rows[k] /\ rows[k].completed
        BY <1>2, <1>7, <2>1 DEF AcceptanceInv
      <3> QED BY <2>1, <3>1 DEF AcceptanceInv
    <2>2. CASE k = n
      BY <1>6, <1>7, <2>2
    <2> QED BY <1>8, <2>1, <2>2
  <1>10. \A k \in 1..Len(rows') :
           /\ rows'[k].case = Slot(k)'.case /\ rows'[k].repetition = Slot(k)'.repetition
           /\ rows'[k].arm = Slot(k)'.arm
    BY <1>9 DEF Slot, FirstArm, Other
  <1>11. Len(rows') <= Slots' /\ Len(rows') > 0 /\ over' \in BOOLEAN /\ ~over'
    <2>1. Slots' = Slots
      BY DEF Slots
    <2> QED BY <1>2, <1>7, <2>1 DEF AcceptanceInv
  <1> QED BY <1>1, <1>7, <1>9, <1>10, <1>11 DEF AcceptanceInv, Row

LEMMA NextAcceptanceInv ==
    ASSUME AcceptanceInv, [AcceptanceNext]_acceptanceVars PROVE AcceptanceInv'
  <1>0. /\ rows \in Seq(Row) /\ Len(rows) \in Nat /\ Slots \in Nat /\ Len(rows) <= Slots
        /\ over \in BOOLEAN /\ failed \in BOOLEAN
    BY AcceptanceConstants DEF AcceptanceInv, Slots
  <1>s. Slots' = Slots /\ Row' = Row /\ \A k : Slot(k)' = Slot(k)
    BY DEF Slots, Row, Slot, FirstArm, Other
  <1>1. CASE UNCHANGED acceptanceVars
    <2>1. rows' = rows /\ failed' = failed /\ published' = published /\ over' = over
      BY <1>1 DEF acceptanceVars
    <2>2. Accepted(rows)' = Accepted(rows)
      BY <2>1
    <2> QED BY <1>s, <2>1, <2>2 DEF AcceptanceInv
  <1>2. CASE RunArm
    <2>1. PICK succeeds \in BOOLEAN, activation \in BOOLEAN :
            LET slot == Slot(Len(rows) + 1) IN
              Publish(Append(rows, [case |-> slot.case, repetition |-> slot.repetition,
                                    arm |-> slot.arm, completed |-> TRUE,
                                    outcome |-> succeeds, activation |-> activation]))
      BY <1>2 DEF RunArm
    <2>2. ~over /\ ~failed /\ Len(rows) < Slots /\ failed' = failed /\ over' = over
      BY <1>2 DEF RunArm
    <2>3. failed' = ~TRUE
      BY <1>0, <2>2
    <2> QED BY <2>1, <2>2, <2>3, AppendKeeps
  <1>3. CASE FailArm
    <2>1. ~over /\ ~failed /\ Len(rows) < Slots /\ failed' = ~FALSE /\ over' = over
      BY <1>3 DEF FailArm
    <2>2. LET slot == Slot(Len(rows) + 1) IN
            Publish(Append(rows, [case |-> slot.case, repetition |-> slot.repetition,
                                  arm |-> slot.arm, completed |-> FALSE,
                                  outcome |-> FALSE, activation |-> FALSE]))
      BY <1>3 DEF FailArm
    <2> QED BY <2>1, <2>2, AppendKeeps
  <1>4. CASE Resume
    <2>1. failed /\ failed' = FALSE /\ over' = over /\ rows' = Front(rows)
      BY <1>4 DEF Resume, Publish
    <2>2. published' \in BOOLEAN
      BY <1>4, AcceptedIsBoolean DEF Resume, Publish
    <2>3. Len(rows) > 0 /\ ~over
      BY <2>1 DEF AcceptanceInv
    <2> DEFINE n == Len(rows) - 1
               f == SubSeq(rows, 1, n)
    <2>4. rows' = f /\ n \in Nat /\ Len(rows) = n + 1
      BY <1>0, <2>1, <2>3 DEF Front
    <2> HIDE DEF n
    <2>5. \A k \in 1..n : k \in 1..Len(rows) /\ k # Len(rows)
      BY <2>4
    <2>6. \A k \in 1..n : rows[k] \in Row
      BY <1>0, <2>5
    <2>7. /\ f \in Seq(Row)
          /\ Len(f) = IF 1 <= n THEN n - 1 + 1 ELSE 0
          /\ \A k \in 1 .. n - 1 + 1 : f[k] = rows[1 + k - 1]
      BY <2>4, <2>6, SubSeqProperties
    <2> HIDE DEF f
    <2>8. rows' \in Seq(Row) /\ Len(rows') = n /\ \A k \in 1..n : rows'[k] = rows[k]
      BY <2>4, <2>7
    <2>9. \A k \in 1..Len(rows') :
            /\ rows'[k].case = Slot(k).case /\ rows'[k].repetition = Slot(k).repetition
            /\ rows'[k].arm = Slot(k).arm
            /\ rows'[k].completed
      BY <2>5, <2>8 DEF AcceptanceInv
    <2>10. Len(rows') <= Slots
      BY <1>0, <2>4, <2>8
    <2> QED BY <1>0, <1>s, <2>1, <2>2, <2>3, <2>8, <2>9, <2>10 DEF AcceptanceInv
  <1>5. CASE Finish
    <2>1. /\ ~failed /\ Len(rows) = Slots /\ over' = TRUE /\ published' = Accepted(rows)
          /\ rows' = rows /\ failed' = failed
      BY <1>5 DEF Finish
    <2>2. published' \in BOOLEAN /\ published' = Accepted(rows)'
      BY <2>1, AcceptedIsBoolean
    <2> QED BY <1>0, <1>s, <2>1, <2>2 DEF AcceptanceInv
  <1> QED BY <1>1, <1>2, <1>3, <1>4, <1>5 DEF AcceptanceNext

\* Of numbers that alternate between two sets, one set has at most one more.
LEMMA AtMostOneMore ==
    ASSUME NEW E \in SUBSET Nat, NEW O \in SUBSET Nat, IsFiniteSet(E), IsFiniteSet(O),
           \A r \in E : r # 1 => r - 1 \in O
    PROVE  Cardinality(E) <= Cardinality(O) + 1
  <1> DEFINE F == E \ {1}
             f == [r \in F |-> r - 1]
  <1>1. f \in Injection(F, O)
    BY DEF Injection, IsInjective
  <1>2. IsFiniteSet(F) /\ Cardinality(E) <= Cardinality(F) + 1
    <2>1. /\ IsFiniteSet(E \ {1})
          /\ Cardinality(E \ {1}) = IF 1 \in E THEN Cardinality(E) - 1 ELSE Cardinality(E)
      BY FS_RemoveElement
    <2>2. Cardinality(E) \in Nat
      BY FS_CardinalityType
    <2> QED BY <2>1, <2>2
  <1> HIDE DEF f, F
  <1>3. Cardinality(F) <= Cardinality(O)
    BY <1>1, FS_Injection
  <1>4. Cardinality(E) \in Nat /\ Cardinality(F) \in Nat /\ Cardinality(O) \in Nat
    BY <1>2, FS_CardinalityType
  <1> QED BY <1>2, <1>3, <1>4

\* The repetitions of a case an arm goes first in are those of its blocks that have started.
LEMMA BlocksAre ==
    ASSUME AcceptanceInv, NEW i \in 1..Len(Catalog), NEW arm \in BothArms
    PROVE  Blocks(Catalog[i], arm) =
             {r \in 1..PairedRuns : Start(i, r) <= Len(rows) /\ FirstArm(i, r) = arm}
  <1>0. /\ rows \in Seq(Row) /\ Len(rows) \in Nat /\ Len(rows) <= Slots /\ Slots \in Nat
        /\ DOMAIN rows = 1..Len(rows)
        /\ \A n \in 1..Len(rows) :
              /\ rows[n].case = Slot(n).case /\ rows[n].repetition = Slot(n).repetition
              /\ rows[n].arm = Slot(n).arm
    BY AcceptanceConstants DEF AcceptanceInv, Slots
  <1>1. \A j, k \in 1..Len(Catalog) : Catalog[j] = Catalog[k] => j = k
    BY AcceptanceConstants
  <1>2. ASSUME NEW r \in Blocks(Catalog[i], arm)
        PROVE  r \in 1..PairedRuns /\ Start(i, r) <= Len(rows) /\ FirstArm(i, r) = arm
    <2>1. PICK n \in 1..Len(rows) :
            /\ rows[n].case = Catalog[i] /\ rows[n].repetition = r /\ rows[n].arm = arm
            /\ \A j \in 1..n - 1 : rows[j].case = Catalog[i] => rows[j].repetition # r
      BY <1>0 DEF Blocks
    <2>2. n \in 1..Slots
      BY <1>0
    <2>3. PICK j \in 1..Len(Catalog), s \in 1..PairedRuns :
             /\ Slot(n).case = Catalog[j] /\ Slot(n).repetition = s
             /\ \/ n = Start(j, s) /\ Slot(n).arm = FirstArm(j, s)
                \/ n = Start(j, s) + 1 /\ Slot(n).arm = Other(FirstArm(j, s))
      BY <2>2, SlotIs
    <2>4. j = i /\ s = r
      BY <1>0, <1>1, <2>1, <2>3
    <2>5. Start(i, r) \in Nat /\ Start(i, r) >= 1
      BY <2>3, <2>4, StartIn
    <2>6. n # Start(i, r) + 1
      <3>1. SUFFICES ASSUME n = Start(i, r) + 1 PROVE FALSE
        OBVIOUS
      <3>2. Start(i, r) \in 1..n - 1 /\ Start(i, r) \in 1..Len(rows)
        BY <1>0, <2>5, <3>1
      <3>3. Slot(Start(i, r)).case = Catalog[i] /\ Slot(Start(i, r)).repetition = r
        BY <2>3, <2>4, SlotsOf
      <3> QED BY <1>0, <2>1, <3>2, <3>3
    <2> QED BY <1>0, <2>1, <2>3, <2>4, <2>6
  <1>3. ASSUME NEW r \in 1..PairedRuns, Start(i, r) <= Len(rows), FirstArm(i, r) = arm
        PROVE  r \in Blocks(Catalog[i], arm)
    <2> DEFINE n == Start(i, r)
    <2>1. n \in Nat /\ n >= 1 /\ n \in 1..Len(rows)
      BY <1>0, <1>3, StartIn
    <2>2. rows[n].case = Catalog[i] /\ rows[n].repetition = r /\ rows[n].arm = arm
      BY <1>0, <1>3, <2>1, SlotsOf
    <2>3. ASSUME NEW k \in 1..n - 1, rows[k].case = Catalog[i], rows[k].repetition = r
          PROVE  FALSE
      <3>1. k \in 1..Len(rows) /\ k \in 1..Slots /\ k \in Nat /\ k < n
        BY <1>0, <2>1
      <3>2. PICK j \in 1..Len(Catalog), s \in 1..PairedRuns :
               /\ Slot(k).case = Catalog[j] /\ Slot(k).repetition = s
               /\ (k = Start(j, s) \/ k = Start(j, s) + 1)
        BY <3>1, SlotIs
      <3>3. j = i /\ s = r
        BY <1>0, <1>1, <2>3, <3>1, <3>2
      <3> QED BY <2>1, <3>1, <3>2, <3>3
    <2>4. /\ n \in DOMAIN rows
          /\ \A j \in 1..n - 1 : rows[j].case = Catalog[i] => rows[j].repetition # r
      BY <1>0, <2>1, <2>3
    <2> HIDE DEF n
    <2> QED BY <2>2, <2>4 DEF Blocks
  <1> QED BY <1>2, <1>3

LEMMA NeitherSays == ASSUME AcceptanceInv PROVE NeitherArmGoesFirst
  <1>1. SUFFICES ASSUME NEW c \in ToSet(Catalog)
                 PROVE  Cardinality(Blocks(c, "treatment")) - Cardinality(Blocks(c, "control"))
                          \in {-1, 0, 1}
    BY DEF NeitherArmGoesFirst
  <1>2. PICK i \in 1..Len(Catalog) : c = Catalog[i]
    BY AcceptanceConstants DEF ToSet
  <1>3. i \in Nat /\ Len(rows) \in Nat /\ PairedRuns \in Nat
    BY AcceptanceConstants DEF AcceptanceInv
  <1> DEFINE B(arm) == Blocks(Catalog[i], arm)
  <1>4. \A arm \in BothArms :
          B(arm) = {r \in 1..PairedRuns : Start(i, r) <= Len(rows) /\ FirstArm(i, r) = arm}
    BY BlocksAre
  <1>5. ASSUME NEW r \in 2..PairedRuns, Start(i, r) <= Len(rows)
        PROVE  r - 1 \in 1..PairedRuns /\ Start(i, r - 1) <= Len(rows)
    <2>1. r - 1 \in 1..PairedRuns /\ r \in 1..PairedRuns
      BY <1>3
    <2> DEFINE a == PairedRuns * (i - 1)
    <2>2. a \in Int
      BY <1>3
    <2>3. Start(i, r) = 2 * (a + r - 1) + 1 /\ Start(i, r - 1) = 2 * (a + (r - 1) - 1) + 1
      BY DEF Start
    <2> HIDE DEF a
    <2> QED BY <1>3, <1>5, <2>1, <2>2, <2>3
  <1>6. ASSUME NEW arm \in BothArms
        PROVE  Cardinality(B(arm)) <= Cardinality(B(Other(arm))) + 1
    <2>1. Other(arm) \in BothArms
      BY ArmsAlternate
    <2>2. \A r \in B(arm) : r # 1 => r - 1 \in B(Other(arm))
      <3> SUFFICES ASSUME NEW r \in B(arm), r # 1 PROVE r - 1 \in B(Other(arm))
        OBVIOUS
      <3>1. r \in 1..PairedRuns /\ Start(i, r) <= Len(rows) /\ FirstArm(i, r) = arm
        BY <1>4
      <3>2. r \in 2..PairedRuns /\ r \in Nat \ {0} /\ r > 1
        BY <1>3, <3>1
      <3>3. FirstArm(i, r - 1) = Other(arm)
        BY <1>3, <3>1, <3>2, ArmsAlternate
      <3> QED BY <1>4, <1>5, <2>1, <3>1, <3>2, <3>3
    <2>3. \A a \in BothArms : B(a) \in SUBSET Nat /\ IsFiniteSet(B(a))
      <3> TAKE a \in BothArms
      <3>1. B(a) \subseteq 1..PairedRuns
        BY <1>4
      <3>2. IsFiniteSet(1..PairedRuns)
        BY <1>3, FS_Interval
      <3>3. 1..PairedRuns \subseteq Nat
        BY <1>3
      <3> HIDE DEF B
      <3>4. IsFiniteSet(B(a))
        BY <3>1, <3>2, FS_Subset
      <3> QED BY <3>1, <3>3, <3>4
    <2> HIDE DEF B
    <2> QED BY <2>1, <2>2, <2>3, AtMostOneMore
  <1>7. "treatment" \in BothArms /\ "control" \in BothArms
        /\ Other("treatment") = "control" /\ Other("control") = "treatment"
    BY DEF BothArms, Other
  <1>8. \A a \in BothArms : Cardinality(B(a)) \in Nat
    <2> TAKE a \in BothArms
    <2>1. B(a) \subseteq 1..PairedRuns
      BY <1>4
    <2>2. IsFiniteSet(1..PairedRuns)
      BY <1>3, FS_Interval
    <2> HIDE DEF B
    <2> QED BY <2>1, <2>2, FS_Subset, FS_CardinalityType
  <1>9. Cardinality(B("treatment")) - Cardinality(B("control")) \in {-1, 0, 1}
    <2>1. Cardinality(B("treatment")) <= Cardinality(B("control")) + 1
      BY <1>6, <1>7
    <2>2. Cardinality(B("control")) <= Cardinality(B("treatment")) + 1
      BY <1>6, <1>7
    <2> HIDE DEF B
    <2> QED BY <1>7, <1>8, <2>1, <2>2
  <1> QED BY <1>2, <1>9

\* A case's completed rows of an arm are one a repetition when the study is over.
Done(c, arm) == {k \in DOMAIN rows : rows[k].case = c /\ rows[k].arm = arm /\ rows[k].completed}

LEMMA DoneIsWhole ==
    ASSUME AcceptanceInv, over, NEW i \in 1..Len(Catalog), NEW arm \in BothArms
    PROVE  LET done == Done(Catalog[i], arm) IN
             /\ {rows[k].repetition : k \in done} = 1..PairedRuns
             /\ Cardinality(done) = PairedRuns /\ done # {}
  <1>0. /\ rows \in Seq(Row) /\ Len(rows) = Slots /\ Slots \in Nat
        /\ DOMAIN rows = 1..Slots /\ ~failed
    BY AcceptanceConstants DEF AcceptanceInv, Slots
  <1>1. \A n \in 1..Slots :
              /\ rows[n].case = Slot(n).case /\ rows[n].repetition = Slot(n).repetition
              /\ rows[n].arm = Slot(n).arm /\ rows[n].completed
    BY <1>0 DEF AcceptanceInv, Row
  <1>2. \A j, k \in 1..Len(Catalog) : Catalog[j] = Catalog[k] => j = k
    BY AcceptanceConstants
  <1> DEFINE done == Done(Catalog[i], arm)
             f == [k \in done |-> rows[k].repetition]
  <1>3. ASSUME NEW k \in done
        PROVE  /\ rows[k].repetition \in 1..PairedRuns
               /\ k = IF FirstArm(i, rows[k].repetition) = arm
                      THEN Start(i, rows[k].repetition) ELSE Start(i, rows[k].repetition) + 1
    <2>1. k \in 1..Slots /\ rows[k].case = Catalog[i] /\ rows[k].arm = arm
      BY <1>0 DEF Done
    <2>2. PICK j \in 1..Len(Catalog), s \in 1..PairedRuns :
             /\ Slot(k).case = Catalog[j] /\ Slot(k).repetition = s
             /\ \/ k = Start(j, s) /\ Slot(k).arm = FirstArm(j, s)
                \/ k = Start(j, s) + 1 /\ Slot(k).arm = Other(FirstArm(j, s))
      BY <2>1, SlotIs
    <2>3. j = i /\ s = rows[k].repetition /\ Slot(k).arm = arm
      BY <1>1, <1>2, <2>1, <2>2
    <2>4. FirstArm(i, s) \in BothArms /\ Other(FirstArm(i, s)) # FirstArm(i, s)
      BY ArmsAlternate
    <2> QED BY <2>2, <2>3, <2>4
  <1>4. ASSUME NEW r \in 1..PairedRuns PROVE \E k \in done : rows[k].repetition = r
    <2>1. /\ Start(i, r) \in 1..Slots /\ Start(i, r) + 1 \in 1..Slots
      BY StartIn
    <2>2. CASE FirstArm(i, r) = arm
      <3>1. Start(i, r) \in done /\ rows[Start(i, r)].repetition = r
        BY <1>0, <1>1, <2>1, <2>2, SlotsOf DEF Done
      <3> QED BY <3>1
    <2>3. CASE FirstArm(i, r) # arm
      <3>1. Other(FirstArm(i, r)) = arm
        BY <2>3, ArmsAlternate DEF BothArms
      <3>2. Start(i, r) + 1 \in done /\ rows[Start(i, r) + 1].repetition = r
        BY <1>0, <1>1, <2>1, <3>1, SlotsOf DEF Done
      <3> QED BY <3>2
    <2> QED BY <2>2, <2>3
  <1>5. done \subseteq 1..Slots
    BY <1>0 DEF Done
  <1> HIDE DEF done
  <1>6. {rows[k].repetition : k \in done} = 1..PairedRuns
    BY <1>3, <1>4
  <1>7. f \in Injection(done, 1..PairedRuns)
    BY <1>3 DEF Injection, IsInjective
  <1>8. f \in Surjection(done, 1..PairedRuns)
    BY <1>3, <1>4 DEF Surjection
  <1>9. IsFiniteSet(1..PairedRuns) /\ Cardinality(1..PairedRuns) = PairedRuns
    BY AcceptanceConstants, FS_Interval
  <1> HIDE DEF f
  <1>10. Cardinality(done) = PairedRuns
    BY <1>7, <1>8, <1>9, FS_Injection
  <1>11. done # {}
    <2>1. 1 \in 1..PairedRuns
      BY AcceptanceConstants
    <2> QED BY <1>4, <2>1
  <1> QED BY <1>6, <1>10, <1>11 DEF done

LEMMA FinishedSays == ASSUME AcceptanceInv PROVE FinishedAcceptanceIsWhole
  <1>1. SUFFICES ASSUME over
                 PROVE  published <=>
      /\ ToSet(Catalog) \ ReportOnly # {}
      /\ \A c \in ToSet(Catalog) \ ReportOnly :
           LET blocks(arm) == {rows[i].repetition :
                                 i \in {k \in DOMAIN rows : rows[k].case = c
                                                              /\ rows[k].arm = arm
                                                              /\ rows[k].completed}} IN
             /\ blocks("treatment") = blocks("control")
             /\ Cardinality(blocks("treatment")) >= Minimum
             /\ \A i \in DOMAIN rows :
                  rows[i].case = c /\ rows[i].arm = "treatment" =>
                    rows[i].outcome /\ (c \in Skilled => rows[i].activation)
    BY DEF FinishedAcceptanceIsWhole
  <1>2. published = Accepted(rows) /\ published \in BOOLEAN /\ rows \in Seq(Row)
    BY <1>1 DEF AcceptanceInv
  <1>3. \A i \in DOMAIN rows : rows[i].completed
    BY <1>1, <1>2 DEF AcceptanceInv
  <1> DEFINE R(c, arm) == {rows[i].repetition : i \in Done(c, arm)}
             AllPass(c) == \A i \in DOMAIN rows :
                            rows[i].case = c /\ rows[i].arm = "treatment" =>
                              rows[i].outcome /\ (c \in Skilled => rows[i].activation)
  <1>4. \A c \in ToSet(Catalog) : \A arm \in BothArms :
          R(c, arm) = 1..PairedRuns /\ Cardinality(Done(c, arm)) = PairedRuns /\ Done(c, arm) # {}
    <2> TAKE c \in ToSet(Catalog)
    <2> TAKE arm \in BothArms
    <2>1. PICK i \in 1..Len(Catalog) : c = Catalog[i]
      BY AcceptanceConstants DEF ToSet
    <2> QED BY <1>1, <2>1, DoneIsWhole
  <1>5. "treatment" \in BothArms /\ "control" \in BothArms
    BY DEF BothArms
  <1>6. Cardinality(1..PairedRuns) = PairedRuns
    BY AcceptanceConstants, FS_Interval
  <1>7. \A c \in ToSet(Catalog) \ ReportOnly : \A arm \in BothArms :
          Counted(rows, c, arm) = Done(c, arm)
    BY DEF Counted, Done
  <1>8. Assessed(rows) = ToSet(Catalog) \ ReportOnly
    <2>1. \A c \in ToSet(Catalog) \cap ReportOnly : \A arm : Counted(rows, c, arm) = {}
      BY DEF Counted
    <2>2. \A c \in ToSet(Catalog) \ ReportOnly : Counted(rows, c, "treatment") # {}
      BY <1>4, <1>5, <1>7
    <2>3. \A c \in ToSet(Catalog) : c \in Assessed(rows) <=> c \notin ReportOnly
      BY <2>1, <2>2 DEF Assessed
    <2>4. Assessed(rows) \subseteq ToSet(Catalog)
      BY DEF Assessed
    <2> QED BY <2>3, <2>4
  <1>9. \A c \in ToSet(Catalog) \ ReportOnly :
          CaseAccepted(rows, c) <=> PairedRuns >= Minimum /\ AllPass(c)
    <2> TAKE c \in ToSet(Catalog) \ ReportOnly
    <2>1. /\ Counted(rows, c, "treatment") = Done(c, "treatment")
          /\ Counted(rows, c, "control") = Done(c, "control")
          /\ Cardinality(Done(c, "treatment")) = PairedRuns
          /\ Cardinality(Done(c, "control")) = PairedRuns
      BY <1>4, <1>5, <1>7
    <2>2. Done(c, "treatment") = {k \in DOMAIN rows : rows[k].case = c /\ rows[k].arm = "treatment"}
      BY <1>3 DEF Done
    <2>3. AllPass(c) <=> /\ \A i \in Done(c, "treatment") : rows[i].outcome
                        /\ \A i \in {k \in Done(c, "treatment") : c \in Skilled} :
                             rows[i].activation
      BY <2>2
    <2> HIDE DEF AllPass
    <2> QED BY <2>1, <2>3 DEF CaseAccepted
  <1>10. \A c \in ToSet(Catalog) \ ReportOnly :
           /\ R(c, "treatment") = R(c, "control")
           /\ Cardinality(R(c, "treatment")) = PairedRuns
    BY <1>4, <1>5, <1>6
  <1>11. published <=> /\ ToSet(Catalog) \ ReportOnly # {}
                       /\ \A c \in ToSet(Catalog) \ ReportOnly :
                            PairedRuns >= Minimum /\ AllPass(c)
    <2> HIDE DEF AllPass, R
    <2> QED BY <1>2, <1>8, <1>9 DEF Accepted
  <1>12. published <=> /\ ToSet(Catalog) \ ReportOnly # {}
                       /\ \A c \in ToSet(Catalog) \ ReportOnly :
                            /\ R(c, "treatment") = R(c, "control")
                            /\ Cardinality(R(c, "treatment")) >= Minimum
                            /\ AllPass(c)
    <2> HIDE DEF AllPass, R
    <2> QED BY <1>10, <1>11
  <1> QED BY <1>12 DEF Done

LEMMA AcceptanceInvSays ==
    ASSUME AcceptanceInv
    PROVE  AcceptanceTypeOK /\ NeitherArmGoesFirst /\ FinishedAcceptanceIsWhole
  <1>1. AcceptanceTypeOK
    BY DEF AcceptanceInv, AcceptanceTypeOK
  <1> QED BY <1>1, NeitherSays, FinishedSays

LEMMA AcceptanceSteps ==
    ASSUME [Next]_evaluationVars, part' = "acceptance"
    PROVE  part = "acceptance" /\ [AcceptanceNext]_acceptanceVars
  BY DEF Next, evaluationVars, Only, BrokerStep, InputsStep, CaseStep, TddStep, PlanStep,
     AcceptanceStep, TriggerStep, ScoringStep, TraceStep, ProofStep

\* However many arms fail and are resumed, and for any catalog and number of repetitions,
\* neither arm goes first twice more often than the other in a case, and the acceptance of
\* a finished study is about every pair of every case that counts.
THEOREM AcceptanceIsWholeHolds == Spec => []AcceptanceIsWhole
  <1> DEFINE Inv == part = "acceptance" => AcceptanceInv
  <1>1. Init => Inv
    BY InitAcceptanceInv DEF Init
  <1>2. Inv /\ [Next]_evaluationVars => Inv'
    BY AcceptanceSteps, NextAcceptanceInv
  <1>3. Inv => AcceptanceIsWhole
    BY AcceptanceInvSays DEF AcceptanceIsWhole
  <1> QED BY <1>1, <1>2, <1>3, PTL DEF Spec

-----------------------------------------------------------------------------
(* The scorecard (Scoring) *)

\* Rows that were read, and compared.
ReadRows(all) ==
    /\ all \in Seq(Lines)
    /\ \A i \in 1..Len(all) : ValidRow(all[i])

ScoringInv ==
    /\ ScoringTypeOK
    /\ ReadRows(scored)
    /\ stage \in {"compared", "accepted", "printed"} => Comparable(scored)
    /\ stage = "accepted" => criteria
    /\ stage = "accepted" \/ (stage = "printed" /\ criteria) => StudyAccepted(scored)
    /\ stage = "printed" =>
         card = {CellCard(scored, key) : key \in Cells(scored, Behavioral(scored))}

LEMMA InitScoringInv == ASSUME ScoringInit PROVE ScoringInv
  <1>1. /\ scored = << >> /\ Len(scored) = 0 /\ scored \in Seq(Lines)
        /\ stage = "reading" /\ criteria \in BOOLEAN /\ card = {}
    BY DEF ScoringInit
  <1>2. ScoringTypeOK /\ ReadRows(scored)
    BY <1>1, ScoringConstants DEF ScoringTypeOK, ReadRows
  <1> QED BY <1>1, <1>2 DEF ScoringInv

LEMMA NextScoringInv ==
    ASSUME ScoringInv, [ScoringNext]_scoringVars PROVE ScoringInv'
  <1>1. /\ stage \in {"reading", "loaded", "compared", "accepted", "printed", "failed"}
        /\ criteria \in BOOLEAN /\ (card # {} => stage = "printed")
        /\ scored \in Seq(Lines) /\ Len(scored) \in Nat /\ Len(scored) <= MaxLines
        /\ \A i, j \in 1..Len(scored) : scored[i].run = scored[j].run => i = j
        /\ \A i \in 1..Len(scored) : ValidRow(scored[i])
    BY DEF ScoringInv, ScoringTypeOK, ReadRows
  <1>2. CASE UNCHANGED scoringVars
    <2>1. scored' = scored /\ stage' = stage /\ criteria' = criteria /\ card' = card
      BY <1>2 DEF scoringVars
    <2> QED BY <2>1 DEF ScoringInv, ScoringTypeOK, ReadRows
  <1>3. CASE ReadLine
    <2>1. stage = "reading" /\ Len(scored) < MaxLines /\ criteria' = criteria /\ card' = card
      BY <1>3 DEF ReadLine
    <2>2. PICK row \in Lines :
            IF Fresh(row) THEN scored' = Append(scored, row) /\ UNCHANGED stage
            ELSE UNCHANGED scored /\ stage' = "failed"
      BY <1>3 DEF ReadLine
    <2>3. CASE Fresh(row)
      <3>1. /\ scored' \in Seq(Lines) /\ Len(scored') = Len(scored) + 1
            /\ \A i \in 1..Len(scored) : scored'[i] = scored[i]
            /\ scored'[Len(scored) + 1] = row
        BY <1>1, <2>2, <2>3
      <3>2. \A i \in 1..Len(scored') : i \in 1..Len(scored) \/ i = Len(scored) + 1
        BY <1>1, <3>1
      <3>3. ValidRow(row) /\ \A i \in 1..Len(scored) : scored[i].run # row.run
        BY <1>1, <2>3 DEF Fresh
      <3>4. \A i, j \in 1..Len(scored') : scored'[i].run = scored'[j].run => i = j
        BY <1>1, <3>1, <3>2, <3>3
      <3>5. \A i \in 1..Len(scored') : ValidRow(scored'[i])
        BY <1>1, <3>1, <3>2, <3>3
      <3>6. Len(scored') <= MaxLines /\ stage' = "reading"
        BY <1>1, <2>1, <2>2, <2>3, <3>1, ScoringConstants
      <3>7. ScoringTypeOK' /\ ReadRows(scored)'
        BY <1>1, <2>1, <3>1, <3>4, <3>5, <3>6 DEF ScoringTypeOK, ReadRows
      <3> QED BY <3>6, <3>7 DEF ScoringInv
    <2>4. CASE ~Fresh(row)
      <3>1. scored' = scored /\ stage' = "failed"
        BY <2>2, <2>4
      <3>2. ScoringTypeOK' /\ ReadRows(scored)'
        BY <1>1, <2>1, <3>1 DEF ScoringTypeOK, ReadRows
      <3> QED BY <3>1, <3>2 DEF ScoringInv
    <2> QED BY <2>3, <2>4
  <1>4. CASE EndOfFile \/ CompareRows \/ AcceptRows
    <2>1. scored' = scored /\ criteria' = criteria /\ card' = card /\ card = {}
      BY <1>1, <1>4 DEF EndOfFile, CompareRows, AcceptRows
    <2>2. /\ stage' \in {"loaded", "compared", "accepted", "failed"}
          /\ stage' = "compared" => Comparable(scored)
          /\ stage' = "accepted" => criteria /\ StudyAccepted(scored) /\ Comparable(scored)
      BY <1>4 DEF EndOfFile, CompareRows, AcceptRows, ScoringInv
    <2>3. ScoringTypeOK' /\ ReadRows(scored)'
      BY <1>1, <2>1, <2>2 DEF ScoringTypeOK, ReadRows
    <2>4. Comparable(scored)' = Comparable(scored) /\ StudyAccepted(scored)' = StudyAccepted(scored)
      BY <2>1
    <2> QED BY <2>1, <2>2, <2>3, <2>4 DEF ScoringInv
  <1>5. CASE PrintCard
    <2>1. /\ scored' = scored /\ criteria' = criteria /\ stage' = "printed"
          /\ card' = {CellCard(scored, key) : key \in Cells(scored, Behavioral(scored))}
          /\ stage = IF criteria THEN "accepted" ELSE "compared"
      BY <1>5 DEF PrintCard
    <2>2. Comparable(scored) /\ (criteria => StudyAccepted(scored))
      BY <2>1 DEF ScoringInv
    <2>3. ScoringTypeOK' /\ ReadRows(scored)'
      BY <1>1, <2>1 DEF ScoringTypeOK, ReadRows
    <2>4. /\ Comparable(scored)' = Comparable(scored)
          /\ StudyAccepted(scored)' = StudyAccepted(scored)
          /\ card' = {CellCard(scored, key) : key \in Cells(scored, Behavioral(scored))}'
      BY <2>1
    <2> QED BY <2>1, <2>2, <2>3, <2>4 DEF ScoringInv
  <1> QED BY <1>2, <1>3, <1>4, <1>5 DEF ScoringNext

\* In a cell of compared rows every row has its counterpart, and a block has one row an arm.
LEMMA RowsPair ==
    ASSUME NEW all, ReadRows(all), Comparable(all), NEW key, NEW cell,
           cell = InCell(all, Behavioral(all), key)
    PROVE  /\ Len(all) \in Nat /\ cell \subseteq 1..Len(all) /\ IsFiniteSet(cell)
           /\ \A i \in cell : /\ all[i].class = "behavioral" /\ Identity(all[i]) = key
                              /\ all[i].arm \in Arms
                              /\ ComparisonVerdict(all[i]) \in {"pass", "fail"}
                              /\ all[i].study = InstalledAB =>
                                   (all[i].plugin = EmptyPlugin <=> all[i].arm = "control")
           /\ \A i \in cell : \E j \in cell :
                all[j].arm # all[i].arm /\ all[j].block = all[i].block
           /\ \A i, j \in cell : all[i].block = all[j].block /\ all[i].arm = all[j].arm => i = j
  <1>1. Len(all) \in Nat /\ DOMAIN all = 1..Len(all) /\ \A i \in 1..Len(all) : ValidRow(all[i])
    BY DEF ReadRows
  <1>2. cell = {i \in 1..Len(all) : all[i].class = "behavioral" /\ Identity(all[i]) = key}
    BY <1>1 DEF InCell, Behavioral
  <1>3. IsFiniteSet(1..Len(all))
    BY <1>1, FS_Interval
  <1>4. IsFiniteSet(cell) /\ cell \subseteq 1..Len(all)
    <2>1. cell \subseteq 1..Len(all)
      BY <1>2
    <2> QED BY <1>3, <2>1, FS_Subset
  <1> DEFINE Mates(i) == {j \in Behavioral(all) : BlockOf(all[j]) = BlockOf(all[i])}
  <1>5. \A i \in cell : ValidBlock(all, Mates(i))
    BY <1>1, <1>2 DEF Comparable, Behavioral
  <1>6. \A i, j \in cell : all[i].block = all[j].block => j \in Mates(i) /\ i \in Mates(i)
    <2> TAKE i, j \in cell
    <2>1. Identity(all[i]) = Identity(all[j]) /\ i \in Behavioral(all) /\ j \in Behavioral(all)
      BY <1>1, <1>2 DEF Behavioral
    <2>2. all[i].study = all[j].study /\ all[i].case = all[j].case
      BY <2>1 DEF Identity
    <2> QED BY <2>1, <2>2 DEF BlockOf
  <1>7. \A i, j \in cell : all[i].block = all[j].block /\ all[i].arm = all[j].arm => i = j
    <2> TAKE i, j \in cell
    <2> HAVE all[i].block = all[j].block /\ all[i].arm = all[j].arm
    <2>1. ValidBlock(all, Mates(i)) /\ i \in Mates(i) /\ j \in Mates(i)
      BY <1>5, <1>6
    <2> HIDE DEF Mates
    <2> QED BY <2>1 DEF ValidBlock
  <1>8. ASSUME NEW i \in cell
        PROVE  \E j \in cell : all[j].arm # all[i].arm /\ all[j].block = all[i].block
    <2>1. i \in Mates(i) /\ ValidBlock(all, Mates(i))
      BY <1>5, <1>6
    <2> DEFINE M == Mates(i)
    <2>2. Cardinality(M) = 2 /\ i \in M
      BY <2>1 DEF ValidBlock
    <2>3. \E j \in M : j # i
      <3> HIDE DEF M
      <3>1. SUFFICES ASSUME M = {i} PROVE FALSE
        BY <2>2
      <3>2. Cardinality({i}) = 1
        BY FS_Singleton
      <3> QED BY <2>2, <3>1, <3>2
    <2>4. PICK j \in Mates(i) : j # i
      BY <2>3
    <2>5. all[j].arm # all[i].arm /\ Identity(all[j]) = Identity(all[i])
      BY <2>1, <2>4 DEF ValidBlock
    <2>6. all[j].block = all[i].block
      BY <2>4 DEF BlockOf
    <2>7. j \in cell
      BY <1>1, <1>2, <2>4, <2>5 DEF Behavioral
    <2> QED BY <2>5, <2>6, <2>7
  <1>9. ASSUME NEW i \in cell
        PROVE  /\ all[i].class = "behavioral" /\ Identity(all[i]) = key
               /\ all[i].arm \in Arms
               /\ ComparisonVerdict(all[i]) \in {"pass", "fail"}
               /\ all[i].study = InstalledAB =>
                    (all[i].plugin = EmptyPlugin <=> all[i].arm = "control")
    <2>1. ValidRow(all[i]) /\ all[i].class = "behavioral" /\ Identity(all[i]) = key
      BY <1>1, <1>2
    <2>2. ComparisonVerdict(all[i]) \in {"pass", "fail"}
      BY <2>1 DEF ValidRow, ComparisonVerdict
    <2>3. all[i].study = InstalledAB => (all[i].plugin = EmptyPlugin <=> all[i].arm = "control")
      BY <1>5, <1>6 DEF ValidBlock
    <2> QED BY <2>1, <2>2, <2>3 DEF ValidRow
  <1> QED BY <1>1, <1>4, <1>7, <1>8, <1>9

\* The rows of an arm of a cell, and the blocks of the cell, are one to one.
LEMMA RowsAreBlocks ==
    ASSUME NEW all, ReadRows(all), Comparable(all), NEW key, NEW cell,
           cell = InCell(all, Behavioral(all), key), NEW arm \in Arms
    PROVE  LET rowsOf == InArm(all, cell, arm)
               blocks == {all[i].block : i \in cell} IN
             /\ [i \in rowsOf |-> all[i].block] \in Bijection(rowsOf, blocks)
             /\ IsFiniteSet(rowsOf) /\ IsFiniteSet(blocks)
             /\ Cardinality(rowsOf) = Cardinality(blocks)
             /\ Cardinality(blocks) \in Nat
  <1> DEFINE rowsOf == InArm(all, cell, arm)
             blocks == {all[i].block : i \in cell}
             f == [i \in rowsOf |-> all[i].block]
  <1>1. IsFiniteSet(cell) /\ (\A i \in cell : all[i].arm \in Arms)
        /\ \A i \in cell : \E j \in cell :
                all[j].arm # all[i].arm /\ all[j].block = all[i].block
    BY RowsPair
  <1>2. \A i, j \in cell : all[i].block = all[j].block /\ all[i].arm = all[j].arm => i = j
    BY RowsPair
  <1>3. rowsOf = {i \in cell : all[i].arm = arm}
    BY DEF InArm
  <1>4. f \in Injection(rowsOf, blocks)
    BY <1>2, <1>3 DEF Injection, IsInjective
  <1>5. \A b \in blocks : \E i \in rowsOf : f[i] = b
    <2> TAKE b \in blocks
    <2>1. PICK i \in cell : b = all[i].block
      OBVIOUS
    <2>2. PICK j \in cell : all[j].arm # all[i].arm /\ all[j].block = all[i].block
      BY <1>1
    <2>3. all[i].arm = arm \/ all[j].arm = arm
      BY <1>1, <2>2 DEF Arms
    <2> QED BY <1>3, <2>1, <2>2, <2>3
  <1>6. f \in Bijection(rowsOf, blocks)
    <2> HIDE DEF blocks
    <2> QED BY <1>4, <1>5 DEF Bijection, Surjection, Injection
  <1>7. rowsOf \subseteq cell
    BY <1>3
  <1> HIDE DEF rowsOf, blocks, f
  <1>8. IsFiniteSet(rowsOf)
    BY <1>1, <1>7, FS_Subset
  <1>9. f \in Surjection(rowsOf, blocks) /\ f \in Injection(rowsOf, blocks)
    BY <1>6 DEF Bijection
  <1>10. IsFiniteSet(blocks) /\ Cardinality(rowsOf) = Cardinality(blocks)
    BY <1>8, <1>9, FS_Surjection
  <1>11. Cardinality(blocks) \in Nat
    BY <1>10, FS_CardinalityType
  <1> QED BY <1>6, <1>8, <1>10, <1>11 DEF rowsOf, blocks, f

\* What the scorecard keeps of a block and an arm is the verdict of their one row.
LEMMA LastIsTheRow ==
    ASSUME NEW all, ReadRows(all), Comparable(all), NEW key, NEW cell,
           cell = InCell(all, Behavioral(all), key), NEW arm \in Arms,
           NEW i \in InArm(all, cell, arm)
    PROVE  LastOf(all, cell, all[i].block, arm) = ComparisonVerdict(all[i])
  <1> DEFINE of == {k \in InArm(all, cell, arm) : all[k].block = all[i].block}
  <1>1. Len(all) \in Nat /\ cell \subseteq 1..Len(all)
    BY RowsPair
  <1>2. \A k, j \in cell : all[k].block = all[j].block /\ all[k].arm = all[j].arm => k = j
    BY RowsPair
  <1>3. of = {i}
    BY <1>2 DEF InArm
  <1>4. i \in Nat
    BY <1>1 DEF InArm
  <1>5. Max({i}) = i
    BY <1>4 DEF Max
  <1>6. Max(of) = i /\ of # {}
    BY <1>3, <1>5
  <1> QED BY <1>6 DEF LastOf

\* The blocks an arm passed.
Wins(all, cell, arm) ==
    {b \in {all[i].block : i \in cell} : LastOf(all, cell, b, arm) = "pass"}

LEMMA BlocksAreWonOrLost ==
    ASSUME NEW all, ReadRows(all), Comparable(all), NEW key, NEW cell,
           cell = InCell(all, Behavioral(all), key), NEW arm \in Arms
    PROVE  /\ PassesOf(all, cell, arm) = Cardinality(Wins(all, cell, arm))
           /\ IsFiniteSet(Wins(all, cell, arm))
           /\ \A b \in {all[i].block : i \in cell} :
                LastOf(all, cell, b, arm) \in {"pass", "fail"}
  <1> DEFINE rowsOf == InArm(all, cell, arm)
             blocks == {all[i].block : i \in cell}
             f == [i \in rowsOf |-> all[i].block]
             passed == {i \in rowsOf : ComparisonVerdict(all[i]) = "pass"}
             wins == Wins(all, cell, arm)
             g == [i \in passed |-> all[i].block]
  <1>1. f \in Bijection(rowsOf, blocks) /\ IsFiniteSet(rowsOf) /\ IsFiniteSet(blocks)
    BY RowsAreBlocks
  <1>2. \A i \in rowsOf : /\ LastOf(all, cell, all[i].block, arm) = ComparisonVerdict(all[i])
                          /\ ComparisonVerdict(all[i]) \in {"pass", "fail"}
    <2> TAKE i \in rowsOf
    <2>1. i \in cell
      BY DEF InArm
    <2>2. ComparisonVerdict(all[i]) \in {"pass", "fail"}
      BY <2>1, RowsPair
    <2> QED BY <2>2, LastIsTheRow
  <1>3. \A b \in blocks : \E i \in rowsOf : b = all[i].block
    <2> HIDE DEF rowsOf, blocks
    <2> QED BY <1>1 DEF Bijection, Surjection
  <1>4. \A i, j \in rowsOf : all[i].block = all[j].block => i = j
    <2> HIDE DEF rowsOf, blocks
    <2> QED BY <1>1 DEF Bijection, Injection, IsInjective
  <1>5. \A i \in rowsOf : all[i].block \in blocks
    BY DEF InArm
  <1>6. wins = {b \in blocks : LastOf(all, cell, b, arm) = "pass"}
    BY DEF Wins
  <1> HIDE DEF rowsOf, blocks, f, wins
  <1>7. \A b \in blocks : LastOf(all, cell, b, arm) \in {"pass", "fail"}
    BY <1>2, <1>3
  <1>8. \A i \in passed : all[i].block \in wins
    BY <1>2, <1>5, <1>6
  <1>9. \A b \in wins : \E i \in passed : b = all[i].block
    BY <1>2, <1>3, <1>6
  <1>10. passed \subseteq rowsOf
    OBVIOUS
  <1> HIDE DEF passed
  <1>11. g \in Injection(passed, wins)
    BY <1>4, <1>8, <1>10 DEF Injection, IsInjective
  <1>12. g \in Surjection(passed, wins)
    BY <1>8, <1>9 DEF Surjection
  <1>13. IsFiniteSet(passed)
    BY <1>1, <1>10, FS_Subset
  <1> HIDE DEF g
  <1>14. IsFiniteSet(wins) /\ Cardinality(wins) = Cardinality(passed)
    BY <1>11, <1>12, <1>13, FS_Surjection
  <1>15. PassesOf(all, cell, arm) = Cardinality(passed)
    BY DEF PassesOf, passed, rowsOf
  <1> QED BY <1>7, <1>14, <1>15 DEF wins, blocks

\* A block one arm alone won is one it passed and the other did not.
LEMMA DiscordantIs ==
    ASSUME NEW all, ReadRows(all), Comparable(all), NEW key, NEW cell,
           cell = InCell(all, Behavioral(all), key),
           NEW winner \in Arms, NEW loser \in Arms
    PROVE  Discordant(all, cell, winner, loser)
             = Cardinality(Wins(all, cell, winner) \ Wins(all, cell, loser))
  <1>1. \A b \in {all[i].block : i \in cell} :
          LastOf(all, cell, b, loser) \in {"pass", "fail"}
    BY BlocksAreWonOrLost
  <1>2. {b \in {all[i].block : i \in cell} :
          LastOf(all, cell, b, winner) = "pass" /\ LastOf(all, cell, b, loser) = "fail"}
          = Wins(all, cell, winner) \ Wins(all, cell, loser)
    BY <1>1 DEF Wins
  <1> QED BY <1>2 DEF Discordant

LEMMA CellSays ==
    ASSUME NEW all, ReadRows(all), Comparable(all), NEW key, NEW cell,
           cell = InCell(all, Behavioral(all), key), NEW c, c = CellCard(all, key)
    PROVE  /\ c.key = key
           /\ c.n["treatment"] = c.n["control"]
           /\ c.pass["treatment"] + c.controlOnly = c.pass["control"] + c.treatmentOnly
           /\ c.durations => \A i \in cell : all[i].timed
  <1>1. /\ c.key = key
        /\ c.n["treatment"] = Cardinality(InArm(all, cell, "treatment"))
        /\ c.n["control"] = Cardinality(InArm(all, cell, "control"))
        /\ c.pass["treatment"] = PassesOf(all, cell, "treatment")
        /\ c.pass["control"] = PassesOf(all, cell, "control")
        /\ c.treatmentOnly = Discordant(all, cell, "treatment", "control")
        /\ c.controlOnly = Discordant(all, cell, "control", "treatment")
        /\ c.durations <=> DurationsShown(all, cell)
    BY DEF CellCard, Arms
  <1>2. "treatment" \in Arms /\ "control" \in Arms
    BY DEF Arms
  <1> DEFINE blocks == {all[i].block : i \in cell}
             T == Wins(all, cell, "treatment")
             C == Wins(all, cell, "control")
  <1>3. \A arm \in Arms : /\ Cardinality(InArm(all, cell, arm)) = Cardinality(blocks)
                          /\ IsFiniteSet(InArm(all, cell, arm))
    BY RowsAreBlocks
  <1>4. c.n["treatment"] = c.n["control"]
    BY <1>1, <1>2, <1>3
  <1>5. c.pass["treatment"] + c.controlOnly = c.pass["control"] + c.treatmentOnly
    <2>1. /\ c.pass["treatment"] = Cardinality(T) /\ c.pass["control"] = Cardinality(C)
          /\ IsFiniteSet(T) /\ IsFiniteSet(C)
      BY <1>1, <1>2, BlocksAreWonOrLost
    <2>2. c.treatmentOnly = Cardinality(T \ C) /\ c.controlOnly = Cardinality(C \ T)
      BY <1>1, <1>2, DiscordantIs
    <2> HIDE DEF T, C
    <2>3. Cardinality(T \ C) = Cardinality(T) - Cardinality(T \cap C)
      BY <2>1, FS_Difference
    <2>4. Cardinality(C \ T) = Cardinality(C) - Cardinality(C \cap T)
      BY <2>1, FS_Difference
    <2>5. T \cap C = C \cap T
      OBVIOUS
    <2>6. IsFiniteSet(T \cap C)
      <3>1. T \cap C \subseteq T
        OBVIOUS
      <3> QED BY <2>1, <3>1, FS_Subset
    <2>7. /\ Cardinality(T) \in Nat /\ Cardinality(C) \in Nat
          /\ Cardinality(T \cap C) \in Nat
      BY <2>1, <2>6, FS_CardinalityType
    <2> DEFINE t == Cardinality(T)
               k == Cardinality(C)
               both == Cardinality(T \cap C)
    <2>8. /\ c.treatmentOnly = t - both /\ c.controlOnly = k - both
          /\ c.pass["treatment"] = t /\ c.pass["control"] = k
      BY <2>1, <2>2, <2>3, <2>4, <2>5
    <2>9. t \in Nat /\ k \in Nat /\ both \in Nat
      BY <2>7
    <2> HIDE DEF t, k, both
    <2>10. t + (k - both) = k + (t - both)
      BY <2>9
    <2> QED BY <2>8, <2>10
  <1>6. ASSUME c.durations, NEW i \in cell PROVE all[i].timed
    <2>1. \A arm \in Arms :
            Cardinality({k \in InArm(all, cell, arm) : all[k].timed}) = Cardinality(blocks)
      BY <1>1, <1>6 DEF DurationsShown, Arms
    <2>2. all[i].arm \in Arms
      BY RowsPair
    <2> DEFINE R == InArm(all, cell, all[i].arm)
               timed == {k \in R : all[k].timed}
    <2>3. /\ Cardinality(timed) = Cardinality(blocks) /\ Cardinality(R) = Cardinality(blocks)
          /\ IsFiniteSet(R)
      BY <1>3, <2>1, <2>2
    <2>4. i \in R
      BY DEF InArm
    <2>5. timed \subseteq R
      OBVIOUS
    <2>6. timed = R
      <3> HIDE DEF timed, R, blocks
      <3> QED BY <2>3, <2>5, FS_Subset
    <2> QED BY <2>4, <2>6
  <1> QED BY <1>1, <1>4, <1>5, <1>6

LEMMA LikeWithLike == ASSUME ScoringInv PROVE CellsCompareLikeWithLike
  <1>1. SUFFICES ASSUME NEW c \in card PROVE
          LET cell == {i \in DOMAIN scored :
                         scored[i].class = "behavioral" /\ Identity(scored[i]) = c.key} IN
            \A i \in cell :
              /\ \E j \in cell : /\ scored[j].arm # scored[i].arm
                                 /\ scored[j].block = scored[i].block
                                 /\ scored[j].metrics = scored[i].metrics
              /\ \A j \in cell : scored[j].arm = scored[i].arm
                                   => scored[j].plugin = scored[i].plugin
              /\ scored[i].study = InstalledAB =>
                   (scored[i].plugin = EmptyPlugin <=> scored[i].arm = "control")
    BY DEF CellsCompareLikeWithLike
  <1>2. stage = "printed" /\ ReadRows(scored) /\ Comparable(scored)
    BY DEF ScoringInv, ScoringTypeOK
  <1>3. PICK key \in Cells(scored, Behavioral(scored)) : c = CellCard(scored, key)
    BY <1>2 DEF ScoringInv
  <1>4. c.key = key
    BY <1>3 DEF CellCard
  <1> DEFINE cell == InCell(scored, Behavioral(scored), key)
  <1>5. cell = {i \in DOMAIN scored :
                  scored[i].class = "behavioral" /\ Identity(scored[i]) = key}
    BY DEF InCell, Behavioral
  <1>6. ValidCell(scored, cell)
    BY <1>2 DEF Comparable
  <1>a. \A i \in cell : scored[i].arm \in Arms
    BY <1>2, RowsPair
  <1>b. \A i \in cell : scored[i].study = InstalledAB =>
                         (scored[i].plugin = EmptyPlugin <=> scored[i].arm = "control")
    BY <1>2, RowsPair
  <1>7. /\ IsFiniteSet(cell)
        /\ \A i \in cell : \E j \in cell :
             scored[j].arm # scored[i].arm /\ scored[j].block = scored[i].block
    BY <1>2, RowsPair
  <1>8. \A i, j \in cell : scored[i].metrics = scored[j].metrics
    <2> DEFINE M == {scored[i].metrics : i \in cell}
    <2>1. Cardinality(M) = 1
      BY <1>6 DEF ValidCell
    <2>2. IsFiniteSet(M)
      <3> DEFINE f == [i \in cell |-> scored[i].metrics]
      <3>1. f \in Surjection(cell, M)
        <4> HIDE DEF cell
        <4> QED BY DEF Surjection
      <3> HIDE DEF f, M, cell
      <3> QED BY <1>7, <3>1, FS_Surjection
    <2>3. \E x : M = {x}
      <3> HIDE DEF M
      <3> QED BY <2>1, <2>2, FS_Singleton
    <2> HIDE DEF cell
    <2> QED BY <2>3
  <1>9. \A i, j \in cell : scored[i].arm = scored[j].arm => scored[i].plugin = scored[j].plugin
    <2> SUFFICES ASSUME NEW i \in cell, NEW j \in cell, scored[i].arm = scored[j].arm
                 PROVE  scored[i].plugin = scored[j].plugin
      OBVIOUS
    <2> DEFINE R == InArm(scored, cell, scored[i].arm)
               M == {scored[k].plugin : k \in R}
    <2>a. \A arm \in Arms :
            Cardinality({scored[k].plugin : k \in InArm(scored, cell, arm)}) = 1
      BY <1>6 DEF ValidCell
    <2>b. scored[i].arm \in Arms
      <3> HIDE DEF cell
      <3> QED BY <1>a
    <2>1. Cardinality(M) = 1
      <3> HIDE DEF cell
      <3> QED BY <2>a, <2>b
    <2> HIDE DEF cell
    <2>2. R \subseteq cell /\ i \in R /\ j \in R
      BY DEF InArm
    <2>3. IsFiniteSet(R)
      <3> HIDE DEF R
      <3> QED BY <1>7, <2>2, FS_Subset
    <2>4. IsFiniteSet(M)
      <3> DEFINE f == [k \in R |-> scored[k].plugin]
      <3> HIDE DEF R
      <3>1. f \in Surjection(R, M)
        BY DEF Surjection
      <3> HIDE DEF f, M
      <3> QED BY <2>3, <3>1, FS_Surjection
    <2>5. \E x : M = {x}
      <3> HIDE DEF M
      <3> QED BY <2>1, <2>4, FS_Singleton
    <2> HIDE DEF R
    <2> QED BY <2>2, <2>5
  <1>d. cell = {i \in DOMAIN scored :
                  scored[i].class = "behavioral" /\ Identity(scored[i]) = c.key}
    BY <1>4, <1>5
  <1> HIDE DEF cell
  <1>10. \A i \in cell : \E j \in cell : /\ scored[j].arm # scored[i].arm
                                         /\ scored[j].block = scored[i].block
                                         /\ scored[j].metrics = scored[i].metrics
    BY <1>7, <1>8
  <1>11. \A i \in cell :
           /\ \A j \in cell : scored[j].arm = scored[i].arm
                                => scored[j].plugin = scored[i].plugin
           /\ scored[i].study = InstalledAB =>
                (scored[i].plugin = EmptyPlugin <=> scored[i].arm = "control")
    BY <1>b, <1>9, Zenon
  <1> QED BY <1>d, <1>10, <1>11, Zenon

LEMMA AcceptedSays == ASSUME ScoringInv PROVE AcceptedScorecard
  <1>1. SUFFICES ASSUME stage = "printed", criteria,
                        NEW i \in DOMAIN scored, ~ scored[i].reportOnly
                 PROVE  /\ scored[i].arm = "treatment" => scored[i].verdict = "pass"
                        /\ Cardinality({scored[j].block : j \in {k \in DOMAIN scored :
                             Identity(scored[k]) = Identity(scored[i])}}) >= MinimumPairs
    BY DEF AcceptedScorecard
  <1>2. /\ ReadRows(scored) /\ Comparable(scored) /\ StudyAccepted(scored)
        /\ scored \in Seq(Lines) /\ Len(scored) \in Nat /\ DOMAIN scored = 1..Len(scored)
    BY <1>1 DEF ScoringInv, ReadRows
  <1> DEFINE counted == {k \in DOMAIN scored : ~ scored[k].reportOnly}
             key == Identity(scored[i])
             part1 == InCell(scored, counted, key)
             R == InArm(scored, part1, "treatment")
             cell == InCell(scored, Behavioral(scored), key)
             blocks == {scored[j].block : j \in {k \in DOMAIN scored :
                                                   Identity(scored[k]) = key}}
  <1>3. \A k \in DOMAIN scored : scored[k].class = "behavioral"
    BY <1>2 DEF StudyAccepted
  <1>4. i \in counted /\ CellAccepted(scored, part1)
    BY <1>1, <1>2 DEF StudyAccepted, Cells
  <1>5. cell = {k \in DOMAIN scored : Identity(scored[k]) = key}
    BY <1>3 DEF InCell, Behavioral
  <1>6. R \subseteq cell /\ \A k \in R : scored[k].arm = "treatment"
    BY <1>3 DEF InCell, InArm, Behavioral
  <1>7. scored[i].arm = "treatment" => i \in R
    BY <1>4 DEF InArm, InCell
  <1>8. /\ IsFiniteSet(cell)
        /\ \A j, k \in cell :
             scored[j].block = scored[k].block /\ scored[j].arm = scored[k].arm => j = k
    BY <1>2, RowsPair
  <1>9. /\ Cardinality(R) >= MinimumPairs
        /\ Cardinality({k \in R : scored[k].verdict = "pass"}) = Cardinality(R)
    BY <1>4 DEF CellAccepted, Passed
  <1>10. blocks = {scored[j].block : j \in cell}
    BY <1>5
  <1> HIDE DEF R, cell, blocks
  <1>11. IsFiniteSet(R)
    BY <1>6, <1>8, FS_Subset
  <1>12. scored[i].arm = "treatment" => scored[i].verdict = "pass"
    <2> DEFINE P == {k \in R : scored[k].verdict = "pass"}
    <2>1. P \subseteq R /\ Cardinality(P) = Cardinality(R)
      BY <1>9
    <2>2. P = R
      <3> HIDE DEF P
      <3> QED BY <1>11, <2>1, FS_Subset
    <2> QED BY <1>7, <2>2
  <1>13. IsFiniteSet(blocks)
    <2> DEFINE f == [j \in cell |-> scored[j].block]
    <2>1. f \in Surjection(cell, blocks)
      BY <1>10 DEF Surjection
    <2> HIDE DEF f
    <2> QED BY <1>8, <2>1, FS_Surjection
  <1>14. Cardinality(R) <= Cardinality(blocks)
    <2> DEFINE f == [j \in R |-> scored[j].block]
    <2>1. f \in Injection(R, blocks)
      BY <1>6, <1>8, <1>10 DEF Injection, IsInjective
    <2> HIDE DEF f
    <2> QED BY <1>13, <2>1, FS_Injection
  <1>15. Cardinality(blocks) >= MinimumPairs
    <2>1. Cardinality(R) \in Nat /\ Cardinality(blocks) \in Nat /\ MinimumPairs \in Nat
      BY <1>11, <1>13, FS_CardinalityType, ScoringConstants
    <2> QED BY <1>9, <1>14, <2>1
  <1> QED BY <1>12, <1>15 DEF blocks

LEMMA ScoringInvSays ==
    ASSUME ScoringInv
    PROVE  /\ ScoringTypeOK /\ PairsTellTheDelta /\ CellsCompareLikeWithLike
           /\ DurationsCompareAllPairs /\ AcceptedScorecard
  <1>1. ScoringTypeOK
    BY DEF ScoringInv
  <1>2. ASSUME NEW c \in card
        PROVE  \E key : c = CellCard(scored, key) /\ ReadRows(scored) /\ Comparable(scored)
    BY DEF ScoringInv, ScoringTypeOK
  <1>3. PairsTellTheDelta
    BY <1>2, CellSays DEF PairsTellTheDelta
  <1>4. ASSUME NEW c \in card, c.durations, NEW i \in DOMAIN scored,
               scored[i].class = "behavioral", Identity(scored[i]) = c.key
        PROVE  scored[i].timed
    <2>1. PICK key : c = CellCard(scored, key) /\ ReadRows(scored) /\ Comparable(scored)
      BY <1>2
    <2> DEFINE cell == InCell(scored, Behavioral(scored), key)
    <2>2. c.key = key /\ \A k \in cell : scored[k].timed
      BY <1>4, <2>1, CellSays
    <2> QED BY <1>4, <2>2 DEF InCell, Behavioral
  <1>5. DurationsCompareAllPairs
    BY <1>4 DEF DurationsCompareAllPairs
  <1> QED BY <1>1, <1>3, <1>5, LikeWithLike, AcceptedSays

LEMMA ScoringSteps ==
    ASSUME [Next]_evaluationVars, part' = "scoring"
    PROVE  part = "scoring" /\ [ScoringNext]_scoringVars
  BY DEF Next, evaluationVars, Only, BrokerStep, InputsStep, CaseStep, TddStep, PlanStep,
     AcceptanceStep, TriggerStep, ScoringStep, TraceStep, ProofStep

\* Whatever rows a file has, a scorecard that is printed compares like with like: every row
\* of a cell has its counterpart, the two ways it tells a cell's outcome agree, durations are
\* of the same runs, and criteria it met were met by every case that counts.
THEOREM ScoresCompareLikeWithLikeHolds == Spec => []ScoresCompareLikeWithLike
  <1> DEFINE Inv == part = "scoring" => ScoringInv
  <1>1. Init => Inv
    BY InitScoringInv DEF Init
  <1>2. Inv /\ [Next]_evaluationVars => Inv'
    BY ScoringSteps, NextScoringInv
  <1>3. Inv => ScoresCompareLikeWithLike
    BY ScoringInvSays DEF ScoresCompareLikeWithLike
  <1> QED BY <1>1, <1>2, <1>3, PTL DEF Spec

-----------------------------------------------------------------------------
(* The resume-proof study (ResumeProof) *)

ProofStages == {"setup", "first", "judge", "compact", "recover", "grade", "next", "written"}
ProofVerdicts == {"pass", "fail", "indeterminate", "error", "skipped"}

\* A line of a journal or a checkpoint is by a session of a repetition, and names a HEAD.
Author == [rep : Nat, session : {1, 2}]
JournalLine == [by : Author, head : Nat, valid : BOOLEAN]
CheckpointOf == [by : Author, head : Nat]

Repository(r) ==
    /\ r = [head |-> r.head, tracked |-> r.tracked, done |-> r.done, tests |-> r.tests,
            extra |-> r.extra, ignored |-> r.ignored, charter |-> r.charter,
            journal |-> r.journal, checkpoint |-> r.checkpoint, handoff |-> r.handoff]
    /\ r.head \in Nat
    /\ r.done \subseteq Criteria /\ r.tests \subseteq Criteria /\ r.charter \subseteq Criteria
    /\ r.journal \in Seq(JournalLine) /\ r.checkpoint \in Seq(CheckpointOf)

Written(r) == ToSet(r.journal) \cup ToSet(r.checkpoint)

\* The records of a session with HEAD h, on what it found.
Journaled(was, is, me, h) ==
    \/ is = was
    \/ \E l \in JournalLine : l.by = me /\ l.head = h /\ is \in {<<l>>, Append(was, l)}
Checkpointed(was, is, me, h) ==
    \/ is = was
    \/ \E c \in CheckpointOf : c.by = me /\ c.head = h /\ is = <<c>>

ProofTypes ==
    /\ schedule \in Schedules /\ repetition \in DOMAIN schedule /\ canCompact \in BOOLEAN
    /\ proofAt \in ProofStages
    /\ verdicts \in Seq(ProofVerdicts)
    /\ Len(verdicts) = IF proofAt \in {"next", "written"} THEN repetition ELSE repetition - 1
    /\ memory \in {"none", "summary", "full"} /\ compacted \in BOOLEAN
    /\ deviations \in 0..MaxDeviations
    /\ commits \in Nat /\ base \in Nat
    /\ repos = [d \in Dirs |-> repos[d]]
    /\ \A d \in Dirs : Repository(repos[d]) /\ repos[d].head <= commits

\* The records of a directory are of the repetitions that were given it, up to the current.
RecordsAreOfTheirs ==
    \A d \in Dirs : \A x \in Written(repos[d]) :
      /\ x.by.rep \in 1..repetition /\ schedule[x.by.rep] = d
      /\ x.head <= commits
      /\ proofAt = "setup" => x.by.rep < repetition

GradedAs(v) == proofAt = "next" /\ Last(verdicts) = v
IsGraded == GradedAs("pass") \/ GradedAs("fail")

\* Once the repetition is set up, its base is newer than what an earlier one recorded.
BaseIsNew ==
    proofAt \in {"first", "judge", "compact", "recover", "grade"} \/ IsGraded =>
      \A x \in Written(Repo) : x.by.rep # repetition => x.head < base

\* What session 1 finds, and what it leaves.
FirstIsFirst ==
    /\ proofAt = "first" => \A x \in Written(Repo) : x.by.rep < repetition
    /\ proofAt = "judge" => \A x \in Written(Repo) : x.by.rep = repetition => x.by.session = 1

\* What the runner has seen is what session 1 left, and that had stopped as asked.
SeenIsOfFirst ==
    proofAt \in {"compact", "recover", "grade"} \/ IsGraded =>
      /\ StoppedAsAsked(seen)
      /\ seen.journal \in Seq(JournalLine)
      /\ seen.checkpoint \in Seq(CheckpointOf)
      /\ \A x \in Written(seen) : /\ x.by.rep \in 1..repetition /\ schedule[x.by.rep] = Dir
                                  /\ x.by.rep = repetition => x.by.session = 1

SecondAuthor == [rep |-> repetition, session |-> 2]

\* Session 2 has left the records it found, or made its own.
SecondIsSecond ==
    /\ proofAt \in {"compact", "recover"} => Repo = seen
    /\ proofAt = "grade" \/ IsGraded =>
         \E h \in Nat : /\ Journaled(seen.journal, Repo.journal, SecondAuthor, h)
                         /\ Checkpointed(seen.checkpoint, Repo.checkpoint, SecondAuthor, h)

\* Only a session that was to compact and did not can remember session 1 whole.
Remembers ==
    /\ proofAt \in {"first", "judge", "compact"} => ~compacted
    /\ proofAt \in {"first", "judge"} => memory = "none"
    /\ proofAt = "compact" => Path = "compact"
    /\ proofAt \in {"recover", "grade"} => (memory = "full" => Path = "compact" /\ ~compacted)

PassIsRecovered == GradedAs("pass") => Recovered(Repo) /\ memory # "full"

ProofInv ==
    /\ ProofTypes /\ RecordsAreOfTheirs /\ BaseIsNew /\ FirstIsFirst /\ SeenIsOfFirst
    /\ SecondIsSecond /\ Remembers /\ PassIsRecovered

\* After a verdict that is no grade, and between repetitions, only the files matter.
LEMMA NothingIsGraded ==
    ASSUME ProofTypes', RecordsAreOfTheirs',
           proofAt' \in {"setup", "written"} \/ (proofAt' = "next" /\ ~IsGraded')
    PROVE  ProofInv'
  <1>1. proofAt' \notin {"first", "judge", "compact", "recover", "grade"} /\ ~IsGraded'
    BY DEF IsGraded, GradedAs
  <1>2. ~GradedAs("pass")'
    BY <1>1 DEF IsGraded
  <1> QED BY <1>1, <1>2 DEF ProofInv, BaseIsNew, FirstIsFirst, SeenIsOfFirst, SecondIsSecond,
          Remembers, PassIsRecovered

LEMMA Scheduled ==
    ASSUME ProofTypes
    PROVE  /\ DOMAIN schedule = 1..Len(schedule) /\ Len(schedule) \in Nat
           /\ repetition \in 1..Len(schedule)
           /\ Dir \in Dirs
  <1>1. schedule \in Seq(ToSet(schedule))
    BY ProofConstants DEF ProofTypes
  <1>2. DOMAIN schedule = 1..Len(schedule) /\ Len(schedule) \in Nat
    BY <1>1
  <1>3. Dir \in Dirs
    BY DEF ProofTypes, Dir, Dirs, ToSet
  <1> QED BY <1>2, <1>3 DEF ProofTypes

\* The repository changes only where the repetition is.
LEMMA ReposChange ==
    ASSUME ProofTypes, NEW r, repos' = [repos EXCEPT ![Dir] = r]
    PROVE  /\ repos'[Dir] = r
           /\ \A d \in Dirs : d # Dir => repos'[d] = repos[d]
           /\ repos' = [d \in Dirs |-> repos'[d]]
  BY Scheduled DEF ProofTypes

\* A verdict is the last.
LEMMA Concluded ==
    ASSUME ProofTypes, NEW v \in ProofVerdicts, Conclude(v),
           proofAt \notin {"next", "written"}, repetition' = repetition
    PROVE  /\ proofAt' = "next" /\ verdicts' \in Seq(ProofVerdicts)
           /\ Len(verdicts') = repetition' /\ Last(verdicts') = v
  <1>1. repetition \in Nat
    BY Scheduled
  <1>2. verdicts \in Seq(ProofVerdicts) /\ Len(verdicts) = repetition - 1
    BY DEF ProofTypes
  <1>3. verdicts' = Append(verdicts, v)
    BY DEF Conclude
  <1>4. /\ verdicts' \in Seq(ProofVerdicts) /\ Len(verdicts') = Len(verdicts) + 1
        /\ verdicts'[Len(verdicts) + 1] = v
    BY <1>2, <1>3
  <1> QED BY <1>1, <1>2, <1>4 DEF Conclude, Last

LEMMA InitProofInv == ASSUME ProofInit PROVE ProofInv
  <1>1. /\ schedule \in Schedules /\ canCompact \in BOOLEAN /\ repetition = 1
        /\ proofAt = "setup" /\ repos = [d \in Dirs |-> Empty] /\ commits = 0 /\ base = 0
        /\ memory = "none" /\ compacted = FALSE /\ deviations = 0 /\ verdicts = << >>
    BY DEF ProofInit
  <1>2. schedule \in Seq(ToSet(schedule)) /\ schedule # << >>
    BY <1>1, ProofConstants
  <1>3. 1 \in DOMAIN schedule
    BY <1>2
  <1>4. Repository(Empty) /\ Empty.head = 0 /\ Empty.journal = << >> /\ Empty.checkpoint = << >>
    BY DEF Repository, Empty
  <1>5. \A d \in Dirs : repos[d] = Empty
    BY <1>1
  <1>6. verdicts \in Seq(ProofVerdicts) /\ Len(verdicts) = 0
    BY <1>1
  <1>7. ProofTypes
    <2>1. 0 \in 0..MaxDeviations
      BY ProofConstants
    <2>2. \A d \in Dirs : Repository(repos[d]) /\ repos[d].head <= commits
      BY <1>1, <1>4, <1>5
    <2>3. repos = [d \in Dirs |-> repos[d]]
      BY <1>1, <1>5
    <2>4. /\ Len(verdicts) = IF proofAt \in {"next", "written"} THEN repetition ELSE repetition - 1
          /\ proofAt \in ProofStages
      BY <1>1, <1>6 DEF ProofStages
    <2>5. /\ commits \in Nat /\ base \in Nat /\ deviations \in 0..MaxDeviations
          /\ memory \in {"none", "summary", "full"} /\ compacted \in BOOLEAN
          /\ schedule \in Schedules /\ repetition \in DOMAIN schedule /\ canCompact \in BOOLEAN
      BY <1>1, <1>3, <2>1
    <2> QED BY <1>6, <2>2, <2>3, <2>4, <2>5 DEF ProofTypes
  <1>8. RecordsAreOfTheirs
    <2>1. Written(Empty) = {}
      BY <1>4 DEF Written, ToSet
    <2> QED BY <1>5, <2>1 DEF RecordsAreOfTheirs
  <1>9. ~IsGraded /\ ~GradedAs("pass")
    BY <1>1 DEF IsGraded, GradedAs
  <1> QED BY <1>1, <1>7, <1>8, <1>9 DEF ProofInv, BaseIsNew, FirstIsFirst, SeenIsOfFirst,
          SecondIsSecond, Remembers, PassIsRecovered

LEMMA DeviationsAreFinite == IsFiniteSet(Deviations)
  <1> DEFINE f == <<"idle", "overrun", "commits", "extraFile", "weakenTests", "unrecorded",
                    "rewriteJournal", "invalidJournal", "staleCheckpoint", "changeCharter",
                    "missingHandoff", "excludes", "fails">>
  <1>1. f \in [1..13 -> Deviations]
    BY DEF Deviations
  <1>2. ASSUME NEW x \in Deviations PROVE \E i \in 1..13 : f[i] = x
    <2> DEFINE Shows(n) == f[n] = x
    <2>1. \/ Shows(1) \/ Shows(2) \/ Shows(3) \/ Shows(4) \/ Shows(5) \/ Shows(6) \/ Shows(7)
          \/ Shows(8) \/ Shows(9) \/ Shows(10) \/ Shows(11) \/ Shows(12) \/ Shows(13)
      BY DEF Deviations
    <2> QED BY <2>1
  <1>3. f \in Surjection(1..13, Deviations)
    BY <1>1, <1>2 DEF Surjection
  <1>4. IsFiniteSet(1..13)
    <2> HIDE DEF f
    <2>1. 1 \in Int /\ 13 \in Int
      OBVIOUS
    <2> QED BY ONLY <2>1, FS_Interval
  <1> QED BY <1>3, <1>4, FS_Surjection

\* What a session makes of the records, and of HEAD.
LEMMA WorkedIs ==
    ASSUME NEW r, Repository(r), NEW me \in Author, NEW work \in SUBSET Criteria, NEW dev
    PROVE  LET w == Worked(r, me, work, dev) IN
             /\ Repository(w) /\ w.head = r.head
             /\ Journaled(r.journal, w.journal, me, r.head)
             /\ Checkpointed(r.checkpoint, w.checkpoint, me, r.head)
  <1> DEFINE w == Worked(r, me, work, dev)
             l == Line(me, r.head, dev)
             c == [by |-> me, head |-> r.head]
             done == IF "idle" \in dev THEN r.done
                     ELSE IF "weakenTests" \in dev THEN work \ {Hard(me)}
                     ELSE IF "overrun" \in dev THEN Criteria ELSE work
             tests == IF "weakenTests" \in dev THEN r.tests \ {Hard(me)} ELSE r.tests
             charter == IF "changeCharter" \in dev THEN Criteria \ {Second}
                        ELSE IF me.session = 1 THEN Criteria ELSE r.charter
             journal == IF "unrecorded" \in dev THEN r.journal
                        ELSE IF "rewriteJournal" \in dev THEN <<l>>
                        ELSE Append(r.journal, l)
             checkpoint == IF "staleCheckpoint" \in dev THEN r.checkpoint ELSE <<c>>
             extra == r.extra \/ "extraFile" \in dev
             ignored == r.ignored \/ "excludes" \in dev
             handoff == "missingHandoff" \notin dev
  <1>1. r = [head |-> r.head, tracked |-> r.tracked, done |-> r.done, tests |-> r.tests,
             extra |-> r.extra, ignored |-> r.ignored, charter |-> r.charter,
             journal |-> r.journal, checkpoint |-> r.checkpoint, handoff |-> r.handoff]
    BY DEF Repository
  <1>2. w = [r EXCEPT !.done = done, !.tests = tests, !.extra = extra, !.ignored = ignored,
                      !.charter = charter, !.journal = journal, !.checkpoint = checkpoint,
                      !.handoff = handoff]
    BY DEF Worked
  <1>3. done \subseteq Criteria /\ tests \subseteq Criteria /\ charter \subseteq Criteria
    BY DEF Repository
  <1>4. l \in JournalLine /\ l.by = me /\ l.head = r.head
    BY DEF Line, JournalLine, Repository
  <1>5. c \in CheckpointOf /\ c.by = me /\ c.head = r.head
    BY DEF CheckpointOf, Repository
  <1>6. r.journal \in Seq(JournalLine) /\ r.checkpoint \in Seq(CheckpointOf) /\ r.head \in Nat
    BY DEF Repository
  <1> HIDE DEF w, l, c, extra, ignored, handoff, done, tests, charter
  <1>7. journal = r.journal \/ journal \in {<<l>>, Append(r.journal, l)}
    OBVIOUS
  <1>8. checkpoint = r.checkpoint \/ checkpoint = <<c>>
    OBVIOUS
  <1> HIDE DEF journal, checkpoint
  <1>9. journal \in Seq(JournalLine) /\ checkpoint \in Seq(CheckpointOf)
    <2>1. <<l>> \in Seq(JournalLine) /\ Append(r.journal, l) \in Seq(JournalLine)
      BY <1>4, <1>6
    <2>2. <<c>> \in Seq(CheckpointOf)
      BY <1>5
    <2> QED BY ONLY <2>1, <2>2, <1>6, <1>7, <1>8
  <1>10. w = [head |-> r.head, tracked |-> r.tracked, done |-> done, tests |-> tests,
              extra |-> extra, ignored |-> ignored, charter |-> charter,
              journal |-> journal, checkpoint |-> checkpoint, handoff |-> handoff]
    BY <1>1, <1>2
  <1>11. Repository(w) /\ w.head = r.head /\ w.journal = journal /\ w.checkpoint = checkpoint
    BY <1>3, <1>6, <1>9, <1>10 DEF Repository
  <1>12. Journaled(r.journal, w.journal, me, r.head)
    BY <1>4, <1>7, <1>11 DEF Journaled
  <1>13. Checkpointed(r.checkpoint, w.checkpoint, me, r.head)
    BY <1>5, <1>8, <1>11 DEF Checkpointed
  <1> QED BY <1>11, <1>12, <1>13 DEF w

\* git commit moves HEAD, and leaves the files.
LEMMA CommittedIs ==
    ASSUME NEW r, Repository(r), NEW dev, commits \in Nat
    PROVE  LET k == Committed(r, dev) IN
             /\ Repository(k) /\ k.journal = r.journal /\ k.checkpoint = r.checkpoint
             /\ k.head = r.head \/ ("commits" \in dev /\ k.head = commits + 1)
  <1> DEFINE tree == [r.tracked EXCEPT
                        !.done = r.done, !.tests = r.tests,
                        !.records = IF @ = NoRecords THEN @ ELSE Records(r)]
             k == Committed(r, dev)
  <1>1. r = [head |-> r.head, tracked |-> r.tracked, done |-> r.done, tests |-> r.tests,
             extra |-> r.extra, ignored |-> r.ignored, charter |-> r.charter,
             journal |-> r.journal, checkpoint |-> r.checkpoint, handoff |-> r.handoff]
    BY DEF Repository
  <1>2. k = r \/ ("commits" \in dev /\ k = [r EXCEPT !.head = commits + 1, !.tracked = tree])
    BY DEF Committed
  <1> HIDE DEF tree, k
  <1>3. CASE k = r
    BY <1>3 DEF k
  <1>4. CASE "commits" \in dev /\ k = [r EXCEPT !.head = commits + 1, !.tracked = tree]
    <2>1. k = [head |-> commits + 1, tracked |-> tree, done |-> r.done, tests |-> r.tests,
               extra |-> r.extra, ignored |-> r.ignored, charter |-> r.charter,
               journal |-> r.journal, checkpoint |-> r.checkpoint, handoff |-> r.handoff]
      BY <1>1, <1>4
    <2>2. Repository(k) /\ k.head = commits + 1 /\ k.journal = r.journal
          /\ k.checkpoint = r.checkpoint
      BY <2>1 DEF Repository
    <2> QED BY <1>4, <2>2 DEF k
  <1> QED BY <1>2, <1>3, <1>4

LEMMA AppendedSet ==
    ASSUME NEW S, NEW s \in Seq(S), NEW x \in S
    PROVE  ToSet(Append(s, x)) = ToSet(s) \cup {x} /\ ToSet(<<x>>) = {x}
  <1>1. /\ Append(s, x) \in Seq(S) /\ Len(Append(s, x)) = Len(s) + 1
        /\ Append(s, x)[Len(s) + 1] = x /\ \A i \in 1..Len(s) : Append(s, x)[i] = s[i]
    OBVIOUS
  <1>2. DOMAIN Append(s, x) = 1..Len(s) + 1 /\ DOMAIN s = 1..Len(s) /\ Len(s) \in Nat
    BY <1>1
  <1>3. ToSet(Append(s, x)) = ToSet(s) \cup {x}
    BY <1>1, <1>2 DEF ToSet
  <1>4. ToSet(<<x>>) = {x}
    BY DEF ToSet
  <1> QED BY <1>3, <1>4

LEMMA EntriesAreTyped ==
    ASSUME NEW r, Repository(r), NEW x \in Written(r)
    PROVE  x.by \in Author /\ x.head \in Nat
  <1>1. r.journal \in Seq(JournalLine) /\ r.checkpoint \in Seq(CheckpointOf)
    BY DEF Repository
  <1>2. \A y \in ToSet(r.journal) : y \in JournalLine
    BY <1>1 DEF ToSet
  <1>3. \A y \in ToSet(r.checkpoint) : y \in CheckpointOf
    BY <1>1 DEF ToSet
  <1>4. x \in JournalLine \/ x \in CheckpointOf
    BY <1>2, <1>3 DEF Written
  <1> QED BY <1>4 DEF JournalLine, CheckpointOf

\* A session, whoever's: only the repetition's own records are new, and they name its HEAD.
LEMMA SessionKeeps ==
    ASSUME ProofTypes, RecordsAreOfTheirs, NEW session \in {1, 2}, NEW work \in SUBSET Criteria,
           NEW next \in {"judge", "grade"}, proofAt \in {"first", "recover"},
           Session(session, work, next), memory' = memory
    PROVE  LET me == [rep |-> repetition, session |-> session] IN
             /\ ProofTypes' /\ RecordsAreOfTheirs'
             /\ Dir' = Dir /\ base' = base /\ compacted' = compacted
             /\ repetition' = repetition /\ schedule' = schedule
             /\ (proofAt' = "next" /\ ~IsGraded') \/ proofAt' = next
             /\ \A x \in Written(Repo') : x \in Written(Repo) \/ x.by = me
             /\ Journaled(Repo.journal, Repo'.journal, me, Repo.head)
             /\ Checkpointed(Repo.checkpoint, Repo'.checkpoint, me, Repo.head)
             /\ Repo.head \in Nat
  <1> DEFINE mine == [rep |-> repetition, session |-> session]
  <1>1. PICK dev \in SUBSET Deviations :
          /\ deviations + Cardinality(dev) <= MaxDeviations
          /\ deviations' = deviations + Cardinality(dev)
          /\ repos' = [repos EXCEPT ![Dir] = Committed(Worked(@, mine, work, dev), dev)]
          /\ commits' = IF "commits" \in dev THEN commits + 1 ELSE commits
          /\ IF "fails" \in dev THEN Conclude("error") ELSE proofAt' = next /\ UNCHANGED verdicts
          /\ UNCHANGED <<schedule, canCompact, repetition, base, compacted>>
    BY DEF Session
  <1> DEFINE worked == Worked(Repo, mine, work, dev)
             left == Committed(worked, dev)
  <1>2. Dir \in Dirs /\ repetition \in 1..repetition /\ schedule[repetition] = Dir
    BY Scheduled DEF Dir
  <1>3. Repository(Repo) /\ Repo.head <= commits /\ commits \in Nat /\ mine \in Author
    BY <1>2, Scheduled DEF ProofTypes, Repo, Author
  <1>4. /\ Repository(worked) /\ worked.head = Repo.head
        /\ Journaled(Repo.journal, worked.journal, mine, Repo.head)
        /\ Checkpointed(Repo.checkpoint, worked.checkpoint, mine, Repo.head)
    <2>1. Repository(Repo) /\ mine \in Author /\ work \in SUBSET Criteria
      BY <1>3
    <2> HIDE DEF mine, left
    <2> QED BY <2>1, WorkedIs
  <1>5. /\ Repository(left) /\ left.journal = worked.journal /\ left.checkpoint = worked.checkpoint
        /\ left.head = worked.head \/ ("commits" \in dev /\ left.head = commits + 1)
    BY <1>3, <1>4, CommittedIs
  <1>6. repos' = [repos EXCEPT ![Dir] = left]
    BY <1>1 DEF Repo
  <1> HIDE DEF left, worked
  <1>7. /\ repos'[Dir] = left /\ \A d \in Dirs : d # Dir => repos'[d] = repos[d]
        /\ repos' = [d \in Dirs |-> repos'[d]]
    BY <1>6, ReposChange
  <1>8. Dir' = Dir /\ Repo' = left
    BY <1>1, <1>7 DEF Dir, Repo
  <1>9. commits' \in Nat /\ commits <= commits' /\ left.head <= commits'
    BY <1>1, <1>3, <1>4, <1>5 DEF Repository
  <1>10. \A x \in Written(left) : x \in Written(Repo) \/ (x.by = mine /\ x.head = Repo.head)
    <2>0. Repo.journal \in Seq(JournalLine) /\ Repo.checkpoint \in Seq(CheckpointOf)
      BY <1>3 DEF Repository
    <2>1. \A x \in ToSet(left.journal) :
            x \in ToSet(Repo.journal) \/ (x.by = mine /\ x.head = Repo.head)
      <3>1. CASE left.journal = Repo.journal
        BY <3>1
      <3>2. CASE left.journal # Repo.journal
        <4>1. PICK l \in JournalLine : /\ l.by = mine /\ l.head = Repo.head
                                      /\ left.journal \in {<<l>>, Append(Repo.journal, l)}
          BY <1>4, <1>5, <3>2 DEF Journaled
        <4>2. ToSet(Append(Repo.journal, l)) = ToSet(Repo.journal) \cup {l} /\ ToSet(<<l>>) = {l}
          BY <2>0, AppendedSet
        <4> QED BY <4>1, <4>2
      <3> QED BY <3>1, <3>2
    <2>2. \A x \in ToSet(left.checkpoint) :
            x \in ToSet(Repo.checkpoint) \/ (x.by = mine /\ x.head = Repo.head)
      <3>1. CASE left.checkpoint = Repo.checkpoint
        BY <3>1
      <3>2. CASE left.checkpoint # Repo.checkpoint
        <4>1. PICK c \in CheckpointOf : /\ c.by = mine /\ c.head = Repo.head
                                       /\ left.checkpoint = <<c>>
          BY <1>4, <1>5, <3>2 DEF Checkpointed
        <4>2. ToSet(<<c>>) = {c}
          BY <2>0, AppendedSet
        <4> QED BY <4>1, <4>2
      <3> QED BY <3>1, <3>2
    <2> QED BY <2>1, <2>2 DEF Written
  <1>11. /\ verdicts' \in Seq(ProofVerdicts) /\ proofAt' \in ProofStages
         /\ Len(verdicts') = IF proofAt' \in {"next", "written"} THEN repetition
                             ELSE repetition - 1
         /\ (proofAt' = "next" /\ ~IsGraded') \/ proofAt' = next
    <2>1. CASE "fails" \in dev
      <3>1. Conclude("error") /\ "error" \in ProofVerdicts /\ repetition' = repetition
        BY <1>1, <2>1 DEF ProofVerdicts
      <3>2. /\ proofAt' = "next" /\ verdicts' \in Seq(ProofVerdicts)
            /\ Len(verdicts') = repetition' /\ Last(verdicts') = "error"
        BY <3>1, Concluded
      <3> QED BY <3>1, <3>2 DEF IsGraded, GradedAs, ProofStages
    <2>2. CASE "fails" \notin dev
      BY <1>1, <2>2 DEF ProofTypes, ProofStages
    <2> QED BY <2>1, <2>2
  <1>12. deviations' \in 0..MaxDeviations
    <2>1. Cardinality(dev) \in Nat
      BY DeviationsAreFinite, FS_Subset, FS_CardinalityType
    <2> QED BY <1>1, <2>1, ProofConstants DEF ProofTypes
  <1>13. ProofTypes'
    <2>1. \A d \in Dirs : Repository(repos'[d]) /\ repos'[d].head <= commits'
      <3> SUFFICES ASSUME NEW d \in Dirs
                   PROVE  Repository(repos'[d]) /\ repos'[d].head <= commits'
        OBVIOUS
      <3>1. CASE d = Dir
        BY <3>1, <1>5, <1>7, <1>9
      <3>2. CASE d # Dir
        <4>1. repos'[d] = repos[d] /\ Repository(repos[d]) /\ repos[d].head <= commits
          BY <3>2, <1>7 DEF ProofTypes
        <4>2. repos[d].head \in Nat
          BY <4>1 DEF Repository
        <4> QED BY <4>1, <4>2, <1>3, <1>9
      <3> QED BY <3>1, <3>2
    <2>2. /\ schedule' = schedule /\ repetition' = repetition /\ canCompact' = canCompact
          /\ base' = base /\ compacted' = compacted /\ memory' = memory
      BY <1>1
    <2> QED BY <1>7, <1>9, <1>11, <1>12, <2>1, <2>2 DEF ProofTypes, Repository
  <1>14. RecordsAreOfTheirs'
    <2>1. \A d \in Dirs : \A x \in Written(repos'[d]) :
            x.by.rep \in 1..repetition /\ schedule[x.by.rep] = d /\ x.head <= commits'
      <3> SUFFICES ASSUME NEW d \in Dirs, NEW x \in Written(repos'[d])
                   PROVE  /\ x.by.rep \in 1..repetition /\ schedule[x.by.rep] = d
                          /\ x.head <= commits'
        OBVIOUS
      <3>1. CASE x \in Written(repos[d])
        <4>1. x.by.rep \in 1..repetition /\ schedule[x.by.rep] = d /\ x.head <= commits
          BY <3>1 DEF RecordsAreOfTheirs
        <4>2. x.head \in Nat
          BY <3>1, EntriesAreTyped DEF ProofTypes
        <4> QED BY <4>1, <4>2, <1>3, <1>9
      <3>2. CASE d = Dir /\ x.by = mine /\ x.head = Repo.head
        BY <3>2, <1>2, <1>3, <1>9 DEF Repository
      <3> QED BY <3>1, <3>2, <1>7, <1>10 DEF Repo
    <2>2. proofAt' # "setup" /\ repetition' = repetition /\ schedule' = schedule
      BY <1>1, <1>11
    <2> QED BY <2>1, <2>2 DEF RecordsAreOfTheirs
  <1> QED BY <1>1, <1>3, <1>4, <1>5, <1>8, <1>10, <1>11, <1>13, <1>14 DEF Repository

\* A verdict that is no grade, with the files as they were.
LEMMA VerdictKeeps ==
    ASSUME ProofTypes, RecordsAreOfTheirs, proofAt \notin {"next", "written"},
           NEW v \in {"indeterminate", "error", "skipped"}, Conclude(v),
           memory' \in {"none", "summary", "full"}, compacted' \in BOOLEAN,
           deviations' \in 0..MaxDeviations,
           UNCHANGED <<schedule, canCompact, repetition, repos, commits, base>>
    PROVE  ProofInv'
  <1>1. /\ proofAt' = "next" /\ verdicts' \in Seq(ProofVerdicts)
        /\ Len(verdicts') = repetition' /\ Last(verdicts') = v
    BY Concluded DEF ProofVerdicts
  <1>2. ProofTypes'
    BY <1>1 DEF ProofTypes, ProofStages, Repository
  <1>3. RecordsAreOfTheirs'
    BY <1>1 DEF RecordsAreOfTheirs, Written
  <1>4. ~IsGraded'
    BY <1>1 DEF IsGraded, GradedAs
  <1> QED BY <1>1, <1>2, <1>3, <1>4, NothingIsGraded

LEMMA RejectRepetitionKeeps == ASSUME ProofInv, RejectRepetition PROVE ProofInv'
  <1>1. PICK v \in {"error", "skipped"} : Conclude(v)
    BY DEF RejectRepetition
  <1>2. /\ proofAt = "setup" /\ UNCHANGED <<schedule, canCompact, repetition, repos, commits, base>>
        /\ memory' = memory /\ compacted' = compacted /\ deviations' = deviations
    BY DEF RejectRepetition
  <1>3. ProofTypes /\ RecordsAreOfTheirs
    BY DEF ProofInv
  <1>4. /\ memory' \in {"none", "summary", "full"} /\ compacted' \in BOOLEAN
        /\ deviations' \in 0..MaxDeviations
    BY <1>2, <1>3 DEF ProofTypes
  <1> QED BY <1>1, <1>2, <1>3, <1>4, VerdictKeeps

LEMMA SetupKeeps == ASSUME ProofInv, Setup PROVE ProofInv'
  <1> DEFINE r == WithFixture(Repo)
             set == [r EXCEPT !.head = commits', !.tracked = StagedTree(r)]
  <1>0. ProofTypes /\ RecordsAreOfTheirs
    BY DEF ProofInv
  <1>1. /\ proofAt = "setup" /\ memory' = "none" /\ compacted' = FALSE
        /\ UNCHANGED <<schedule, canCompact, repetition, seen, deviations>>
        /\ \/ repos' = [repos EXCEPT ![Dir] = r] /\ Conclude("error") /\ UNCHANGED <<commits, base>>
           \/ /\ commits' = commits + 1 /\ base' = commits'
              /\ repos' = [repos EXCEPT ![Dir] = set]
              /\ proofAt' = "first" /\ UNCHANGED verdicts
    BY DEF Setup
  <1>2. Dir \in Dirs /\ repetition \in 1..repetition /\ Dir' = Dir
    BY <1>0, <1>1, Scheduled DEF Dir
  <1>3. Repository(Repo) /\ Repo.head <= commits /\ commits \in Nat
    BY <1>0, <1>2 DEF ProofTypes, Repo
  <1>4. Repository(r) /\ r.head = Repo.head /\ Written(r) = Written(Repo)
    <2> DEFINE now == Repo
    <2>1. /\ now = [head |-> now.head, tracked |-> now.tracked, done |-> now.done,
                    tests |-> now.tests, extra |-> now.extra, ignored |-> now.ignored,
                    charter |-> now.charter, journal |-> now.journal,
                    checkpoint |-> now.checkpoint, handoff |-> now.handoff]
          /\ Repository(now) /\ r = [now EXCEPT !.done = {}, !.tests = Criteria]
      BY <1>3 DEF Repository, WithFixture
    <2> HIDE DEF now, r
    <2>2. r = [head |-> now.head, tracked |-> now.tracked, done |-> {}, tests |-> Criteria,
               extra |-> now.extra, ignored |-> now.ignored, charter |-> now.charter,
               journal |-> now.journal, checkpoint |-> now.checkpoint, handoff |-> now.handoff]
      BY ONLY <2>1
    <2>3. Repository(r) /\ r.head = now.head /\ Written(r) = Written(now)
      BY <2>1, <2>2 DEF Repository, Written
    <2> QED BY <2>3 DEF now
  <1>5. ASSUME commits' = commits + 1
        PROVE  Repository(set) /\ set.head = commits' /\ Written(set) = Written(Repo)
    <2> HIDE DEF r
    <2>1. set = [head |-> commits', tracked |-> StagedTree(r), done |-> r.done, tests |-> r.tests,
                 extra |-> r.extra, ignored |-> r.ignored, charter |-> r.charter,
                 journal |-> r.journal, checkpoint |-> r.checkpoint, handoff |-> r.handoff]
      <3>1. r = [head |-> r.head, tracked |-> r.tracked, done |-> r.done, tests |-> r.tests,
                 extra |-> r.extra, ignored |-> r.ignored, charter |-> r.charter,
                 journal |-> r.journal, checkpoint |-> r.checkpoint, handoff |-> r.handoff]
        BY <1>4 DEF Repository
      <3> DEFINE h == commits'
                 tree == StagedTree(r)
      <3>2. set = [r EXCEPT !.head = h, !.tracked = tree]
        OBVIOUS
      <3> HIDE DEF set, h, tree
      <3>3. set = [head |-> h, tracked |-> tree, done |-> r.done, tests |-> r.tests,
                   extra |-> r.extra, ignored |-> r.ignored, charter |-> r.charter,
                   journal |-> r.journal, checkpoint |-> r.checkpoint, handoff |-> r.handoff]
        BY ONLY <3>1, <3>2
      <3> QED BY <3>3 DEF h, tree
    <2>2. commits' \in Nat
      BY <1>3, <1>5
    <2> HIDE DEF set
    <2> QED BY <1>4, <2>1, <2>2 DEF Repository, Written
  <1> HIDE DEF r, set
  <1>6. CASE /\ repos' = [repos EXCEPT ![Dir] = r] /\ Conclude("error")
             /\ UNCHANGED <<commits, base>>
    <2>1. /\ repos'[Dir] = r /\ \A d \in Dirs : d # Dir => repos'[d] = repos[d]
          /\ repos' = [d \in Dirs |-> repos'[d]]
      BY <1>0, <1>6, ReposChange
    <2>2. /\ proofAt' = "next" /\ verdicts' \in Seq(ProofVerdicts)
          /\ Len(verdicts') = repetition' /\ Last(verdicts') = "error"
      BY <1>0, <1>1, <1>6, Concluded DEF ProofVerdicts
    <2>3. \A d \in Dirs : Repository(repos'[d]) /\ repos'[d].head <= commits
      BY <1>0, <1>3, <1>4, <2>1 DEF ProofTypes
    <2>4. \A d \in Dirs : Written(repos'[d]) = Written(repos[d])
      BY <1>4, <2>1 DEF Written, Repo
    <2>5. ProofTypes'
      BY <1>0, <1>1, <1>6, <2>1, <2>2, <2>3 DEF ProofTypes, ProofStages, Repository
    <2>6. RecordsAreOfTheirs'
      BY <1>0, <1>1, <1>6, <2>2, <2>4 DEF RecordsAreOfTheirs
    <2>7. ~IsGraded'
      BY <2>2 DEF IsGraded, GradedAs
    <2> QED BY <2>2, <2>5, <2>6, <2>7, NothingIsGraded
  <1>7. CASE /\ commits' = commits + 1 /\ base' = commits'
             /\ repos' = [repos EXCEPT ![Dir] = set]
             /\ proofAt' = "first" /\ UNCHANGED verdicts
    <2>1. /\ repos'[Dir] = set /\ \A d \in Dirs : d # Dir => repos'[d] = repos[d]
          /\ repos' = [d \in Dirs |-> repos'[d]]
      BY <1>0, <1>7, ReposChange
    <2>2. commits' \in Nat /\ commits <= commits' /\ commits < base'
      BY <1>3, <1>7
    <2>3. \A d \in Dirs : Repository(repos'[d]) /\ repos'[d].head <= commits'
      <3> SUFFICES ASSUME NEW d \in Dirs
                   PROVE  Repository(repos'[d]) /\ repos'[d].head <= commits'
        OBVIOUS
      <3>1. CASE d = Dir
        BY <3>1, <1>5, <1>7, <2>1, <2>2
      <3>2. CASE d # Dir
        <4>1. repos'[d] = repos[d] /\ Repository(repos[d]) /\ repos[d].head <= commits
          BY <3>2, <1>0, <2>1 DEF ProofTypes
        <4>2. repos[d].head \in Nat
          BY <4>1 DEF Repository
        <4> QED BY <4>1, <4>2, <1>3, <2>2
      <3> QED BY <3>1, <3>2
    <2>4. \A d \in Dirs : Written(repos'[d]) = Written(repos[d])
      <3>1. Written(repos'[Dir]) = Written(repos[Dir])
        BY <1>5, <1>7, <2>1 DEF Repo
      <3> QED BY <2>1, <3>1
    <2>5. ProofTypes'
      <3>1. proofAt' \in ProofStages /\ proofAt' \notin {"next", "written"}
        BY <1>7 DEF ProofStages
      <3>2. verdicts' \in Seq(ProofVerdicts) /\ Len(verdicts') = repetition' - 1
        BY <1>0, <1>1, <1>7 DEF ProofTypes
      <3>3. memory' \in {"none", "summary", "full"} /\ compacted' \in BOOLEAN
        BY <1>1
      <3>4. commits' \in Nat /\ base' \in Nat
        BY <2>2, <1>7
      <3> QED BY <1>0, <1>1, <2>1, <2>3, <3>1, <3>2, <3>3, <3>4 DEF ProofTypes, Repository
    <2>6. \A d \in Dirs : \A x \in Written(repos[d]) :
            /\ x.by.rep \in 1..repetition /\ schedule[x.by.rep] = d
            /\ x.head <= commits' /\ x.by.rep < repetition /\ x.head < base'
      <3> SUFFICES ASSUME NEW d \in Dirs, NEW x \in Written(repos[d])
                   PROVE  /\ x.by.rep \in 1..repetition /\ schedule[x.by.rep] = d
                          /\ x.head <= commits' /\ x.by.rep < repetition /\ x.head < base'
        OBVIOUS
      <3>1. /\ x.by.rep \in 1..repetition /\ schedule[x.by.rep] = d
            /\ x.head <= commits /\ x.by.rep < repetition
        BY <1>0, <1>1 DEF RecordsAreOfTheirs
      <3>2. x.head \in Nat
        BY <1>0, EntriesAreTyped DEF ProofTypes
      <3> QED BY <3>1, <3>2, <1>3, <1>7, <2>2
    <2>7. RecordsAreOfTheirs'
      BY <1>1, <1>7, <2>4, <2>6 DEF RecordsAreOfTheirs
    <2>8. Written(Repo') = Written(repos[Dir])
      BY <1>2, <2>4 DEF Repo
    <2>9. BaseIsNew'
      BY <1>2, <2>6, <2>8 DEF BaseIsNew
    <2>10. FirstIsFirst'
      BY <1>1, <1>2, <1>7, <2>6, <2>8 DEF FirstIsFirst
    <2>11. ~IsGraded' /\ ~GradedAs("pass")'
      BY <1>7 DEF IsGraded, GradedAs
    <2> QED BY <1>1, <1>7, <2>5, <2>7, <2>9, <2>10, <2>11
            DEF ProofInv, SeenIsOfFirst, SecondIsSecond, Remembers, PassIsRecovered
  <1> QED BY <1>1, <1>6, <1>7

LEMMA FirstSessionKeeps == ASSUME ProofInv, FirstSession PROVE ProofInv'
  <1> DEFINE mine == [rep |-> repetition, session |-> 1]
  <1>0. ProofTypes /\ RecordsAreOfTheirs /\ proofAt = "first" /\ ~compacted /\ memory = "none"
    BY DEF ProofInv, FirstSession, Remembers
  <1>1. Session(1, {First}, "judge") /\ memory' = memory /\ seen' = seen
    BY DEF FirstSession
  <1>2. {First} \in SUBSET Criteria
    BY ProofConstants
  <1>3. /\ ProofTypes' /\ RecordsAreOfTheirs'
        /\ Dir' = Dir /\ base' = base /\ compacted' = compacted
        /\ repetition' = repetition /\ schedule' = schedule
        /\ (proofAt' = "next" /\ ~IsGraded') \/ proofAt' = "judge"
        /\ \A x \in Written(Repo') : x \in Written(Repo) \/ x.by = mine
    BY <1>0, <1>1, <1>2, SessionKeeps
  <1>4. CASE proofAt' = "next" /\ ~IsGraded'
    BY <1>3, <1>4, NothingIsGraded
  <1>5. CASE proofAt' = "judge"
    <2>1. ~IsGraded' /\ ~GradedAs("pass")'
      BY <1>5 DEF IsGraded, GradedAs
    <2>2. \A x \in Written(Repo) : x.by.rep < repetition /\ x.by.rep \in Nat
      <3>1. \A x \in Written(Repo) : x.by.rep < repetition
        BY <1>0 DEF ProofInv, FirstIsFirst
      <3>2. Repository(Repo)
        BY <1>0, Scheduled DEF ProofTypes, Repo
      <3> QED BY <3>1, <3>2, EntriesAreTyped DEF Author
    <2>3. mine.rep = repetition /\ mine.session = 1 /\ repetition \in Nat
      BY <1>0, Scheduled
    <2>4. FirstIsFirst'
      BY <1>3, <1>5, <2>2, <2>3 DEF FirstIsFirst
    <2>5. \A x \in Written(Repo) : x.by.rep # repetition => x.head < base
      BY <1>0 DEF ProofInv, BaseIsNew
    <2>6. BaseIsNew'
      BY <1>3, <2>3, <2>5 DEF BaseIsNew
    <2>7. Remembers'
      BY <1>0, <1>1, <1>3, <1>5 DEF Remembers
    <2> QED BY <1>3, <1>5, <2>1, <2>4, <2>6, <2>7
            DEF ProofInv, SeenIsOfFirst, SecondIsSecond, PassIsRecovered
  <1> QED BY <1>3, <1>4, <1>5

LEMMA JudgeFirstKeeps == ASSUME ProofInv, JudgeFirst PROVE ProofInv'
  <1>0. ProofTypes /\ RecordsAreOfTheirs /\ proofAt = "judge" /\ ~compacted /\ memory = "none"
    BY DEF ProofInv, JudgeFirst, Remembers
  <1>1. /\ UNCHANGED <<schedule, canCompact, repetition, repos, commits, base>>
        /\ compacted' = compacted /\ deviations' = deviations /\ seen' = Repo
    BY DEF JudgeFirst
  <1>2. Dir' = Dir /\ Repo' = Repo /\ Path' = Path /\ Dir \in Dirs
    BY <1>0, <1>1, Scheduled DEF Dir, Repo, Path
  <1>3. CASE ~StoppedAsAsked(Repo)
    <2>1. Conclude("indeterminate") /\ memory' = memory
      BY <1>3 DEF JudgeFirst
    <2>2. /\ memory' \in {"none", "summary", "full"} /\ compacted' \in BOOLEAN
          /\ deviations' \in 0..MaxDeviations
      BY <1>0, <1>1, <2>1 DEF ProofTypes
    <2> QED BY <1>0, <1>1, <2>1, <2>2, VerdictKeeps
  <1>4. CASE StoppedAsAsked(Repo)
    <2>1. /\ proofAt' = IF Path = "compact" THEN "compact" ELSE "recover"
          /\ memory' = IF Path = "compact" THEN "full" ELSE "none"
          /\ verdicts' = verdicts
      BY <1>4 DEF JudgeFirst
    <2>2. proofAt' \in {"compact", "recover"} /\ memory' \in {"none", "summary", "full"}
      BY <2>1
    <2>3. ~IsGraded' /\ ~GradedAs("pass")'
      BY <2>2 DEF IsGraded, GradedAs
    <2>4. ProofTypes'
      <3>1. Len(verdicts') = IF proofAt' \in {"next", "written"} THEN repetition ELSE repetition - 1
        BY <1>0, <2>1, <2>2 DEF ProofTypes
      <3>2. proofAt' \in ProofStages
        BY <2>2 DEF ProofStages
      <3> QED BY <1>0, <1>1, <2>1, <2>2, <3>1, <3>2 DEF ProofTypes, Repository
    <2>5. RecordsAreOfTheirs'
      BY <1>0, <1>1, <2>2 DEF RecordsAreOfTheirs, Written
    <2>6. BaseIsNew' /\ FirstIsFirst'
      <3>1. \A x \in Written(Repo) : x.by.rep # repetition => x.head < base
        BY <1>0 DEF ProofInv, BaseIsNew
      <3> QED BY <1>1, <1>2, <2>2, <3>1 DEF BaseIsNew, FirstIsFirst
    <2>7. SeenIsOfFirst'
      <3>1. \A x \in Written(Repo) : x.by.rep = repetition => x.by.session = 1
        BY <1>0 DEF ProofInv, FirstIsFirst
      <3>2. \A x \in Written(Repo) : x.by.rep \in 1..repetition /\ schedule[x.by.rep] = Dir
        BY <1>0, <1>2 DEF RecordsAreOfTheirs, Repo
      <3>3. Repo.journal \in Seq(JournalLine) /\ Repo.checkpoint \in Seq(CheckpointOf)
        BY <1>0, <1>2 DEF ProofTypes, Repository, Repo
      <3> QED BY <1>1, <1>2, <1>4, <3>1, <3>2, <3>3 DEF SeenIsOfFirst
    <2>8. SecondIsSecond'
      <3>1. proofAt' # "grade"
        BY <2>2
      <3> QED BY <1>1, <1>2, <2>3, <3>1 DEF SecondIsSecond
    <2>9. Remembers'
      BY <1>0, <1>1, <1>2, <2>1 DEF Remembers
    <2> QED BY <2>3, <2>4, <2>5, <2>6, <2>7, <2>8, <2>9 DEF ProofInv, PassIsRecovered
  <1> QED BY <1>3, <1>4

LEMMA CompactKeeps == ASSUME ProofInv, Compact PROVE ProofInv'
  <1>0. /\ ProofTypes /\ RecordsAreOfTheirs /\ BaseIsNew /\ SeenIsOfFirst /\ SecondIsSecond
        /\ proofAt = "compact" /\ ~compacted
    BY DEF ProofInv, Compact, Remembers
  <1>1. UNCHANGED <<schedule, canCompact, repetition, repos, commits, base, seen>>
    BY DEF Compact
  <1>2. Dir' = Dir /\ Repo' = Repo /\ Path' = Path /\ Dir \in Dirs
    BY <1>0, <1>1, Scheduled DEF Dir, Repo, Path
  <1>3. deviations' \in 0..MaxDeviations
    BY <1>0, ProofConstants DEF Compact, ProofTypes
  <1>4. memory' \in {"none", "summary", "full"} /\ compacted' \in BOOLEAN
    BY <1>0 DEF Compact, ProofTypes
  <1>5. CASE Conclude("error")
    BY <1>0, <1>1, <1>3, <1>4, <1>5, VerdictKeeps
  <1>6. CASE /\ proofAt' = "recover" /\ verdicts' = verdicts
             /\ (compacted' = TRUE /\ memory' = "summary")
                  \/ (compacted' = compacted /\ memory' = memory)
    <2>1. ~IsGraded' /\ ~GradedAs("pass")' /\ proofAt' = "recover"
      BY <1>6 DEF IsGraded, GradedAs
    <2>2. ProofTypes'
      <3>1. Len(verdicts') = IF proofAt' \in {"next", "written"} THEN repetition ELSE repetition - 1
        BY <1>0, <1>6 DEF ProofTypes
      <3>2. proofAt' \in ProofStages
        BY <2>1 DEF ProofStages
      <3> QED BY <1>0, <1>1, <1>3, <1>4, <1>6, <3>1, <3>2 DEF ProofTypes, Repository
    <2>3. RecordsAreOfTheirs'
      BY <1>0, <1>1, <2>1 DEF RecordsAreOfTheirs, Written
    <2>4. BaseIsNew' /\ FirstIsFirst'
      BY <1>0, <1>1, <1>2, <2>1 DEF BaseIsNew, FirstIsFirst
    <2>5. SeenIsOfFirst' /\ SecondIsSecond'
      BY <1>0, <1>1, <1>2, <2>1 DEF SeenIsOfFirst, SecondIsSecond
    <2>6. Path = "compact"
      BY <1>0 DEF ProofInv, Remembers
    <2>7. Remembers'
      BY <1>0, <1>2, <1>6, <2>6 DEF Remembers
    <2> QED BY <2>1, <2>2, <2>3, <2>4, <2>5, <2>7 DEF ProofInv, PassIsRecovered
  <1> QED BY <1>5, <1>6 DEF Compact

LEMMA RecoverKeeps == ASSUME ProofInv, Recover PROVE ProofInv'
  <1>0. /\ ProofTypes /\ RecordsAreOfTheirs /\ BaseIsNew /\ SeenIsOfFirst
        /\ proofAt = "recover" /\ Repo = seen /\ (memory = "full" => Path = "compact" /\ ~compacted)
    BY DEF ProofInv, Recover, Remembers, SecondIsSecond
  <1>1. Session(2, Criteria, "grade") /\ memory' = memory /\ seen' = seen
    BY DEF Recover
  <1>2. Criteria \in SUBSET Criteria
    OBVIOUS
  <1>3. /\ ProofTypes' /\ RecordsAreOfTheirs'
        /\ Dir' = Dir /\ base' = base /\ compacted' = compacted
        /\ repetition' = repetition /\ schedule' = schedule
        /\ (proofAt' = "next" /\ ~IsGraded') \/ proofAt' = "grade"
        /\ \A x \in Written(Repo') : x \in Written(Repo) \/ x.by = SecondAuthor
        /\ Journaled(Repo.journal, Repo'.journal, SecondAuthor, Repo.head)
        /\ Checkpointed(Repo.checkpoint, Repo'.checkpoint, SecondAuthor, Repo.head)
        /\ Repo.head \in Nat
    BY <1>0, <1>1, <1>2, SessionKeeps DEF SecondAuthor
  <1>4. CASE proofAt' = "next" /\ ~IsGraded'
    BY <1>3, <1>4, NothingIsGraded
  <1>5. CASE proofAt' = "grade"
    <2>1. ~IsGraded' /\ ~GradedAs("pass")'
      BY <1>5 DEF IsGraded, GradedAs
    <2>2. BaseIsNew' /\ FirstIsFirst'
      <3>1. \A x \in Written(Repo) : x.by.rep # repetition => x.head < base
        BY <1>0 DEF BaseIsNew
      <3>2. SecondAuthor.rep = repetition
        BY DEF SecondAuthor
      <3> QED BY <1>3, <1>5, <3>1, <3>2 DEF BaseIsNew, FirstIsFirst
    <2>3. SeenIsOfFirst'
      BY <1>0, <1>1, <1>3 DEF SeenIsOfFirst
    <2>4. SecondIsSecond'
      <3>1. SecondAuthor' = SecondAuthor
        BY <1>3 DEF SecondAuthor
      <3> QED BY <1>0, <1>1, <1>3, <1>5, <3>1 DEF SecondIsSecond
    <2>5. Remembers'
      <3>1. Path' = Path
        BY <1>3 DEF Path
      <3> QED BY <1>0, <1>1, <1>3, <1>5, <3>1 DEF Remembers
    <2> QED BY <1>3, <2>1, <2>2, <2>3, <2>4, <2>5 DEF ProofInv, PassIsRecovered
  <1> QED BY <1>3, <1>4, <1>5

LEMMA GradeRecoveryKeeps == ASSUME ProofInv, GradeRecovery PROVE ProofInv'
  <1>0. /\ ProofTypes /\ RecordsAreOfTheirs /\ BaseIsNew /\ SeenIsOfFirst /\ SecondIsSecond
        /\ proofAt = "grade" /\ (memory = "full" => Path = "compact" /\ ~compacted)
    BY DEF ProofInv, GradeRecovery, Remembers
  <1>1. /\ Conclude(Verdict(Repo))
        /\ UNCHANGED <<schedule, canCompact, repetition, repos, commits, base>>
        /\ seen' = seen /\ memory' = memory /\ compacted' = compacted /\ deviations' = deviations
    BY DEF GradeRecovery
  <1>2. Dir' = Dir /\ Repo' = Repo /\ Path' = Path
    BY <1>1 DEF Dir, Repo, Path
  <1>3. Verdict(Repo) \in ProofVerdicts
    BY DEF Verdict, ProofVerdicts
  <1>4. /\ proofAt' = "next" /\ verdicts' \in Seq(ProofVerdicts)
        /\ Len(verdicts') = repetition' /\ Last(verdicts') = Verdict(Repo)
    BY <1>0, <1>1, <1>3, Concluded
  <1>5. ProofTypes' /\ RecordsAreOfTheirs'
    BY <1>0, <1>1, <1>4 DEF ProofTypes, ProofStages, Repository, RecordsAreOfTheirs, Written
  <1>6. BaseIsNew' /\ FirstIsFirst'
    BY <1>0, <1>1, <1>2, <1>4 DEF BaseIsNew, FirstIsFirst
  <1>7. SeenIsOfFirst' /\ SecondIsSecond'
    <2>1. SecondAuthor' = SecondAuthor
      BY <1>1 DEF SecondAuthor
    <2> QED BY <1>0, <1>1, <1>2, <1>4, <2>1 DEF SeenIsOfFirst, SecondIsSecond
  <1>8. PassIsRecovered'
    <2>1. Verdict(Repo) = "pass" => Recovered(Repo) /\ ~(Path = "compact" /\ ~compacted)
      BY DEF Verdict
    <2>2. Recovered(Repo)' <=> Recovered(Repo)
      BY <1>1, <1>2 DEF Recovered, InScope, AllTestsPass, OriginalTestsPass
    <2> QED BY <1>0, <1>1, <1>4, <2>1, <2>2 DEF PassIsRecovered, GradedAs
  <1>9. Remembers'
    BY <1>4 DEF Remembers
  <1> QED BY <1>5, <1>6, <1>7, <1>8, <1>9 DEF ProofInv

LEMMA NextRepetitionKeeps == ASSUME ProofInv, NextRepetition PROVE ProofInv'
  <1>0. ProofTypes /\ RecordsAreOfTheirs /\ proofAt = "next"
    BY DEF ProofInv, NextRepetition
  <1>1. UNCHANGED <<schedule, canCompact, repos, commits, base, seen, memory, compacted, deviations,
                    verdicts>>
    BY DEF NextRepetition
  <1>2. /\ DOMAIN schedule = 1..Len(schedule) /\ Len(schedule) \in Nat
        /\ repetition \in 1..Len(schedule)
    BY <1>0, Scheduled
  <1>3. \/ proofAt' = "written" /\ repetition' = repetition
        \/ proofAt' = "setup" /\ repetition' = repetition + 1 /\ repetition # Len(schedule)
    BY DEF NextRepetition
  <1>4. /\ repetition' \in DOMAIN schedule /\ repetition <= repetition' /\ repetition' \in Nat
        /\ proofAt' = "setup" => repetition < repetition'
    <2>1. CASE proofAt' = "written" /\ repetition' = repetition
      <3>1. repetition' \in 1..Len(schedule) /\ repetition <= repetition' /\ repetition' \in Nat
        BY <1>2, <2>1
      <3> QED BY <1>2, <2>1, <3>1
    <2>2. CASE proofAt' = "setup" /\ repetition' = repetition + 1 /\ repetition # Len(schedule)
      <3> DEFINE n == Len(schedule)
      <3>1. /\ n \in Nat /\ repetition \in 1..n /\ repetition # n
            /\ repetition' = repetition + 1
        BY <1>2, <2>2
      <3> HIDE DEF n
      <3>2. repetition' \in 1..n /\ repetition < repetition' /\ repetition' \in Nat
        BY ONLY <3>1
      <3> QED BY <1>2, <3>2 DEF n
    <2> QED BY <1>3, <2>1, <2>2
  <1>5. ProofTypes'
    <2>1. Len(verdicts) = repetition
      BY <1>0 DEF ProofTypes
    <2>2. Len(verdicts') = IF proofAt' \in {"next", "written"} THEN repetition' ELSE repetition' - 1
      <3>1. CASE proofAt' = "written" /\ repetition' = repetition
        BY <1>1, <2>1, <3>1
      <3>2. CASE proofAt' = "setup" /\ repetition' = repetition + 1
        BY <1>1, <1>2, <2>1, <3>2
      <3> QED BY <1>3, <3>1, <3>2
    <2>3. proofAt' \in ProofStages
      BY <1>3 DEF ProofStages
    <2> QED BY <1>0, <1>1, <1>4, <2>2, <2>3 DEF ProofTypes, Repository
  <1>6. RecordsAreOfTheirs'
    <2>1. \A d \in Dirs : \A x \in Written(repos[d]) :
            /\ x.by.rep \in 1..repetition' /\ schedule[x.by.rep] = d /\ x.head <= commits
            /\ proofAt' = "setup" => x.by.rep < repetition'
      BY <1>0, <1>2, <1>4 DEF RecordsAreOfTheirs
    <2> QED BY <1>1, <2>1 DEF RecordsAreOfTheirs, Written
  <1> QED BY <1>3, <1>5, <1>6, NothingIsGraded

LEMMA NextProofInv == ASSUME ProofInv, [ProofNext]_proofVars PROVE ProofInv'
  <1>1. CASE UNCHANGED proofVars
    <2>1. UNCHANGED <<schedule, canCompact, repetition, proofAt, repos, commits, base, seen, memory,
                      compacted, deviations, verdicts>>
      BY <1>1 DEF proofVars
    <2>2. Dir' = Dir /\ Repo' = Repo /\ Path' = Path /\ SecondAuthor' = SecondAuthor
      BY <2>1 DEF Dir, Repo, Path, SecondAuthor
    <2>3. (IsGraded' <=> IsGraded) /\ (GradedAs("pass")' <=> GradedAs("pass"))
      BY <2>1 DEF IsGraded, GradedAs
    <2>4. Recovered(Repo)' <=> Recovered(Repo)
      BY <2>1, <2>2 DEF Recovered, InScope, AllTestsPass, OriginalTestsPass
    <2>5. ProofTypes' /\ RecordsAreOfTheirs' /\ BaseIsNew' /\ FirstIsFirst'
      BY <2>1, <2>2, <2>3 DEF ProofInv, ProofTypes, Repository, RecordsAreOfTheirs, Written,
         BaseIsNew, FirstIsFirst
    <2>6. SeenIsOfFirst' /\ SecondIsSecond' /\ Remembers' /\ PassIsRecovered'
      BY <2>1, <2>2, <2>3, <2>4 DEF ProofInv, SeenIsOfFirst, SecondIsSecond, Remembers,
         PassIsRecovered
    <2> QED BY <2>5, <2>6 DEF ProofInv
  <1> QED BY <1>1, RejectRepetitionKeeps, SetupKeeps, FirstSessionKeeps, JudgeFirstKeeps,
          CompactKeeps, RecoverKeeps, GradeRecoveryKeeps, NextRepetitionKeeps DEF ProofNext

LEMMA ProofInvSays == ASSUME ProofInv PROVE ProofTypeOK /\ PassIsARecovery /\ FailureHadAChance
  <1>0. ProofTypes /\ Dir \in Dirs /\ repetition \in 1..repetition
    BY Scheduled DEF ProofInv
  <1>1. ProofTypeOK
    <2>1. \A d \in Dirs :
            /\ repos[d].head \in 0..commits
            /\ repos[d].done \cup repos[d].tests \cup repos[d].charter \subseteq Criteria
      BY <1>0 DEF ProofTypes, Repository
    <2> QED BY <1>0, <2>1 DEF ProofTypes, ProofTypeOK, ProofStages, ProofVerdicts
  <1>2. Repository(Repo) /\ \A x \in Written(Repo) : x.by \in Author /\ x.by.rep \in 1..repetition
    <2>1. Repository(Repo)
      BY <1>0 DEF ProofTypes, Repo
    <2> QED BY <1>0, <2>1, EntriesAreTyped DEF ProofInv, RecordsAreOfTheirs, Repo
  <1>3. ASSUME IsGraded
        PROVE  /\ StoppedAsAsked(seen)
               /\ seen.journal \in Seq(JournalLine) /\ seen.checkpoint \in Seq(CheckpointOf)
               /\ \A x \in Written(seen) : /\ x.by \in Author /\ x.by.rep \in 1..repetition
                                           /\ schedule[x.by.rep] = Dir
                                           /\ x.by.rep = repetition => x.by.session = 1
    <2>1. /\ StoppedAsAsked(seen)
          /\ seen.journal \in Seq(JournalLine) /\ seen.checkpoint \in Seq(CheckpointOf)
          /\ \A x \in Written(seen) : /\ x.by.rep \in 1..repetition /\ schedule[x.by.rep] = Dir
                                      /\ x.by.rep = repetition => x.by.session = 1
      BY <1>3 DEF ProofInv, SeenIsOfFirst
    <2>2. \A x \in Written(seen) : x.by \in Author
      <3>1. \A x \in ToSet(seen.journal) : x \in JournalLine
        BY <2>1 DEF ToSet
      <3>2. \A x \in ToSet(seen.checkpoint) : x \in CheckpointOf
        BY <2>1 DEF ToSet
      <3> QED BY <3>1, <3>2 DEF Written, JournalLine, CheckpointOf
    <2> QED BY <2>1, <2>2
  <1>4. PassIsARecovery
    <2> SUFFICES ASSUME RecoveryPassed
                 PROVE  /\ Second \notin seen.done /\ Repo.done = Criteria
                        /\ Repo.head = base
                        /\ memory # "full"
                        /\ IsPrefix(seen.journal, Repo.journal)
                        /\ \A line \in ToSet(Repo.journal) : line.by.rep = repetition
                        /\ {line.by.session : line \in ToSet(Repo.journal)} = {1, 2}
                        /\ \A c \in ToSet(Repo.checkpoint) :
                             c.by = [rep |-> repetition, session |-> 2]
      BY DEF PassIsARecovery
    <2>1. IsGraded /\ GradedAs("pass")
      BY DEF RecoveryPassed, IsGraded, GradedAs
    <2>2. Recovered(Repo) /\ memory # "full"
      BY <2>1 DEF ProofInv, PassIsRecovered
    <2>3. Second \notin seen.done /\ seen.journal # << >>
      BY <1>3, <2>1 DEF StoppedAsAsked
    <2>4. Repo.done = Criteria /\ Repo.head = base
      BY <1>2, <2>2 DEF Recovered, OriginalTestsPass, Repository
    <2>5. /\ Len(Repo.journal) > Len(seen.journal) /\ IsPrefix(seen.journal, Repo.journal)
          /\ \A i \in DOMAIN Repo.journal : Repo.journal[i].head = base
      BY <2>2, <2>4 DEF Recovered, JournalAppended
    <2>6. \A line \in ToSet(Repo.journal) : line.by.rep = repetition
      <3>1. \A x \in ToSet(Repo.journal) : x.by.rep # repetition => x.head < base
        BY <2>1 DEF ProofInv, BaseIsNew, Written
      <3>2. \A x \in ToSet(Repo.journal) : x.head = base
        BY <2>5 DEF ToSet
      <3>3. base \in Nat
        BY <1>0 DEF ProofTypes
      <3> QED BY <3>1, <3>2, <3>3
    <2>7. PICK h \in Nat : /\ Journaled(seen.journal, Repo.journal, SecondAuthor, h)
                           /\ Checkpointed(seen.checkpoint, Repo.checkpoint, SecondAuthor, h)
      BY <2>1 DEF ProofInv, SecondIsSecond
    <2>8. PICK l \in JournalLine : l.by = SecondAuthor /\ Repo.journal = Append(seen.journal, l)
      <3>1. seen.journal \in Seq(JournalLine) /\ Len(seen.journal) \in Nat /\ Len(seen.journal) > 0
        BY <1>3, <2>1, <2>3
      <3>2. Repo.journal # seen.journal
        BY <2>5, <3>1
      <3>3. PICK l \in JournalLine :
              l.by = SecondAuthor /\ Repo.journal \in {<<l>>, Append(seen.journal, l)}
        BY <2>7, <3>2 DEF Journaled
      <3>4. Len(<<l>>) = 1
        OBVIOUS
      <3> QED BY <2>5, <3>1, <3>3, <3>4
    <2>9. ToSet(Repo.journal) = ToSet(seen.journal) \cup {l}
      <3> DEFINE was == seen.journal
      <3>1. was \in Seq(JournalLine) /\ l \in JournalLine /\ Repo.journal = Append(was, l)
        BY <1>3, <2>1, <2>8
      <3> HIDE DEF was
      <3>2. ToSet(Append(was, l)) = ToSet(was) \cup {l} /\ ToSet(<<l>>) = {l}
        BY ONLY <3>1, AppendedSet
      <3> QED BY <3>1, <3>2 DEF was
    <2>10. seen.journal[1] \in ToSet(seen.journal)
      BY <1>3, <2>1, <2>3 DEF ToSet
    <2>11. \A line \in ToSet(seen.journal) : line.by.session = 1
      BY <1>3, <2>1, <2>6, <2>9 DEF Written
    <2>12. {line.by.session : line \in ToSet(Repo.journal)} = {1, 2}
      BY <2>8, <2>9, <2>10, <2>11 DEF SecondAuthor
    <2>13. \A c \in ToSet(Repo.checkpoint) : c.by = [rep |-> repetition, session |-> 2]
      <3>1. Repo.checkpoint # seen.checkpoint
        BY <2>2 DEF Recovered, CheckpointMatches
      <3>2. PICK c \in CheckpointOf : c.by = SecondAuthor /\ Repo.checkpoint = <<c>>
        BY <2>7, <3>1 DEF Checkpointed
      <3>3. ToSet(<<c>>) = {c}
        BY DEF ToSet
      <3> QED BY <3>2, <3>3 DEF SecondAuthor
    <2> QED BY <2>2, <2>3, <2>4, <2>5, <2>6, <2>12, <2>13
  <1>5. FailureHadAChance
    <2> DEFINE mine == [rep |-> repetition, session |-> 1]
    <2> SUFFICES ASSUME proofAt = "next", Last(verdicts) = "fail",
                        \A k \in 1..repetition - 1 : schedule[k] # Dir
                 PROVE  /\ Second \notin seen.done
                        /\ mine \in {line.by : line \in ToSet(seen.journal)}
                        /\ \A c \in ToSet(seen.checkpoint) : c.by = mine
      BY DEF FailureHadAChance
    <2>1. IsGraded
      BY DEF IsGraded, GradedAs
    <2>2. Second \notin seen.done /\ seen.journal # << >>
      BY <1>3, <2>1 DEF StoppedAsAsked
    <2>3. \A x \in Written(seen) : x.by = mine
      <3> SUFFICES ASSUME NEW x \in Written(seen) PROVE x.by = mine
        OBVIOUS
      <3>1. x.by \in Author /\ x.by.rep \in 1..repetition /\ schedule[x.by.rep] = Dir
        BY <1>3, <2>1
      <3>2. x.by.rep = repetition
        BY <1>0, <3>1
      <3>3. x.by.session = 1
        BY <1>3, <2>1, <3>2
      <3> QED BY <3>1, <3>2, <3>3 DEF Author
    <2>4. seen.journal[1] \in ToSet(seen.journal)
      BY <1>3, <2>1, <2>2 DEF ToSet
    <2> QED BY <2>2, <2>3, <2>4 DEF Written
  <1> QED BY <1>1, <1>4, <1>5

LEMMA ProofSteps ==
    ASSUME [Next]_evaluationVars, part' = "proof"
    PROVE  part = "proof" /\ [ProofNext]_proofVars
  BY DEF Next, evaluationVars, Only, BrokerStep, InputsStep, CaseStep, TddStep, PlanStep,
     AcceptanceStep, TriggerStep, ScoringStep, TraceStep, ProofStep

-----------------------------------------------------------------------------
(* The trigger-recall study (TriggerStudy) *)

CorpusCase == UNION {ToSet(c.cases) : c \in Configurations}

Probed ==
    [id : {c.id : c \in CorpusCase}, rep : 1..Reps, verdict : BOOLEAN,
     from : [end : {"timeout", "error", "rc", "ok"}, answer : Answers \cup {NoAnswer},
             by : {PinnedBroker, OtherBroker}, plugin : PluginBytes \cup {NoSkill}]]

TriggerTypes ==
    /\ triggerAt \in {"idle", "stage", "probe", "evidence", "manifest", "enforce"}
    /\ status \in {"none", "passed", "failed"}
    /\ triggerStudy \in 0..MaxStudies /\ outside \in 0..MaxOutside
    /\ attempt \in 1..2 /\ retries \in Nat /\ tried \in Nat /\ rendered \in BOOLEAN
    /\ config.selected \in Seq(CorpusCase) /\ probed \in Seq(Probed)
    /\ triggerBroker \in {PinnedBroker, OtherBroker}
    /\ plugin \in PluginBytes /\ staged \in PluginBytes \cup {NoSkill}
    /\ bundle \in [results : [study : Nat, rows : Nat],
                   manifest : [study : Nat, retries : Nat, rendered : BOOLEAN]]
    /\ bundle.results.study <= triggerStudy /\ bundle.manifest.study <= triggerStudy
    /\ \A e \in kept : e.study \in 1..triggerStudy /\ e.rep \in 1..Reps

\* The gates and the selected cases of a study that was admitted.
Admitted(selected, gates) ==
    /\ Len(selected) > 0
    /\ \A i, j \in DOMAIN selected : selected[i].id = selected[j].id => i = j
    /\ gates.minRecall \in 0..100 /\ gates.maxFalse \in 0..100
    /\ \A skill \in DOMAIN gates.perSkill : gates.perSkill[skill] \in 0..100
    /\ \A id \in DOMAIN gates.perCase : gates.perCase[id] \in 0..100

\* Of the attempts, each has a row, was run again, or is the last of the study; a probe is
\* run again once.
AttemptsAgree ==
    /\ tried = Len(probed) + retries + (IF triggerAt = "evidence" THEN 1 ELSE 0)
    /\ Len(probed) <= Probes
    /\ attempt = 1 => retries <= Len(probed)
    /\ attempt = 2 => retries <= Len(probed) + 1 /\ Len(probed) < Probes
    /\ triggerAt = "evidence" => attempt = 2

RowIsOf(row, n) ==
    /\ row.id = Case(n).id /\ row.rep = Rep(n)
    /\ row.verdict = Passes(Case(n), row.from.answer.events)
    /\ row.from.end = "ok" /\ row.from.answer.catalog # "missing"
    /\ row.from.by = PinnedBroker /\ row.from.plugin = staged

\* Where a study is, and what it has under publish/ by then.
BundleIsAsFar ==
    /\ triggerAt # "idle" => triggerStudy >= 1 /\ status = "none"
    /\ triggerAt # "idle" \/ status = "passed" => Admitted(config.selected, config.gates)
    /\ triggerAt = "stage" => probed = << >>
    /\ triggerAt \in {"manifest", "enforce"} \/ status = "passed" =>
         /\ Len(probed) = Probes
         /\ bundle.results = [study |-> triggerStudy, rows |-> Len(probed)]
    /\ triggerAt = "enforce" \/ status = "passed" =>
         bundle.manifest = [study |-> triggerStudy, retries |-> retries, rendered |-> rendered]
    /\ status = "passed" /\ config.enforced =>
         Violations(probed, config.selected, config.gates) = {}

RowsAreEarned == \A n \in 1..Len(probed) : RowIsOf(probed[n], n)

TriggerInv == TriggerTypes /\ AttemptsAgree /\ BundleIsAsFar /\ RowsAreEarned

\* The n-th probe is a repetition of one case, and each repetition is one probe.
LEMMA ProbeIsRepetition ==
    ASSUME NEW L \in Nat, NEW n \in 1..L * Reps
    PROVE  ((n - 1) \div Reps) + 1 \in 1..L /\ ((n - 1) % Reps) + 1 \in 1..Reps
  <1> DEFINE p == Reps
             a == n - 1
             q == a \div p
             r == a % p
  <1>1. p \in Nat \ {0} /\ L * p \in Nat
    BY TriggerConstants
  <1>2. a \in Nat /\ a < L * p
    BY <1>1
  <1>3. q \in Nat /\ r \in 0..p - 1 /\ a = p * q + r
    BY <1>1, <1>2, DivMod
  <1> HIDE DEF p, q, r, a
  <1>4. q < L
    <2> SUFFICES ASSUME q >= L PROVE FALSE
      BY <1>3
    <2>1. p * q >= p * L
      <3>1. CASE q = L
        BY <1>1, <1>3, <3>1
      <3>2. CASE L < q
        BY <1>1, <1>3, <3>2, Multiples
      <3> QED BY <1>3, <3>1, <3>2
    <2>2. p * q \in Nat /\ p * L \in Nat /\ p * L = L * p
      BY <1>1, <1>3
    <2> DEFINE x == p * q
               y == p * L
    <2> HIDE DEF x, y
    <2> QED BY <1>1, <1>2, <1>3, <2>1, <2>2 DEF x, y
  <1> QED BY <1>1, <1>3, <1>4 DEF p, q, r, a

LEMMA RepetitionIsProbe ==
    ASSUME NEW L \in Nat, NEW m \in 1..L, NEW rep \in 1..Reps
    PROVE  \E k \in 1..L * Reps :
             /\ ((k - 1) \div Reps) + 1 = m /\ ((k - 1) % Reps) + 1 = rep
             /\ \A n \in 1..L * Reps :
                  ((n - 1) \div Reps) + 1 = m /\ ((n - 1) % Reps) + 1 = rep => n = k
  <1> DEFINE p == Reps
             b == p * (m - 1)
             k == b + rep
             q == (k - 1) \div p
             r == (k - 1) % p
  <1>1. p \in Nat \ {0} /\ m - 1 \in Nat /\ L * p \in Nat /\ rep \in 1..p
    BY TriggerConstants
  <1>2. b \in Nat /\ b + p <= L * p
    <2> HIDE DEF p
    <2>1. p * (m - 1) \in Nat /\ p * L >= p * (m - 1) + p
      BY <1>1, m - 1 < L, Multiples
    <2>2. p * L = L * p
      BY <1>1
    <2> QED BY <2>1, <2>2
  <1>3. k \in 1..L * p
    <2> HIDE DEF p, b
    <2> DEFINE y == L * p
    <2>1. y \in Nat
      BY <1>1
    <2> HIDE DEF y
    <2>2. b + p <= y
      BY <1>2 DEF y
    <2>3. k \in 1..y
      BY <1>1, <1>2, <2>1, <2>2
    <2> QED BY <2>3 DEF y
  <1>4. q = m - 1 /\ r = rep - 1
    <2>1. k - 1 \in Nat
      BY <1>3
    <2>2. q \in Nat /\ r \in 0..p - 1 /\ k - 1 = p * q + r
      BY <1>1, <2>1, DivMod
    <2> HIDE DEF q, r, p
    <2>3. q = m - 1
      <3>1. CASE q < m - 1
        <4>1. p * (m - 1) >= p * q + p /\ p * q \in Nat
          BY <1>1, <2>2, <3>1, Multiples
        <4> DEFINE x == p * q
        <4> HIDE DEF x, b
        <4>2. b >= x + p /\ x \in Nat /\ k - 1 = x + r
          BY <2>2, <4>1 DEF x, b
        <4> QED BY <1>1, <1>2, <2>2, <4>2
      <3>2. CASE m - 1 < q
        <4>1. p * q >= p * (m - 1) + p /\ p * q \in Nat
          BY <1>1, <2>2, <3>2, Multiples
        <4> DEFINE x == p * q
        <4> HIDE DEF x, b
        <4>2. x >= b + p /\ x \in Nat /\ k - 1 = x + r
          BY <2>2, <4>1 DEF x, b
        <4> QED BY <1>1, <1>2, <2>2, <4>2
      <3> QED BY <1>1, <2>2, <3>1, <3>2
    <2>4. k - 1 = b + r
      BY <2>2, <2>3
    <2> HIDE DEF b
    <2> QED BY <1>1, <1>2, <2>2, <2>3, <2>4
  <1>5. ASSUME NEW n \in 1..L * p, ((n - 1) \div p) + 1 = m, ((n - 1) % p) + 1 = rep
        PROVE  n = k
    <2> DEFINE d == (n - 1) \div p
               e == (n - 1) % p
    <2>1. n - 1 \in Nat
      BY <1>1
    <2>2. d \in Nat /\ e \in 0..p - 1 /\ n - 1 = p * d + e
      BY <1>1, <2>1, DivMod
    <2>3. d + 1 = m /\ e + 1 = rep
      BY <1>5
    <2> HIDE DEF d, e, p
    <2>4. d = m - 1
      BY <1>1, <2>2, <2>3
    <2>5. n - 1 = b + e
      BY <2>2, <2>4
    <2> HIDE DEF b
    <2> QED BY <1>1, <1>2, <2>1, <2>2, <2>3, <2>5
  <1>6. q + 1 = m /\ r + 1 = rep
    <2> HIDE DEF q, r
    <2> QED BY <1>1, <1>4
  <1> HIDE DEF k
  <1> QED BY <1>3, <1>5, <1>6

\* Any number of passes over the cases, and no rows yet.
LEMMA ProbesIsNatural ==
    ASSUME config.selected \in Seq(CorpusCase)
    PROVE  Probes \in Nat /\ (Len(config.selected) > 0 => Probes > 0)
  <1> DEFINE L == Len(config.selected)
  <1>1. L \in Nat /\ Reps \in Nat \ {0}
    BY TriggerConstants
  <1> HIDE DEF L
  <1>2. L * Reps \in Nat
    BY <1>1
  <1>3. L > 0 => L * Reps >= Reps
    <2> SUFFICES ASSUME L > 0 PROVE L * Reps >= Reps
      OBVIOUS
    <2>1. Reps * L >= Reps * 0 + Reps
      BY <1>1, Multiples
    <2>2. Reps * L = L * Reps /\ Reps * 0 = 0
      BY <1>1
    <2> QED BY <1>1, <2>1, <2>2
  <1> QED BY <1>1, <1>2, <1>3 DEF Probes, L

LEMMA FilteredIs ==
    ASSUME NEW c \in Configurations, NEW selected \in Filtered(c.cases, c.filter)
    PROVE  /\ selected \in Seq(CorpusCase)
           /\ Admissible(c) => Admitted(selected, c.gates)
  <1> DEFINE matching == {i \in DOMAIN c.cases : c.cases[i].id \in c.filter}
             m == Cardinality(matching)
  <1>1. c.cases \in Seq(ToSet(c.cases)) /\ ToSet(c.cases) \subseteq CorpusCase
    BY TriggerConstants DEF CorpusCase
  <1>2. DOMAIN c.cases = 1..Len(c.cases) /\ Len(c.cases) \in Nat
    BY <1>1
  <1>3. IsFiniteSet(matching) /\ m \in Nat
    <2>1. IsFiniteSet(1..Len(c.cases))
      <3> DEFINE y == Len(c.cases)
      <3>1. y \in Int
        BY <1>2
      <3> HIDE DEF y
      <3>2. IsFiniteSet(1..y)
        BY <3>1, FS_Interval
      <3> QED BY <3>2 DEF y
    <2>2. matching \subseteq 1..Len(c.cases)
      BY <1>2
    <2> HIDE DEF matching
    <2> QED BY <2>1, <2>2, FS_Subset, FS_CardinalityType
  <1>4. PICK place \in [1..m -> matching] :
          /\ \A j, k \in 1..m : j < k => place[j] < place[k]
          /\ selected = [k \in 1..m |-> c.cases[place[k]]]
    BY DEF Filtered
  <1> HIDE DEF m
  <1>5. selected \in Seq(CorpusCase) /\ Len(selected) = m
    <2>1. \A k \in 1..m : c.cases[place[k]] \in CorpusCase
      BY <1>1, <1>4 DEF ToSet
    <2> QED BY <1>3, <1>4, <2>1
  <1>6. ASSUME Admissible(c) PROVE Admitted(selected, c.gates)
    <2>1. m > 0
      <3>1. matching # {}
        BY <1>6 DEF Admissible
      <3>2. m # 0
        <4> HIDE DEF matching
        <4> QED BY <1>3, <3>1, FS_EmptySet DEF m
      <3> QED BY <1>3, <3>2
    <2>2. \A i, j \in DOMAIN c.cases : c.cases[i].id = c.cases[j].id => i = j
      BY <1>6 DEF Admissible, ValidConfiguration, ValidCases
    <2>3. \A i, j \in 1..m : selected[i].id = selected[j].id => i = j
      <3> SUFFICES ASSUME NEW i \in 1..m, NEW j \in 1..m, selected[i].id = selected[j].id
                   PROVE  i = j
        OBVIOUS
      <3>1. place[i] = place[j]
        BY <1>4, <2>2
      <3>2. place[i] \in 1..Len(c.cases)
        BY <1>2, <1>4
      <3> QED BY <1>2, <1>3, <1>4, <3>1, <3>2
    <2>4. DOMAIN selected = 1..m
      BY <1>4
    <2>5. /\ c.gates.minRecall \in 0..100 /\ c.gates.maxFalse \in 0..100
          /\ \A skill \in DOMAIN c.gates.perSkill : c.gates.perSkill[skill] \in 0..100
          /\ \A id \in DOMAIN c.gates.perCase : c.gates.perCase[id] \in 0..100
      BY <1>6 DEF Admissible, ValidConfiguration
    <2> QED BY <1>5, <2>1, <2>3, <2>4, <2>5 DEF Admitted
  <1> QED BY <1>5, <1>6

LEMMA InitTriggerInv == ASSUME TriggerInit PROVE TriggerInv
  <1> USE DEF TriggerInit
  <1>1. TriggerTypes
    <2>1. << >> \in Seq(CorpusCase) /\ << >> \in Seq(Probed)
      OBVIOUS
    <2>2. bundle \in [results : [study : Nat, rows : Nat],
                      manifest : [study : Nat, retries : Nat, rendered : BOOLEAN]]
          /\ bundle.results.study = 0 /\ bundle.manifest.study = 0
      BY DEF NoBundle
    <2>3. config.selected = << >>
      OBVIOUS
    <2>4. 0 \in 0..MaxStudies /\ 0 \in 0..MaxOutside /\ \A e \in kept : FALSE
      BY TriggerConstants
    <2>5. /\ triggerAt \in {"idle", "stage", "probe", "evidence", "manifest", "enforce"}
          /\ status \in {"none", "passed", "failed"}
          /\ triggerStudy = 0 /\ outside = 0
          /\ attempt \in 1..2 /\ retries \in Nat /\ tried \in Nat
          /\ probed = << >> /\ triggerBroker \in {PinnedBroker, OtherBroker}
          /\ plugin \in PluginBytes /\ staged \in PluginBytes \cup {NoSkill}
      OBVIOUS
    <2>6. rendered \in BOOLEAN
      BY Zenon
    <2> HIDE DEF TriggerInit
    <2> QED BY <2>1, <2>2, <2>3, <2>4, <2>5, <2>6 DEF TriggerTypes
  <1>2. Probes \in Nat
    BY <1>1, ProbesIsNatural DEF TriggerTypes
  <1>3. AttemptsAgree
    BY <1>2 DEF AttemptsAgree
  <1> QED BY <1>1, <1>3 DEF TriggerInv, BundleIsAsFar, RowsAreEarned

\* What a study that has not started a probe has.
LEMMA ForgottenIs ==
    ASSUME Forget, config'.selected \in Seq(CorpusCase)
    PROVE  /\ probed' \in Seq(Probed) /\ Len(probed') = 0 /\ probed' = << >>
           /\ attempt' \in 1..2 /\ retries' \in Nat /\ tried' \in Nat /\ rendered' \in BOOLEAN
           /\ triggerAt' # "evidence" => AttemptsAgree'
  <1>1. Probes' \in Nat
    <2> DEFINE L == Len(config'.selected)
    <2>1. L \in Nat /\ Reps \in Nat
      BY TriggerConstants
    <2> HIDE DEF L
    <2>2. L * Reps \in Nat
      BY <2>1
    <2> QED BY <2>2 DEF Probes, L
  <1>2. probed' = << >> /\ << >> \in Seq(Probed) /\ Len(<< >>) = 0
    BY DEF Forget
  <1>3. attempt' = 1 /\ retries' = 0 /\ tried' = 0 /\ rendered' = FALSE
    BY DEF Forget
  <1>4. triggerAt' # "evidence" => AttemptsAgree'
    BY <1>1, <1>2, <1>3 DEF AttemptsAgree
  <1>5. probed' \in Seq(Probed) /\ Len(probed') = 0
    BY <1>2
  <1>6. attempt' \in 1..2 /\ retries' \in Nat /\ tried' \in Nat
    BY <1>3
  <1>7. rendered' \in BOOLEAN
    BY <1>3, Zenon
  <1> QED BY <1>2, <1>4, <1>5, <1>6, <1>7

LEMMA StartStudyKeeps == ASSUME TriggerInv, StartStudy PROVE TriggerInv'
  <1>1. PICK c \in Configurations :
          /\ Begin(c)
          /\ IF Admissible(c) THEN triggerAt' = "stage" /\ status' = "none"
             ELSE triggerAt' = "idle" /\ status' = "failed"
    BY DEF StartStudy
  <1>2. PICK selected \in Filtered(c.cases, c.filter) :
          config' = [selected |-> selected, gates |-> c.gates, enforced |-> c.enforced]
    BY <1>1 DEF Begin
  <1>3. config'.selected \in Seq(CorpusCase)
        /\ (Admissible(c) => Admitted(config'.selected, config'.gates))
    BY <1>2, FilteredIs
  <1>4. triggerAt' \in {"stage", "idle"} /\ status' \in {"none", "failed"}
    BY <1>1
  <1>5. /\ probed' \in Seq(Probed) /\ Len(probed') = 0 /\ probed' = << >>
        /\ attempt' \in 1..2 /\ retries' \in Nat /\ tried' \in Nat /\ rendered' \in BOOLEAN
        /\ AttemptsAgree'
    BY <1>1, <1>3, <1>4, ForgottenIs DEF Begin
  <1>6. triggerStudy' = triggerStudy + 1 /\ triggerStudy' \in 1..MaxStudies
        /\ triggerStudy \in 0..MaxStudies
    BY <1>1, TriggerConstants DEF StartStudy, Begin, TriggerInv, TriggerTypes
  <1>7. TriggerTypes'
    BY <1>3, <1>4, <1>5, <1>6, TriggerConstants DEF TriggerInv, TriggerTypes, StartStudy
  <1>8. BundleIsAsFar'
    <2>1. triggerAt' # "idle" => Admissible(c) /\ status' = "none"
      BY <1>1
    <2> QED BY <1>3, <1>4, <1>5, <1>6, <2>1, TriggerConstants DEF BundleIsAsFar
  <1>9. RowsAreEarned'
    BY <1>5 DEF RowsAreEarned
  <1> QED BY <1>5, <1>7, <1>8, <1>9 DEF TriggerInv

LEMMA StagePluginKeeps == ASSUME TriggerInv, StagePlugin PROVE TriggerInv'
  <1> USE DEF StagePlugin
  <1>1. probed = << >> /\ Len(probed) = 0 /\ probed' = probed
    BY DEF TriggerInv, BundleIsAsFar
  <1>2. TriggerTypes'
    BY DEF TriggerInv, TriggerTypes
  <1>3. AttemptsAgree'
    BY DEF TriggerInv, AttemptsAgree, Probes
  <1>4. BundleIsAsFar'
    BY DEF TriggerInv, BundleIsAsFar
  <1> QED BY <1>1, <1>2, <1>3, <1>4 DEF TriggerInv, RowsAreEarned

LEMMA OutcomesAre ==
    ASSUME TriggerInv, NEW a \in Outcomes
    PROVE  /\ a \in [end : {"timeout", "error", "rc", "ok"}, answer : Answers \cup {NoAnswer},
                     by : {PinnedBroker, OtherBroker}, plugin : PluginBytes \cup {NoSkill}]
           /\ a.plugin = staged
           /\ a.end = "ok" => a.by = PinnedBroker
  BY DEF TriggerInv, TriggerTypes, Outcomes, Ended

LEMMA GradeProbeKeeps == ASSUME TriggerInv, GradeProbe PROVE TriggerInv'
  <1> DEFINE n == Len(probed)
  <1>1. PICK a \in Outcomes :
          /\ Attempt(a) /\ Succeeded(a)
          /\ probed' = Append(probed, RowFor(a))
          /\ rendered' = (rendered \/ a.answer.catalog = "rendered")
    BY DEF GradeProbe
  <1>2. n \in Nat /\ Probe = n + 1 /\ Probe \in 1..Probes /\ Probes \in Nat
        /\ triggerAt = "probe" /\ tried' = tried + 1
    BY <1>1, ProbesIsNatural DEF TriggerInv, TriggerTypes, Attempt, Probe
  <1>3. Case(Probe) \in CorpusCase /\ Rep(Probe) \in 1..Reps
    <2>1. Len(config.selected) \in Nat /\ config.selected \in Seq(CorpusCase)
      BY DEF TriggerInv, TriggerTypes
    <2>2. /\ ((Probe - 1) \div Reps) + 1 \in 1..Len(config.selected)
          /\ ((Probe - 1) % Reps) + 1 \in 1..Reps
      <3> HIDE DEF n
      <3>1. Probe \in 1..Len(config.selected) * Reps
        BY <1>2 DEF Probes
      <3> QED BY <2>1, <3>1, ProbeIsRepetition
    <2> QED BY <2>1, <2>2 DEF Case, Rep
  <1>4. RowFor(a) \in Probed /\ RowIsOf(RowFor(a), Probe)
    <2>1. Passes(Case(Probe), a.answer.events) \in BOOLEAN
      BY DEF Passes
    <2>2. a.end = "ok" /\ a.answer.catalog # "missing"
      BY <1>1 DEF Succeeded
    <2> QED BY <1>3, <2>1, <2>2, OutcomesAre DEF RowFor, RowIsOf, Probed
  <1>5. probed' \in Seq(Probed) /\ Len(probed') = n + 1 /\ probed'[n + 1] = RowFor(a)
        /\ \A i \in 1..n : probed'[i] = probed[i]
    BY <1>1, <1>2, <1>4 DEF TriggerInv, TriggerTypes
  <1>6. Probes' = Probes /\ attempt' = 1 /\ triggerAt' = "probe" /\ retries' = retries
        /\ config' = config /\ staged' = staged /\ status' = status
        /\ triggerStudy' = triggerStudy /\ bundle' = bundle
    BY <1>2 DEF GradeProbe, Probes
  <1>7. AttemptsAgree'
    <2>1. retries <= n + 1 /\ tried = n + retries /\ retries \in Nat /\ tried \in Nat
      BY <1>2 DEF TriggerInv, TriggerTypes, AttemptsAgree
    <2> HIDE DEF n
    <2>2. tried' = (n + 1) + retries
      BY <1>2, <2>1
    <2> QED BY <1>2, <1>5, <1>6, <2>1, <2>2 DEF AttemptsAgree
  <1>8. TriggerTypes'
    <2>1. tried' \in Nat
      BY <1>2 DEF TriggerInv, TriggerTypes
    <2>2. rendered' \in BOOLEAN
      BY <1>1
    <2> QED BY <1>2, <1>5, <1>6, <2>1, <2>2 DEF TriggerInv, TriggerTypes, GradeProbe
  <1>9. BundleIsAsFar'
    BY <1>2, <1>6 DEF TriggerInv, BundleIsAsFar
  <1>10. RowsAreEarned'
    <2> SUFFICES ASSUME NEW i \in 1..n + 1 PROVE RowIsOf(probed[i], i)'
      BY <1>5 DEF RowsAreEarned
    <2>1. RowIsOf(probed'[i], i)
      BY <1>2, <1>4, <1>5 DEF TriggerInv, RowsAreEarned
    <2> QED BY <1>6, <2>1 DEF RowIsOf, Case, Rep
  <1> QED BY <1>7, <1>8, <1>9, <1>10 DEF TriggerInv

LEMMA RetryKeeps == ASSUME TriggerInv, Retry PROVE TriggerInv'
  <1> DEFINE n == Len(probed)
  <1>1. /\ triggerAt = "probe" /\ Probe <= Probes /\ tried' = tried + 1
        /\ attempt = 1 /\ attempt' = 2 /\ retries' = retries + 1
        /\ triggerAt' = triggerAt /\ probed' = probed /\ Probes' = Probes
    BY DEF Retry, Attempt, Probes
  <1>2. n \in Nat /\ Probe = n + 1 /\ Probes \in Nat
    BY ProbesIsNatural DEF TriggerInv, TriggerTypes, Probe
  <1>3. tried = n + retries /\ retries \in Nat /\ tried \in Nat /\ retries <= n
    BY <1>1, <1>2 DEF TriggerInv, TriggerTypes, AttemptsAgree
  <1> HIDE DEF n
  <1>4. tried' = n + retries' /\ retries' \in Nat /\ tried' \in Nat
        /\ retries' <= n + 1 /\ n < Probes
    BY <1>1, <1>2, <1>3
  <1>5. TriggerTypes'
    BY <1>1, <1>4 DEF TriggerInv, TriggerTypes, Retry
  <1>6. AttemptsAgree'
    BY <1>1, <1>2, <1>4 DEF AttemptsAgree, n
  <1>7. BundleIsAsFar'
    BY <1>1 DEF TriggerInv, BundleIsAsFar, Retry
  <1>8. RowsAreEarned'
    BY DEF TriggerInv, RowsAreEarned, RowIsOf, Case, Rep, Retry
  <1> QED BY <1>5, <1>6, <1>7, <1>8 DEF TriggerInv

LEMMA FailTwiceKeeps == ASSUME TriggerInv, FailTwice PROVE TriggerInv'
  <1> DEFINE n == Len(probed)
  <1>1. /\ triggerAt = "probe" /\ Probe <= Probes /\ tried' = tried + 1
        /\ attempt = 2 /\ attempt' = attempt /\ retries' = retries
        /\ triggerAt' = "evidence" /\ probed' = probed /\ Probes' = Probes
    BY DEF FailTwice, Attempt, Probes
  <1>2. n \in Nat /\ Probe = n + 1 /\ Probes \in Nat
    BY ProbesIsNatural DEF TriggerInv, TriggerTypes, Probe
  <1>3. tried = n + retries /\ retries \in Nat /\ tried \in Nat /\ retries <= n + 1 /\ n < Probes
    BY <1>1, <1>2 DEF TriggerInv, TriggerTypes, AttemptsAgree
  <1> HIDE DEF n
  <1>4. tried' = n + retries' + 1 /\ retries' \in Nat /\ tried' \in Nat
    BY <1>1, <1>2, <1>3
  <1>5. TriggerTypes'
    BY <1>1, <1>4 DEF TriggerInv, TriggerTypes, FailTwice
  <1>6. AttemptsAgree'
    BY <1>1, <1>2, <1>3, <1>4 DEF AttemptsAgree, n
  <1>7. BundleIsAsFar'
    BY <1>1 DEF TriggerInv, BundleIsAsFar, FailTwice
  <1>8. RowsAreEarned'
    BY DEF TriggerInv, RowsAreEarned, RowIsOf, Case, Rep, FailTwice
  <1> QED BY <1>5, <1>6, <1>7, <1>8 DEF TriggerInv

\* A study that ends without a result keeps only its number and its evidence.
LEMMA FailedKeeps ==
    ASSUME TriggerInv, Forget, triggerAt' = "idle", status' = "failed",
           UNCHANGED <<triggerStudy, config, staged, bundle, triggerBroker, plugin, outside>>,
           \A e \in kept' : e.study \in 1..triggerStudy /\ e.rep \in 1..Reps
    PROVE  TriggerInv'
  <1>1. config' = config /\ config'.selected \in Seq(CorpusCase)
    BY DEF TriggerInv, TriggerTypes
  <1>2. /\ probed' \in Seq(Probed) /\ Len(probed') = 0 /\ probed' = << >>
        /\ attempt' \in 1..2 /\ retries' \in Nat /\ tried' \in Nat /\ rendered' \in BOOLEAN
        /\ AttemptsAgree'
    BY <1>1, ForgottenIs
  <1>3. TriggerTypes'
    BY <1>1, <1>2 DEF TriggerInv, TriggerTypes
  <1>4. BundleIsAsFar'
    BY DEF BundleIsAsFar
  <1>5. RowsAreEarned'
    BY <1>2 DEF RowsAreEarned
  <1> QED BY <1>2, <1>3, <1>4, <1>5 DEF TriggerInv

LEMMA KeepEvidenceKeeps == ASSUME TriggerInv, KeepEvidence PROVE TriggerInv'
  <1>1. Probe \in 1..Probes /\ triggerStudy \in 1..triggerStudy
    <2>1. Len(probed) \in Nat /\ Len(probed) < Probes /\ Probes \in Nat
      BY ProbesIsNatural DEF TriggerInv, TriggerTypes, AttemptsAgree, KeepEvidence
    <2>2. triggerStudy >= 1 /\ triggerStudy \in Int
      BY TriggerConstants DEF TriggerInv, TriggerTypes, BundleIsAsFar, KeepEvidence
    <2> QED BY <2>1, <2>2 DEF Probe
  <1>2. Rep(Probe) \in 1..Reps
    <2>1. Len(config.selected) \in Nat
      BY DEF TriggerInv, TriggerTypes
    <2>2. Probe \in 1..Len(config.selected) * Reps
      BY <1>1 DEF Probes
    <2> QED BY <2>1, <2>2, ProbeIsRepetition DEF Rep
  <1>3. \A e \in kept' : e.study \in 1..triggerStudy /\ e.rep \in 1..Reps
    BY <1>1, <1>2 DEF KeepEvidence, TriggerInv, TriggerTypes
  <1> QED BY <1>3, FailedKeeps DEF KeepEvidence

LEMMA EndEarlyKeeps == ASSUME TriggerInv, EndEarly PROVE TriggerInv'
  BY FailedKeeps DEF EndEarly, TriggerInv, TriggerTypes

\* The rest changes neither the rows nor what they are of.
LEMMA RowsKept ==
    ASSUME TriggerInv, UNCHANGED <<config, probed, staged, attempt, retries, tried>>,
           triggerAt' # "evidence", triggerAt # "evidence"
    PROVE  Probes' = Probes /\ AttemptsAgree' /\ RowsAreEarned'
  BY DEF TriggerInv, AttemptsAgree, RowsAreEarned, RowIsOf, Case, Rep, Probes

LEMMA PublishResultsKeeps == ASSUME TriggerInv, PublishResults PROVE TriggerInv'
  <1>1. AttemptsAgree' /\ RowsAreEarned'
    BY RowsKept DEF PublishResults
  <1>2. Len(probed) = Probes
    <2>1. Len(probed) \in Nat /\ Probes \in Nat
      BY ProbesIsNatural DEF TriggerInv, TriggerTypes
    <2> QED BY <2>1 DEF PublishResults, TriggerInv, AttemptsAgree, Probe
  <1>3. triggerStudy \in Nat /\ Len(probed) \in Nat
    BY TriggerConstants DEF TriggerInv, TriggerTypes
  <1> DEFINE n == Len(probed)
             result == [study |-> triggerStudy, rows |-> n]
  <1>4. bundle'.results = result /\ bundle'.manifest = bundle.manifest
        /\ bundle' \in [results : [study : Nat, rows : Nat],
                        manifest : [study : Nat, retries : Nat, rendered : BOOLEAN]]
        /\ result.study = triggerStudy
    BY <1>3 DEF TriggerInv, TriggerTypes, PublishResults
  <1>5. TriggerTypes'
    BY <1>3, <1>4 DEF TriggerInv, TriggerTypes, PublishResults
  <1>6. BundleIsAsFar'
    <2>1. Probes' = Probes /\ Len(probed') = Len(probed)
      BY DEF PublishResults, Probes
    <2> QED BY <1>2, <1>4, <2>1 DEF TriggerInv, BundleIsAsFar, PublishResults
  <1> QED BY <1>1, <1>5, <1>6 DEF TriggerInv

LEMMA PublishManifestKeeps == ASSUME TriggerInv, PublishManifest PROVE TriggerInv'
  <1>1. AttemptsAgree' /\ RowsAreEarned'
    BY RowsKept DEF PublishManifest
  <1>3. triggerStudy \in Nat /\ retries \in Nat /\ rendered \in BOOLEAN
    BY TriggerConstants DEF TriggerInv, TriggerTypes
  <1> DEFINE account == [study |-> triggerStudy, retries |-> retries, rendered |-> rendered]
  <1>4. bundle'.manifest = account /\ bundle'.results = bundle.results
        /\ bundle' \in [results : [study : Nat, rows : Nat],
                        manifest : [study : Nat, retries : Nat, rendered : BOOLEAN]]
        /\ account.study = triggerStudy
    BY <1>3 DEF TriggerInv, TriggerTypes, PublishManifest
  <1>5. TriggerTypes'
    BY <1>3, <1>4 DEF TriggerInv, TriggerTypes, PublishManifest
  <1>6. BundleIsAsFar'
    <2>1. Probes' = Probes /\ Len(probed') = Len(probed)
      BY DEF PublishManifest, Probes
    <2> QED BY <1>4, <2>1 DEF TriggerInv, BundleIsAsFar, PublishManifest
  <1> QED BY <1>1, <1>5, <1>6 DEF TriggerInv

LEMMA EnforceKeeps == ASSUME TriggerInv, Enforce PROVE TriggerInv'
  <1>1. AttemptsAgree' /\ RowsAreEarned' /\ Probes' = Probes
    BY RowsKept DEF Enforce
  <1>2. status' \in {"passed", "failed"}
        /\ (status' = "passed" /\ config.enforced =>
              Violations(probed, config.selected, config.gates) = {})
    BY DEF Enforce
  <1>3. TriggerTypes'
    BY <1>2 DEF TriggerInv, TriggerTypes, Enforce
  <1>4. BundleIsAsFar'
    BY <1>1, <1>2 DEF TriggerInv, BundleIsAsFar, Enforce
  <1> QED BY <1>1, <1>3, <1>4 DEF TriggerInv

LEMMA EditOutsideKeeps == ASSUME TriggerInv, EditOutside PROVE TriggerInv'
  <1>1. TriggerTypes'
    BY TriggerConstants DEF TriggerInv, TriggerTypes, EditOutside
  <1>2. AttemptsAgree' /\ RowsAreEarned' /\ Probes' = Probes
    BY DEF TriggerInv, AttemptsAgree, RowsAreEarned, RowIsOf, Case, Rep, Probes, EditOutside
  <1>3. BundleIsAsFar'
    BY <1>2 DEF TriggerInv, BundleIsAsFar, EditOutside
  <1> QED BY <1>1, <1>2, <1>3 DEF TriggerInv

LEMMA NextTriggerInv == ASSUME TriggerInv, [TriggerNext]_triggerVars PROVE TriggerInv'
  <1>1. CASE UNCHANGED triggerVars
    <2>1. /\ triggerStudy' = triggerStudy /\ triggerAt' = triggerAt /\ config' = config
          /\ attempt' = attempt /\ probed' = probed /\ tried' = tried /\ retries' = retries
          /\ rendered' = rendered /\ staged' = staged /\ status' = status /\ kept' = kept
          /\ bundle' = bundle /\ triggerBroker' = triggerBroker /\ plugin' = plugin
          /\ outside' = outside
      BY <1>1 DEF triggerVars
    <2>2. Probes' = Probes
      BY <2>1 DEF Probes
    <2>3. TriggerTypes'
      BY <2>1 DEF TriggerInv, TriggerTypes
    <2>4. AttemptsAgree'
      BY <2>1, <2>2 DEF TriggerInv, AttemptsAgree
    <2>5. RowsAreEarned'
      BY <2>1 DEF TriggerInv, RowsAreEarned, RowIsOf, Case, Rep
    <2>6. BundleIsAsFar'
      BY <2>1, <2>2 DEF TriggerInv, BundleIsAsFar
    <2> QED BY <2>3, <2>4, <2>5, <2>6 DEF TriggerInv
  <1>2. CASE TriggerNext
    BY <1>2, StartStudyKeeps, StagePluginKeeps, GradeProbeKeeps, RetryKeeps, FailTwiceKeeps,
       KeepEvidenceKeeps, PublishResultsKeeps, PublishManifestKeeps, EnforceKeeps, EndEarlyKeeps,
       EditOutsideKeeps DEF TriggerNext
  <1> QED BY <1>1, <1>2

LEMMA PublishedSays == ASSUME TriggerInv PROVE PublishedIsWhole
  <1> SUFFICES ASSUME status = "passed" PROVE PublishedIsWhole
    BY DEF PublishedIsWhole
  <1> DEFINE L == Len(config.selected)
  <1>1. Len(probed) = Probes /\ Admitted(config.selected, config.gates) /\ triggerAt # "evidence"
        /\ bundle.results = [study |-> triggerStudy, rows |-> Len(probed)]
        /\ bundle.manifest = [study |-> triggerStudy, retries |-> retries, rendered |-> rendered]
    BY DEF TriggerInv, BundleIsAsFar
  <1>2. L \in Nat /\ DOMAIN config.selected = 1..L /\ Probes = L * Reps
        /\ DOMAIN probed = 1..L * Reps
    BY <1>1 DEF TriggerInv, TriggerTypes, Probes
  <1>3. bundle.manifest.retries + bundle.results.rows = tried
    <2> DEFINE n == Len(probed)
    <2>1. n \in Nat /\ retries \in Nat /\ tried = n + retries
      BY <1>1 DEF TriggerInv, TriggerTypes, AttemptsAgree
    <2> HIDE DEF n
    <2>2. bundle.manifest.retries = retries /\ bundle.results.rows = n
      BY <1>1 DEF n
    <2> QED BY <2>1, <2>2
  <1>4. \A n \in 1..L * Reps : RowIsOf(probed[n], n)
    BY <1>1, <1>2 DEF TriggerInv, RowsAreEarned
  <1>5. ASSUME NEW c \in ToSet(config.selected), NEW rep \in 1..Reps
        PROVE  Cardinality({i \in DOMAIN probed : probed[i].id = c.id /\ probed[i].rep = rep}) = 1
    <2> DEFINE these == {i \in DOMAIN probed : probed[i].id = c.id /\ probed[i].rep = rep}
    <2>1. PICK m \in 1..L : c = config.selected[m]
      BY <1>2 DEF ToSet
    <2>2. PICK k \in 1..L * Reps :
            /\ ((k - 1) \div Reps) + 1 = m /\ ((k - 1) % Reps) + 1 = rep
            /\ \A n \in 1..L * Reps :
                 ((n - 1) \div Reps) + 1 = m /\ ((n - 1) % Reps) + 1 = rep => n = k
      <3> HIDE DEF L
      <3> QED BY <1>2, RepetitionIsProbe
    <2>3. k \in these
      <3>1. Case(k) = c /\ Rep(k) = rep
        BY <2>1, <2>2 DEF Case, Rep
      <3> QED BY <1>2, <1>4, <3>1 DEF RowIsOf
    <2>4. ASSUME NEW n \in these PROVE n = k
      <3>1. n \in 1..L * Reps /\ Case(n).id = c.id /\ Rep(n) = rep
        BY <1>2, <1>4 DEF RowIsOf
      <3>2. ((n - 1) \div Reps) + 1 \in 1..L
        <4> HIDE DEF L, these
        <4> QED BY <1>2, <3>1, ProbeIsRepetition
      <3>3. ((n - 1) \div Reps) + 1 = m
        BY <1>1, <1>2, <2>1, <3>1, <3>2 DEF Case, Admitted
      <3> QED BY <2>2, <3>1, <3>3 DEF Rep
    <2>5. these = {k}
      BY <2>3, <2>4
    <2> HIDE DEF these
    <2>6. Cardinality(these) = 1
      BY <2>5, FS_Singleton
    <2> QED BY <2>6 DEF these
  <1>6. \A i \in DOMAIN probed :
          /\ probed[i].from.end = "ok" /\ probed[i].from.answer.catalog # "missing"
          /\ probed[i].from.by = PinnedBroker /\ probed[i].from.plugin = staged
    BY <1>2, <1>4 DEF RowIsOf
  <1>7. bundle.manifest.study = triggerStudy
    BY <1>1
  <1> QED BY <1>1, <1>3, <1>5, <1>6, <1>7 DEF PublishedIsWhole

\* What a row that passed says of its case's selections.
LEMMA PassesSays ==
    ASSUME NEW c, NEW selections, Passes(c, selections)
    PROVE  /\ \A k \in DOMAIN selections :
                selections[k].path \in Shipped => selections[k].path \in c.allowed \cup {c.expected}
           /\ c.expected # NoSkill =>
                \E k \in DOMAIN selections :
                  selections[k].path = c.expected /\ selections[k].rc = 0
  BY DEF Passes

LEMMA EnforcedSays == ASSUME TriggerInv PROVE EnforcedMeansMet
  <1> SUFFICES ASSUME status = "passed", config.enforced, NEW i \in DOMAIN config.selected
               PROVE  LET c == config.selected[i]
                          mine == {n \in DOMAIN probed : probed[n].id = c.id}
                          SelectedPaths(n, rcs) ==
                            {probed[n].from.answer.events[k].path :
                               k \in {l \in DOMAIN probed[n].from.answer.events :
                                        probed[n].from.answer.events[l].rc \in rcs}}
                          clean == {n \in mine : (SelectedPaths(n, {0, 1}) \cap Shipped)
                                                   \subseteq c.allowed \cup {c.expected}}
                          met == {n \in clean : c.expected \in SelectedPaths(n, {0})} IN
                        IF c.expected # NoSkill
                        THEN Cardinality(met) * 100
                               >= MinRecall(config.gates, c) * Cardinality(mine)
                        ELSE (Cardinality(mine) - Cardinality(clean)) * 100
                               <= MaxFalse(config.gates, c) * Cardinality(mine)
    BY DEF EnforcedMeansMet, MinRecall, MaxFalse
  <1> DEFINE L == Len(config.selected)
             c == config.selected[i]
             mine == {n \in DOMAIN probed : probed[n].id = c.id}
             SelectedPaths(n, rcs) ==
               {probed[n].from.answer.events[k].path :
                  k \in {l \in DOMAIN probed[n].from.answer.events :
                           probed[n].from.answer.events[l].rc \in rcs}}
             clean == {n \in mine : (SelectedPaths(n, {0, 1}) \cap Shipped)
                                      \subseteq c.allowed \cup {c.expected}}
             met == {n \in clean : c.expected \in SelectedPaths(n, {0})}
             passing == {n \in mine : probed[n].verdict}
  <1>1. Len(probed) = Probes /\ Admitted(config.selected, config.gates)
        /\ Violations(probed, config.selected, config.gates) = {}
    BY DEF TriggerInv, BundleIsAsFar
  <1>2. L \in Nat /\ DOMAIN config.selected = 1..L /\ DOMAIN probed = 1..L * Reps
        /\ L * Reps \in Nat
    <2>1. Probes \in Nat
      BY ProbesIsNatural DEF TriggerInv, TriggerTypes
    <2> QED BY <1>1, <2>1 DEF TriggerInv, TriggerTypes, Probes
  <1>3. IsFiniteSet(mine)
    <2>1. IsFiniteSet(1..L * Reps)
      <3> DEFINE y == L * Reps
      <3>1. y \in Int
        BY <1>2
      <3> HIDE DEF y
      <3>2. IsFiniteSet(1..y)
        BY <3>1, FS_Interval
      <3> QED BY <3>2 DEF y
    <2>2. mine \subseteq 1..L * Reps
      BY <1>2
    <2> HIDE DEF mine
    <2> QED BY <2>1, <2>2, FS_Subset
  <1>4. ASSUME NEW n \in passing
        PROVE  n \in clean /\ (c.expected # NoSkill => n \in met)
    <2> DEFINE selections == probed[n].from.answer.events
    <2>1. n \in 1..L * Reps /\ RowIsOf(probed[n], n)
      BY <1>1, <1>2 DEF TriggerInv, RowsAreEarned, Probes
    <2>2. ((n - 1) \div Reps) + 1 \in 1..L
      <3> HIDE DEF L, passing
      <3> QED BY <1>2, <2>1, ProbeIsRepetition
    <2>3. ((n - 1) \div Reps) + 1 = i
      BY <1>1, <1>2, <2>1, <2>2 DEF RowIsOf, Case, Admitted
    <2>4. Case(n) = c
      BY <2>3 DEF Case
    <2>5. Passes(c, selections)
      BY <2>1, <2>4 DEF RowIsOf
    <2>6. /\ \A k \in DOMAIN selections :
               selections[k].path \in Shipped => selections[k].path \in c.allowed \cup {c.expected}
          /\ c.expected # NoSkill =>
               \E k \in DOMAIN selections :
                 selections[k].path = c.expected /\ selections[k].rc = 0
      <3> HIDE DEF c, selections
      <3> QED BY <2>5, PassesSays
    <2>7. n \in mine
      OBVIOUS
    <2>8. (SelectedPaths(n, {0, 1}) \cap Shipped) \subseteq c.allowed \cup {c.expected}
      BY <2>6
    <2>9. c.expected # NoSkill => c.expected \in SelectedPaths(n, {0})
      BY <2>6
    <2> QED BY <2>7, <2>8, <2>9
  <1> DEFINE total == Cardinality(mine)
             pass == Cardinality(passing)
             ofClean == Cardinality(clean)
             ofMet == Cardinality(met)
  <1>5. total \in Nat /\ pass \in Nat /\ ofClean \in Nat /\ ofMet \in Nat
        /\ pass <= ofClean /\ (c.expected # NoSkill => pass <= ofMet) /\ ofClean <= total
    <2>1. passing \subseteq mine /\ clean \subseteq mine /\ met \subseteq mine
          /\ passing \subseteq clean /\ (c.expected # NoSkill => passing \subseteq met)
      BY <1>4
    <2> HIDE DEF mine, passing, clean, met
    <2>2. IsFiniteSet(passing) /\ IsFiniteSet(clean) /\ IsFiniteSet(met)
      BY <1>3, <2>1, FS_Subset
    <2>3. total \in Nat /\ pass \in Nat /\ ofClean \in Nat /\ ofMet \in Nat
      BY <1>3, <2>2, FS_CardinalityType
    <2>4. pass <= ofClean /\ ofClean <= total
      BY <1>3, <2>1, <2>2, FS_Subset
    <2>5. c.expected # NoSkill => pass <= ofMet
      BY <2>1, <2>2, FS_Subset
    <2> QED BY <2>3, <2>4, <2>5
  <1>6. ~CaseViolates(probed, config.gates, c)
    <2>1. c \in ToSet(config.selected)
      BY DEF ToSet
    <2> QED BY <1>1, <2>1 DEF Violations
  <1>7. Tally(probed, c) = [total |-> total, pass |-> pass]
    BY DEF Tally
  <1> DEFINE least == MinRecall(config.gates, c)
             most == MaxFalse(config.gates, c)
  <1>8. least \in 0..100 /\ most \in 0..100
    BY <1>1 DEF Admitted, MinRecall, MaxFalse
  <1>9. IF c.expected # NoSkill THEN ~(pass * 100 < least * total)
        ELSE ~((total - pass) * 100 > most * total)
    <2> HIDE DEF total, pass, c
    <2> QED BY <1>6, <1>7 DEF CaseViolates
  <1>10. IF c.expected # NoSkill THEN ofMet * 100 >= least * total
         ELSE (total - ofClean) * 100 <= most * total
    <2> HIDE DEF total, pass, ofClean, ofMet, least, most, c
    <2> DEFINE x == least * total
               y == most * total
    <2>1. x \in Nat /\ y \in Nat
      BY <1>5, <1>8
    <2> HIDE DEF x, y
    <2>2. IF c.expected # NoSkill THEN ~(pass * 100 < x) ELSE ~((total - pass) * 100 > y)
      BY <1>9 DEF x, y
    <2>3. IF c.expected # NoSkill THEN ofMet * 100 >= x ELSE (total - ofClean) * 100 <= y
      BY <1>5, <2>1, <2>2
    <2> QED BY <2>3 DEF x, y
  <1> QED BY <1>10

LEMMA TriggerTypeSays == ASSUME TriggerInv PROVE TriggerTypeOK
  <1> DEFINE n == Len(probed)
  <1>1. n \in Nat /\ Probes \in Nat /\ n <= Probes /\ retries \in Nat /\ tried \in Nat
    BY ProbesIsNatural DEF TriggerInv, TriggerTypes, AttemptsAgree
  <1>2. retries <= n + 1 /\ tried <= 2 * Probes
    <2>1. CASE attempt = 1
      <3>1. retries <= n /\ triggerAt # "evidence" /\ tried = n + retries + 0
        BY <2>1 DEF TriggerInv, AttemptsAgree
      <3> HIDE DEF n
      <3> QED BY <1>1, <3>1
    <2>2. CASE attempt = 2
      <3>1. retries <= n + 1 /\ n < Probes /\ tried <= n + retries + 1
        <4>1. retries <= n + 1 /\ n < Probes
              /\ tried = n + retries + (IF triggerAt = "evidence" THEN 1 ELSE 0)
          BY <2>2 DEF TriggerInv, AttemptsAgree
        <4> HIDE DEF n
        <4> QED BY <1>1, <4>1
      <3> HIDE DEF n
      <3> QED BY <1>1, <3>1
    <2> QED BY <2>1, <2>2 DEF TriggerInv, TriggerTypes
  <1>3. retries \in 0..n + 1 /\ tried \in 0..2 * Probes
    <2> HIDE DEF n
    <2> QED BY <1>1, <1>2
  <1>4. bundle.results.study \in 0..triggerStudy /\ bundle.manifest.study \in 0..triggerStudy
    BY TriggerConstants DEF TriggerInv, TriggerTypes
  <1> QED BY <1>1, <1>3, <1>4 DEF TriggerInv, TriggerTypes, TriggerTypeOK

LEMMA TriggerInvSays ==
    ASSUME TriggerInv
    PROVE  TriggerTypeOK /\ PublishedIsWhole /\ EnforcedMeansMet
  BY TriggerTypeSays, PublishedSays, EnforcedSays

\* Only the step that publishes the rows of a whole study changes those under publish/.
LEMMA LeavesSays == ASSUME TriggerInv, [TriggerNext]_triggerVars PROVE LeavesBundle
  <1> SUFFICES ASSUME bundle'.results # bundle.results PROVE Len(probed) = Probes /\ Probes > 0
    BY DEF LeavesBundle
  <1>1. PublishResults
    <2>1. CASE PublishManifest
      BY <2>1 DEF PublishManifest, TriggerInv, TriggerTypes
    <2> QED BY <2>1 DEF TriggerNext, triggerVars, StartStudy, StagePlugin, GradeProbe, Retry,
               FailTwice, KeepEvidence, Enforce, EndEarly, EditOutside
  <1>2. Len(probed) \in Nat /\ Probes \in Nat /\ Probes > 0
    BY <1>1, ProbesIsNatural
       DEF PublishResults, TriggerInv, TriggerTypes, BundleIsAsFar, Admitted
  <1> QED BY <1>1, <1>2 DEF PublishResults, TriggerInv, AttemptsAgree, Probe

LEMMA TriggerSteps ==
    ASSUME [Next]_evaluationVars, part' = "trigger"
    PROVE  part = "trigger" /\ [TriggerNext]_triggerVars
  BY DEF Next, evaluationVars, Only, BrokerStep, InputsStep, CaseStep, TddStep, PlanStep,
     AcceptanceStep, TriggerStep, ScoringStep, TraceStep, ProofStep

\* For any corpora, gates, filters and answers, and any edits meanwhile, a trigger study that
\* exits 0 has published every probe of its own, and under enforcement has met every gate; one
\* that does not leaves the published rows alone.  For any schedule and deviations, a repetition
\* of resume-proof passes only when the second session took up what the first one left, and one
\* that fails had that to take up.
THEOREM StudyReportsAreEarnedHolds == Spec => StudyReportsAreEarned
  <1> DEFINE Inv == (part = "trigger" => TriggerInv) /\ (part = "proof" => ProofInv)
  <1>1. Init => Inv
    BY InitTriggerInv, InitProofInv DEF Init
  <1>2. Inv /\ [Next]_evaluationVars => Inv'
    BY TriggerSteps, NextTriggerInv, ProofSteps, NextProofInv
  <1>3. Inv => /\ part = "trigger" => TriggerTypeOK /\ PublishedIsWhole /\ EnforcedMeansMet
               /\ part = "proof" => ProofTypeOK /\ PassIsARecovery /\ FailureHadAChance
    BY TriggerInvSays, ProofInvSays
  <1>4. Inv /\ [Next]_evaluationVars => [part = "trigger" => LeavesBundle]_triggerVars
    <2> SUFFICES ASSUME Inv, [Next]_evaluationVars, part = "trigger" PROVE LeavesBundle
      OBVIOUS
    <2>1. part' = part
      BY DEF Next, evaluationVars, Only, BrokerStep, InputsStep, CaseStep, TddStep, PlanStep,
         AcceptanceStep, TriggerStep, ScoringStep, TraceStep, ProofStep
    <2> QED BY <2>1, TriggerSteps, LeavesSays
  <1> QED BY <1>1, <1>2, <1>3, <1>4, PTL DEF Spec, StudyReportsAreEarned
===============================================================================
