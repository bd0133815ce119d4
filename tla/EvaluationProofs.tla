--------------------------- MODULE EvaluationProofs ---------------------------
(***************************************************************************)
(* Proofs about the parts of Evaluation that are of one arm: the broker,   *)
(* the case it is graded on, the TDD evidence, the dependency plan and the *)
(* trace (StudyProofs has those of a whole study).  A part's invariant is  *)
(* proved of the part's own next-state relation, and Evaluation steps one  *)
(* part at a time: part is fixed when a behavior starts, so an invariant   *)
(* is of the form part = "x" => Inv.                                       *)
(***************************************************************************)
EXTENDS Evaluation, FiniteSetTheorems, SequenceTheorems, WellFoundedInduction, TLAPS

-----------------------------------------------------------------------------
(* Sequences: what is pushed, popped, concatenated; a set as a sequence *)

Elements(s) == {s[i] : i \in 1..Len(s)}
Distinct(s) == \A i, j \in 1..Len(s) : s[i] = s[j] => i = j

LEMMA Pushed ==
    ASSUME NEW S, NEW s \in Seq(S), Distinct(s), NEW x \in S, x \notin Elements(s)
    PROVE  /\ Append(s, x) \in Seq(S) /\ Len(Append(s, x)) = Len(s) + 1
           /\ Distinct(Append(s, x))
           /\ Elements(Append(s, x)) = Elements(s) \cup {x}
           /\ Append(s, x)[Len(s) + 1] = x
           /\ \A i \in 1..Len(s) : Append(s, x)[i] = s[i]
  <1>1. /\ Append(s, x) \in Seq(S) /\ Len(Append(s, x)) = Len(s) + 1
        /\ Append(s, x)[Len(s) + 1] = x
        /\ \A i \in 1..Len(s) : Append(s, x)[i] = s[i]
    OBVIOUS
  <1>2. Distinct(Append(s, x))
    BY <1>1 DEF Distinct, Elements
  <1>3. Elements(Append(s, x)) = Elements(s) \cup {x}
    <2>1. \A i \in 1..Len(s) + 1 : i \in 1..Len(s) \/ i = Len(s) + 1
      OBVIOUS
    <2> QED BY <1>1, <2>1 DEF Elements
  <1> QED BY <1>1, <1>2, <1>3

LEMMA Popped ==
    ASSUME NEW S, NEW s \in Seq(S), Distinct(s), Len(s) > 0
    PROVE  LET f == SubSeq(s, 1, Len(s) - 1) IN
             /\ f \in Seq(S) /\ Len(f) = Len(s) - 1 /\ Distinct(f)
             /\ \A i \in 1..Len(s) - 1 : f[i] = s[i]
             /\ Elements(f) = Elements(s) \ {s[Len(s)]}
  <1> DEFINE n == Len(s) - 1
             f == SubSeq(s, 1, n)
  <1>0. n \in Nat /\ Len(s) = n + 1 /\ \A i \in 1..n : i \in 1..Len(s) /\ s[i] \in S
    BY LenProperties
  <1> HIDE DEF n
  <1>a. /\ f \in Seq(S)
        /\ Len(f) = IF 1 <= n THEN n - 1 + 1 ELSE 0
        /\ \A i \in 1 .. n - 1 + 1 : f[i] = s[1 + i - 1]
    BY <1>0, SubSeqProperties
  <1> HIDE DEF f
  <1>1. f \in Seq(S) /\ Len(f) = n /\ \A i \in 1..n : f[i] = s[i]
    BY <1>0, <1>a
  <1>2. Distinct(f)
    BY <1>0, <1>1 DEF Distinct
  <1>3. Elements(f) = Elements(s) \ {s[Len(s)]}
    <2>1. ASSUME NEW x \in Elements(f) PROVE x \in Elements(s) \ {s[Len(s)]}
      <3>1. PICK i \in 1..n : x = s[i]
        BY <1>1 DEF Elements
      <3> QED BY <1>0, <3>1 DEF Elements, Distinct
    <2>2. ASSUME NEW x \in Elements(s), x # s[Len(s)] PROVE x \in Elements(f)
      <3>1. PICK i \in 1..Len(s) : x = s[i]
        BY DEF Elements
      <3>2. i \in 1..n
        BY <1>0, <2>2, <3>1
      <3> QED BY <1>1, <3>1, <3>2 DEF Elements
    <2> QED BY <2>1, <2>2
  <1> QED BY <1>1, <1>2, <1>3 DEF f, n

LEMMA Joined ==
    ASSUME NEW S, NEW s \in Seq(S), NEW t \in Seq(S), Distinct(s), Distinct(t),
           Elements(s) \cap Elements(t) = {}
    PROVE  /\ s \o t \in Seq(S) /\ Len(s \o t) = Len(s) + Len(t)
           /\ Distinct(s \o t)
           /\ Elements(s \o t) = Elements(s) \cup Elements(t)
           /\ \A i \in 1..Len(t) : (s \o t)[Len(s) + i] = t[i]
  <1>1. /\ s \o t \in Seq(S) /\ Len(s \o t) = Len(s) + Len(t)
        /\ \A i \in 1..Len(s) + Len(t) :
             (s \o t)[i] = IF i <= Len(s) THEN s[i] ELSE t[i - Len(s)]
        /\ Len(s) \in Nat /\ Len(t) \in Nat
    BY ConcatProperties
  <1>2. \A i \in 1..Len(s) : (s \o t)[i] = s[i]
    BY <1>1
  <1>3. \A i \in 1..Len(t) : (s \o t)[Len(s) + i] = t[i]
    <2> TAKE i \in 1..Len(t)
    <2>1. Len(s) + i \in 1..Len(s) + Len(t) /\ ~(Len(s) + i <= Len(s)) /\ Len(s) + i - Len(s) = i
      BY <1>1
    <2> QED BY <1>1, <2>1
  <1> DEFINE u == s \o t
  <1>4. \A i \in 1..Len(u) : i \in 1..Len(s) \/ \E k \in 1..Len(t) : i = Len(s) + k
    <2> TAKE i \in 1..Len(u)
    <2>1. CASE i > Len(s)
      <3>1. i - Len(s) \in 1..Len(t) /\ i = Len(s) + (i - Len(s))
        BY <1>1, <2>1
      <3> QED BY <3>1
    <2> QED BY <1>1, <2>1
  <1>5. (\A i \in 1..Len(s) : i \in 1..Len(u)) /\ (\A i \in 1..Len(t) : Len(s) + i \in 1..Len(u))
    BY <1>1
  <1>6. /\ \A i \in 1..Len(s) : u[i] = s[i]
        /\ \A i \in 1..Len(t) : u[Len(s) + i] = t[i]
    BY <1>2, <1>3
  <1> HIDE DEF u
  <1>7. Elements(u) = Elements(s) \cup Elements(t)
    <2>1. ASSUME NEW x \in Elements(u) PROVE x \in Elements(s) \cup Elements(t)
      <3>1. PICK i \in 1..Len(u) : x = u[i]
        BY DEF Elements
      <3> QED BY <1>4, <1>6, <3>1 DEF Elements
    <2>2. Elements(s) \subseteq Elements(u)
      BY <1>5, <1>6 DEF Elements
    <2>3. Elements(t) \subseteq Elements(u)
      BY <1>5, <1>6 DEF Elements
    <2> QED BY <2>1, <2>2, <2>3
  <1>8. Distinct(u)
    <2> SUFFICES ASSUME NEW i \in 1..Len(u), NEW j \in 1..Len(u), u[i] = u[j] PROVE i = j
      BY DEF Distinct
    <2> DEFINE After(m) == \E k \in 1..Len(t) : m = Len(s) + k
    <2>1. CASE i \in 1..Len(s) /\ j \in 1..Len(s)
      BY <1>6, <2>1 DEF Distinct
    <2>2. CASE i \in 1..Len(s) /\ After(j)
      <3>1. u[i] \in Elements(s) /\ u[j] \in Elements(t)
        BY <1>6, <2>2 DEF Elements
      <3> QED BY <3>1
    <2>3. CASE After(i) /\ j \in 1..Len(s)
      <3>1. u[i] \in Elements(t) /\ u[j] \in Elements(s)
        BY <1>6, <2>3 DEF Elements
      <3> QED BY <3>1
    <2>4. CASE After(i) /\ After(j)
      BY <1>6, <2>4 DEF Distinct
    <2>5. (i \in 1..Len(s) \/ After(i)) /\ (j \in 1..Len(s) \/ After(j))
      BY <1>4
    <2> HIDE DEF After
    <2> QED BY ONLY <2>1, <2>2, <2>3, <2>4, <2>5
  <1> QED BY <1>1, <1>3, <1>7, <1>8 DEF u

\* A finite set as a sequence: each element once.
LEMMA SequenceOfSet ==
    ASSUME NEW S, IsFiniteSet(S)
    PROVE  LET s == SetToSeq(S) IN s \in Seq(S) /\ Distinct(s) /\ Elements(s) = S
  <1> DEFINE n == Cardinality(S)
             s == SetToSeq(S)
  <1>1. n \in Nat /\ ExistsBijection(1..n, S)
    BY FS_CardinalityType
  <1>2. PICK f \in [1..n -> S] : IsInjective(f)
    BY <1>1 DEF ExistsBijection, Bijection, Injection, Surjection, IsInjective, IsInjective
  <1>3. s \in [1..n -> S] /\ IsInjective(s)
    BY <1>2 DEF SetToSeq
  <1>4. s \in Injection(1..n, S)
    BY <1>3 DEF Injection, IsInjective, IsInjective
  <1> HIDE DEF n
  <1>5. n = Cardinality(S)
    BY DEF n
  <1> HIDE DEF s
  <1>6. Cardinality(1..n) = n
    BY <1>1, FS_Interval
  <1>7. s \in Surjection(1..n, S)
    BY <1>4, <1>5, <1>6, FS_Injection
  <1>8. s \in Seq(S) /\ Len(s) = n
    BY <1>1, <1>3
  <1>9. Distinct(s)
    BY <1>3, <1>8 DEF Distinct, IsInjective
  <1>10. Elements(s) = S
    BY <1>7, <1>8, <1>3 DEF Elements, Surjection
  <1> QED BY <1>8, <1>9, <1>10 DEF s

\* A set of numbers has a least.
LEMMA Least ==
    ASSUME NEW S, S \subseteq Nat, S # {}
    PROVE  \E n \in S : \A m \in S : n <= m
  <1>1. PICK n \in S : \A m \in S : ~(<<m, n>> \in OpToRel(<, Nat))
    BY NatLessThanWellFounded, WFMin
  <1>2. \A m \in S : ~(m < n)
    BY <1>1 DEF OpToRel
  <1> QED BY <1>2

LEMMA Concatenated ==
    ASSUME NEW S, NEW s \in Seq(S), NEW t \in Seq(S)
    PROVE  /\ s \o t \in Seq(S) /\ Len(s \o t) = Len(s) + Len(t)
           /\ \A i \in 1..Len(s) : (s \o t)[i] = s[i]
           /\ \A i \in 1..Len(t) : (s \o t)[Len(s) + i] = t[i]
  <1> DEFINE u == s \o t
  <1>1. /\ u \in Seq(S) /\ Len(u) = Len(s) + Len(t)
        /\ \A i \in 1..Len(s) + Len(t) : u[i] = IF i <= Len(s) THEN s[i] ELSE t[i - Len(s)]
    BY ConcatProperties
  <1>2. Len(s) \in Nat /\ Len(t) \in Nat
    OBVIOUS
  <1> HIDE DEF u
  <1>3. \A i \in 1..Len(s) : u[i] = s[i]
    BY <1>1, <1>2
  <1>4. ASSUME NEW i \in 1..Len(t) PROVE u[Len(s) + i] = t[i]
    <2>1. Len(s) + i \in 1..Len(s) + Len(t) /\ ~(Len(s) + i <= Len(s)) /\ Len(s) + i - Len(s) = i
      BY <1>2
    <2> QED BY <2>1, <1>1
  <1> QED BY <1>1, <1>3, <1>4 DEF u

\* What is put before a sequence.
LEMMA Preceded ==
    ASSUME NEW S, NEW x \in S, NEW t \in Seq(S)
    PROVE  /\ <<x>> \o t \in Seq(S) /\ Len(<<x>> \o t) = Len(t) + 1
           /\ (<<x>> \o t)[1] = x
           /\ \A i \in 1..Len(t) : (<<x>> \o t)[i + 1] = t[i]
  <1>1. <<x>> \in Seq(S) /\ Len(<<x>>) = 1 /\ <<x>>[1] = x
    OBVIOUS
  <1>2. Len(t) \in Nat
    OBVIOUS
  <1> DEFINE s == <<x>>
  <1> HIDE DEF s
  <1>3. s \in Seq(S) /\ Len(s) = 1 /\ s[1] = x
    BY <1>1 DEF s
  <1>4. /\ s \o t \in Seq(S) /\ Len(s \o t) = 1 + Len(t)
        /\ (s \o t)[1] = x /\ \A i \in 1..Len(t) : (s \o t)[1 + i] = t[i]
    BY <1>3, Concatenated
  <1>5. \A i \in 1..Len(t) : i + 1 = 1 + i
    BY <1>2
  <1> QED BY <1>2, <1>4, <1>5 DEF s

\* A sequence that has each element once is as long as it has elements.
LEMMA LengthOfSet ==
    ASSUME NEW S, NEW s \in Seq(S), Distinct(s)
    PROVE  Cardinality(Elements(s)) = Len(s) /\ IsFiniteSet(Elements(s))
  <1>1. Len(s) \in Nat /\ s \in [1..Len(s) -> Elements(s)]
    BY DEF Elements
  <1>2. s \in Bijection(1..Len(s), Elements(s))
    BY <1>1 DEF Bijection, Injection, Surjection, IsInjective, Elements, Distinct
  <1>3. IsFiniteSet(1..Len(s)) /\ Cardinality(1..Len(s)) = Len(s)
    BY <1>1, FS_Interval
  <1> QED BY <1>1, <1>2, <1>3, FS_CountingElements, FS_Bijection DEF ExistsBijection

-----------------------------------------------------------------------------
(* A broker request (BrokerRun) *)

Resources == {"directory", "collector", "proxy", "monitor", "egress", "oracle_home"}
Effects == {"tracker_comment", "pr_comment"}
Marks == Effects \cup {"trace_complete"}
RunRecord ==
    [inventory : {"none", "candidate", "others"}, rc : {-1, 0, 1, 124, 125}, timedOut : BOOLEAN,
     whole : BOOLEAN, logged : SUBSET Effects, complete : BOOLEAN, events : Seq(Marks)]

BrokerPlaces ==
    {"request", "authenticate", "directory", "collector", "proxy", "version", "stage", "monitor",
     "egress", "launch", "actor", "seal", "read", "catalog", "oracle", "judging", "respond",
     "answering", "answered", "failing", "failed"}

BrokerTypes ==
    /\ at \in BrokerPlaces
    /\ req.harness \in {"claude", "codex"}
    /\ defers \in Seq(Resources) /\ held \subseteq Resources
    /\ late \in BOOLEAN
    /\ run \in RunRecord
    /\ tracker \in [dir : BOOLEAN, files : SUBSET TrackerFiles, made : BOOLEAN]
    /\ tracker.files # {} => tracker.dir
    /\ watches \in [TrackerFiles -> {"none", "file", "directory"}]
    /\ pending \in SUBSET Effects /\ touched \in SUBSET TrackerFiles
    /\ oracleRC \in {-1, 0, 1, 124}

\* What is open is what a deferred call will close, once; and which that is, place by place.
Base == {"directory", "collector", "proxy"}
Deferred(d) == Len(d) > 0 /\ Elements(d) \subseteq Base \cup {d[Len(d)]}
HeldIsDeferred == held = Elements(defers) /\ Distinct(defers)
DefersHere ==
    /\ at \in {"request", "authenticate", "directory", "answered", "failed"} => defers = << >>
    /\ at = "collector" => held \subseteq {"directory"}
    /\ at = "proxy" => held \subseteq {"directory", "collector"}
    /\ at \in {"version", "stage", "monitor", "oracle", "respond"} => held \subseteq Base
    /\ at = "egress" => UsesAppServer
    /\ at \in {"egress", "read", "catalog"} => Deferred(defers) /\ defers[Len(defers)] = "monitor"
    /\ at \in {"launch", "actor", "seal"} /\ ~UsesAppServer =>
         Deferred(defers) /\ defers[Len(defers)] = "monitor"
    /\ at \in {"launch", "actor", "seal"} /\ UsesAppServer =>
         /\ Len(defers) > 1 /\ held \subseteq Base \cup {"monitor", "egress"}
         /\ defers[Len(defers)] = "egress" /\ defers[Len(defers) - 1] = "monitor"
    /\ at = "judging" => Deferred(defers) /\ defers[Len(defers)] = "oracle_home"

\* The monitor: a file that is not watched has an event pending, as long as .tracker is the
\* directory it was.
MonitorWatches ==
    at \in {"egress", "launch", "actor", "seal", "read"} =>
      \A f \in TrackerFiles :
        /\ watches[f] = "file" => f \in tracker.files
        /\ watches[f] = "directory" /\ f \in tracker.files => Kind(f) \in pending
        /\ ~tracker.made /\ tracker.dir /\ watches[f] = "none" => Kind(f) \in pending
        /\ ~tracker.made /\ f \in touched => Kind(f) \in pending

BeforeActor ==
    {"request", "authenticate", "directory", "collector", "proxy", "version", "stage", "monitor",
     "egress", "launch"}
NothingYet ==
    /\ at \in BeforeActor => touched = {} /\ ~run.timedOut
    /\ at \in BeforeActor \cup {"actor", "seal", "read"} =>
         (touched = {} => run.logged = {} /\ pending = {})
    /\ at = "actor" => ~run.timedOut
    /\ at \in {"seal", "read"} /\ run.timedOut => run.rc = 124

\* The events of a run whose trace has been read.
AfterRead == {"catalog", "oracle", "judging", "respond", "answering", "answered"}
EventsTell ==
    at \in AfterRead =>
      /\ Distinct(run.events)
      /\ (run.rc = 0) <=> ("trace_complete" \in Elements(run.events))
      /\ "trace_complete" \in Elements(run.events) =>
           /\ run.events[Len(run.events)] = "trace_complete"
           /\ run.whole /\ ~run.timedOut
      /\ ~tracker.made => \A f \in touched : Kind(f) \in Elements(run.events)
      /\ touched = {} => Elements(run.events) \subseteq {"trace_complete"}

InventoryIsTheArms ==
    /\ req.harness = "codex" /\ at \in {"monitor", "egress", "launch", "actor", "seal"}
         => run.inventory = ExpectedInventory(req.arm)
    /\ at \in {"read"} \cup AfterRead => run.inventory = ExpectedInventory(req.arm)

AnswerIsTheRuns ==
    at \in {"answering", "answered"} =>
      /\ response.rc = run.rc /\ response.events = run.events
      /\ response.inventory = run.inventory

BrokerInv ==
    /\ BrokerTypes /\ HeldIsDeferred /\ DefersHere /\ MonitorWatches /\ NothingYet /\ EventsTell
    /\ InventoryIsTheArms /\ AnswerIsTheRuns

LEMMA InitBrokerInv == ASSUME BrokerInit PROVE BrokerInv
  <1>1. at = "request" /\ defers = << >> /\ held = {} /\ touched = {} /\ pending = {}
    BY DEF BrokerInit
  <1>2. BrokerTypes
    <2>1. tracker \in [dir : BOOLEAN, files : SUBSET TrackerFiles, made : BOOLEAN]
          /\ (tracker.files # {} => tracker.dir)
      BY BrokerConstants DEF BrokerInit
    <2>2. run \in RunRecord
      BY DEF BrokerInit, NoRun, NoRC, RunRecord
    <2>3. /\ at \in BrokerPlaces /\ req.harness \in {"claude", "codex"}
          /\ late \in BOOLEAN /\ oracleRC \in {-1, 0, 1, 124}
      BY <1>1, BrokerConstants DEF BrokerPlaces, BrokerInit, NoRC
    <2>4. watches \in [TrackerFiles -> {"none", "file", "directory"}]
      BY DEF BrokerInit
    <2> QED BY <1>1, <2>1, <2>2, <2>3, <2>4 DEF BrokerTypes
  <1>3. HeldIsDeferred /\ DefersHere
    BY <1>1 DEF HeldIsDeferred, DefersHere, Elements, Distinct
  <1>4. MonitorWatches /\ EventsTell /\ InventoryIsTheArms /\ AnswerIsTheRuns
    BY <1>1 DEF MonitorWatches, EventsTell, InventoryIsTheArms, AnswerIsTheRuns, AfterRead
  <1>5. NothingYet
    BY <1>1 DEF NothingYet, BrokerInit, NoRun
  <1> QED BY <1>2, <1>3, <1>4, <1>5 DEF BrokerInv

-----------------------------------------------------------------------------
(* What is held *)

LEMMA AcquireKeeps ==
    ASSUME BrokerTypes, HeldIsDeferred, NEW r \in Resources, r \notin held, Acquire(r)
    PROVE  /\ defers' \in Seq(Resources) /\ held' \subseteq Resources /\ HeldIsDeferred'
           /\ held' = held \cup {r} /\ Len(defers') = Len(defers) + 1
           /\ defers'[Len(defers')] = r /\ \A i \in 1..Len(defers) : defers'[i] = defers[i]
  BY Pushed DEF BrokerTypes, HeldIsDeferred, Acquire

LEMMA ReleaseKeeps ==
    ASSUME BrokerTypes, HeldIsDeferred, Len(defers) > 0,
           held' = held \ {defers[Len(defers)]}, defers' = Front(defers)
    PROVE  /\ defers' \in Seq(Resources) /\ held' \subseteq Resources /\ HeldIsDeferred'
           /\ Len(defers') = Len(defers) - 1
           /\ \A i \in 1..Len(defers') : defers'[i] = defers[i]
  <1>1. defers \in Seq(Resources) /\ Distinct(defers) /\ held = Elements(defers)
        /\ defers' = SubSeq(defers, 1, Len(defers) - 1) /\ Len(defers) \in Nat
    BY DEF BrokerTypes, HeldIsDeferred, Front
  <1>2. /\ defers' \in Seq(Resources) /\ Len(defers') = Len(defers) - 1 /\ Distinct(defers')
        /\ \A i \in 1..Len(defers) - 1 : defers'[i] = defers[i]
        /\ Elements(defers') = Elements(defers) \ {defers[Len(defers)]}
    BY <1>1, Popped
  <1> QED BY <1>1, <1>2 DEF HeldIsDeferred, BrokerTypes

DefersUnchanged ==
    \/ Validate \/ Authenticate \/ ReadVersion \/ Stage \/ Launch
    \/ ActorTouches \/ ActorMakesTracker \/ ActorLogs \/ ActorEnds
    \/ ActorKilled \/ ReadTrace \/ OracleSkipped \/ OracleTouches
    \/ Respond \/ DeadlineStrikes \/ StepFails \/ Failed

LEMMA EmptyHeld ==
    ASSUME BrokerTypes, HeldIsDeferred PROVE (held = {} <=> defers = << >>) /\ Len(defers) \in Nat
           /\ (Len(defers) = 0 <=> defers = << >>)
  <1>1. defers \in Seq(Resources) /\ held = Elements(defers)
    BY DEF BrokerTypes, HeldIsDeferred
  <1>2. defers # << >> => Len(defers) > 0
    BY <1>1
  <1>3. Len(defers) > 0 => defers[1] \in held
    BY <1>1 DEF Elements
  <1>4. defers = << >> => held = {}
    BY <1>1 DEF Elements
  <1> QED BY <1>1, <1>2, <1>3, <1>4

LEMMA StackStep ==
    ASSUME BrokerInv, BrokerNext
    PROVE  /\ defers' \in Seq(Resources) /\ held' \subseteq Resources /\ HeldIsDeferred'
           /\ DefersHere'
  <1>0. /\ BrokerTypes /\ HeldIsDeferred /\ DefersHere
        /\ defers \in Seq(Resources) /\ held \subseteq Resources /\ held = Elements(defers)
    BY DEF BrokerInv, BrokerTypes, HeldIsDeferred
  <1>e. /\ held = {} <=> defers = << >>
        /\ Len(defers) \in Nat /\ (Len(defers) = 0 <=> defers = << >>)
    BY <1>0, EmptyHeld
  <1>1. ASSUME DefersUnchanged
        PROVE  /\ defers' \in Seq(Resources) /\ held' \subseteq Resources /\ HeldIsDeferred'
               /\ DefersHere'
    <2>1. defers' = defers /\ held' = held /\ req' = req /\ creds' = creds
      BY <1>1 DEF DefersUnchanged, Validate, Authenticate, ReadVersion,
           Stage, Launch, ActorTouches, ActorMakesTracker,
           ActorLogs, ActorEnds, ActorKilled, ReadTrace,
           OracleSkipped, OracleTouches, Respond, DeadlineStrikes,
           StepFails, Failed
    <2>2. \/ at' = at
          \/ at = "request" /\ at' \in {"authenticate", "failed"}
          \/ at = "authenticate" /\ at' = "directory"
          \/ at = "version" /\ at' = "stage"
          \/ at = "stage" /\ at' = "monitor"
          \/ at = "launch" /\ at' = "actor"
          \/ at = "actor" /\ at' = "seal"
          \/ at = "read" /\ at' = "catalog"
          \/ at = "oracle" /\ at' = "respond"
          \/ at' \in {"answering", "failing"}
          \/ at' = "failed" /\ defers = << >>
      BY <1>1 DEF DefersUnchanged, Goto, Validate, Authenticate, ReadVersion,
           Stage, Launch, ActorTouches, ActorMakesTracker,
           ActorLogs, ActorEnds, ActorKilled, ReadTrace,
           OracleSkipped, OracleTouches, Respond, DeadlineStrikes,
           StepFails, Failed
    <2>3. UsesAppServer' = UsesAppServer
      BY <2>1 DEF UsesAppServer, Mode
    <2>4. Deferred(defers)' <=> Deferred(defers)
      BY <2>1 DEF Deferred, Elements
    <2>5. DefersHere'
      BY <1>0, <1>e, <2>1, <2>2, <2>3, <2>4 DEF DefersHere
    <2> QED BY <1>0, <2>1, <2>5 DEF HeldIsDeferred, Elements, Distinct
  <1>2. ASSUME NEW r \in Resources, r \notin held, Acquire(r), req' = req, creds' = creds,
               \/ at = "directory" /\ r = "directory" /\ at' = "collector"
               \/ at = "collector" /\ r = "collector" /\ at' \in {"proxy", "version"}
               \/ at = "proxy" /\ r = "proxy" /\ at' = "version"
               \/ /\ at = "monitor" /\ r = "monitor"
                  /\ at' = IF UsesAppServer THEN "egress" ELSE "launch"
               \/ at = "oracle" /\ r = "oracle_home" /\ at' = "judging"
        PROVE  /\ defers' \in Seq(Resources) /\ held' \subseteq Resources /\ HeldIsDeferred'
               /\ DefersHere'
    <2>1. /\ defers' \in Seq(Resources) /\ held' \subseteq Resources /\ HeldIsDeferred'
          /\ held' = held \cup {r} /\ Len(defers') = Len(defers) + 1
          /\ defers'[Len(defers')] = r /\ held' = Elements(defers)'
      BY <1>0, <1>2, AcquireKeeps DEF HeldIsDeferred
    <2>2. UsesAppServer' = UsesAppServer
      BY <1>2 DEF UsesAppServer, Mode
    <2>3. held \subseteq Base => Deferred(defers)'
      BY <1>e, <2>1 DEF Deferred
    <2> QED BY <1>0, <1>2, <2>1, <2>2, <2>3, <1>e DEF DefersHere, Base
  <1>3. ASSUME OpenDirectory \/ StartCollector \/ StartProxy
                 \/ StartMonitor \/ OracleStarts
        PROVE  /\ defers' \in Seq(Resources) /\ held' \subseteq Resources /\ HeldIsDeferred'
               /\ DefersHere'
    <2>1. CASE OpenDirectory
      BY <1>0, <1>2, <1>e, <2>1 DEF OpenDirectory, Goto, Resources, DefersHere
    <2>2. CASE StartCollector
      BY <1>0, <1>2, <2>2 DEF StartCollector, Goto, Resources, DefersHere
    <2>3. CASE StartProxy
      BY <1>0, <1>2, <2>3 DEF StartProxy, Goto, Resources, DefersHere
    <2>4. CASE StartMonitor
      BY <1>0, <1>2, <2>4 DEF StartMonitor, Goto, Resources, DefersHere, Base
    <2>5. CASE OracleStarts
      BY <1>0, <1>2, <2>5 DEF OracleStarts, Goto, Resources, DefersHere, Base
    <2> QED BY <1>3, <2>1, <2>2, <2>3, <2>4, <2>5
  <1>4. CASE StartEgress
    <2>1. at = "egress" /\ at' = "launch" /\ Acquire("egress") /\ req' = req /\ creds' = creds
      BY <1>4 DEF StartEgress, Goto
    <2>2. "egress" \in Resources /\ "egress" \notin held /\ held \subseteq Base \cup {"monitor"}
          /\ Len(defers) > 0 /\ defers[Len(defers)] = "monitor"
      BY <1>0, <2>1 DEF DefersHere, Deferred, Base, Resources
    <2>3. /\ defers' \in Seq(Resources) /\ held' \subseteq Resources /\ HeldIsDeferred'
          /\ held' = held \cup {"egress"} /\ Len(defers') = Len(defers) + 1
          /\ defers'[Len(defers')] = "egress" /\ defers'[Len(defers)] = "monitor"
          /\ held' = Elements(defers)'
      BY <1>0, <1>e, <2>1, <2>2, AcquireKeeps DEF HeldIsDeferred
    <2>4. UsesAppServer
      BY <1>0, <2>1 DEF DefersHere
    <2>5. UsesAppServer'
      BY <2>1, <2>4 DEF UsesAppServer, Mode
    <2>6. Len(defers') > 1 /\ Len(defers') - 1 = Len(defers)
      BY <1>e, <2>2, <2>3
    <2>7. held' \subseteq Base \cup {"monitor", "egress"}
      BY <2>2, <2>3
    <2> QED BY <2>1, <2>3, <2>5, <2>6, <2>7 DEF DefersHere
  <1>5. ASSUME Len(defers) > 0, held' = held \ {defers[Len(defers)]}, defers' = Front(defers)
        PROVE  /\ defers' \in Seq(Resources) /\ held' \subseteq Resources /\ HeldIsDeferred'
               /\ Len(defers') = Len(defers) - 1 /\ held' = Elements(defers)'
               /\ \A i \in 1..Len(defers') : defers'[i] = defers[i]
    BY <1>0, <1>5, ReleaseKeeps DEF HeldIsDeferred
  <1>6. ASSUME \/ Unwind
               \/ Release /\ defers # << >>
        PROVE  /\ defers' \in Seq(Resources) /\ held' \subseteq Resources /\ HeldIsDeferred'
               /\ DefersHere'
    <2>1. /\ Len(defers) > 0 /\ held' = held \ {defers[Len(defers)]} /\ defers' = Front(defers)
          /\ at' \in {"failing", "answering"}
      BY <1>e, <1>6 DEF Unwind, Release, Last
    <2> QED BY <1>5, <2>1 DEF DefersHere
  <1>7. CASE Release /\ defers = << >>
    <2>1. defers' = defers /\ held' = held /\ at' = "answered"
      BY <1>7 DEF Release, Goto
    <2> QED BY <1>0, <1>7, <2>1 DEF HeldIsDeferred, Elements, Distinct, DefersHere
  <1>8. CASE Seal
    <2>1. at = "seal" /\ at' = "read"
      BY <1>8 DEF Seal, Goto
    <2>2. CASE UsesAppServer
      <3>1. /\ Len(defers) > 1 /\ held \subseteq Base \cup {"monitor", "egress"}
            /\ defers[Len(defers)] = "egress" /\ defers[Len(defers) - 1] = "monitor"
        BY <1>0, <2>1, <2>2 DEF DefersHere
      <3>2. held' = held \ {defers[Len(defers)]} /\ defers' = Front(defers)
        BY <1>8, <2>2, <3>1 DEF Seal
      <3>3. /\ defers' \in Seq(Resources) /\ held' \subseteq Resources /\ HeldIsDeferred'
            /\ Len(defers') = Len(defers) - 1 /\ held' = Elements(defers)'
            /\ \A i \in 1..Len(defers') : defers'[i] = defers[i]
        BY <1>5, <3>1, <3>2
      <3>4. defers'[Len(defers')] = "monitor" /\ Len(defers') > 0
        BY <1>e, <3>1, <3>3
      <3>5. held' \subseteq Base \cup {"monitor"}
        BY <3>1, <3>2
      <3> QED BY <2>1, <3>3, <3>4, <3>5 DEF DefersHere, Deferred
    <2>3. CASE ~UsesAppServer
      <3>1. Deferred(defers) /\ defers[Len(defers)] = "monitor"
        BY <1>0, <2>1, <2>3 DEF DefersHere
      <3>2. defers' = defers /\ held' = held
        BY <1>0, <1>8, <2>3, <3>1 DEF Seal, Deferred, Base
      <3> QED BY <1>0, <2>1, <3>1, <3>2 DEF DefersHere, Deferred, HeldIsDeferred, Distinct, Elements
    <2> QED BY <2>2, <2>3
  <1>9. CASE CloseMonitor \/ OracleEnds
    <2>1. /\ at' \in {"oracle", "respond"} /\ defers' = Front(defers)
          /\ \/ at = "catalog" /\ held' = held \ {"monitor"}
             \/ at = "judging" /\ held' = held \ {"oracle_home"}
      BY <1>9 DEF CloseMonitor, OracleEnds, Goto
    <2>2. Deferred(defers) /\ held' = held \ {defers[Len(defers)]}
      BY <1>0, <2>1 DEF DefersHere
    <2>3. held' \subseteq Base
      BY <1>0, <2>2 DEF Deferred
    <2> QED BY <1>5, <2>1, <2>2, <2>3 DEF DefersHere, Deferred
  <1> QED
    BY <1>1, <1>3, <1>4, <1>6, <1>7, <1>8, <1>9 DEF DefersUnchanged, BrokerNext

-----------------------------------------------------------------------------
(* What the trace and the monitor tell *)

LEMMA EventsOfRun ==
    ASSUME BrokerTypes
    PROVE  LET e == WithEffects IN
             /\ e \in Seq(Marks) /\ Distinct(e)
             /\ Elements(e) =
                  run.logged \cup pending \cup (IF Complete THEN {"trace_complete"} ELSE {})
             /\ Complete => e[Len(e)] = "trace_complete"
  <1> DEFINE p == SetToSeq(run.logged)
             q == SetToSeq(Unreported)
             t == IF Complete THEN <<"trace_complete">> ELSE << >>
             T == IF Complete THEN {"trace_complete"} ELSE {}
  <1>1. run.logged \subseteq Effects /\ Unreported \subseteq Effects
        /\ Unreported = pending \ run.logged
    BY DEF BrokerTypes, RunRecord, Unreported
  <1>2. IsFiniteSet(Effects)
    <2>1. IsFiniteSet({"tracker_comment"})
      BY FS_Singleton
    <2>2. Effects = {"tracker_comment"} \cup {"pr_comment"}
      BY DEF Effects
    <2> QED BY <2>1, <2>2, FS_AddElement
  <1>3. IsFiniteSet(run.logged) /\ IsFiniteSet(Unreported)
    BY <1>1, <1>2, FS_Subset
  <1>4. /\ p \in Seq(run.logged) /\ Distinct(p) /\ Elements(p) = run.logged
        /\ q \in Seq(Unreported) /\ Distinct(q) /\ Elements(q) = Unreported
    BY <1>3, SequenceOfSet
  <1>5. t \in Seq(Marks) /\ Distinct(t) /\ Elements(t) = T
        /\ (Complete => Len(t) = 1 /\ t[1] = "trace_complete")
    <2>1. CASE Complete
      <3>1. t = <<"trace_complete">> /\ T = {"trace_complete"} /\ Len(t) = 1
            /\ t[1] = "trace_complete"
        BY <2>1
      <3>2. t \in Seq(Marks)
        BY <2>1 DEF Marks
      <3> HIDE DEF t
      <3> QED BY <3>1, <3>2 DEF Distinct, Elements
    <2>2. CASE ~Complete
      <3>1. t = << >> /\ T = {}
        BY <2>2
      <3> QED BY <2>2, <3>1 DEF Distinct, Elements
    <2> QED BY <2>1, <2>2
  <1>6. WithEffects = p \o q \o t
    BY DEF WithEffects
  <1> HIDE DEF p, q, t
  <1>7. p \in Seq(Marks) /\ q \in Seq(Marks)
    BY <1>1, <1>4, SeqMonotonic DEF Marks
  <1>8. /\ p \o q \in Seq(Marks) /\ Distinct(p \o q)
        /\ Elements(p \o q) = run.logged \cup Unreported
    <2>1. Elements(p) \cap Elements(q) = {}
      BY <1>1, <1>4
    <2> QED BY <1>4, <1>7, <2>1, Joined
  <1>9. Elements(p \o q) \cap Elements(t) = {}
    BY <1>1, <1>5, <1>8 DEF Effects
  <1> DEFINE r == p \o q
  <1>10. r \in Seq(Marks) /\ Distinct(r) /\ Elements(r) \cap Elements(t) = {}
    BY <1>8, <1>9
  <1>11. Elements(r) = run.logged \cup pending
    BY <1>1, <1>8
  <1>12. WithEffects = r \o t
    BY <1>6
  <1> HIDE DEF r
  <1>13. /\ r \o t \in Seq(Marks) /\ Distinct(r \o t) /\ Len(r \o t) = Len(r) + Len(t)
         /\ Elements(r \o t) = Elements(r) \cup Elements(t)
         /\ \A i \in 1..Len(t) : (r \o t)[Len(r) + i] = t[i]
    BY <1>5, <1>10, Joined
  <1>14. Complete => (r \o t)[Len(r \o t)] = "trace_complete"
    <2> SUFFICES ASSUME Complete PROVE (r \o t)[Len(r \o t)] = "trace_complete"
      OBVIOUS
    <2>1. Len(t) = 1 /\ t[1] = "trace_complete"
      BY <1>5
    <2>2. (r \o t)[Len(r) + 1] = t[1] /\ Len(r \o t) = Len(r) + 1
      BY <1>13, <2>1
    <2> QED BY <2>1, <2>2
  <1> QED BY <1>5, <1>11, <1>12, <1>13, <1>14 DEF T

RunIsKept ==
    \/ StepFails \/ Unwind \/ Failed \/ Validate \/ Authenticate
    \/ OpenDirectory \/ StartCollector \/ StartProxy \/ ReadVersion
    \/ StartMonitor \/ StartEgress \/ Launch \/ ActorTouches
    \/ ActorMakesTracker \/ Seal \/ CloseMonitor \/ OracleSkipped
    \/ OracleStarts \/ OracleTouches \/ OracleEnds \/ Respond
    \/ Release \/ DeadlineStrikes

LEMMA RunIsKeptBy == RunIsKept => run' = run
  BY DEF RunIsKept, StepFails, Unwind, Failed, Validate,
     Authenticate, OpenDirectory, StartCollector, StartProxy,
     ReadVersion, StartMonitor, StartEgress, Launch,
     ActorTouches, ActorMakesTracker, Seal, CloseMonitor,
     OracleSkipped, OracleStarts, OracleTouches, OracleEnds,
     Respond, Release, DeadlineStrikes

LEMMA KindIsEffect == \A f \in TrackerFiles : Kind(f) \in Effects
  BY DEF Kind, Effects

LEMMA KindsDiffer == \A f, g \in TrackerFiles : Kind(f) = Kind(g) => f = g
  BY DEF Kind, TrackerFiles

LEMMA RunTypeStep ==
    ASSUME BrokerInv, BrokerNext PROVE run' \in RunRecord
  <1>0. BrokerTypes /\ run \in RunRecord /\ touched \subseteq TrackerFiles
    BY DEF BrokerInv, BrokerTypes
  <1>1. CASE RunIsKept
    BY <1>0, <1>1, RunIsKeptBy
  <1>2. CASE Stage
    BY <1>0, <1>2 DEF Stage, RunRecord
  <1>3. CASE ActorLogs
    <2>1. PICK f \in touched : run' = [run EXCEPT !.logged = @ \cup {Kind(f)}]
      BY <1>3 DEF ActorLogs
    <2> QED BY <1>0, <2>1, KindIsEffect DEF RunRecord
  <1>4. CASE ActorEnds
    <2>1. PICK rc \in {0, 1, 125}, whole \in BOOLEAN :
            run' = [run EXCEPT !.rc = rc, !.whole = whole /\ rc # 125]
      BY <1>4 DEF ActorEnds
    <2> DEFINE read == whole /\ rc # 125
    <2>2. read \in BOOLEAN /\ run' = [run EXCEPT !.rc = rc, !.whole = read]
      BY <2>1
    <2> HIDE DEF read
    <2> QED BY <1>0, <2>2 DEF RunRecord
  <1>5. CASE ActorKilled
    <2>1. PICK whole \in BOOLEAN :
            run' = [run EXCEPT !.rc = 124, !.timedOut = TRUE, !.whole = whole]
      BY <1>5 DEF ActorKilled
    <2> QED BY <1>0, <2>1 DEF RunRecord
  <1>6. CASE ReadTrace
    <2>1. run' = [run EXCEPT !.complete = Complete, !.events = WithEffects,
                             !.rc = Downgraded]
      BY <1>6 DEF ReadTrace
    <2>2. WithEffects \in Seq(Marks)
      BY <1>0, EventsOfRun
    <2>3. Complete \in BOOLEAN /\ Downgraded \in {-1, 0, 1, 124, 125}
      BY <1>0 DEF Complete, Downgraded, RunRecord
    <2> QED BY <1>0, <2>1, <2>2, <2>3 DEF RunRecord
  <1> QED BY <1>1, <1>2, <1>3, <1>4, <1>5, <1>6 DEF RunIsKept, BrokerNext

\* The steps that neither touch .tracker nor set or read a watch.
MonitorIsKept ==
    \/ StepFails \/ Failed \/ Validate \/ Authenticate
    \/ OpenDirectory \/ StartCollector \/ StartProxy \/ ReadVersion
    \/ Stage \/ StartEgress \/ Launch \/ ActorLogs \/ ActorEnds
    \/ ActorKilled \/ Seal \/ OracleSkipped \/ OracleStarts
    \/ OracleEnds \/ Respond \/ Release \/ DeadlineStrikes

LEMMA MonitorIsKeptBy ==
    MonitorIsKept =>
      /\ tracker' = tracker /\ watches' = watches /\ pending' = pending /\ touched' = touched
      /\ req' = req /\ creds' = creds
  BY DEF MonitorIsKept, StepFails, Failed, Validate, Authenticate,
     OpenDirectory, StartCollector, StartProxy, ReadVersion,
     Stage, StartEgress, Launch, ActorLogs, ActorEnds,
     ActorKilled, Seal, OracleSkipped, OracleStarts,
     OracleEnds, Respond, Release, DeadlineStrikes

LEMMA MonitorTypeStep ==
    ASSUME BrokerInv, BrokerNext
    PROVE  /\ tracker' \in [dir : BOOLEAN, files : SUBSET TrackerFiles, made : BOOLEAN]
           /\ tracker'.files # {} => tracker'.dir
           /\ watches' \in [TrackerFiles -> {"none", "file", "directory"}]
           /\ pending' \in SUBSET Effects /\ touched' \in SUBSET TrackerFiles
  <1>0. /\ tracker \in [dir : BOOLEAN, files : SUBSET TrackerFiles, made : BOOLEAN]
        /\ tracker.files # {} => tracker.dir
        /\ watches \in [TrackerFiles -> {"none", "file", "directory"}]
        /\ pending \in SUBSET Effects /\ touched \in SUBSET TrackerFiles
    BY DEF BrokerInv, BrokerTypes
  <1>1. CASE MonitorIsKept
    BY <1>0, <1>1, MonitorIsKeptBy
  <1>2. CASE Unwind \/ CloseMonitor
    <2>1. tracker' = tracker /\ pending' = pending /\ touched' = touched
          /\ watches' \in {watches, [f \in TrackerFiles |-> "none"]}
      BY <1>2 DEF Unwind, CloseMonitor
    <2> QED BY <1>0, <2>1
  <1>3. CASE StartMonitor
    BY <1>0, <1>3 DEF StartMonitor, WatchOf
  <1>4. CASE ReadTrace
    BY <1>0, <1>4 DEF ReadTrace
  <1>5. CASE ActorMakesTracker
    BY <1>0, <1>5 DEF ActorMakesTracker
  <1>6. CASE ActorTouches
    <2>1. PICK file \in TrackerFiles, op \in {"create", "write", "replace", "remove"} :
            /\ Possible(file, op)
            /\ tracker' = [tracker EXCEPT !.files =
                             IF op = "remove" THEN @ \ {file} ELSE @ \cup {file}]
            /\ pending' = pending \cup {Kind(g) : g \in Signals(file, op)}
            /\ watches' = WatchesAfter(file, op)
            /\ touched' = touched \cup {file}
      BY <1>6 DEF ActorTouches
    <2>2. tracker.dir
      BY <1>0, <2>1 DEF Possible
    <2>3. Signals(file, op) \subseteq TrackerFiles
      BY <2>1 DEF Signals
    <2>4. pending' \in SUBSET Effects
      BY <1>0, <2>1, <2>3, KindIsEffect
    <2>5. watches' \in [TrackerFiles -> {"none", "file", "directory"}]
      BY <1>0, <2>1 DEF WatchesAfter
    <2>6. /\ tracker' \in [dir : BOOLEAN, files : SUBSET TrackerFiles, made : BOOLEAN]
          /\ tracker'.dir
      BY <1>0, <2>1, <2>2
    <2> QED BY <1>0, <2>1, <2>4, <2>5, <2>6
  <1>7. CASE OracleTouches
    <2>1. PICK file \in TrackerFiles :
            /\ tracker' = [tracker EXCEPT !.files = @ \cup {file}]
            /\ pending' = pending \cup {Kind(g) : g \in Signals(file, "write")}
      BY <1>7 DEF OracleTouches
    <2>2. tracker.dir /\ watches' = watches /\ touched' = touched
      BY <1>7 DEF OracleTouches
    <2>3. Signals(file, "write") \subseteq TrackerFiles
      BY <2>1 DEF Signals
    <2>4. pending' \in SUBSET Effects
      BY <1>0, <2>1, <2>3, KindIsEffect
    <2>6. /\ tracker' \in [dir : BOOLEAN, files : SUBSET TrackerFiles, made : BOOLEAN]
          /\ tracker'.dir
      BY <1>0, <2>1, <2>2
    <2> QED BY <1>0, <2>2, <2>4, <2>6
  <1> QED
    BY <1>1, <1>2, <1>3, <1>4, <1>5, <1>6, <1>7 DEF MonitorIsKept, BrokerNext

\* Where a step may leave from and come to.
LEMMA PlacesStep ==
    ASSUME BrokerInv, BrokerNext
    PROVE  /\ at' \in BrokerPlaces /\ late' \in BOOLEAN /\ oracleRC' \in {-1, 0, 1, 124}
           /\ req' = req
           /\ at' = at \/ (at \notin {"answered", "failed"} /\ at' # "request")
  <1>1. at \in BrokerPlaces /\ late \in BOOLEAN /\ oracleRC \in {-1, 0, 1, 124}
    BY DEF BrokerInv, BrokerTypes
  <1>2. late' \in BOOLEAN /\ req' = req
    BY <1>1 DEF BrokerNext,
     StepFails, Unwind, Failed, Validate, Authenticate,
     OpenDirectory, StartCollector, StartProxy, ReadVersion,
     Stage, StartMonitor, StartEgress, Launch, ActorTouches,
     ActorMakesTracker, ActorLogs, ActorEnds, ActorKilled,
     Seal, ReadTrace, CloseMonitor, OracleSkipped,
     OracleStarts, OracleTouches, OracleEnds, Respond, Release,
     DeadlineStrikes
  <1>3. oracleRC' \in {-1, 0, 1, 124}
    <2>1. CASE OracleEnds
      BY <2>1 DEF OracleEnds
    <2>2. CASE OracleSkipped
      BY <2>2 DEF OracleSkipped
    <2> QED
      BY <1>1, <2>1, <2>2 DEF BrokerNext,
     StepFails, Unwind, Failed, Validate, Authenticate,
     OpenDirectory, StartCollector, StartProxy, ReadVersion,
     Stage, StartMonitor, StartEgress, Launch, ActorTouches,
     ActorMakesTracker, ActorLogs, ActorEnds, ActorKilled,
     Seal, ReadTrace, CloseMonitor, OracleStarts,
     OracleTouches, Respond, Release, DeadlineStrikes
  <1>4. /\ at' \in BrokerPlaces
        /\ at' = at \/ (at \notin {"answered", "failed"} /\ at' # "request")
    <2>1. CASE StepFails \/ Unwind \/ Failed \/ Validate
               \/ Authenticate \/ OpenDirectory \/ StartCollector
               \/ StartProxy \/ ReadVersion \/ Stage
               \/ StartMonitor \/ StartEgress \/ Launch
               \/ ActorTouches
      BY <1>1, <2>1 DEF Goto, Steps, BrokerPlaces, StepFails, Unwind, Failed, Validate,
         Authenticate,
         OpenDirectory, StartCollector, StartProxy, ReadVersion,
         Stage, StartMonitor, StartEgress, Launch, ActorTouches
    <2>2. CASE ActorMakesTracker \/ ActorLogs \/ ActorEnds
               \/ ActorKilled \/ Seal \/ ReadTrace
               \/ CloseMonitor \/ OracleSkipped \/ OracleStarts
               \/ OracleTouches \/ OracleEnds \/ Respond
               \/ Release \/ DeadlineStrikes
      BY <1>1, <2>2 DEF Goto, BrokerPlaces, ActorMakesTracker, ActorLogs, ActorEnds, ActorKilled,
         Seal,
         ReadTrace, CloseMonitor, OracleSkipped, OracleStarts,
         OracleTouches, OracleEnds, Respond, Release,
         DeadlineStrikes
    <2> QED BY <2>1, <2>2 DEF BrokerNext
  <1> QED BY <1>2, <1>3, <1>4

LEMMA BrokerTypesStep ==
    ASSUME BrokerInv, BrokerNext PROVE BrokerTypes'
  <1>1. req.harness \in {"claude", "codex"}
    BY DEF BrokerInv, BrokerTypes
  <1> QED BY <1>1, PlacesStep, StackStep, RunTypeStep, MonitorTypeStep DEF BrokerTypes

LEMMA MonitorWatchesStep ==
    ASSUME BrokerInv, BrokerNext PROVE MonitorWatches'
  <1>0. BrokerTypes /\ MonitorWatches /\ NothingYet
    BY DEF BrokerInv
  <1> DEFINE Watching == {"egress", "launch", "actor", "seal", "read"}
  <1>1. CASE MonitorIsKept
    <2>1. at' \in Watching => at \in Watching
      BY <1>1 DEF MonitorIsKept, Goto,
     StepFails, Failed, Validate, Authenticate, OpenDirectory,
     StartCollector, StartProxy, ReadVersion, Stage,
     StartEgress, Launch, ActorLogs, ActorEnds, ActorKilled,
     Seal, OracleSkipped, OracleStarts, OracleEnds, Respond,
     Release, DeadlineStrikes
    <2> QED BY <1>0, <1>1, <2>1, MonitorIsKeptBy DEF MonitorWatches
  <1>2. CASE Unwind \/ CloseMonitor \/ ReadTrace \/ OracleTouches
    BY <1>2 DEF MonitorWatches, Unwind, CloseMonitor, ReadTrace,
         OracleTouches, Goto
  <1>3. CASE StartMonitor
    <2>1. touched = {} /\ touched' = touched /\ tracker' = tracker
      BY <1>0, <1>3 DEF NothingYet, BeforeActor, StartMonitor
    <2>2. \A f \in TrackerFiles :
            watches'[f] = IF f \in tracker.files THEN "file"
                          ELSE IF tracker.dir THEN "directory" ELSE "none"
      BY <1>3 DEF StartMonitor, WatchOf
    <2>3. tracker.files # {} => tracker.dir
      BY <1>0 DEF BrokerTypes
    <2> QED BY <2>1, <2>2, <2>3 DEF MonitorWatches
  <1>4. CASE ActorMakesTracker
    <2>1. /\ watches' = watches /\ pending' = pending /\ touched' = touched /\ at = "actor"
          /\ tracker'.made /\ tracker'.files = tracker.files
      BY <1>0, <1>4 DEF ActorMakesTracker, BrokerTypes
    <2> QED BY <1>0, <2>1 DEF MonitorWatches
  <1>5. CASE ActorTouches
    <2>0. at = "actor" /\ at' = at
      BY <1>5 DEF ActorTouches
    <2>1. PICK file \in TrackerFiles, op \in {"create", "write", "replace", "remove"} :
            /\ Possible(file, op)
            /\ tracker' = [tracker EXCEPT !.files =
                             IF op = "remove" THEN @ \ {file} ELSE @ \cup {file}]
            /\ pending' = pending \cup {Kind(g) : g \in Signals(file, op)}
            /\ watches' = WatchesAfter(file, op)
            /\ touched' = touched \cup {file}
      BY <1>5 DEF ActorTouches
    <2>2. /\ tracker'.files = IF op = "remove" THEN tracker.files \ {file}
                           ELSE tracker.files \cup {file}
          /\ tracker'.made = tracker.made /\ tracker'.dir = tracker.dir
      BY <1>0, <2>1 DEF BrokerTypes
    <2>3. /\ op = "create" => tracker.dir /\ file \notin tracker.files
          /\ op # "create" => file \in tracker.files
          /\ tracker.dir
      BY <1>0, <2>1 DEF Possible, BrokerTypes
    <2>4. \A f \in TrackerFiles :
            /\ watches[f] = "file" => f \in tracker.files
            /\ watches[f] = "directory" /\ f \in tracker.files => Kind(f) \in pending
            /\ ~tracker.made /\ tracker.dir /\ watches[f] = "none" => Kind(f) \in pending
            /\ ~tracker.made /\ f \in touched => Kind(f) \in pending
      BY <1>0, <2>0 DEF MonitorWatches
    <2>5. \A g \in TrackerFiles : Kind(g) \in pending => Kind(g) \in pending'
      BY <2>1
    <2>6. \A g \in TrackerFiles :
            /\ watches[g] = "directory" /\ op \in {"create", "write", "replace"}
                 => Kind(g) \in pending'
            /\ g = file /\ watches[g] = "file" /\ op \in {"write", "replace", "remove"}
                 => Kind(g) \in pending'
      BY <2>1 DEF Signals
    <2>7. \A g \in TrackerFiles : watches'[g] =
            IF g = file /\ op \in {"replace", "remove"} /\ watches[g] = "file" THEN "none"
            ELSE watches[g]
      BY <1>0, <2>1 DEF WatchesAfter, BrokerTypes
    <2>8. \A g \in TrackerFiles : watches[g] \in {"none", "file", "directory"}
      BY <1>0 DEF BrokerTypes
    <2>9. ~tracker.made => Kind(file) \in pending'
      BY <2>1, <2>3, <2>4, <2>5, <2>6, <2>8
    <2>10. ASSUME NEW f \in TrackerFiles
           PROVE  /\ watches'[f] = "file" => f \in tracker'.files
                  /\ watches'[f] = "directory" /\ f \in tracker'.files => Kind(f) \in pending'
                  /\ ~tracker'.made /\ tracker'.dir /\ watches'[f] = "none" => Kind(f) \in pending'
                  /\ ~tracker'.made /\ f \in touched' => Kind(f) \in pending'
      <3>1. watches'[f] = "file" => f \in tracker'.files
        BY <2>1, <2>2, <2>3, <2>4, <2>7
      <3>2. watches'[f] = "directory" /\ f \in tracker'.files => Kind(f) \in pending'
        BY <2>1, <2>2, <2>4, <2>5, <2>6, <2>7
      <3>3. ~tracker'.made /\ tracker'.dir /\ watches'[f] = "none" => Kind(f) \in pending'
        BY <2>1, <2>2, <2>4, <2>5, <2>6, <2>7
      <3>4. ~tracker'.made /\ f \in touched' => Kind(f) \in pending'
        BY <2>1, <2>2, <2>4, <2>5, <2>9
      <3> QED BY <3>1, <3>2, <3>3, <3>4
    <2> QED BY <2>10 DEF MonitorWatches
  <1> QED
    BY <1>1, <1>2, <1>3, <1>4, <1>5 DEF MonitorIsKept, BrokerNext

LEMMA NothingYetStep ==
    ASSUME BrokerInv, BrokerNext PROVE NothingYet'
  <1>0. BrokerTypes /\ NothingYet
    BY DEF BrokerInv
  <1>1. CASE ActorTouches
    BY <1>1, <1>0 DEF ActorTouches, NothingYet, BeforeActor
  <1>2. CASE ActorLogs
    BY <1>2, <1>0 DEF ActorLogs, NothingYet, BeforeActor, BrokerTypes, RunRecord
  <1>3. CASE ActorEnds
    BY <1>3, <1>0 DEF ActorEnds, Goto, NothingYet, BeforeActor, BrokerTypes, RunRecord
  <1>4. CASE ActorKilled
    BY <1>4, <1>0 DEF ActorKilled, Goto, NothingYet, BeforeActor, BrokerTypes, RunRecord
  <1>5. CASE Stage
    BY <1>5, <1>0 DEF Stage, Goto, NothingYet, BeforeActor, BrokerTypes, RunRecord
  <1>6. CASE ReadTrace \/ OracleTouches
    BY <1>6 DEF ReadTrace, OracleTouches, Goto, NothingYet, BeforeActor
  <1>7. ASSUME StepFails \/ Unwind \/ Failed \/ Validate
               \/ Authenticate \/ OpenDirectory \/ StartCollector
               \/ StartProxy \/ ReadVersion \/ StartMonitor \/ StartEgress
               \/ \/ Launch \/ ActorMakesTracker \/ Seal \/ CloseMonitor
               \/ \/ OracleSkipped \/ OracleStarts \/ OracleEnds
               \/ Respond \/ Release \/ DeadlineStrikes
        PROVE  /\ touched' = touched /\ run' = run /\ pending' = pending
               /\ at' \in BeforeActor => at \in BeforeActor
               /\ at' = "actor" => at \in BeforeActor \cup {"actor"}
               /\ at' = "seal" => at = "seal"
               /\ at' = "read" => at \in {"read", "seal"}
    BY <1>7 DEF BeforeActor, Goto, StepFails, Unwind, Failed, Validate, Authenticate,
         OpenDirectory, StartCollector, StartProxy, ReadVersion,
         StartMonitor, StartEgress, Launch, ActorMakesTracker,
         Seal, CloseMonitor, OracleSkipped, OracleStarts,
         OracleEnds, Respond, Release, DeadlineStrikes
  <1>8. CASE StepFails \/ Unwind \/ Failed \/ Validate
               \/ Authenticate \/ OpenDirectory \/ StartCollector
               \/ StartProxy \/ ReadVersion \/ StartMonitor \/ StartEgress
               \/ \/ Launch \/ ActorMakesTracker \/ Seal \/ CloseMonitor
               \/ \/ OracleSkipped \/ OracleStarts \/ OracleEnds
               \/ Respond \/ Release \/ DeadlineStrikes
    BY <1>0, <1>7, <1>8 DEF NothingYet, BeforeActor
  <1> QED
    BY <1>1, <1>2, <1>3, <1>4, <1>5, <1>6, <1>8 DEF BrokerNext

LEMMA EventsTellStep ==
    ASSUME BrokerInv, BrokerNext PROVE EventsTell'
  <1>0. BrokerTypes /\ EventsTell /\ NothingYet /\ MonitorWatches
    BY DEF BrokerInv
  <1>1. CASE ReadTrace
    <2>1. /\ at = "read"
          /\ run' = [run EXCEPT !.complete = Complete, !.events = WithEffects,
                               !.rc = Downgraded]
          /\ touched' = touched /\ tracker' = tracker
      BY <1>1 DEF ReadTrace
    <2>2. /\ run'.events = WithEffects /\ run'.rc = Downgraded
          /\ run'.whole = run.whole /\ run'.timedOut = run.timedOut
      BY <1>0, <2>1 DEF BrokerTypes, RunRecord
    <2>3. /\ Distinct(run'.events)
          /\ Elements(run'.events) =
                run.logged \cup pending \cup (IF Complete THEN {"trace_complete"} ELSE {})
          /\ Complete => run'.events[Len(run'.events)] = "trace_complete"
      BY <1>0, <2>2, EventsOfRun
    <2>4. run.logged \subseteq Effects /\ pending \subseteq Effects
      BY <1>0 DEF BrokerTypes, RunRecord
    <2>5. "trace_complete" \in Elements(run'.events) <=> Complete
      BY <2>3, <2>4 DEF Effects
    <2>6. run'.rc = 0 <=> Complete
      BY <2>2 DEF Downgraded, Complete
    <2>7. Complete => run.whole /\ ~run.timedOut
      BY <1>0, <2>1 DEF Complete, NothingYet
    <2>8. ~tracker'.made => \A f \in touched' : Kind(f) \in Elements(run'.events)
      BY <1>0, <2>1, <2>3 DEF MonitorWatches, BrokerTypes
    <2>9. touched' = {} => Elements(run'.events) \subseteq {"trace_complete"}
      BY <1>0, <2>1, <2>3 DEF NothingYet
    <2> QED BY <2>2, <2>3, <2>5, <2>6, <2>7, <2>8, <2>9 DEF EventsTell
  <1>2. ASSUME OracleTouches
        PROVE  touched' = touched /\ run' = run /\ tracker'.made = tracker.made
               /\ at' \in AfterRead /\ at \in AfterRead
    BY <1>0, <1>2 DEF OracleTouches, BrokerTypes, AfterRead
  <1>3. ASSUME CloseMonitor \/ OracleSkipped \/ OracleStarts \/ OracleEnds
                 \/ Respond \/ Release \/ DeadlineStrikes
        PROVE  touched' = touched /\ run' = run /\ tracker' = tracker
               /\ (at' \in AfterRead => at \in AfterRead)
    BY <1>3 DEF CloseMonitor, OracleSkipped, OracleStarts, OracleEnds,
         Respond, Release, DeadlineStrikes, Goto, AfterRead
  <1>4. ASSUME StepFails \/ Unwind \/ Failed \/ Validate
               \/ Authenticate \/ OpenDirectory \/ StartCollector
               \/ StartProxy \/ ReadVersion \/ Stage \/ StartMonitor
               \/ StartEgress \/ Launch \/ ActorTouches
               \/ ActorMakesTracker \/ ActorLogs \/ ActorEnds
               \/ ActorKilled \/ Seal
        PROVE  at' \notin AfterRead
    BY <1>4 DEF Goto, AfterRead, StepFails, Unwind, Failed, Validate, Authenticate,
         OpenDirectory, StartCollector, StartProxy, ReadVersion,
         Stage, StartMonitor, StartEgress, Launch,
         ActorTouches, ActorMakesTracker, ActorLogs, ActorEnds,
         ActorKilled, Seal
  <1>5. CASE OracleTouches \/ CloseMonitor \/ OracleSkipped \/ OracleStarts
               \/ OracleEnds \/ Respond \/ Release \/ DeadlineStrikes
    <2>1. touched' = touched /\ run' = run /\ tracker'.made = tracker.made
          /\ (at' \in AfterRead => at \in AfterRead)
      BY <1>2, <1>3, <1>5
    <2> QED BY <1>0, <2>1 DEF EventsTell
  <1>6. CASE StepFails \/ Unwind \/ Failed \/ Validate
               \/ Authenticate \/ OpenDirectory \/ StartCollector
               \/ StartProxy \/ ReadVersion \/ Stage \/ StartMonitor
               \/ StartEgress \/ Launch \/ ActorTouches
               \/ ActorMakesTracker \/ ActorLogs \/ ActorEnds
               \/ ActorKilled \/ Seal
    BY <1>4, <1>6 DEF EventsTell
  <1> QED BY <1>1, <1>5, <1>6 DEF BrokerNext

LEMMA InventoryStep ==
    ASSUME BrokerInv, BrokerNext PROVE InventoryIsTheArms' /\ AnswerIsTheRuns'
  <1>0. BrokerTypes /\ InventoryIsTheArms /\ AnswerIsTheRuns /\ req' = req
    BY PlacesStep DEF BrokerInv
  <1> DEFINE PastMonitor == {"monitor", "egress", "launch", "actor", "seal"}
             Known == {"read"} \cup AfterRead
  <1>1. CASE Stage
    BY <1>0, <1>1 DEF Stage, Goto, InventoryIsTheArms, AnswerIsTheRuns, AfterRead,
         BrokerTypes, RunRecord
  <1>2. CASE Seal
    BY <1>0, <1>2 DEF Seal, Loaded, Goto, InventoryIsTheArms, AnswerIsTheRuns,
         AfterRead, BrokerTypes
  <1>3. CASE ActorLogs \/ ActorEnds \/ ActorKilled \/ ReadTrace
    <2>1. /\ run'.inventory = run.inventory
          /\ at' \in PastMonitor => at \in PastMonitor
          /\ at' \in Known => at \in Known
          /\ at' \notin {"answering", "answered"}
      BY <1>0, <1>3 DEF ActorLogs, ActorEnds, ActorKilled, ReadTrace,
           Goto, BrokerTypes, RunRecord, AfterRead
    <2> QED BY <1>0, <2>1 DEF InventoryIsTheArms, AnswerIsTheRuns
  <1>4. CASE Respond
    <2>1. /\ run' = run /\ at = "respond" /\ at' = "answering"
          /\ response'.rc = run.rc /\ response'.events = run.events
          /\ response'.inventory = run.inventory
      BY <1>4 DEF Respond, Goto
    <2> QED BY <1>0, <2>1 DEF InventoryIsTheArms, AnswerIsTheRuns, AfterRead
  <1>5. ASSUME StepFails \/ Unwind \/ Failed \/ Validate
               \/ Authenticate \/ OpenDirectory \/ StartCollector
               \/ StartProxy \/ ReadVersion \/ StartMonitor \/ StartEgress
               \/ \/ Launch \/ ActorTouches \/ ActorMakesTracker
               \/ CloseMonitor \/ OracleSkipped \/ OracleStarts
               \/ OracleTouches \/ OracleEnds \/ Release
               \/ DeadlineStrikes
        PROVE  /\ run' = run /\ response' = response
               /\ at' \in PastMonitor => at \in PastMonitor
               /\ at' \in Known => at \in Known
               /\ at' \in {"answering", "answered"} => at \in {"answering", "answered"}
    BY <1>5 DEF Goto, AfterRead, StepFails, Unwind, Failed, Validate, Authenticate,
         OpenDirectory, StartCollector, StartProxy, ReadVersion,
         StartMonitor, StartEgress, Launch, ActorTouches,
         ActorMakesTracker, CloseMonitor, OracleSkipped, OracleStarts,
         OracleTouches, OracleEnds, Release, DeadlineStrikes
  <1>6. CASE StepFails \/ Unwind \/ Failed \/ Validate
               \/ Authenticate \/ OpenDirectory \/ StartCollector
               \/ StartProxy \/ ReadVersion \/ StartMonitor \/ StartEgress
               \/ \/ Launch \/ ActorTouches \/ ActorMakesTracker
               \/ CloseMonitor \/ OracleSkipped \/ OracleStarts
               \/ OracleTouches \/ OracleEnds \/ Release
               \/ DeadlineStrikes
    <2>1. /\ run' = run /\ response' = response
          /\ at' \in PastMonitor => at \in PastMonitor
          /\ at' \in Known => at \in Known
          /\ at' \in {"answering", "answered"} => at \in {"answering", "answered"}
      BY <1>5, <1>6
    <2> QED BY <1>0, <2>1 DEF InventoryIsTheArms, AnswerIsTheRuns
  <1> QED BY <1>1, <1>2, <1>3, <1>4, <1>6 DEF BrokerNext

LEMMA NextBrokerInv ==
    ASSUME BrokerInv, [BrokerNext]_brokerVars PROVE BrokerInv'
  <1>1. CASE BrokerNext
    BY <1>1, BrokerTypesStep, StackStep, MonitorWatchesStep, NothingYetStep, EventsTellStep,
       InventoryStep DEF BrokerInv
  <1>2. CASE UNCHANGED brokerVars
    <2>1. /\ req' = req /\ creds' = creds /\ at' = at /\ defers' = defers /\ held' = held
          /\ late' = late /\ run' = run /\ tracker' = tracker /\ watches' = watches
          /\ pending' = pending /\ touched' = touched
          /\ oracleRC' = oracleRC /\ response' = response
      BY <1>2 DEF brokerVars
    <2>2. BrokerTypes' /\ HeldIsDeferred'
      BY <2>1 DEF BrokerInv, BrokerTypes, HeldIsDeferred, Elements, Distinct
    <2>3. DefersHere'
      <3>1. Deferred(defers)' = Deferred(defers)
        BY <2>1 DEF Deferred, Elements
      <3>2. UsesAppServer' = UsesAppServer
        BY <2>1 DEF UsesAppServer, Mode
      <3> QED BY <2>1, <3>1, <3>2 DEF BrokerInv, DefersHere
    <2>4. MonitorWatches' /\ NothingYet'
      BY <2>1 DEF BrokerInv, MonitorWatches, NothingYet
    <2>5. EventsTell'
      BY <2>1 DEF BrokerInv, EventsTell, Elements, Distinct
    <2>6. InventoryIsTheArms' /\ AnswerIsTheRuns'
      BY <2>1 DEF BrokerInv, InventoryIsTheArms, AnswerIsTheRuns
    <2> QED BY <2>2, <2>3, <2>4, <2>5, <2>6 DEF BrokerInv
  <1> QED BY <1>1, <1>2

LEMMA BrokerInvSays ==
    ASSUME BrokerInv
    PROVE  /\ BrokerTypeOK /\ NothingHeld /\ SuccessIsComplete
           /\ EffectsReported /\ EffectsAreTheActors /\ ArmsHonest
  <1>0. /\ BrokerTypes /\ HeldIsDeferred /\ DefersHere /\ EventsTell /\ InventoryIsTheArms
        /\ AnswerIsTheRuns
        /\ defers \in Seq(Resources) /\ run.events \in Seq(Marks)
    BY DEF BrokerInv, BrokerTypes, RunRecord
  <1>1. \A S, s : s \in Seq(S) => ToSet(s) = Elements(s)
    BY DEF ToSet, Elements
  <1>2. NothingHeld
    BY <1>0, EmptyHeld DEF NothingHeld, DefersHere
  <1>3. BrokerTypeOK
    <2>1. ToSet(defers) \subseteq held
      BY <1>0, <1>1 DEF HeldIsDeferred
    <2>2. pending \subseteq {Kind(f) : f \in TrackerFiles}
      BY <1>0 DEF BrokerTypes, Effects, Kind, TrackerFiles
    <2> QED BY <1>0, <2>1, <2>2 DEF BrokerTypeOK, BrokerTypes, Resources, RunRecord, NoRC
  <1>4. SUFFICES ASSUME at = "answered"
                 PROVE  /\ SuccessIsComplete /\ EffectsReported
                        /\ EffectsAreTheActors /\ ArmsHonest
    BY <1>2, <1>3 DEF SuccessIsComplete, EffectsReported, EffectsAreTheActors,
         ArmsHonest, Answered
  <1>5. /\ response.rc = run.rc /\ response.events = run.events
        /\ response.inventory = run.inventory
    BY <1>0, <1>4 DEF AnswerIsTheRuns
  <1>6. Reported = Elements(run.events)
    BY <1>0, <1>1, <1>5 DEF Reported
  <1>7. Cardinality(Reported) = Len(run.events)
    <2> DEFINE e == run.events
    <2>1. Distinct(e) /\ e \in Seq(Marks)
      BY <1>0, <1>4 DEF EventsTell, AfterRead
    <2> HIDE DEF e
    <2>2. Len(e) \in Nat /\ e \in [1..Len(e) -> Elements(e)]
      BY <2>1 DEF Elements
    <2>3. e \in Bijection(1..Len(e), Elements(e))
      BY <2>1, <2>2 DEF Bijection, Injection, Surjection, IsInjective, Elements, Distinct
    <2>4. Cardinality(Elements(e)) = Len(e)
      BY <2>2, <2>3, FS_CountingElements DEF ExistsBijection
    <2> QED BY <1>6, <2>4 DEF e
  <1>8. SuccessIsComplete
    BY <1>0, <1>4, <1>5, <1>6, <1>7 DEF SuccessIsComplete, EventsTell, AfterRead, Last
  <1>9. EffectsReported /\ EffectsAreTheActors
    BY <1>0, <1>4, <1>6 DEF EffectsReported, EffectsAreTheActors, EventsTell, AfterRead
  <1>10. ArmsHonest
    BY <1>0, <1>4, <1>5 DEF ArmsHonest, InventoryIsTheArms, AfterRead
  <1> QED BY <1>8, <1>9, <1>10

\* A step of Evaluation that leaves it with the broker is one of the broker's.
LEMMA BrokerSteps ==
    ASSUME [Next]_evaluationVars, part' = "broker"
    PROVE  part = "broker" /\ [BrokerNext]_brokerVars
  BY DEF Next, evaluationVars, Only, BrokerStep, InputsStep, CaseStep, TddStep, PlanStep,
     AcceptanceStep, TriggerStep, ScoringStep, TraceStep, ProofStep

\* An arm holds nothing when the broker answers, whatever was started, failed, was killed or
\* came late, and it has succeeded only with a whole trace and every check it was asked for.
THEOREM ArmsAreAccountedFor == Spec => []ArmIsAccountedFor
  <1> DEFINE Inv == part = "broker" => BrokerInv
  <1>1. Init => Inv
    BY InitBrokerInv DEF Init
  <1>2. Inv /\ [Next]_evaluationVars => Inv'
    BY BrokerSteps, NextBrokerInv
  <1>3. Inv => ArmIsAccountedFor
    BY BrokerInvSays DEF ArmIsAccountedFor
  <1> QED BY <1>1, <1>2, <1>3, PTL DEF Spec

-----------------------------------------------------------------------------
(* The grading of an arm (CaseEvidence) *)

\* A child the trace shows started has been; one it shows ended has ended.
EventsTellOfChildren ==
    \A i \in 1..Len(events) :
      /\ events[i].kind \in {"agent_spawn", "agent_wait"} => case.kind = "orchestration"
      /\ events[i].kind = "agent_spawn" /\ events[i].ok =>
           events[i].path \in Children /\ children[events[i].path] \in {"running", "done"}
      /\ events[i].kind = "agent_complete" =>
           events[i].path \in Children /\ children[events[i].path] \in {"early", "done"}
      /\ events[i].kind = "trace_complete" => graded

CaseInv ==
    /\ case \in Cases
    /\ children \in [Children -> {"none", "starting", "early", "running", "done"}]
    /\ events \in Seq(Event)
    /\ Len(events) <= MaxEvents(case) + (IF graded THEN 1 ELSE 0)
    /\ answer \in [Gates -> BOOLEAN]
    /\ graded \in BOOLEAN
    /\ \A c \in Children : children[c] # "none" => case.kind = "orchestration"
    /\ EventsTellOfChildren

LEMMA InitCaseInv == ASSUME CaseInit PROVE CaseInv
  <1>1. /\ case \in Cases /\ children = [c \in Children |-> "none"] /\ events = << >>
        /\ answer = Passing /\ graded = FALSE
    BY DEF CaseInit
  <1>2. events \in Seq(Event) /\ Len(events) = 0
    BY <1>1
  <1>3. Passing \in [Gates -> BOOLEAN]
    BY DEF Passing
  <1>4. MaxEvents(case) \in Nat
    BY <1>1, CaseConstants
  <1>5. EventsTellOfChildren
    BY <1>2 DEF EventsTellOfChildren
  <1>6. /\ children \in [Children -> {"none", "starting", "early", "running", "done"}]
        /\ \A c \in Children : children[c] = "none"
    BY <1>1
  <1>7. Len(events) <= MaxEvents(case) + (IF graded THEN 1 ELSE 0)
    BY <1>1, <1>2, <1>4
  <1> QED BY <1>1, <1>2, <1>3, <1>5, <1>6, <1>7 DEF CaseInv

\* An event that is true of the children keeps the invariant, whatever they become by it:
\* no child that has been started is not, and none that has ended has not.
LEMMA EventKeeps ==
    ASSUME CaseInv, NEW event \in Event, Record(event),
           children' \in [Children -> {"none", "starting", "early", "running", "done"}],
           \A c \in Children :
             /\ children[c] \in {"running", "done"} => children'[c] \in {"running", "done"}
             /\ children[c] \in {"early", "done"} => children'[c] \in {"early", "done"}
             /\ children'[c] # "none" => case.kind = "orchestration",
           event.kind \in {"agent_spawn", "agent_wait"} => case.kind = "orchestration",
           event.kind = "agent_spawn" /\ event.ok =>
             event.path \in Children /\ children'[event.path] \in {"running", "done"},
           event.kind = "agent_complete" =>
             event.path \in Children /\ children'[event.path] \in {"early", "done"},
           event.kind # "trace_complete"
    PROVE  CaseInv'
  <1>1. /\ ~graded /\ Len(events) < MaxEvents(case) /\ events' = Append(events, event)
        /\ case' = case /\ answer' = answer /\ graded' = graded
    BY DEF Record
  <1>2. /\ events \in Seq(Event) /\ Len(events) \in Nat /\ case \in Cases
        /\ EventsTellOfChildren /\ MaxEvents(case) \in Nat
        /\ children \in [Children -> {"none", "starting", "early", "running", "done"}]
    BY CaseConstants DEF CaseInv
  <1>3. /\ events' \in Seq(Event) /\ Len(events') = Len(events) + 1
        /\ \A i \in 1..Len(events) : events'[i] = events[i]
        /\ events'[Len(events) + 1] = event
    BY <1>1, <1>2
  <1>4. EventsTellOfChildren'
    <2> SUFFICES ASSUME NEW i \in 1..Len(events')
                 PROVE  /\ events'[i].kind \in {"agent_spawn", "agent_wait"}
                             => case'.kind = "orchestration"
                        /\ events'[i].kind = "agent_spawn" /\ events'[i].ok =>
                             /\ events'[i].path \in Children
                             /\ children'[events'[i].path] \in {"running", "done"}
                        /\ events'[i].kind = "agent_complete" =>
                             /\ events'[i].path \in Children
                             /\ children'[events'[i].path] \in {"early", "done"}
                        /\ events'[i].kind = "trace_complete" => graded'
      BY DEF EventsTellOfChildren
    <2>1. CASE i \in 1..Len(events)
      BY <1>1, <1>2, <1>3, <2>1 DEF EventsTellOfChildren
    <2>2. CASE i = Len(events) + 1
      BY <1>1, <1>3, <2>2
    <2> QED BY <1>2, <1>3, <2>1, <2>2
  <1> QED BY <1>1, <1>2, <1>3, <1>4 DEF CaseInv

LEMMA StartChildKeeps == ASSUME CaseInv, NEW c \in Children, StartChild(c) PROVE CaseInv'
  <1>1. /\ children[c] = "none" /\ case.kind = "orchestration"
        /\ children' = [children EXCEPT ![c] = "starting"]
        /\ case' = case /\ events' = events /\ answer' = answer /\ graded' = graded
    BY DEF StartChild
  <1>2. /\ children' \in [Children -> {"none", "starting", "early", "running", "done"}]
        /\ \A d \in Children : children'[d] = IF d = c THEN "starting" ELSE children[d]
    BY <1>1 DEF CaseInv
  <1>3. EventsTellOfChildren'
    BY <1>1, <1>2 DEF CaseInv, EventsTellOfChildren
  <1> QED BY <1>1, <1>2, <1>3 DEF CaseInv

LEMMA HappenedIs ==
    ASSUME NEW kind \in {"agent_spawn", "agent_wait", "agent_complete", "skill_selected",
                         "test", "git_commit", "external_write", "trace_complete"},
           NEW path \in Children \cup Public \cup {Foreign, NoName}, NEW ok \in BOOLEAN
    PROVE  /\ Happened(kind, path, ok) \in Event
           /\ Happened(kind, path, ok).kind = kind
           /\ Happened(kind, path, ok).path = path
           /\ Happened(kind, path, ok).ok = ok
  BY DEF Happened, Event

LEMMA HappenedWell ==
    ASSUME NEW kind \in {"agent_spawn", "agent_wait", "agent_complete", "skill_selected",
                         "test", "git_commit", "external_write", "trace_complete"},
           NEW path \in Children \cup Public \cup {Foreign, NoName}
    PROVE  /\ Happened(kind, path, TRUE) \in Event
           /\ Happened(kind, path, TRUE).kind = kind
           /\ Happened(kind, path, TRUE).path = path
  BY DEF Happened, Event

LEMMA ChildrenKeep ==
    ASSUME CaseInv, NEW c \in Children,
           SpawnReturns(c) \/ ChildEnds(c) \/ NoticeAgain(c)
    PROVE  CaseInv'
  <1>1. /\ children \in [Children -> {"none", "starting", "early", "running", "done"}]
        /\ \A d \in Children : children[d] # "none" => case.kind = "orchestration"
    BY DEF CaseInv
  <1>2. CASE SpawnReturns(c)
    <2> DEFINE e == Happened("agent_spawn", c, TRUE)
    <2>1. /\ children[c] \in {"starting", "early"}
          /\ children' = [children EXCEPT ![c] = IF @ = "early" THEN "done" ELSE "running"]
          /\ Record(e)
      BY <1>2 DEF SpawnReturns
    <2>2. e \in Event /\ e.kind = "agent_spawn" /\ e.path = c
      BY DEF Happened, Event
    <2> HIDE DEF e
    <2>3. /\ children' \in [Children -> {"none", "starting", "early", "running", "done"}]
          /\ \A d \in Children :
               children'[d] = IF d = c
                              THEN IF children[c] = "early" THEN "done" ELSE "running"
                              ELSE children[d]
      BY <1>1, <2>1
    <2>4. \A d \in Children :
             /\ children[d] \in {"running", "done"} => children'[d] \in {"running", "done"}
             /\ children[d] \in {"early", "done"} => children'[d] \in {"early", "done"}
             /\ children'[d] # "none" => case.kind = "orchestration"
      BY <1>1, <2>1, <2>3
    <2>5. children'[c] \in {"running", "done"} /\ case.kind = "orchestration"
      BY <1>1, <2>1, <2>3
    <2> QED BY <2>1, <2>2, <2>3, <2>4, <2>5, EventKeeps
  <1>3. CASE ChildEnds(c)
    <2>1. PICK ok \in BOOLEAN :
            /\ children[c] \in {"starting", "running"}
            /\ children' = [children EXCEPT ![c] = IF @ = "starting" THEN "early" ELSE "done"]
            /\ Record(Happened("agent_complete", c, ok))
      BY <1>3 DEF ChildEnds
    <2> DEFINE e == Happened("agent_complete", c, ok)
    <2>2. e \in Event /\ e.kind = "agent_complete" /\ e.path = c /\ Record(e)
      BY <2>1, HappenedIs
    <2> HIDE DEF e
    <2>3. /\ children' \in [Children -> {"none", "starting", "early", "running", "done"}]
          /\ \A d \in Children :
               children'[d] = IF d = c
                              THEN IF children[c] = "starting" THEN "early" ELSE "done"
                              ELSE children[d]
      BY <1>1, <2>1
    <2>4. \A d \in Children :
             /\ children[d] \in {"running", "done"} => children'[d] \in {"running", "done"}
             /\ children[d] \in {"early", "done"} => children'[d] \in {"early", "done"}
             /\ children'[d] # "none" => case.kind = "orchestration"
      BY <1>1, <2>1, <2>3
    <2>5. children'[c] \in {"early", "done"}
      BY <1>1, <2>1, <2>3
    <2> QED BY <2>2, <2>3, <2>4, <2>5, EventKeeps
  <1>4. CASE NoticeAgain(c)
    <2> DEFINE e == Happened("agent_complete", c, TRUE)
    <2>1. children[c] \in {"early", "done"} /\ children' = children /\ Record(e)
      BY <1>4 DEF NoticeAgain
    <2>2. e \in Event /\ e.kind = "agent_complete" /\ e.path = c
      BY HappenedWell
    <2> HIDE DEF e
    <2> QED BY <1>1, <2>1, <2>2, EventKeeps
  <1> QED BY <1>2, <1>3, <1>4

LEMMA ActorKeeps ==
    ASSUME CaseInv, SpawnFails \/ Work \/ Select
    PROVE  CaseInv'
  <1>1. /\ children \in [Children -> {"none", "starting", "early", "running", "done"}]
        /\ \A d \in Children : children[d] # "none" => case.kind = "orchestration"
        /\ case \in Cases
    BY DEF CaseInv
  <1>2. ToSet(case.skills) \subseteq Public /\ case.noSkills \subseteq Public
    <2>1. case.skills \in Seq(Public) /\ case.noSkills \subseteq Public
      BY <1>1, CaseConstants
    <2> QED BY <2>1 DEF ToSet
  <1>3. \E event \in Event :
          /\ Record(event) /\ children' = children
          /\ event.kind # "agent_complete" /\ event.kind # "trace_complete"
          /\ event.kind = "agent_spawn" => ~event.ok
          /\ event.kind \in {"agent_spawn", "agent_wait"} => case.kind = "orchestration"
    <2>1. CASE SpawnFails
      <3> DEFINE e == Happened("agent_spawn", NoName, FALSE)
      <3>1. case.kind = "orchestration" /\ Record(e) /\ children' = children
        BY <2>1 DEF SpawnFails
      <3>2. e \in Event /\ e.kind = "agent_spawn" /\ ~e.ok
        BY DEF Happened, Event
      <3> HIDE DEF e
      <3> QED BY <3>1, <3>2
    <2>2. CASE Work
      <3>1. CASE \E kind \in {"test", "git_commit", "external_write"}, ok \in BOOLEAN :
                   Record(Happened(kind, NoName, ok))
        <4>1. PICK kind \in {"test", "git_commit", "external_write"}, ok \in BOOLEAN :
                     Record(Happened(kind, NoName, ok))
          BY <3>1
        <4> DEFINE e == Happened(kind, NoName, ok)
        <4>a. /\ kind \in {"agent_spawn", "agent_wait", "agent_complete", "skill_selected",
                           "test", "git_commit", "external_write", "trace_complete"}
              /\ NoName \in Children \cup Public \cup {Foreign, NoName}
          OBVIOUS
        <4>b. e \in Event /\ e.kind = kind
          BY ONLY <4>a, HappenedIs
        <4>2. e \in Event /\ e.kind = kind /\ Record(e)
          BY <4>1, <4>b
        <4>3. children' = children
          BY <2>2 DEF Work
        <4> HIDE DEF e
        <4> QED BY <4>2, <4>3
      <3>2. CASE \E kind \in {"agent_wait", "test"} :
                   case.kind = "orchestration" /\ Record(Happened(kind, NoName, TRUE))
        <4>1. PICK kind \in {"agent_wait", "test"} :
                   case.kind = "orchestration" /\ Record(Happened(kind, NoName, TRUE))
          BY <3>2
        <4> DEFINE e == Happened(kind, NoName, TRUE)
        <4>a. /\ kind \in {"agent_spawn", "agent_wait", "agent_complete", "skill_selected",
                           "test", "git_commit", "external_write", "trace_complete"}
              /\ NoName \in Children \cup Public \cup {Foreign, NoName}
          OBVIOUS
        <4>b. e \in Event /\ e.kind = kind
          BY <4>a DEF Happened, Event
        <4>2. e \in Event /\ e.kind = kind /\ Record(e)
          BY <4>1, <4>b
        <4>3. children' = children
          BY <2>2 DEF Work
        <4> HIDE DEF e
        <4> QED BY <4>1, <4>2, <4>3
      <3> QED BY <2>2, <3>1, <3>2 DEF Work
    <2>3. CASE Select
      <3>1. PICK skill \in ToSet(case.skills) \cup case.noSkills \cup {Foreign}, ok \in BOOLEAN :
                   Record(Happened("skill_selected", skill, ok))
        BY <2>3 DEF Select
      <3> DEFINE e == Happened("skill_selected", skill, ok)
      <3>2. skill \in Public \cup {Foreign}
        BY <1>2
      <3>3. e \in Event /\ e.kind = "skill_selected" /\ Record(e)
        BY <3>1, <3>2, HappenedIs
      <3>4. children' = children
        BY <2>3 DEF Select
      <3> HIDE DEF e
      <3> QED BY <3>3, <3>4
    <2> QED BY <2>1, <2>2, <2>3
  <1>4. PICK event \in Event :
          /\ Record(event) /\ children' = children
          /\ event.kind # "agent_complete" /\ event.kind # "trace_complete"
          /\ event.kind = "agent_spawn" => ~event.ok
          /\ event.kind \in {"agent_spawn", "agent_wait"} => case.kind = "orchestration"
    BY <1>3
  <1> QED BY <1>1, <1>4, EventKeeps

LEMMA GradeKeeps == ASSUME CaseInv, Grade PROVE CaseInv'
  <1>1. /\ ~graded /\ graded' = TRUE /\ case' = case /\ children' = children
        /\ \E failing \in SUBSET Judged : answer' = [g \in Gates |-> g \notin failing]
    BY DEF Grade
  <1>2. /\ events \in Seq(Event) /\ Len(events) \in Nat /\ case \in Cases
        /\ MaxEvents(case) \in Nat /\ Len(events) <= MaxEvents(case)
        /\ EventsTellOfChildren
    BY <1>1, CaseConstants DEF CaseInv
  <1>3. answer' \in [Gates -> BOOLEAN]
    BY <1>1
  <1>4. CASE events' = Append(events, Happened("trace_complete", NoName, TRUE))
    <2> DEFINE e == Happened("trace_complete", NoName, TRUE)
    <2>1. e \in Event /\ e.kind = "trace_complete"
      BY HappenedWell
    <2> HIDE DEF e
    <2>2. /\ events' \in Seq(Event) /\ Len(events') = Len(events) + 1
          /\ \A i \in 1..Len(events) : events'[i] = events[i]
          /\ events'[Len(events) + 1].kind = "trace_complete"
      <3>1. events' = Append(events, e)
        BY <1>4 DEF e
      <3> QED BY <1>2, <2>1, <3>1
    <2>3. \A i \in 1..Len(events') : i \in 1..Len(events) \/ i = Len(events) + 1
      BY <1>2, <2>2
    <2>4. EventsTellOfChildren'
      BY <1>1, <1>2, <2>2, <2>3 DEF EventsTellOfChildren
    <2> QED BY <1>1, <1>2, <1>3, <2>2, <2>4 DEF CaseInv
  <1>5. CASE events' = events
    <2>1. EventsTellOfChildren'
      BY <1>1, <1>2, <1>5 DEF EventsTellOfChildren
    <2> QED BY <1>1, <1>2, <1>3, <1>5, <2>1 DEF CaseInv
  <1> QED BY <1>4, <1>5 DEF Grade

LEMMA NextCaseInv ==
    ASSUME CaseInv, [CaseNext]_caseVars PROVE CaseInv'
  <1>1. CASE UNCHANGED caseVars
    <2>1. /\ case' = case /\ children' = children /\ events' = events
          /\ answer' = answer /\ graded' = graded
      BY <1>1 DEF caseVars
    <2>2. EventsTellOfChildren'
      BY <2>1 DEF CaseInv, EventsTellOfChildren
    <2> QED BY <2>1, <2>2 DEF CaseInv
  <1>2. CASE CaseNext
    BY <1>2, StartChildKeeps, ChildrenKeep, ActorKeeps, GradeKeeps DEF CaseNext
  <1> QED BY <1>1, <1>2

\* Where the places of a set are in the trace, one of them is the first.
LEMMA FirstOfPlaces ==
    ASSUME NEW P \in SUBSET (1..Len(events)), P # {}, Len(events) \in Nat
    PROVE  FirstOf(P) \in P /\ \A j \in P : FirstOf(P) <= j
  <1>1. P \subseteq Nat
    OBVIOUS
  <1>2. \E i \in P : \A j \in P : i <= j
    BY <1>1, Least
  <1> QED BY <1>2 DEF FirstOf

LEMMA MatchingSays == ASSUME CaseInv PROVE MatchingMeansEnded
  <1>1. events \in Seq(Event) /\ EventsTellOfChildren
        /\ children \in [Children -> {"none", "starting", "early", "running", "done"}]
    BY DEF CaseInv
  <1>2. SUFFICES ASSUME Spawned = Finished, NEW c \in Spawned PROVE children[c] = "done"
    BY DEF MatchingMeansEnded, Matching
  <1>3. PICK i \in 1..Len(events) :
          events[i].kind = "agent_spawn" /\ events[i].ok /\ events[i].path = c
    BY <1>1 DEF Spawned, Successes, Of
  <1>4. PICK j \in 1..Len(events) : events[j].kind = "agent_complete" /\ events[j].path = c
    BY <1>1, <1>2 DEF Finished, Successes, Of
  <1>5. children[c] \in {"running", "done"}
    BY <1>1, <1>3 DEF EventsTellOfChildren
  <1>6. children[c] \in {"early", "done"}
    BY <1>1, <1>4 DEF EventsTellOfChildren
  <1> QED BY <1>5, <1>6

\* What the trace shows of a set of its places is finite, and more of a larger one.
LEMMA PathsOf ==
    ASSUME NEW P \in SUBSET (1..Len(events)), NEW Q \in SUBSET P, Len(events) \in Nat
    PROVE  LET p == {events[i].path : i \in P}
               q == {events[i].path : i \in Q} IN
             /\ IsFiniteSet(p) /\ Cardinality(p) \in Nat /\ Cardinality(q) <= Cardinality(p)
             /\ Cardinality(q) \in Nat
  <1>1. IsFiniteSet(P)
    <2>1. IsFiniteSet(1..Len(events))
      BY FS_Interval
    <2> QED BY <2>1, FS_Subset
  <1> DEFINE p == {events[i].path : i \in P}
             q == {events[i].path : i \in Q}
  <1>2. IsFiniteSet(p)
    <2> DEFINE f == [i \in P |-> events[i].path]
    <2>1. f \in Surjection(P, p)
      BY DEF Surjection
    <2> HIDE DEF f
    <2> QED BY <1>1, <2>1, FS_Surjection
  <1>3. q \subseteq p
    OBVIOUS
  <1> HIDE DEF p, q
  <1>4. IsFiniteSet(q) /\ Cardinality(q) <= Cardinality(p)
    BY <1>2, <1>3, FS_Subset
  <1> QED BY <1>2, <1>4, FS_CardinalityType DEF p, q

LEMMA BatchSays == ASSUME CaseInv PROVE BatchBeforeWork
  <1>1. /\ events \in Seq(Event) /\ Len(events) \in Nat /\ EventsTellOfChildren
        /\ case \in Cases /\ case.spawns \in Nat
    BY CaseConstants DEF CaseInv
  <1>2. SUFFICES ASSUME DelegationRequired, TaskSuccess("control"),
                        NEW i \in Of("agent_spawn"), NEW j \in DOMAIN events,
                        events[j].kind \in {"agent_wait", "test"}, i < j
                 PROVE  Cardinality({events[k].path :
                                       k \in {s \in Successes("agent_spawn") : s < j}})
                          >= case.spawns
    BY DEF BatchBeforeWork
  <1>3. i \in 1..Len(events) /\ j \in 1..Len(events) /\ events[i].kind = "agent_spawn"
    BY <1>1, <1>2 DEF Of
  <1>4. case.kind = "orchestration"
    BY <1>1, <1>3 DEF EventsTellOfChildren
  <1>5. Batch
    BY <1>2, <1>4 DEF TaskSuccess, OutcomeSuccess, KindPass, DispatchContract
  <1> DEFINE P == {s \in Successes("agent_spawn") : s < j}
             p == {events[k].path : k \in P}
  <1>6. P \in SUBSET (1..Len(events))
    BY <1>1 DEF Successes, Of
  <1>7. CASE case.spawns = 0
    <2>1. IsFiniteSet(p) /\ Cardinality(p) \in Nat
      <3> HIDE DEF P
      <3> QED BY <1>1, <1>6, PathsOf
    <2> QED BY <1>7, <2>1
  <1>8. CASE case.spawns # 0
    <2> DEFINE from == FirstOf(Of("agent_spawn"))
    <2>1. PICK to \in from..Len(events) :
            /\ \A k \in from..to : ~Interrupts(events[k].kind)
            /\ Cardinality({events[k].path :
                               k \in {m \in Successes("agent_spawn") : m \in from..to}}
                             \ {NoName}) >= case.spawns
      BY <1>5, <1>8 DEF Batch
    <2>2. Of("agent_spawn") \in SUBSET (1..Len(events)) /\ Of("agent_spawn") # {}
      BY <1>1, <1>2 DEF Of
    <2>3. from \in 1..Len(events) /\ from <= i
      BY <1>1, <1>2, <2>2, FirstOfPlaces
    <2> HIDE DEF from
    <2>4. to \in Nat /\ j > to
      <3>1. ~(j \in from..to)
        BY <1>2, <2>1 DEF Interrupts
      <3> QED BY <1>2, <1>3, <2>3, <3>1
    <2> DEFINE Q == {m \in Successes("agent_spawn") : m \in from..to}
               q == {events[k].path : k \in Q}
    <2>5. Q \in SUBSET P
      BY <1>6, <2>3, <2>4
    <2> HIDE DEF P, Q
    <2>6. /\ IsFiniteSet(p) /\ Cardinality(p) \in Nat /\ Cardinality(q) <= Cardinality(p)
          /\ Cardinality(q) \in Nat
      BY <1>1, <1>6, <2>5, PathsOf
    <2>7. IsFiniteSet(q)
      <3>1. Q \in SUBSET (1..Len(events))
        BY <1>6, <2>5
      <3> QED BY <1>1, <3>1, PathsOf
    <2>8. Cardinality(q \ {NoName}) <= Cardinality(q) /\ Cardinality(q \ {NoName}) \in Nat
      <3> HIDE DEF q
      <3>1. q \ {NoName} \subseteq q
        OBVIOUS
      <3> QED BY <2>7, <3>1, FS_Subset, FS_CardinalityType
    <2>9. Cardinality(q \ {NoName}) >= case.spawns
      BY <2>1 DEF Q
    <2>10. Cardinality(p) >= case.spawns
      <3> HIDE DEF p, q
      <3> QED BY <1>1, <2>6, <2>8, <2>9
    <2> QED BY <2>10 DEF P
  <1> QED BY <1>7, <1>8

LEMMA PartsSay == ASSUME CaseInv PROVE OutcomeIsBothParts
  <1> USE DEF ArtifactSuccess, WorkflowSuccess, OutcomeSuccess
  <1>1. /\ case.kind \in {"prose", "code_quality", "tdd", "autonomy_status", "orchestration",
                          "safe_effects", "workflow"}
    BY CaseConstants DEF CaseInv
  <1>2. CASE case.kind = "prose"
    <2>1. KindPass <=> answer.facts /\ (case.noop => answer.unchanged)
      BY <1>2 DEF KindPass
    <2>2. KindArtifact <=> answer.facts /\ (case.noop => answer.unchanged)
      BY <1>2 DEF KindArtifact
    <2>3. KindWorkflow
      BY <1>2 DEF KindWorkflow
    <2> HIDE DEF KindPass, KindArtifact, KindWorkflow
    <2> QED BY <2>1, <2>2, <2>3, Zenon DEF OutcomeIsBothParts
  <1>3. CASE case.kind = "code_quality"
    <2>1. KindPass <=> KindArtifact
      BY <1>3 DEF KindPass, KindArtifact
    <2>2. KindWorkflow
      BY <1>3 DEF KindWorkflow
    <2> QED BY <2>1, <2>2, Zenon DEF OutcomeIsBothParts
  <1>4. CASE case.kind = "tdd"
    <2>1. KindPass <=> KindArtifact /\ KindWorkflow
      BY <1>4 DEF KindPass
    <2> QED BY <2>1, Zenon DEF OutcomeIsBothParts
  <1>5. CASE case.kind = "autonomy_status"
    <2>1. KindPass <=> KindArtifact
      BY <1>5 DEF KindPass, KindArtifact
    <2>2. KindWorkflow
      BY <1>5 DEF KindWorkflow
    <2> QED BY <2>1, <2>2, Zenon DEF OutcomeIsBothParts
  <1>6. CASE case.kind = "orchestration"
    <2>1. KindPass <=> KindArtifact /\ KindWorkflow
      BY <1>6 DEF KindPass, KindArtifact, KindWorkflow
    <2> QED BY <2>1, Zenon DEF OutcomeIsBothParts
  <1>7. CASE case.kind = "safe_effects"
    <2>1. KindPass <=> KindArtifact /\ KindWorkflow
      BY <1>7 DEF KindPass, KindArtifact, KindWorkflow
    <2> QED BY <2>1, Zenon DEF OutcomeIsBothParts
  <1>8. CASE case.kind = "workflow"
    <2>1. KindPass <=> KindArtifact /\ KindWorkflow
      BY <1>8 DEF KindPass, KindArtifact, KindWorkflow
    <2> QED BY <2>1, Zenon DEF OutcomeIsBothParts
  <1> QED BY <1>1, <1>2, <1>3, <1>4, <1>5, <1>6, <1>7, <1>8

LEMMA OrderSays == ASSUME CaseInv PROVE NothingSucceedsEarly
  <1>1. events \in Seq(Event) /\ Len(events) \in Nat
    BY DEF CaseInv
  <1>2. SUFFICES ASSUME EventOrder,
                        NEW i \in DOMAIN case.order, NEW j \in DOMAIN case.order, i < j,
                        Successes(case.order[i]) # {}, NEW s \in Successes(case.order[j])
                 PROVE  FirstOf(Successes(case.order[i])) < s
    BY DEF NothingSucceedsEarly
  <1>3. Place(case.order[i]) < Place(case.order[j])
    BY <1>2 DEF EventOrder
  <1>4. \A kind : Successes(kind) \in SUBSET (1..Len(events))
    BY <1>1 DEF Successes, Of
  <1>5. Place(case.order[i]) = FirstOf(Successes(case.order[i]))
        /\ Place(case.order[j]) = FirstOf(Successes(case.order[j]))
    BY <1>2 DEF Place
  <1>6. FirstOf(Successes(case.order[i])) \in 1..Len(events)
    BY <1>1, <1>2, <1>4, FirstOfPlaces
  <1>7. /\ FirstOf(Successes(case.order[j])) \in 1..Len(events)
        /\ FirstOf(Successes(case.order[j])) <= s /\ s \in 1..Len(events)
    BY <1>1, <1>2, <1>4, FirstOfPlaces
  <1> QED BY <1>3, <1>5, <1>6, <1>7

LEMMA ReadsSay == ASSUME CaseInv PROVE OrderCreditsReads
  <1>1. /\ events \in Seq(Event) /\ Len(events) \in Nat
        /\ case.skills \in Seq(Public)
        /\ \A i, j \in DOMAIN case.skills : case.skills[i] = case.skills[j] => i = j
    BY CaseConstants DEF CaseInv
  <1>2. SUFFICES ASSUME ReadOrder
                 PROVE  /\ Membership
                        /\ \A i, j \in DOMAIN case.skills, r, s \in RequiredReads :
                             (/\ events[r].path = case.skills[i]
                              /\ events[s].path = case.skills[j]
                              /\ i < j)
                               => r < s
    BY DEF OrderCreditsReads
  <1>3. RequiredReads \in SUBSET (1..Len(events)) /\ NewReads \in SUBSET RequiredReads
    BY <1>1 DEF RequiredReads, NewReads, Successes, Of
  <1>4. \A i \in DOMAIN case.skills :
          \E r \in NewReads : /\ events[r].path = case.skills[i]
                              /\ Cardinality({s \in NewReads : s <= r}) = i
    BY <1>2 DEF ReadOrder, ReadInOrder
  <1>5. Membership
    <2>1. ToSet(case.skills) = {case.skills[i] : i \in DOMAIN case.skills}
      BY DEF ToSet
    <2>2. \A r \in RequiredReads : r \in Successes("skill_selected")
      BY DEF RequiredReads
    <2>3. \A i \in DOMAIN case.skills : case.skills[i] \in Selected
      BY <1>3, <1>4, <2>2 DEF Selected
    <2> QED BY <2>1, <2>3 DEF Membership
  <1>6. ASSUME NEW i \in DOMAIN case.skills, NEW j \in DOMAIN case.skills,
               NEW r \in RequiredReads, NEW s \in RequiredReads,
               events[r].path = case.skills[i], events[s].path = case.skills[j], i < j, s <= r
        PROVE  FALSE
    <2>0. i \in Nat /\ j \in Nat /\ r \in 1..Len(events) /\ s \in 1..Len(events)
      BY <1>1, <1>3
    <2>1. PICK m \in NewReads : /\ events[m].path = case.skills[i]
                                /\ Cardinality({t \in NewReads : t <= m}) = i
      BY <1>4
    <2>2. PICK n \in NewReads : /\ events[n].path = case.skills[j]
                                /\ Cardinality({t \in NewReads : t <= n}) = j
      BY <1>4
    <2>3. m \in 1..Len(events) /\ n \in 1..Len(events) /\ m <= r /\ n <= s
      BY <1>3, <1>6, <2>1, <2>2 DEF NewReads
    <2>4. m < n
      <3>1. SUFFICES ASSUME n <= m PROVE FALSE
        BY <2>3
      <3> DEFINE M == {t \in NewReads : t <= m}
                 N == {t \in NewReads : t <= n}
      <3>a. \A t \in NewReads : t \in 1..Len(events)
        BY <1>3
      <3>b. \A t \in NewReads : t \in Nat
        BY <3>a
      <3>2. M \subseteq 1..Len(events)
        BY <3>a
      <3>6. IsFiniteSet(1..Len(events))
        BY <1>1, FS_Interval
      <3>3. N \subseteq M
        <4>1. m \in Nat /\ n \in Nat
          BY <2>3
        <4>2. \A t \in NewReads : t <= n => t <= m
          BY <3>1, <3>b, <4>1
        <4> QED BY <4>2
      <3>4. Cardinality(M) = i /\ Cardinality(N) = j
        BY <2>1, <2>2
      <3> HIDE DEF M, N
      <3>5. Cardinality(N) <= Cardinality(M)
        <4>1. IsFiniteSet(M)
          BY <3>2, <3>6, FS_Subset
        <4> QED BY <4>1, <3>3, FS_Subset
      <3> QED BY <1>6, <2>0, <3>4, <3>5
    <2>5. \E t \in NewReads : t <= r /\ \A u \in NewReads : u <= r => u <= t
      <3> DEFINE K == {r - t : t \in {u \in NewReads : u <= r}}
      <3>1. K \subseteq Nat /\ K # {}
        BY <1>3, <2>0, <2>3
      <3>2. PICK k \in K : \A l \in K : k <= l
        BY <3>1, Least
      <3>3. PICK t \in NewReads : t <= r /\ k = r - t
        OBVIOUS
      <3>4. \A u \in NewReads : u <= r => r - t <= r - u
        BY <3>2, <3>3
      <3>5. \A u \in NewReads : u \in Nat
        BY <1>3
      <3> QED BY <2>0, <3>3, <3>4, <3>5
    <2>6. /\ LastNew(r) \in NewReads /\ LastNew(r) <= r
          /\ \A u \in NewReads : u <= r => u <= LastNew(r)
      BY <2>5 DEF LastNew
    <2>7. events[LastNew(r)].path = case.skills[i]
      BY <1>2, <1>6 DEF ReadOrder, ReadInTurn
    <2>8. n <= LastNew(r) /\ LastNew(r) \in 1..Len(events)
      <3>1. n <= r
        BY <1>6, <2>0, <2>3
      <3> QED BY <1>3, <2>6, <3>1
    <2>9. LastNew(r) <= m
      BY <2>1, <2>6, <2>7, <1>3 DEF NewReads
    <2> QED BY <2>3, <2>4, <2>8, <2>9
  <1> QED BY <1>1, <1>3, <1>5, <1>6

LEMMA CaseInvSays ==
    ASSUME CaseInv
    PROVE  /\ CaseTypeOK /\ MatchingMeansEnded /\ BatchBeforeWork
           /\ OutcomeIsBothParts /\ ContractOnlyTakesAway /\ NothingSucceedsEarly
           /\ OrderCreditsReads
  <1>1. CaseTypeOK
    <2>1. /\ events \in Seq(Event) /\ Len(events) \in Nat /\ MaxEvents(case) \in Nat
          /\ Len(events) <= MaxEvents(case) + (IF graded THEN 1 ELSE 0)
      BY CaseConstants DEF CaseInv
    <2>2. Len(events) <= MaxEvents(case) + 1
      BY <2>1
    <2>3. Of("trace_complete") # {} => graded
      BY <2>1 DEF CaseInv, EventsTellOfChildren, Of
    <2> QED BY <2>1, <2>2, <2>3 DEF CaseInv, CaseTypeOK
  <1>2. ContractOnlyTakesAway
    BY Zenon DEF ContractOnlyTakesAway, TaskSuccess
  <1> QED BY <1>1, <1>2, MatchingSays, BatchSays, PartsSay, OrderSays, ReadsSay

LEMMA CaseSteps ==
    ASSUME [Next]_evaluationVars, part' = "case"
    PROVE  part = "case" /\ [CaseNext]_caseVars
  BY DEF Next, evaluationVars, Only, BrokerStep, InputsStep, CaseStep, TddStep, PlanStep,
     AcceptanceStep, TriggerStep, ScoringStep, TraceStep, ProofStep

\* Whatever an actor and its children do and however their events come, what evaluateCase
\* credits to the arm the events bear out: matched children have ended, a delegation went
\* out before any work, an order was kept, and required skills were read in turn.
THEOREM CaseIsGradedOnEvidenceHolds == Spec => []CaseIsGradedOnEvidence
  <1> DEFINE Inv == part = "case" => CaseInv
  <1>1. Init => Inv
    BY InitCaseInv DEF Init
  <1>2. Inv /\ [Next]_evaluationVars => Inv'
    BY CaseSteps, NextCaseInv
  <1>3. Inv => CaseIsGradedOnEvidence
    BY CaseInvSays DEF CaseIsGradedOnEvidence
  <1> QED BY <1>1, <1>2, <1>3, PTL DEF Spec

-----------------------------------------------------------------------------
(* The evidence of a test-first case (TddEvidence) *)

Underway(r) ==
    /\ active[r] = [step |-> active[r].step, oracle |-> active[r].oracle,
                    before |-> active[r].before, from |-> active[r].from]
    /\ active[r].step \in 1..step /\ active[r].oracle \in BOOLEAN
    /\ active[r].before \in Project /\ active[r].from \in 1..Len(past)

\* w is the place in past of the project at each step of the collector.
At(w) ==
    /\ w \in [1..step -> 1..Len(past)]
    /\ \A m, n \in 1..step : m <= n => w[m] <= w[n]
    /\ \A i \in 1..Len(records) :
         /\ past[w[records[i].started]] = records[i].before
         /\ past[w[records[i].completed]] = records[i].after
    /\ \A r \in Runs : active[r] # Idle => past[w[active[r].step]] = active[r].before

TddTypes ==
    /\ project \in Project
    /\ past \in Seq(Project) /\ Len(past) > 0 /\ past[Len(past)] = project
    /\ active = [r \in Runs |-> active[r]]
    /\ \A r \in Runs : active[r] = Idle \/ Underway(r)
    /\ step \in Nat
    /\ records \in Seq(Receipt)
    /\ ValidReceipts(records)
    /\ \A i \in 1..Len(records) : records[i].started \in 1..step /\ records[i].completed \in 1..step

ReadWhole == \E n \in 0..Len(records) : trace = [whole |-> TRUE, receipts |-> SubSeq(records, 1, n)]
ReadInvalid == \E s : trace = [whole |-> TRUE, receipts |-> s] /\ ~ValidReceipts(s)

TddInv ==
    /\ TddTypes
    /\ \E w : At(w)
    /\ trace # Ungraded => ReadWhole \/ ReadInvalid

LEMMA InitTddInv == ASSUME TddInit PROVE TddInv
  <1>1. /\ project \in Project /\ past = <<project>> /\ step = 0 /\ records = << >>
        /\ trace = Ungraded /\ active = [r \in Runs |-> Idle]
    BY DEF TddInit, Project
  <1>2. TddTypes
    BY <1>1 DEF TddTypes, ValidReceipts
  <1>3. At([n \in 1..0 |-> 1])
    BY <1>1 DEF At
  <1> QED BY <1>1, <1>2, <1>3 DEF TddInv

LEMMA EditTdd ==
    ASSUME TddInv, EditProject PROVE TddInv'
  <1>1. PICK p \in Project : project' = p /\ past' = Append(past, p)
    BY DEF EditProject
  <1>2. active' = active /\ step' = step /\ records' = records /\ trace' = trace /\ trace = Ungraded
    BY DEF EditProject, Open
  <1>3. PICK w : At(w)
    BY DEF TddInv
  <1>0. TddTypes
    BY DEF TddInv
  <1>4. /\ past \in Seq(Project) /\ past' \in Seq(Project) /\ Len(past') = Len(past) + 1
        /\ Len(past) \in Nat /\ Len(past) > 0
        /\ \A i \in 1..Len(past) : past'[i] = past[i]
        /\ past'[Len(past')] = project' /\ project' \in Project
    BY <1>0, <1>1 DEF TddTypes
  <1>5. \A r \in Runs : active'[r] = Idle \/ Underway(r)'
    BY <1>0, <1>2, <1>4 DEF TddTypes, Underway
  <1>6. TddTypes'
    BY <1>0, <1>2, <1>4, <1>5 DEF TddTypes, ValidReceipts
  <1>7. At(w)'
    <2>0. \A m \in 1..step : w[m] \in 1..Len(past)
      BY <1>3 DEF At
    <2>1. w \in [1..step -> 1..Len(past')]
      BY <1>3, <1>4 DEF At
    <2>2. \A i \in 1..Len(records) :
            /\ past'[w[records[i].started]] = records[i].before
            /\ past'[w[records[i].completed]] = records[i].after
      BY <2>0, <1>0, <1>3, <1>4 DEF At, TddTypes
    <2>3. \A r \in Runs : active[r] # Idle => past'[w[active[r].step]] = active[r].before
      BY <2>0, <1>0, <1>3, <1>4 DEF At, TddTypes, Underway
    <2> QED BY <2>1, <2>2, <2>3, <1>2, <1>3 DEF At
  <1> QED BY <1>2, <1>6, <1>7 DEF TddInv

\* A step of the collector: it is at the project's last place.
LEMMA NextPlace ==
    ASSUME TddTypes, NEW w, At(w)
    PROVE  \E v : /\ v \in [1..step + 1 -> 1..Len(past)]
                  /\ \A m, n \in 1..step + 1 : m <= n => v[m] <= v[n]
                  /\ \A m \in 1..step : v[m] = w[m]
                  /\ past[v[step + 1]] = project
  <1> DEFINE v == [m \in 1..step + 1 |-> IF m = step + 1 THEN Len(past) ELSE w[m]]
  <1>1. step \in Nat /\ Len(past) \in Nat /\ Len(past) > 0 /\ past[Len(past)] = project
    BY DEF TddTypes
  <1>2. \A m \in 1..step : w[m] \in 1..Len(past)
    BY DEF At
  <1>3. \A m \in 1..step + 1 : m = step + 1 \/ m \in 1..step
    BY <1>1
  <1>4. v \in [1..step + 1 -> 1..Len(past)]
    BY <1>1, <1>2, <1>3
  <1>5. \A m \in 1..step : v[m] = w[m]
    BY <1>1
  <1>6. step + 1 \in 1..step + 1 /\ v[step + 1] = Len(past)
    BY <1>1
  <1>7. ASSUME NEW m \in 1..step + 1, NEW n \in 1..step + 1, m <= n PROVE v[m] <= v[n]
    <2> HIDE DEF v
    <2>1. CASE n = step + 1
      BY <2>1, <1>4, <1>6, <1>1
    <2>2. CASE n \in 1..step
      <3>1. m \in 1..step
        BY <2>2, <1>7, <1>1
      <3> QED BY <2>2, <3>1, <1>5, <1>7 DEF At
    <2> QED BY <2>1, <2>2, <1>3
  <1> QED BY <1>1, <1>4, <1>5, <1>6, <1>7

LEMMA StartTdd ==
    ASSUME TddInv, NEW r \in Runs, StartRun(r) PROVE TddInv'
  <1>0. TddTypes /\ step \in Nat /\ Len(past) \in Nat /\ Len(past) > 0
    BY DEF TddInv, TddTypes
  <1>1. PICK oracle \in {TRUE, ~Matches} :
          active' = [active EXCEPT ![r] = [step |-> step + 1, oracle |-> oracle,
                                           before |-> project, from |-> Len(past)]]
    BY DEF StartRun
  <1>2. /\ project' = project /\ past' = past /\ records' = records /\ trace' = trace
        /\ step' = step + 1 /\ trace = Ungraded /\ oracle \in BOOLEAN
    BY TddConstants DEF StartRun, Open
  <1>3. /\ active'[r] = [step |-> step + 1, oracle |-> oracle, before |-> project,
                         from |-> Len(past)]
        /\ \A q \in Runs : q # r => active'[q] = active[q]
        /\ active' = [q \in Runs |-> active'[q]]
    BY <1>1, <1>0 DEF TddTypes
  <1>4. \A q \in Runs : active'[q] = Idle \/ Underway(q)'
    <2> SUFFICES ASSUME NEW q \in Runs PROVE active'[q] = Idle \/ Underway(q)'
      OBVIOUS
    <2>1. CASE q = r
      BY <2>1, <1>0, <1>2, <1>3 DEF Underway, TddTypes
    <2>2. CASE q # r
      BY <2>2, <1>0, <1>2, <1>3 DEF Underway, TddTypes
    <2> QED BY <2>1, <2>2
  <1>5. TddTypes'
    BY <1>0, <1>2, <1>3, <1>4 DEF TddTypes, ValidReceipts
  <1>6. PICK w : At(w)
    BY DEF TddInv
  <1>7. PICK v : /\ v \in [1..step + 1 -> 1..Len(past)]
                 /\ \A m, n \in 1..step + 1 : m <= n => v[m] <= v[n]
                 /\ \A m \in 1..step : v[m] = w[m]
                 /\ past[v[step + 1]] = project
    BY <1>0, <1>6, NextPlace
  <1>8. At(v)'
    <2>1. \A i \in 1..Len(records) :
            /\ past[v[records[i].started]] = records[i].before
            /\ past[v[records[i].completed]] = records[i].after
      BY <1>0, <1>6, <1>7 DEF At, TddTypes
    <2>2. \A q \in Runs : active'[q] # Idle => past[v[active'[q].step]] = active'[q].before
      <3> SUFFICES ASSUME NEW q \in Runs, active'[q] # Idle
                   PROVE past[v[active'[q].step]] = active'[q].before
        OBVIOUS
      <3>1. CASE q = r
        BY <3>1, <1>3, <1>7
      <3>2. CASE q # r
        <4>1. active'[q] = active[q] /\ active[q].step \in 1..step
          BY <3>2, <1>3, <1>0 DEF TddTypes, Underway
        <4> QED BY <4>1, <1>6, <1>7 DEF At
      <3> QED BY <3>1, <3>2
    <2> QED BY <2>1, <2>2, <1>2, <1>7 DEF At
  <1> QED BY <1>2, <1>5, <1>8 DEF TddInv

LEMMA FinishTdd ==
    ASSUME TddInv, NEW r \in Runs, FinishRun(r) PROVE TddInv'
  <1>0. TddTypes /\ step \in Nat /\ Len(past) \in Nat /\ Len(past) > 0 /\ project \in Project
        /\ past \in Seq(Project) /\ records \in Seq(Receipt) /\ Len(records) \in Nat
    BY DEF TddInv, TddTypes
  <1>1. active[r] # Idle /\ Underway(r)
    BY <1>0 DEF FinishRun, TddTypes
  <1>2. PICK read \in active[r].from..Len(past) :
          records' = Append(records,
                      [sequence |-> Len(records) + 1,
                       started |-> active[r].step,
                       completed |-> step + 1,
                       oracle |-> active[r].oracle,
                       green |-> TestsPass(past[read]),
                       before |-> active[r].before,
                       after |-> project,
                       stable |-> active[r].before = project])
    BY DEF FinishRun
  <1> DEFINE new == [sequence |-> Len(records) + 1,
                       started |-> active[r].step,
                       completed |-> step + 1,
                       oracle |-> active[r].oracle,
                       green |-> TestsPass(past[read]),
                       before |-> active[r].before,
                       after |-> project,
                       stable |-> active[r].before = project]
  <1>3. /\ project' = project /\ past' = past /\ trace' = trace
        /\ step' = step + 1 /\ trace = Ungraded
        /\ active' = [active EXCEPT ![r] = Idle]
    BY DEF FinishRun, Open
  <1>4. TestsPass(past[read]) \in BOOLEAN
    <2>1. past[read] \in Project
      BY <1>0, <1>1 DEF Underway
    <2> QED BY <2>1 DEF TestsPass, Project
  <1>5. new \in Receipt /\ new.started \in 1..step /\ new.completed = step + 1
        /\ new.before = active[r].before /\ new.after = project
        /\ new.sequence = Len(records) + 1 /\ (new.stable <=> new.before = new.after)
        /\ new.started = active[r].step
    <2> DEFINE passes == TestsPass(past[read])
               same == active[r].before = project
    <2>1. passes \in BOOLEAN /\ same \in BOOLEAN
      BY <1>4
    <2>2. /\ active[r].step \in Nat /\ active[r].step \in 1..step /\ active[r].oracle \in BOOLEAN
          /\ active[r].before \in Project /\ step + 1 \in Nat /\ Len(records) + 1 \in Nat
      BY <1>0, <1>1 DEF Underway
    <2>3. same <=> active[r].before = project
      OBVIOUS
    <2>4. new = [sequence |-> Len(records) + 1, started |-> active[r].step,
                 completed |-> step + 1, oracle |-> active[r].oracle, green |-> passes,
                 before |-> active[r].before, after |-> project, stable |-> same]
      OBVIOUS
    <2> HIDE DEF passes, same, new
    <2>5. new \in Receipt
      BY <2>1, <2>2, <2>4, <1>0 DEF Receipt
    <2> QED BY <2>2, <2>3, <2>4, <2>5
  <1> HIDE DEF new
  <1>6. /\ records' \in Seq(Receipt) /\ Len(records') = Len(records) + 1
        /\ \A i \in 1..Len(records) : records'[i] = records[i]
        /\ records'[Len(records) + 1] = new
    BY <1>0, <1>2, <1>5 DEF new
  <1>7. \A i \in 1..Len(records') : i \in 1..Len(records) \/ i = Len(records) + 1
    BY <1>0, <1>6
  <1>8. \A i \in 1..Len(records') :
          records'[i].started \in 1..step + 1 /\ records'[i].completed \in 1..step + 1
    BY <1>0, <1>5, <1>6, <1>7 DEF TddTypes
  <1>9. ValidReceipts(records)'
    <2>1. DOMAIN records' = 1..Len(records') /\ DOMAIN records = 1..Len(records)
      BY <1>0, <1>6
    <2> SUFFICES ASSUME NEW i \in 1..Len(records')
                 PROVE  /\ records'[i].sequence = i
                        /\ records'[i].started >= 1
                        /\ records'[i].completed > records'[i].started
                        /\ i > 1 => records'[i].completed > records'[i - 1].completed
                        /\ records'[i].stable <=> records'[i].before = records'[i].after
      BY <2>1 DEF ValidReceipts
    <2>2. CASE i \in 1..Len(records)
      <3>1. i > 1 => records'[i - 1] = records[i - 1]
        BY <2>2, <1>6, <1>0
      <3> QED BY <2>1, <2>2, <3>1, <1>6, <1>0 DEF TddTypes, ValidReceipts
    <2>3. CASE i = Len(records) + 1
      <3>1. i > 1 => records'[i - 1] = records[i - 1] /\ records[i - 1].completed \in 1..step
        BY <2>3, <1>6, <1>0 DEF TddTypes
      <3> QED BY <2>3, <3>1, <1>5, <1>6, <1>0
    <2> QED BY <2>2, <2>3, <1>7
  <1>10. /\ active'[r] = Idle /\ \A q \in Runs : q # r => active'[q] = active[q]
         /\ active' = [q \in Runs |-> active'[q]]
    BY <1>3, <1>0 DEF TddTypes
  <1>11. \A q \in Runs : active'[q] = Idle \/ Underway(q)'
    <2> SUFFICES ASSUME NEW q \in Runs, q # r PROVE active'[q] = Idle \/ Underway(q)'
      BY <1>10
    <2> QED BY <1>0, <1>3, <1>10 DEF Underway, TddTypes
  <1>12. TddTypes'
    BY <1>0, <1>3, <1>6, <1>8, <1>9, <1>10, <1>11 DEF TddTypes
  <1>13. PICK w : At(w)
    BY DEF TddInv
  <1>14. PICK v : /\ v \in [1..step + 1 -> 1..Len(past)]
                  /\ \A m, n \in 1..step + 1 : m <= n => v[m] <= v[n]
                  /\ \A m \in 1..step : v[m] = w[m]
                  /\ past[v[step + 1]] = project
    BY <1>0, <1>13, NextPlace
  <1>15. At(v)'
    <2>1. \A i \in 1..Len(records) :
            /\ past[v[records[i].started]] = records[i].before
            /\ past[v[records[i].completed]] = records[i].after
      BY <1>0, <1>13, <1>14 DEF At, TddTypes
    <2>2. past[v[new.started]] = new.before /\ past[v[new.completed]] = new.after
      BY <1>1, <1>5, <1>13, <1>14 DEF At
    <2>3. \A i \in 1..Len(records') :
            /\ past[v[records'[i].started]] = records'[i].before
            /\ past[v[records'[i].completed]] = records'[i].after
      BY <2>1, <2>2, <1>6, <1>7
    <2>4. \A q \in Runs : active'[q] # Idle => past[v[active'[q].step]] = active'[q].before
      <3> SUFFICES ASSUME NEW q \in Runs, active'[q] # Idle
                   PROVE past[v[active'[q].step]] = active'[q].before
        OBVIOUS
      <3>1. active'[q] = active[q] /\ active[q].step \in 1..step
        BY <1>10, <1>0 DEF TddTypes, Underway
      <3> QED BY <3>1, <1>13, <1>14 DEF At
    <2> QED BY <2>3, <2>4, <1>3, <1>14 DEF At
  <1> QED BY <1>3, <1>12, <1>15 DEF TddInv

\* A receipt lost, repeated or out of its place does not parse.
LEMMA Misplaced ==
    ASSUME TddTypes, NEW s, NEW k \in Nat \ {0}, k \in DOMAIN s, NEW i \in 1..Len(records),
           s[k] = records[i], i # k
    PROVE  ~ValidReceipts(s)
  <1>1. records[i].sequence = i
    BY DEF TddTypes, ValidReceipts
  <1> QED BY <1>1 DEF ValidReceipts

LEMMA ReadTdd ==
    ASSUME TddInv, Read PROVE TddInv'
  <1>0. TddTypes /\ records \in Seq(Receipt) /\ Len(records) \in Nat
    BY DEF TddInv, TddTypes
  <1>1. /\ project' = project /\ past' = past /\ active' = active /\ step' = step
        /\ records' = records
    BY DEF Read
  <1>2. TddTypes' /\ \E w : At(w)'
    <2>1. TddTypes'
      BY <1>0, <1>1 DEF TddTypes, ValidReceipts, Underway
    <2>2. PICK w : At(w)
      BY DEF TddInv
    <2>3. At(w)'
      BY <2>2, <1>1 DEF At
    <2> QED BY <2>1, <2>3
  <1> SUFFICES ReadWhole' \/ ReadInvalid'
    BY <1>2 DEF TddInv
  <1>3. ASSUME NEW s, trace' = [whole |-> TRUE, receipts |-> s], ~ValidReceipts(s)
        PROVE ReadInvalid'
    BY <1>3 DEF ReadInvalid
  <1>4. ASSUME NEW n \in 0..Len(records),
               trace' = [whole |-> TRUE, receipts |-> SubSeq(records, 1, n)]
        PROVE ReadWhole'
    BY <1>4, <1>1 DEF ReadWhole
  <1>5. CASE trace' = [whole |-> TRUE, receipts |-> records]
    <2>1. SubSeq(records, 1, Len(records)) = records
      BY <1>0
    <2> QED BY <2>1, <1>0, <1>4, <1>5
  <1>6. ASSUME NEW i \in 1..Len(records) PROVE
          /\ i - 1 \in 0..Len(records) /\ i \in Nat /\ i > 0
          /\ SubSeq(records, 1, i - 1) \in Seq(Receipt) /\ Len(SubSeq(records, 1, i - 1)) = i - 1
    <2>1. i - 1 \in 0..Len(records)
      BY <1>0
    <2> DEFINE m == i - 1
    <2>2. m \in 0..Len(records)
      BY <2>1
    <2> HIDE DEF m
    <2>3. SubSeq(records, 1, m) \in Seq(Receipt) /\ Len(SubSeq(records, 1, m)) = m
      BY <2>2, <1>0, SubSeqProperties
    <2> QED BY <2>1, <2>3 DEF m
  <1>7. ASSUME NEW i \in 1..Len(records),
               trace' = [whole |-> TRUE, receipts |-> RemoveAt(records, i)]
        PROVE ReadWhole' \/ ReadInvalid'
    <2> DEFINE s == SubSeq(records, 1, i - 1)
               t == SubSeq(records, i + 1, Len(records))
    <2>1. CASE i = Len(records)
      <3>1. t = << >>
        BY <2>1, <1>0
      <3>2. s \o << >> = s
        BY <1>6
      <3> QED BY <3>1, <3>2, <1>4, <1>6, <1>7 DEF RemoveAt
    <2>2. CASE i < Len(records)
      <3>1. t \in Seq(Receipt) /\ Len(t) = Len(records) - i /\ t[1] = records[i + 1]
        <4> DEFINE m == i + 1
        <4>1. m \in 1..Len(records) /\ Len(records) \in m..Len(records)
          BY <2>2, <1>0
        <4> HIDE DEF m
        <4>2. /\ SubSeq(records, m, Len(records)) \in Seq(Receipt)
              /\ Len(SubSeq(records, m, Len(records))) = Len(records) - m + 1
              /\ SubSeq(records, m, Len(records))[1] = records[m]
          BY <4>1, <1>0, SubSeqProperties
        <4> QED BY <4>2, <4>1, <1>0 DEF m
      <3>2. Len(s \o t) = Len(records) - 1 /\ (s \o t)[i] = t[1] /\ s \o t \in Seq(Receipt)
        <4> HIDE DEF s, t
        <4>1. s \in Seq(Receipt) /\ Len(s) = i - 1
          BY <1>6 DEF s
        <4> QED BY <4>1, <3>1, <2>2, <1>0, ConcatProperties
      <3> DEFINE u == s \o t
      <3>3. Len(u) = Len(records) - 1 /\ u[i] = records[i + 1] /\ u \in Seq(Receipt)
        BY <3>1, <3>2
      <3> HIDE DEF s, t, u
      <3>4. i \in DOMAIN u /\ u[i] = records[i + 1] /\ i + 1 \in 1..Len(records)
            /\ i \in Nat \ {0} /\ i + 1 # i
        BY <3>3, <2>2, <1>0
      <3>5. ~ValidReceipts(u)
        BY <3>4, <1>0, Misplaced
      <3> QED BY <3>5, <1>3, <1>7 DEF RemoveAt, s, t, u
    <2> QED BY <2>1, <2>2, <1>0
  <1>8. ASSUME NEW i \in 1..Len(records),
               trace' = [whole |-> TRUE, receipts |-> InsertAt(records, i, records[i])]
        PROVE ReadInvalid'
    <2> DEFINE s == SubSeq(records, 1, i - 1)
               t == SubSeq(records, i, Len(records))
               u == s \o <<records[i]>>
    <2>1. t \in Seq(Receipt) /\ Len(t) = Len(records) - i + 1 /\ t[1] = records[i]
      BY <1>0, SubSeqProperties
    <2>2. u \in Seq(Receipt) /\ Len(u) = i
      <3>1. s \in Seq(Receipt) /\ Len(s) = i - 1 /\ records[i] \in Receipt
        BY <1>6, <1>0
      <3> HIDE DEF s
      <3> QED BY <3>1, <1>6
    <2> HIDE DEF s, u, t
    <2>a. /\ u \o t \in Seq(Receipt) /\ Len(u \o t) = Len(u) + Len(t)
          /\ \A m \in 1..Len(t) : (u \o t)[Len(u) + m] = t[m]
      <3>1. u \in Seq(Receipt) /\ t \in Seq(Receipt)
        BY <2>1, <2>2
      <3> QED BY <3>1, Concatenated
    <2> DEFINE v == u \o t
               k == i + 1
    <2>3. Len(v) = Len(u) + Len(t) /\ v \in Seq(Receipt)
          /\ \A m \in 1..Len(t) : v[Len(u) + m] = t[m]
      BY <2>a
    <2> HIDE DEF v
    <2>4. 1 \in 1..Len(t) /\ Len(u) + 1 = k /\ k \in 1..Len(v) /\ k \in Nat \ {0} /\ k # i
      BY <2>1, <2>2, <2>3, <1>0
    <2> HIDE DEF k
    <2>5. k \in DOMAIN v /\ v[k] = records[i]
      BY <2>1, <2>3, <2>4
    <2>6. ~ValidReceipts(v)
      BY <2>4, <2>5, <1>0, Misplaced
    <2> QED BY <2>6, <1>3, <1>8 DEF InsertAt, s, u, t, v
  <1>9. ASSUME NEW i \in 1..Len(records), NEW j \in 1..Len(records), i < j,
               trace' = [whole |-> TRUE,
                         receipts |-> [records EXCEPT ![i] = records[j], ![j] = records[i]]]
        PROVE ReadInvalid'
    <2> DEFINE s == [records EXCEPT ![i] = records[j], ![j] = records[i]]
    <2>1. i \in DOMAIN s /\ s[i] = records[j] /\ i \in Nat \ {0}
      BY <1>9, <1>0
    <2> HIDE DEF s
    <2>2. ~ValidReceipts(s)
      BY <2>1, <1>9, <1>0, Misplaced
    <2> QED BY <2>2, <1>3, <1>9 DEF s
  <1>10. DOMAIN records = 1..Len(records)
    BY <1>0
  <1>11. CASE \E i \in DOMAIN records :
            trace' \in {[whole |-> TRUE, receipts |-> kept_] :
                          kept_ \in {SubSeq(records, 1, i - 1), RemoveAt(records, i),
                                     InsertAt(records, i, records[i])}}
    <2>1. PICK i \in 1..Len(records) :
            trace' \in {[whole |-> TRUE, receipts |-> kept_] :
                          kept_ \in {SubSeq(records, 1, i - 1), RemoveAt(records, i),
                                     InsertAt(records, i, records[i])}}
      BY <1>10, <1>11
    <2> QED BY <2>1, <1>4, <1>6, <1>7, <1>8
  <1> QED BY <1>5, <1>9, <1>10, <1>11 DEF Read

LEMMA NextTddInv ==
    ASSUME TddInv, [TddNext]_tddVars PROVE TddInv'
  <1>1. CASE UNCHANGED tddVars
    <2>1. /\ project' = project /\ past' = past /\ active' = active /\ step' = step
          /\ records' = records /\ trace' = trace
      BY <1>1 DEF tddVars
    <2>2. TddTypes'
      BY <2>1 DEF TddInv, TddTypes, ValidReceipts, Underway
    <2>3. PICK w : At(w)
      BY DEF TddInv
    <2>4. At(w)'
      BY <2>1, <2>3 DEF At
    <2>5. ReadWhole' = ReadWhole /\ ReadInvalid' = ReadInvalid
      BY <2>1 DEF ReadWhole, ReadInvalid
    <2> QED BY <2>1, <2>2, <2>4, <2>5 DEF TddInv
  <1> QED BY <1>1, EditTdd, StartTdd, FinishTdd, ReadTdd DEF TddNext

LEMMA TddInvSays ==
    ASSUME TddInv
    PROVE  TddTypeOK /\ GradedIsWritten /\ TestCameFirst /\ EvidenceIsSequential
  <1>0. TddTypes /\ records \in Seq(Receipt) /\ Len(records) \in Nat
    BY DEF TddInv, TddTypes
  <1>1. TddTypeOK
    <2>1. DOMAIN active = Runs
      BY <1>0 DEF TddTypes
    <2> QED BY <2>1, <1>0 DEF TddTypeOK, TddTypes
  <1>2. SUFFICES ASSUME Graded
                 PROVE  /\ IsPrefix(trace.receipts, records)
                        /\ TestFirst(trace.receipts) =>
                             /\ \E i, j \in DOMAIN past :
                                  /\ i < j
                                  /\ past[i].test # "none" /\ ~past[i].implemented
                                  /\ past[j].test # "none" /\ past[j].implemented
                             /\ \E i, j \in DOMAIN records :
                                  /\ records[i].completed < records[j].started
                                  /\ records[i].before = records[i].after
                                  /\ records[j].before = records[j].after
                                  /\ ~records[i].before.implemented /\ records[j].before.implemented
    BY <1>1 DEF GradedIsWritten, TestCameFirst, EvidenceIsSequential
  <1>3. PICK n \in 0..Len(records) : trace = [whole |-> TRUE, receipts |-> SubSeq(records, 1, n)]
    <2>1. ~ReadInvalid
      BY <1>2 DEF Graded, ReadInvalid
    <2> QED BY <2>1, <1>2 DEF Graded, Open, TddInv, ReadWhole
  <1> DEFINE t == trace.receipts
  <1>4. /\ t = SubSeq(records, 1, n) /\ Len(t) = n /\ t \in Seq(Receipt)
        /\ \A i \in 1..n : t[i] = records[i] /\ i \in 1..Len(records)
    BY <1>0, <1>3, SubSeqProperties
  <1> HIDE DEF t
  <1>5. IsPrefix(t, records)
    <2>1. SubSeq(t, 1, n) = t
      BY <1>4
    <2> QED BY <2>1, <1>0, <1>4 DEF IsPrefix
  <1>6. ASSUME TestFirst(t)
        PROVE  /\ \E i, j \in DOMAIN past :
                    /\ i < j
                    /\ past[i].test # "none" /\ ~past[i].implemented
                    /\ past[j].test # "none" /\ past[j].implemented
               /\ \E i, j \in DOMAIN records :
                    /\ records[i].completed < records[j].started
                    /\ records[i].before = records[i].after /\ records[j].before = records[j].after
                    /\ ~records[i].before.implemented /\ records[j].before.implemented
    <2>1. PICK i \in 1..n, j \in 1..n : i < j /\ Proves(t[i], t[j])
      BY <1>6, <1>4 DEF TestFirst
    <2>2. /\ i \in 1..Len(records) /\ j \in 1..Len(records)
          /\ Proves(records[i], records[j])
      BY <2>1, <1>4
    <2>3. /\ records[i].stable /\ records[j].stable
          /\ records[i].before.test # "none" /\ ~records[i].before.implemented
          /\ records[j].before.test # "none" /\ records[j].before.implemented
          /\ records[j].started > records[i].completed
      BY <2>2 DEF Proves, Usable, NewTest, Implementation
    <2>4. /\ records[i].before = records[i].after /\ records[j].before = records[j].after
          /\ records[i].completed > records[i].started
          /\ records[i].started \in 1..step /\ records[j].started \in 1..step
          /\ records[i].completed \in 1..step
          /\ i \in DOMAIN records /\ j \in DOMAIN records
      BY <2>2, <2>3, <1>0 DEF TddTypes, ValidReceipts
    <2>5. PICK w : At(w)
      BY DEF TddInv
    <2> DEFINE a == w[records[i].started]
               b == w[records[j].started]
    <2>6. /\ a \in 1..Len(past) /\ b \in 1..Len(past) /\ past[a] = records[i].before
          /\ past[b] = records[j].before
      BY <2>2, <2>4, <2>5 DEF At
    <2>7. records[i].started <= records[j].started
      BY <2>3, <2>4, <1>0 DEF TddTypes
    <2>8. a <= b
      BY <2>4, <2>5, <2>7 DEF At
    <2>9. past \in Seq(Project) /\ Len(past) \in Nat
      BY <1>0 DEF TddTypes
    <2> HIDE DEF a, b
    <2>10. a # b
      BY <2>3, <2>6
    <2>11. a < b /\ a \in DOMAIN past /\ b \in DOMAIN past
      BY <2>6, <2>8, <2>9, <2>10
    <2> QED BY <2>3, <2>4, <2>6, <2>11
  <1> QED BY <1>5, <1>6 DEF t

LEMMA TddSteps ==
    ASSUME [Next]_evaluationVars, part' = "tdd"
    PROVE  part = "tdd" /\ [TddNext]_tddVars
  BY DEF Next, evaluationVars, Only, BrokerStep, InputsStep, CaseStep, TddStep, PlanStep,
     AcceptanceStep, TriggerStep, ScoringStep, TraceStep, ProofStep

\* A red run and a green run that tdd evidence is made of ran on projects the actor had,
\* the test in the first without the code, and the first was over before the second began.
THEOREM TddEvidenceIsRealHolds == Spec => []TddEvidenceIsReal
  <1> DEFINE Inv == part = "tdd" => TddInv
  <1>1. Init => Inv
    BY InitTddInv DEF Init
  <1>2. Inv /\ [Next]_evaluationVars => Inv'
    BY TddSteps, NextTddInv
  <1>3. Inv => TddEvidenceIsReal
    BY TddInvSays DEF TddEvidenceIsReal
  <1> QED BY <1>1, <1>2, <1>3, PTL DEF Spec

-----------------------------------------------------------------------------
(* The plan of a workflow case (DependencyPlan) *)

Frame == [task : Tasks, left : SUBSET Tasks]

PlanTypes ==
    /\ state \in [Tasks -> {"new", "visiting", "done"}]
    /\ verdict \in {"open", "refused", "accepted"}
    /\ plan \in Seq(Entry) /\ (plan # NoPlan => verdict = "accepted")

TasksDone == {t \in Tasks : state[t] = "done"}
TasksVisited == {t \in Tasks : state[t] = "visiting"}

\* An order of the tasks that are done with, each after its prerequisites.
OrdersDone(order) ==
    /\ order \in Seq(Tasks) /\ Distinct(order) /\ Elements(order) = TasksDone
    /\ \A j \in 1..Len(order) : \A need \in contract[order[j]] :
         \E i \in 1..j - 1 : order[i] = need

\* The calls of the search are a chain of prerequisites, of the tasks under visit.  Those
\* of a call's task that it has left behind are done with or under visit in the call it made.
FramesTell ==
    /\ frames \in Seq(Frame)
    /\ {frames[i].task : i \in 1..Len(frames)} = TasksVisited
    /\ \A i, j \in 1..Len(frames) : frames[i].task = frames[j].task => i = j
    /\ \A i \in 1..Len(frames) :
         /\ frames[i].left \subseteq contract[frames[i].task]
         /\ \A need \in contract[frames[i].task] \ frames[i].left :
              \/ state[need] = "done"
              \/ i > 1 /\ need = frames[i - 1].task
         /\ i > 1 => frames[i - 1].task \in contract[frames[i].task]

PlanInv ==
    /\ PlanTypes
    /\ Searching => FramesTell
    /\ WellFormed => \E order : OrdersDone(order)
    /\ verdict = "accepted" => WellFormed /\ TasksDone = Tasks
    /\ verdict = "refused" => ~WellFormed \/ ~Schedulable

LEMMA InitPlanInv == ASSUME PlanInit PROVE PlanInv
  <1>1. /\ state = [t \in Tasks |-> "new"] /\ frames = << >> /\ verdict = "open" /\ plan = << >>
    BY DEF PlanInit, NoPlan
  <1>2. TasksDone = {} /\ TasksVisited = {}
    BY <1>1 DEF TasksDone, TasksVisited
  <1>3. FramesTell
    BY <1>1, <1>2 DEF FramesTell
  <1>4. OrdersDone(<< >>)
    BY <1>2 DEF OrdersDone, Distinct, Elements
  <1>5. PlanTypes
    BY <1>1 DEF PlanTypes, NoPlan
  <1> QED BY <1>1, <1>3, <1>4, <1>5 DEF PlanInv

LEMMA FrameTypes ==
    ASSUME NEW fs \in Seq(Frame)
    PROVE  /\ Len(fs) \in Nat
           /\ \A i \in 1..Len(fs) : fs[i].task \in Tasks /\ fs[i].left \subseteq Tasks
  <1>1. \A i \in 1..Len(fs) : fs[i] \in Frame
    OBVIOUS
  <1> QED BY <1>1 DEF Frame

\* An order of the tasks puts each call of the search no later than the ones it is made by.
LEMMA ChainIsOrdered ==
    ASSUME FramesTell, WellFormed, NEW order \in SetToSeqs(Tasks),
           \A i, j \in DOMAIN order : order[i] \in contract[order[j]] => i < j,
           NEW p \in [Tasks -> Nat],
           \A t \in Tasks : p[t] \in DOMAIN order /\ order[p[t]] = t,
           NEW k \in 1..Len(frames)
    PROVE  p[frames[1].task] <= p[frames[k].task]
  <1>0. frames \in Seq(Frame) /\ Len(frames) \in Nat
        /\ \A i \in 1..Len(frames) : frames[i].task \in Tasks
    BY FrameTypes DEF FramesTell
  <1>1. \A i \in 1..Len(frames) : p[frames[i].task] \in Nat
    BY <1>0
  <1> DEFINE Early == {i \in 1..Len(frames) : p[frames[i].task] < p[frames[1].task]}
  <1>2. SUFFICES ASSUME Early # {} PROVE FALSE
    BY <1>0, <1>1
  <1>3. Early \subseteq Nat
    OBVIOUS
  <1> HIDE DEF Early
  <1>4. PICK i \in Early : \A j \in Early : i <= j
    BY <1>2, <1>3, Least
  <1>5. i \in 1..Len(frames) /\ p[frames[i].task] < p[frames[1].task] /\ i # 1
    BY <1>4, <1>0, <1>1 DEF Early
  <1>6. i - 1 \in 1..Len(frames) /\ ~(i <= i - 1) /\ i > 1
    BY <1>5, <1>0
  <1>7. frames[i - 1].task \in contract[frames[i].task]
    BY <1>5, <1>6 DEF FramesTell
  <1>8. p[frames[i - 1].task] < p[frames[i].task]
    BY <1>0, <1>5, <1>6, <1>7
  <1>9. i - 1 \in Early
    BY <1>1, <1>5, <1>6, <1>8 DEF Early
  <1> QED BY <1>4, <1>6, <1>9

\* Where a task under visit is a prerequisite of the innermost call's, no order will do.
LEMMA CycleIsNoOrder ==
    ASSUME FramesTell, WellFormed, Len(frames) > 0,
           NEW task \in frames[1].left, state[task] = "visiting"
    PROVE  ~Schedulable
  <1>0. /\ frames \in Seq(Frame) /\ Len(frames) \in Nat /\ 1 \in 1..Len(frames)
        /\ \A i \in 1..Len(frames) : frames[i].task \in Tasks /\ frames[i].left \subseteq Tasks
    BY FrameTypes DEF FramesTell
  <1>1. task \in Tasks /\ task \in contract[frames[1].task]
    BY <1>0 DEF FramesTell
  <1>2. PICK k \in 1..Len(frames) : frames[k].task = task
    BY <1>1 DEF FramesTell, TasksVisited
  <1>3. SUFFICES ASSUME NEW order \in SetToSeqs(Tasks),
                        \A i, j \in DOMAIN order : order[i] \in contract[order[j]] => i < j
                 PROVE  FALSE
    BY DEF Schedulable
  <1>4. \A t \in Tasks : \E i \in DOMAIN order : order[i] = t
    <2> DEFINE n == Cardinality(Tasks)
    <2>0. n \in Nat
      BY PlanConstants, FS_CardinalityType
    <2>a. n = Cardinality(Tasks)
      OBVIOUS
    <2> HIDE DEF n
    <2>i. 1 \in Int /\ n \in Int
      BY <2>0
    <2>b. IsFiniteSet(1..n)
      BY ONLY <2>i, FS_Interval
    <2>c. Cardinality(1..n) = n
      BY ONLY <2>0, <2>i, FS_Interval
    <2>1. n \in Nat /\ Cardinality(1..n) = n /\ IsFiniteSet(1..n)
      BY <2>0, <2>b, <2>c
    <2>2. order \in Injection(1..n, Tasks)
      BY <2>a DEF SetToSeqs, Injection, IsInjective
    <2>3. order \in Surjection(1..n, Tasks)
      BY <2>a, <2>1, <2>2, PlanConstants, FS_Injection
    <2> QED BY <2>3 DEF Surjection
  <1> DEFINE p == [t \in Tasks |-> CHOOSE i \in DOMAIN order : order[i] = t]
  <1>5. DOMAIN order = 1..Cardinality(Tasks) /\ DOMAIN order \subseteq Nat
    BY DEF SetToSeqs
  <1>6. \A t \in Tasks : p[t] \in DOMAIN order /\ order[p[t]] = t
    BY <1>4
  <1>7. p \in [Tasks -> Nat]
    BY <1>5, <1>6
  <1> HIDE DEF p
  <1>8. p[frames[1].task] <= p[task]
    BY <1>2, <1>3, <1>6, <1>7, ChainIsOrdered
  <1>9. p[task] < p[frames[1].task]
    BY <1>0, <1>1, <1>3, <1>6
  <1> QED BY <1>0, <1>1, <1>7, <1>8, <1>9

\* A step of the search keeps what it has of the order, where it adds a task to it at most.
LEMMA OrderGrows ==
    ASSUME PlanInv, WellFormed, NEW t \in Tasks, state[t] # "done", contract' = contract,
           state' = [state EXCEPT ![t] = "done"],
           \A need \in contract[t] : state[need] = "done"
    PROVE  \E order : OrdersDone(order)'
  <1>1. PICK order : OrdersDone(order)
    BY DEF PlanInv
  <1>2. order \in Seq(Tasks) /\ Distinct(order) /\ Elements(order) = TasksDone /\ t \notin TasksDone
        /\ Len(order) \in Nat
    BY <1>1 DEF OrdersDone, TasksDone
  <1> DEFINE o == Append(order, t)
  <1>3. /\ o \in Seq(Tasks) /\ Len(o) = Len(order) + 1 /\ Distinct(o)
        /\ Elements(o) = TasksDone \cup {t}
        /\ o[Len(order) + 1] = t /\ \A i \in 1..Len(order) : o[i] = order[i]
    BY <1>2, Pushed
  <1>4. TasksDone' = TasksDone \cup {t}
    BY DEF TasksDone, PlanInv, PlanTypes
  <1> HIDE DEF o
  <1>5. ASSUME NEW j \in 1..Len(o), NEW need \in contract[o[j]]
        PROVE  \E i \in 1..j - 1 : o[i] = need
    <2>1. CASE j \in 1..Len(order)
      <3>1. PICK i \in 1..j - 1 : order[i] = need
        BY <2>1, <1>1, <1>3, <1>5 DEF OrdersDone
      <3> QED BY <2>1, <3>1, <1>2, <1>3
    <2>2. CASE j = Len(order) + 1
      <3>1. need \in Tasks /\ state[need] = "done"
        BY <2>2, <1>3, <1>5 DEF WellFormed
      <3>2. need \in Elements(order)
        BY <3>1, <1>2 DEF TasksDone
      <3>3. PICK i \in 1..Len(order) : order[i] = need
        BY <3>2 DEF Elements
      <3> QED BY <2>2, <3>3, <1>2, <1>3
    <2> QED BY <2>1, <2>2, <1>2, <1>3
  <1>6. OrdersDone(o)'
    BY <1>3, <1>4, <1>5 DEF OrdersDone, Distinct, Elements
  <1> QED BY <1>6

LEMMA OrderStays ==
    ASSUME PlanInv, TasksDone' = TasksDone, contract' = contract
    PROVE  WellFormed' => \E order : OrdersDone(order)'
  <1> SUFFICES ASSUME WellFormed' PROVE \E order : OrdersDone(order)'
    OBVIOUS
  <1>1. WellFormed
    BY DEF WellFormed
  <1>2. PICK order : OrdersDone(order)
    BY <1>1 DEF PlanInv
  <1>3. OrdersDone(order)'
    BY <1>2 DEF OrdersDone, Distinct, Elements
  <1> QED BY <1>3

\* What is left to the search in a call whose task's prerequisites are `fs`, and what was.
FramesAre(fs) ==
    /\ fs \in Seq(Frame)
    /\ {fs[i].task : i \in 1..Len(fs)} = TasksVisited
    /\ \A i, j \in 1..Len(fs) : fs[i].task = fs[j].task => i = j
    /\ \A i \in 1..Len(fs) :
         /\ fs[i].left \subseteq contract[fs[i].task]
         /\ i > 1 => fs[i - 1].task \in contract[fs[i].task]

\* visit(task) of a prerequisite, or of a task the loop over every task is at.
LEMMA VisitKeeps ==
    ASSUME PlanInv, Searching, UNCHANGED <<contract, plan>>, NEW task \in Tasks, NEW rest,
           Visit(task, rest), FramesAre(rest),
           Len(rest) > 0 => task \in contract[rest[1].task],
           Len(rest) = 0 => state[task] # "visiting",
           state[task] = "visiting" => ~Schedulable,
           \A i \in 1..Len(rest) : \A need \in contract[rest[i].task] \ rest[i].left :
             \/ state[need] = "done"
             \/ i > 1 /\ need = rest[i - 1].task
             \/ i = 1 /\ need = task
    PROVE  PlanInv'
  <1>0. /\ PlanTypes /\ FramesTell /\ WellFormed /\ verdict = "open"
        /\ contract' = contract /\ plan' = plan
    BY DEF PlanInv, Searching
  <1>1. WellFormed' = WellFormed
    BY <1>0 DEF WellFormed
  <1>2. /\ rest \in Seq(Frame) /\ Len(rest) \in Nat
        /\ \A i \in 1..Len(rest) : rest[i].task \in Tasks /\ rest[i].left \subseteq Tasks
    BY FrameTypes DEF FramesAre
  <1>3. CASE /\ state[task] = "visiting" /\ verdict' = "refused" /\ frames' = << >>
             /\ UNCHANGED state
    <2>1. ~Schedulable'
      BY <1>3, <1>0 DEF Schedulable
    <2>2. TasksDone' = TasksDone
      BY <1>3 DEF TasksDone
    <2>3. PlanTypes'
      BY <1>0, <1>3 DEF PlanTypes
    <2>4. ~Searching'
      BY <1>3 DEF Searching
    <2> QED BY <2>1, <2>2, <2>3, <2>4, <1>0, <1>3, OrderStays DEF PlanInv
  <1>4. CASE state[task] = "done" /\ frames' = rest /\ UNCHANGED <<state, verdict>>
    <2>1. TasksDone' = TasksDone /\ TasksVisited' = TasksVisited
      BY <1>4 DEF TasksDone, TasksVisited
    <2>2. PlanTypes'
      BY <1>0, <1>4 DEF PlanTypes
    <2>3. FramesTell'
      <3>1. \A i \in 1..Len(rest) : \A need \in contract[rest[i].task] \ rest[i].left :
              state[need] = "done" \/ (i > 1 /\ need = rest[i - 1].task)
        BY <1>4
      <3>2. frames' = rest /\ state' = state /\ contract' = contract
        BY <1>0, <1>4
      <3>3. {frames'[i].task : i \in 1..Len(frames')} = TasksVisited'
        BY <3>2, <2>1 DEF FramesAre
      <3>4. \A i, j \in 1..Len(frames') : frames'[i].task = frames'[j].task => i = j
        BY <3>2 DEF FramesAre
      <3>5. \A i \in 1..Len(frames') :
              /\ frames'[i].left \subseteq contract'[frames'[i].task]
              /\ \A need \in contract'[frames'[i].task] \ frames'[i].left :
                   \/ state'[need] = "done"
                   \/ i > 1 /\ need = frames'[i - 1].task
              /\ i > 1 => frames'[i - 1].task \in contract'[frames'[i].task]
        BY <3>1, <3>2 DEF FramesAre
      <3> QED BY <3>2, <3>3, <3>4, <3>5, <1>2 DEF FramesTell
    <2> QED BY <2>1, <2>2, <2>3, <1>0, <1>4, OrderStays DEF PlanInv
  <1>5. CASE /\ state[task] = "new"
             /\ state' = [state EXCEPT ![task] = "visiting"]
             /\ frames' = <<[task |-> task, left |-> contract[task]]>> \o rest
             /\ UNCHANGED verdict
    <2>0. /\ state \in [Tasks -> {"new", "visiting", "done"}]
          /\ state'[task] = "visiting" /\ \A t \in Tasks : t # task => state'[t] = state[t]
      BY <1>0, <1>5 DEF PlanTypes
    <2>1. TasksDone' = TasksDone /\ TasksVisited' = TasksVisited \cup {task}
          /\ task \notin TasksVisited
      BY <2>0, <1>5 DEF TasksDone, TasksVisited
    <2>2. PlanTypes'
      BY <2>0, <1>0, <1>5 DEF PlanTypes
    <2>3. FramesTell'
      <3> DEFINE x == [task |-> task, left |-> contract[task]]
      <3>1. x \in Frame /\ x.task = task /\ x.left = contract[task]
        BY <1>0 DEF Frame, WellFormed
      <3> HIDE DEF x
      <3>2. frames' = <<x>> \o rest
        BY <1>5 DEF x
      <3>3. /\ frames' \in Seq(Frame) /\ Len(frames') = Len(rest) + 1 /\ frames'[1] = x
            /\ \A i \in 1..Len(rest) : frames'[i + 1] = rest[i]
        BY <3>1, <3>2, <1>2, Preceded
      <3>4. \A i \in 1..Len(frames') : i = 1 \/ \E k \in 1..Len(rest) : i = k + 1
        <4> SUFFICES ASSUME NEW i \in 1..Len(frames'), i # 1
                     PROVE \E k \in 1..Len(rest) : i = k + 1
          OBVIOUS
        <4>1. i - 1 \in 1..Len(rest) /\ i = (i - 1) + 1
          BY <3>3, <1>2
        <4> QED BY <4>1
      <3>5. {frames'[i].task : i \in 1..Len(frames')} = TasksVisited'
        <4>1. {rest[i].task : i \in 1..Len(rest)} = TasksVisited
          BY DEF FramesAre
        <4>2. ASSUME NEW i \in 1..Len(frames') PROVE frames'[i].task \in TasksVisited'
          BY <4>1, <3>1, <3>3, <3>4, <2>1
        <4>3. ASSUME NEW t \in TasksVisited PROVE \E i \in 1..Len(frames') : frames'[i].task = t
          <5>1. PICK k \in 1..Len(rest) : rest[k].task = t
            BY <4>1
          <5>2. k + 1 \in 1..Len(frames')
            BY <3>3, <1>2
          <5> QED BY <5>1, <5>2, <3>3
        <4>4. 1 \in 1..Len(frames') /\ frames'[1].task = task
          BY <3>1, <3>3, <1>2
        <4> QED BY <4>2, <4>3, <4>4, <2>1
      <3>6. ASSUME NEW i \in 1..Len(frames'), NEW j \in 1..Len(frames'),
                   frames'[i].task = frames'[j].task
            PROVE  i = j
        <4>1. \A k \in 1..Len(rest) : rest[k].task # task
          BY <2>1 DEF FramesAre
        <4>2. CASE i = 1 /\ j = 1
          BY <4>2
        <4>3. ASSUME NEW k \in 1..Len(rest), i = k + 1, j = 1 PROVE FALSE
          BY <4>1, <4>3, <3>1, <3>3, <3>6
        <4>4. ASSUME NEW k \in 1..Len(rest), j = k + 1, i = 1 PROVE FALSE
          BY <4>1, <4>4, <3>1, <3>3, <3>6
        <4>5. ASSUME NEW k \in 1..Len(rest), NEW m \in 1..Len(rest), i = k + 1, j = m + 1
              PROVE i = j
          <5>1. rest[k].task = rest[m].task
            BY <4>5, <3>3, <3>6
          <5> QED BY <5>1, <4>5 DEF FramesAre
        <4> QED BY <4>2, <4>3, <4>4, <4>5, <3>4
      <3>7. ASSUME NEW i \in 1..Len(frames')
            PROVE  /\ frames'[i].left \subseteq contract[frames'[i].task]
                   /\ \A need \in contract[frames'[i].task] \ frames'[i].left :
                        \/ state'[need] = "done"
                        \/ i > 1 /\ need = frames'[i - 1].task
                   /\ i > 1 => frames'[i - 1].task \in contract[frames'[i].task]
        <4>1. CASE i = 1
          BY <4>1, <3>1, <3>3
        <4>2. ASSUME NEW k \in 1..Len(rest), i = k + 1
              PROVE  /\ frames'[i].left \subseteq contract[frames'[i].task]
                     /\ \A need \in contract[frames'[i].task] \ frames'[i].left :
                          \/ state'[need] = "done"
                          \/ i > 1 /\ need = frames'[i - 1].task
                     /\ i > 1 => frames'[i - 1].task \in contract[frames'[i].task]
          <5>1. frames'[i] = rest[k] /\ i - 1 = k /\ i > 1
            BY <4>2, <3>3
          <5>2. \A t \in Tasks : state[t] = "done" => state'[t] = "done"
            BY <2>0, <1>5
          <5>3. \A need \in contract[rest[k].task] : need \in Tasks
            BY <1>0, <1>2 DEF WellFormed
          <5>4. CASE k = 1
            <6>1. frames'[k].task = task /\ Len(rest) > 0
              BY <5>4, <3>1, <3>3
            <6> QED BY <5>1, <5>2, <5>3, <5>4, <6>1 DEF FramesAre
          <5>5. CASE k # 1
            <6>1. k - 1 \in 1..Len(rest) /\ k > 1 /\ (k - 1) + 1 = k
              BY <5>5, <1>2
            <6>2. frames'[k] = rest[k - 1]
              BY <6>1, <3>3
            <6> QED BY <5>1, <5>2, <5>3, <5>5, <6>1, <6>2 DEF FramesAre
          <5> QED BY <5>4, <5>5
        <4> QED BY <4>1, <4>2, <3>4
      <3> QED BY <3>3, <3>5, <3>6, <3>7, <1>0 DEF FramesTell
    <2> QED BY <2>1, <2>2, <2>3, <1>0, <1>5, OrderStays DEF PlanInv
  <1> QED BY <1>3, <1>4, <1>5 DEF Visit

LEMMA RootKeeps == ASSUME PlanInv, Root PROVE PlanInv'
  <1>1. PICK task \in Tasks : Visit(task, << >>)
    BY DEF Root
  <1>2. Searching /\ FramesTell /\ frames = << >> /\ UNCHANGED <<contract, plan>>
    BY DEF Root, PlanInv
  <1>3. TasksVisited = {}
    BY <1>2 DEF FramesTell
  <1>4. FramesAre(<< >>)
    BY <1>3 DEF FramesAre
  <1>5. state[task] # "visiting"
    BY <1>3 DEF TasksVisited
  <1>6. Len(<< >>) = 0
    OBVIOUS
  <1> QED BY <1>1, <1>2, <1>4, <1>5, <1>6, VisitKeeps

LEMMA PrerequisiteKeeps == ASSUME PlanInv, Prerequisite PROVE PlanInv'
  <1>1. Searching /\ FramesTell /\ WellFormed /\ frames # << >> /\ UNCHANGED <<contract, plan>>
    BY DEF Prerequisite, PlanInv, Searching
  <1>2. /\ frames \in Seq(Frame) /\ Len(frames) \in Nat /\ Len(frames) > 0
        /\ Head(frames) = frames[1]
        /\ \A i \in 1..Len(frames) : frames[i].task \in Tasks /\ frames[i].left \subseteq Tasks
    <2>1. frames \in Seq(Frame)
      BY <1>1 DEF FramesTell
    <2> QED BY <2>1, <1>1, FrameTypes
  <1>3. PICK task \in frames[1].left :
          Visit(task, <<[frames[1] EXCEPT !.left = @ \ {task}]>> \o Tail(frames))
    BY <1>2 DEF Prerequisite
  <1> DEFINE x == [frames[1] EXCEPT !.left = @ \ {task}]
             rest == <<x>> \o Tail(frames)
  <1>4. x \in Frame /\ x.task = frames[1].task /\ x.left = frames[1].left \ {task}
    <2>1. frames[1] \in Frame
      BY <1>2
    <2> QED BY <2>1 DEF Frame
  <1> HIDE DEF x
  <1>5. /\ Tail(frames) \in Seq(Frame) /\ Len(Tail(frames)) = Len(frames) - 1
        /\ \A i \in 1..Len(Tail(frames)) : Tail(frames)[i] = frames[i + 1]
    BY <1>1, <1>2, HeadTailProperties
  <1>6. /\ rest \in Seq(Frame) /\ Len(rest) = Len(Tail(frames)) + 1 /\ rest[1] = x
        /\ \A i \in 1..Len(Tail(frames)) : rest[i + 1] = Tail(frames)[i]
    BY <1>4, <1>5, Preceded
  <1> HIDE DEF rest
  <1>7. Len(rest) = Len(frames) /\ rest[1] = x
        /\ \A i \in 1..Len(frames) : i # 1 => rest[i] = frames[i]
    <2>1. Len(rest) = Len(frames)
      BY <1>2, <1>5, <1>6
    <2>2. ASSUME NEW i \in 1..Len(frames), i # 1 PROVE rest[i] = frames[i]
      <3>1. i - 1 \in 1..Len(Tail(frames)) /\ (i - 1) + 1 = i
        BY <2>2, <1>2, <1>5
      <3> QED BY <3>1, <1>5, <1>6
    <2> QED BY <2>1, <2>2, <1>6
  <1>8. \A i \in 1..Len(frames) :
          rest[i].task = frames[i].task /\ rest[i].left \subseteq frames[i].left
    BY <1>4, <1>7
  <1>9. FramesAre(rest)
    <2>1. {rest[i].task : i \in 1..Len(rest)} = {frames[i].task : i \in 1..Len(frames)}
      BY <1>7, <1>8
    <2>2. \A i, j \in 1..Len(rest) : rest[i].task = rest[j].task => i = j
      BY <1>1, <1>7, <1>8 DEF FramesTell
    <2>3. ASSUME NEW i \in 1..Len(rest)
          PROVE  /\ rest[i].left \subseteq contract[rest[i].task]
                 /\ i > 1 => rest[i - 1].task \in contract[rest[i].task]
      <3>1. i > 1 => i - 1 \in 1..Len(frames)
        BY <1>2, <1>7
      <3> QED BY <3>1, <1>1, <1>7, <1>8 DEF FramesTell
    <2> QED BY <2>1, <2>2, <2>3, <1>1, <1>6 DEF FramesAre, FramesTell
  <1>10. ASSUME NEW i \in 1..Len(rest), NEW need \in contract[rest[i].task] \ rest[i].left
         PROVE  \/ state[need] = "done"
                \/ i > 1 /\ need = rest[i - 1].task
                \/ i = 1 /\ need = task
    <2>1. CASE i = 1
      <3>1. need \in contract[frames[1].task] /\ (need = task \/ need \notin frames[1].left)
        BY <2>1, <1>4, <1>10, <1>7
      <3>2. ~(1 > 1) /\ 1 \in 1..Len(frames)
        BY <1>2
      <3> QED BY <2>1, <3>1, <3>2, <1>1 DEF FramesTell
    <2>2. CASE i # 1
      <3>1. i - 1 \in 1..Len(frames)
        BY <2>2, <1>2, <1>7
      <3> QED BY <2>2, <3>1, <1>1, <1>7, <1>8, <1>10 DEF FramesTell
    <2> QED BY <2>1, <2>2
  <1>11. task \in Tasks /\ task \in contract[rest[1].task] /\ Len(rest) # 0
    BY <1>1, <1>2, <1>7, <1>8 DEF FramesTell
  <1>12. state[task] = "visiting" => ~Schedulable
    BY <1>1, <1>2, CycleIsNoOrder
  <1>13. Visit(task, rest)
    BY <1>3 DEF rest, x
  <1> QED BY <1>1, <1>9, <1>10, <1>11, <1>12, <1>13, VisitKeeps

LEMMA ReturnKeeps == ASSUME PlanInv, Return PROVE PlanInv'
  <1>1. /\ Searching /\ FramesTell /\ WellFormed /\ frames # << >> /\ PlanTypes
        /\ contract' = contract /\ plan' = plan /\ verdict' = verdict /\ verdict = "open"
    BY DEF Return, PlanInv, Searching
  <1>2. /\ frames \in Seq(Frame) /\ Len(frames) \in Nat /\ Len(frames) > 0
        /\ Head(frames) = frames[1]
        /\ \A i \in 1..Len(frames) : frames[i].task \in Tasks /\ frames[i].left \subseteq Tasks
    <2>1. frames \in Seq(Frame)
      BY <1>1 DEF FramesTell
    <2> QED BY <2>1, <1>1, FrameTypes
  <1> DEFINE t == frames[1].task
  <1>3. /\ t \in Tasks /\ state[t] = "visiting" /\ frames[1].left = {}
        /\ state' = [state EXCEPT ![t] = "done"] /\ frames' = Tail(frames)
        /\ state \in [Tasks -> {"new", "visiting", "done"}]
    <2>1. 1 \in 1..Len(frames)
      BY <1>2
    <2>2. t \in TasksVisited
      BY <2>1, <1>1 DEF FramesTell
    <2> QED BY <2>1, <2>2, <1>1, <1>2 DEF Return, TasksVisited, PlanTypes
  <1>4. \A need \in contract[t] : state[need] = "done"
    <2>1. 1 \in 1..Len(frames) /\ ~(1 > 1)
      BY <1>2
    <2> QED BY <2>1, <1>1, <1>3 DEF FramesTell
  <1>5. \E order : OrdersDone(order)'
    BY <1>1, <1>3, <1>4, OrderGrows
  <1>6. PlanTypes'
    BY <1>1, <1>3 DEF PlanTypes
  <1>7. /\ frames' \in Seq(Frame) /\ Len(frames') = Len(frames) - 1
        /\ \A i \in 1..Len(frames') : frames'[i] = frames[i + 1] /\ i + 1 \in 1..Len(frames)
    BY <1>1, <1>2, <1>3, HeadTailProperties
  <1>8. FramesTell'
    <2>1. TasksVisited' = TasksVisited \ {t}
      BY <1>3 DEF TasksVisited
    <2>2. \A i \in 1..Len(frames) : i = 1 \/ \E k \in 1..Len(frames') : i = k + 1
      <3> SUFFICES ASSUME NEW i \in 1..Len(frames), i # 1
                   PROVE \E k \in 1..Len(frames') : i = k + 1
        OBVIOUS
      <3>1. i - 1 \in 1..Len(frames') /\ i = (i - 1) + 1
        BY <1>2, <1>7
      <3> QED BY <3>1
    <2>3. 1 \in 1..Len(frames) /\ \A k \in 1..Len(frames') : k + 1 # 1 /\ k \in Nat
      BY <1>2, <1>7
    <2>4. {frames'[i].task : i \in 1..Len(frames')} = TasksVisited'
      <3>1. \A k \in 1..Len(frames') : frames'[k].task \in TasksVisited \ {t}
        BY <2>3, <1>1, <1>7 DEF FramesTell
      <3>2. \A u \in TasksVisited \ {t} : \E k \in 1..Len(frames') : frames'[k].task = u
        <4> SUFFICES ASSUME NEW u \in TasksVisited, u # t
                     PROVE \E k \in 1..Len(frames') : frames'[k].task = u
          OBVIOUS
        <4>1. PICK i \in 1..Len(frames) : frames[i].task = u
          BY <1>1 DEF FramesTell
        <4>2. i # 1
          BY <4>1
        <4> HIDE DEF t
        <4>3. PICK k \in 1..Len(frames') : i = k + 1
          BY <4>2, <2>2
        <4> QED BY <4>1, <4>3, <1>7
      <3> QED BY <3>1, <3>2, <2>1
    <2>5. ASSUME NEW i \in 1..Len(frames'), NEW j \in 1..Len(frames'),
                 frames'[i].task = frames'[j].task
          PROVE  i = j
      <3>1. i + 1 = j + 1
        BY <2>5, <1>1, <1>7 DEF FramesTell
      <3> QED BY <3>1, <2>3
    <2>6. ASSUME NEW i \in 1..Len(frames')
          PROVE  /\ frames'[i].left \subseteq contract[frames'[i].task]
                 /\ \A need \in contract[frames'[i].task] \ frames'[i].left :
                      \/ state'[need] = "done"
                      \/ i > 1 /\ need = frames'[i - 1].task
                 /\ i > 1 => frames'[i - 1].task \in contract[frames'[i].task]
      <3>1. i + 1 \in 1..Len(frames) /\ frames'[i] = frames[i + 1] /\ (i + 1) - 1 = i /\ i + 1 > 1
        BY <1>7
      <3>2. i > 1 => i - 1 \in 1..Len(frames') /\ (i - 1) + 1 = i
        BY <1>7, <1>2
      <3>3. i > 1 => frames'[i - 1] = frames[i]
        BY <3>2, <1>7
      <3>4. ~(i > 1) => i = 1
        BY <1>7, <1>2
      <3>5. /\ frames[i + 1].left \subseteq contract[frames[i + 1].task]
            /\ \A need \in contract[frames[i + 1].task] \ frames[i + 1].left :
                 \/ state[need] = "done"
                 \/ need = frames[i].task
            /\ frames[i].task \in contract[frames[i + 1].task]
        BY <3>1, <1>1 DEF FramesTell
      <3>6. \A need \in contract[frames[i + 1].task] : need \in Tasks
        BY <1>1, <1>2, <3>1 DEF WellFormed
      <3> QED BY <3>1, <3>3, <3>4, <3>5, <3>6, <1>3
    <2> QED BY <2>4, <2>5, <2>6, <1>1, <1>7 DEF FramesTell
  <1> QED BY <1>1, <1>5, <1>6, <1>8 DEF PlanInv

LEMMA RejectKeeps == ASSUME PlanInv, Reject PROVE PlanInv'
  <1>1. /\ contract' = contract /\ state' = state /\ plan' = plan /\ verdict' = "refused"
        /\ ~WellFormed /\ PlanTypes /\ verdict = "open"
    BY DEF Reject, PlanInv
  <1>2. ~WellFormed' /\ ~Searching'
    BY <1>1 DEF WellFormed, Searching
  <1>3. PlanTypes'
    BY <1>1 DEF PlanTypes
  <1> QED BY <1>1, <1>2, <1>3 DEF PlanInv

LEMMA AcceptKeeps == ASSUME PlanInv, Accept PROVE PlanInv'
  <1>1. /\ contract' = contract /\ state' = state /\ plan' = plan /\ verdict' = "accepted"
        /\ WellFormed /\ PlanTypes /\ TasksDone = Tasks
    BY DEF Accept, PlanInv, Searching, TasksDone
  <1>2. WellFormed' /\ TasksDone' = TasksDone /\ ~Searching'
    BY <1>1 DEF WellFormed, TasksDone, Searching
  <1>3. PlanTypes'
    BY <1>1 DEF PlanTypes
  <1> QED BY <1>1, <1>2, <1>3, OrderStays DEF PlanInv

\* The entries of an answer, sound but for one, are entries.
LEMMA AnswerKeeps == ASSUME PlanInv, Answer PROVE PlanInv'
  <1> DEFINE order == SetToSeq(Tasks)
             files == SetToSeq(Files)
             sound(i) == [id |-> order[i], owns |-> {files[i]}, needs |-> contract[order[i]],
                          consumes |-> TRUE, produces |-> TRUE]
  <1>1. /\ contract' = contract /\ state' = state /\ verdict' = verdict /\ verdict = "accepted"
        /\ WellFormed /\ PlanTypes
    BY DEF Answer, PlanInv
  <1>2. /\ order \in Seq(Tasks) /\ Len(order) = Cardinality(Tasks) /\ Len(order) \in Nat
        /\ files \in Seq(Files) /\ Len(files) = Cardinality(Files) /\ Len(files) \in Nat
    BY PlanConstants, SequenceOfSet, FS_CardinalityType, LengthOfSet
  <1>3. ASSUME NEW i \in 1..Len(order) PROVE sound(i) \in Entry
    <2>1. i \in 1..Len(files)
      BY <1>2, PlanConstants
    <2>2. order[i] \in Tasks /\ files[i] \in Files
      BY <1>2, <2>1
    <2>3. contract[order[i]] \subseteq Tasks
      BY <2>2, <1>1 DEF WellFormed
    <2> HIDE DEF order, files
    <2> QED BY <2>2, <2>3 DEF Entry
  <1> HIDE DEF sound
  <1>4. PICK place \in DOMAIN order, again \in DOMAIN order, entry \in Entry :
          plan' \in {[i \in DOMAIN order |-> IF i = place THEN entry ELSE sound(i)],
                    Append([i \in DOMAIN order |-> IF i = place THEN entry ELSE sound(i)],
                           sound(again))}
    BY DEF Answer, sound
  <1> HIDE DEF order, files
  <1>5. DOMAIN order = 1..Len(order)
    BY <1>2
  <1> DEFINE entries == [i \in 1..Len(order) |-> IF i = place THEN entry ELSE sound(i)]
  <1>6. \A i \in 1..Len(order) : entries[i] \in Entry
    BY <1>3
  <1>7. entries \in Seq(Entry)
    BY <1>2, <1>6
  <1>8. sound(again) \in Entry
    BY <1>3, <1>5
  <1>9. plan' \in Seq(Entry)
    <2>1. plan' = entries \/ plan' = Append(entries, sound(again))
      BY <1>4, <1>5
    <2> HIDE DEF entries
    <2> QED BY <2>1, <1>7, <1>8
  <1>10. PlanTypes'
    BY <1>1, <1>9 DEF PlanTypes
  <1>11. WellFormed' /\ TasksDone' = TasksDone /\ ~Searching'
    BY <1>1 DEF WellFormed, TasksDone, Searching
  <1> QED BY <1>1, <1>10, <1>11, OrderStays DEF PlanInv

LEMMA NextPlanInv ==
    ASSUME PlanInv, [PlanNext]_planVars PROVE PlanInv'
  <1>1. CASE UNCHANGED planVars
    <2>1. contract' = contract /\ state' = state /\ frames' = frames /\ verdict' = verdict
          /\ plan' = plan
      BY <1>1 DEF planVars
    <2>2. WellFormed' = WellFormed /\ Searching' = Searching /\ TasksDone' = TasksDone
          /\ Schedulable' = Schedulable /\ TasksVisited' = TasksVisited
      BY <2>1 DEF WellFormed, Searching, TasksDone, TasksVisited, Schedulable
    <2>3. PlanTypes'
      BY <2>1 DEF PlanTypes, PlanInv
    <2>4. FramesTell' = FramesTell
      BY <2>1, <2>2 DEF FramesTell
    <2> QED BY <2>1, <2>2, <2>3, <2>4, OrderStays DEF PlanInv
  <1> QED BY <1>1, RejectKeeps, RootKeeps, PrerequisiteKeeps, ReturnKeeps, AcceptKeeps, AnswerKeeps
          DEF PlanNext

\* The order of an accepted contract.
LEMMA AcceptedOrder ==
    ASSUME PlanInv, verdict = "accepted"
    PROVE  \E order \in SetToSeqs(Tasks) :
             /\ DOMAIN order = 1..Len(order) /\ Len(order) \in Nat
             /\ \A i, j \in DOMAIN order : order[i] = order[j] => i = j
             /\ \A t \in Tasks : \E i \in DOMAIN order : order[i] = t
             /\ \A j \in DOMAIN order : \A need \in contract[order[j]] :
                  \E i \in 1..j - 1 : order[i] = need
  <1>1. WellFormed /\ TasksDone = Tasks
    BY DEF PlanInv
  <1>2. PICK order : OrdersDone(order)
    BY <1>1 DEF PlanInv
  <1>3. order \in Seq(Tasks) /\ Distinct(order) /\ Elements(order) = Tasks
    BY <1>1, <1>2 DEF OrdersDone
  <1>4. Cardinality(Tasks) = Len(order)
    BY <1>3, LengthOfSet
  <1>5. DOMAIN order = 1..Len(order) /\ Len(order) \in Nat /\ order \in [1..Len(order) -> Tasks]
    BY <1>3
  <1>6. order \in SetToSeqs(Tasks)
    BY <1>3, <1>4, <1>5 DEF SetToSeqs, Distinct
  <1>7. \A t \in Tasks : \E i \in 1..Len(order) : order[i] = t
    BY <1>3 DEF Elements
  <1> QED BY <1>2, <1>3, <1>5, <1>6, <1>7 DEF OrdersDone, Distinct

LEMMA PlanInvSays ==
    ASSUME PlanInv PROVE PlanTypeOK /\ AcceptedIsSchedulable /\ CompleteIsExecutable
  <1>1. PlanTypeOK
    <2>1. Searching => {frames[i].task : i \in DOMAIN frames} =
                       {t \in Tasks : state[t] = "visiting"}
      <3> SUFFICES ASSUME Searching
                   PROVE {frames[i].task : i \in DOMAIN frames} =
                         {t \in Tasks : state[t] = "visiting"}
        OBVIOUS
      <3>1. frames \in Seq(Frame) /\ {frames[i].task : i \in 1..Len(frames)} = TasksVisited
        BY DEF PlanInv, FramesTell
      <3>2. DOMAIN frames = 1..Len(frames)
        BY <3>1
      <3> QED BY <3>1, <3>2 DEF TasksVisited
    <2> QED BY <2>1 DEF PlanTypeOK, PlanInv, PlanTypes
  <1>2. ASSUME verdict = "accepted" PROVE WellFormed /\ Schedulable
    <2>1. PICK order \in SetToSeqs(Tasks) :
             /\ DOMAIN order = 1..Len(order) /\ Len(order) \in Nat
             /\ \A i, j \in DOMAIN order : order[i] = order[j] => i = j
             /\ \A t \in Tasks : \E i \in DOMAIN order : order[i] = t
             /\ \A j \in DOMAIN order : \A need \in contract[order[j]] :
                  \E i \in 1..j - 1 : order[i] = need
      BY <1>2, AcceptedOrder
    <2>2. ASSUME NEW i \in DOMAIN order, NEW j \in DOMAIN order, order[i] \in contract[order[j]]
          PROVE i < j
      <3>1. PICK k \in 1..j - 1 : order[k] = order[i]
        BY <2>1, <2>2
      <3>2. k \in DOMAIN order /\ k < j
        BY <2>1
      <3> QED BY <3>1, <3>2, <2>1
    <2> QED BY <2>2, <1>2 DEF Schedulable, PlanInv
  <1>3. AcceptedIsSchedulable
    BY <1>2 DEF AcceptedIsSchedulable, PlanInv
  <1>4. SUFFICES ASSUME plan # NoPlan, CompletePlan
                 PROVE \E order \in SetToSeqs(Tasks) :
                         \A i \in DOMAIN order :
                           /\ \A need \in ById(order[i]).needs :
                                /\ need \in {order[j] : j \in 1..i - 1}
                                /\ ById(need).produces /\ ById(order[i]).consumes
                           /\ \A j \in DOMAIN order :
                                i # j => ById(order[i]).owns \cap ById(order[j]).owns = {}
    BY <1>1, <1>3 DEF CompleteIsExecutable
  <1>5. /\ verdict = "accepted" /\ WellFormed
        /\ plan \in Seq(Entry) /\ DOMAIN plan = 1..Len(plan) /\ Len(plan) \in Nat
    BY <1>4 DEF PlanInv, PlanTypes
  <1>6. PICK order \in SetToSeqs(Tasks) :
             /\ DOMAIN order = 1..Len(order) /\ Len(order) \in Nat
             /\ \A i, j \in DOMAIN order : order[i] = order[j] => i = j
             /\ \A t \in Tasks : \E i \in DOMAIN order : order[i] = t
             /\ \A j \in DOMAIN order : \A need \in contract[order[j]] :
                  \E i \in 1..j - 1 : order[i] = need
    BY <1>5, AcceptedOrder
  <1>7. \A i \in DOMAIN order : order[i] \in Tasks
    BY DEF SetToSeqs
  <1>8. ASSUME NEW t \in Tasks
        PROVE  \E i \in DOMAIN plan :
                 plan[i].id = t /\ ById(t) = plan[i] /\ plan[i].needs = contract[t]
    <2>1. Retained = Tasks /\ \A i, j \in DOMAIN plan : plan[i].id = plan[j].id => i = j
      BY <1>4 DEF CompletePlan
    <2>2. PICK i \in DOMAIN plan : plan[i].id = t
      BY <2>1 DEF Retained
    <2>3. ById(t).needs = contract[t]
      BY <2>1 DEF Retained
    <2> DEFINE last(k) == k \in DOMAIN plan /\ plan[k].id = t
                           /\ \A j \in DOMAIN plan : plan[j].id = t => j <= k
    <2>4. last(i)
      BY <2>1, <2>2, <1>5
    <2>5. \A k : last(k) => k = i
      BY <2>1, <2>2
    <2>6. (CHOOSE k \in DOMAIN plan : /\ plan[k].id = t
                                     /\ \A j \in DOMAIN plan : plan[j].id = t => j <= k) = i
      BY <2>4, <2>5
    <2>7. ById(t) = plan[i]
      BY <2>6 DEF ById
    <2> QED BY <2>2, <2>3, <2>7
  <1>9. ASSUME NEW i \in DOMAIN order, NEW need \in ById(order[i]).needs
        PROVE  /\ need \in {order[j] : j \in 1..i - 1}
               /\ ById(need).produces /\ ById(order[i]).consumes
    <2>1. PICK a \in DOMAIN plan : /\ plan[a].id = order[i] /\ ById(order[i]) = plan[a]
                                   /\ plan[a].needs = contract[order[i]]
      BY <1>7, <1>8
    <2>2. need \in contract[order[i]] /\ need \in Tasks
      BY <2>1, <1>9, <1>5, <1>7 DEF WellFormed
    <2>3. PICK b \in DOMAIN plan : plan[b].id = need /\ ById(need) = plan[b]
      BY <2>2, <1>8
    <2>4. plan[b].produces /\ plan[a].consumes
      BY <2>1, <2>2, <2>3, <1>4 DEF CompletePlan
    <2> QED BY <2>1, <2>2, <2>3, <2>4, <1>6
  <1>10. ASSUME NEW i \in DOMAIN order, NEW j \in DOMAIN order, i # j
         PROVE  ById(order[i]).owns \cap ById(order[j]).owns = {}
    <2>1. PICK a \in DOMAIN plan : plan[a].id = order[i] /\ ById(order[i]) = plan[a]
      BY <1>7, <1>8
    <2>2. PICK b \in DOMAIN plan : plan[b].id = order[j] /\ ById(order[j]) = plan[b]
      BY <1>7, <1>8
    <2>3. plan[a].id # plan[b].id
      BY <2>1, <2>2, <1>6, <1>10
    <2> QED BY <2>1, <2>2, <2>3, <1>4 DEF CompletePlan
  <1> QED BY <1>9, <1>10

LEMMA PlanSteps ==
    ASSUME [Next]_evaluationVars, part' = "plan"
    PROVE  part = "plan" /\ [PlanNext]_planVars
  BY DEF Next, evaluationVars, Only, BrokerStep, InputsStep, CaseStep, TddStep, PlanStep,
     AcceptanceStep, TriggerStep, ScoringStep, TraceStep, ProofStep

\* The walk of a dependency contract accepts exactly the contracts whose tasks have an order,
\* and a complete plan of one can be carried out, a worker a task, no file another's.
THEOREM PlansAreExecutableHolds == Spec => []PlansAreExecutable
  <1> DEFINE Inv == part = "plan" => PlanInv
  <1>1. Init => Inv
    BY InitPlanInv DEF Init
  <1>2. Inv /\ [Next]_evaluationVars => Inv'
    BY PlanSteps, NextPlanInv
  <1>3. Inv => PlansAreExecutable
    BY PlanInvSays DEF PlansAreExecutable
  <1> QED BY <1>1, <1>2, <1>3, PTL DEF Spec

-----------------------------------------------------------------------------
(* The evidence of a trace (TraceEvents) *)

Rank(S, m, x) == Cardinality({y \in S : m[y] <= m[x]})

Numbered(S, m) ==
    /\ Cardinality(S) \in Nat
    /\ \A x \in S : Rank(S, m, x) \in 1..Cardinality(S)
    /\ \A x, y \in S : m[x] < m[y] => Rank(S, m, x) < Rank(S, m, y)
    /\ \A x, y \in S : Rank(S, m, x) = Rank(S, m, y) => x = y
    /\ \A k \in 1..Cardinality(S) : \E x \in S : Rank(S, m, x) = k

\* The elements of a finite set, numbered by a measure that tells them apart.
LEMMA Ranked ==
    ASSUME NEW S, IsFiniteSet(S), NEW m \in [S -> Nat], \A x, y \in S : m[x] = m[y] => x = y
    PROVE  Numbered(S, m)
  <1> DEFINE upTo(x) == {y \in S : m[y] <= m[x]}
             n == Cardinality(S)
             rank == [x \in S |-> Rank(S, m, x)]
  <1>1. n \in Nat
    BY FS_CardinalityType
  <1>2. ASSUME NEW x \in S
        PROVE  /\ IsFiniteSet(upTo(x)) /\ Cardinality(upTo(x)) \in 1..n
    <2> DEFINE T == upTo(x)
    <2>1. T \subseteq S /\ x \in T
      OBVIOUS
    <2> HIDE DEF T
    <2>2. IsFiniteSet(T) /\ Cardinality(T) <= n
      BY <2>1, FS_Subset
    <2>3. Cardinality(T) \in Nat /\ Cardinality(T) # 0
      BY <2>1, <2>2, FS_CardinalityType, FS_EmptySet
    <2>4. Cardinality(T) \in 1..n
      BY <1>1, <2>2, <2>3
    <2> QED BY <2>2, <2>4 DEF T
  <1>3. ASSUME NEW x \in S, NEW y \in S, m[x] < m[y]
        PROVE  Cardinality(upTo(x)) < Cardinality(upTo(y))
    <2> DEFINE T == upTo(x)
               U == upTo(y)
    <2>1. T \subseteq U /\ y \in U /\ y \notin T
      BY <1>3
    <2>2. IsFiniteSet(U) /\ Cardinality(T) \in 1..n /\ Cardinality(U) \in 1..n
      BY <1>2
    <2> HIDE DEF T, U
    <2>3. Cardinality(T) <= Cardinality(U) /\ Cardinality(T) # Cardinality(U)
      BY <2>1, <2>2, FS_Subset
    <2>4. Cardinality(T) < Cardinality(U)
      BY <1>1, <2>2, <2>3
    <2> QED BY <2>4 DEF T, U
  <1>4. \A x \in S : Rank(S, m, x) \in 1..n
    BY <1>2 DEF Rank
  <1>5. \A x, y \in S : m[x] < m[y] => Rank(S, m, x) < Rank(S, m, y)
    BY <1>3 DEF Rank
  <1>6. \A x, y \in S : Rank(S, m, x) = Rank(S, m, y) => x = y
    <2> SUFFICES ASSUME NEW x \in S, NEW y \in S, x # y
                 PROVE  Rank(S, m, x) # Rank(S, m, y)
      OBVIOUS
    <2>1. m[x] < m[y] \/ m[y] < m[x]
      OBVIOUS
    <2>2. Rank(S, m, x) < Rank(S, m, y) \/ Rank(S, m, y) < Rank(S, m, x)
      BY <1>5, <2>1
    <2>3. Rank(S, m, x) \in Nat /\ Rank(S, m, y) \in Nat
      BY <1>1, <1>4
    <2> QED BY <2>2, <2>3
  <1>7. rank \in Injection(S, 1..n)
    BY <1>4, <1>6 DEF Injection, IsInjective
  <1>8. rank \in Surjection(S, 1..n)
    <2>1. IsFiniteSet(1..n) /\ Cardinality(1..n) = n
      <3> HIDE DEF n
      <3>1. 1 \in Int /\ n \in Int
        BY <1>1
      <3> QED BY ONLY <1>1, <3>1, FS_Interval
    <2> HIDE DEF rank, n
    <2>2. Cardinality(S) = Cardinality(1..n)
      BY <2>1 DEF n
    <2> QED BY <1>7, <2>1, <2>2, FS_Injection
  <1>9. \A k \in 1..n : \E x \in S : Rank(S, m, x) = k
    BY <1>8 DEF Surjection
  <1> QED BY <1>1, <1>4, <1>5, <1>6, <1>9 DEF Numbered

\* place numbers the places of chosen in list, and out has what is there.
Selection(out, list, chosen, place) ==
    /\ place \in [1..Len(out) -> chosen]
    /\ \A j, k \in 1..Len(out) : j < k <=> place[j] < place[k]
    /\ \A i \in chosen : \E k \in 1..Len(out) : place[k] = i
    /\ \A k \in 1..Len(out) : out[k] = list[place[k]]

LEMMA PickedSelects ==
    ASSUME NEW T, NEW list \in Seq(T), NEW chosen, chosen \subseteq DOMAIN list
    PROVE  /\ IsFiniteSet(chosen)
           /\ Picked(list, chosen) \in Seq(T) /\ Len(Picked(list, chosen)) = Cardinality(chosen)
           /\ \E place : Selection(Picked(list, chosen), list, chosen, place)
  <1> DEFINE n == Cardinality(chosen)
             m == [i \in chosen |-> i]
             place == [k \in 1..n |->
                         CHOOSE i \in chosen : Cardinality({j \in chosen : j <= i}) = k]
             out == Picked(list, chosen)
  <1>1. IsFiniteSet(chosen) /\ chosen \subseteq Nat
    <2> DEFINE l == Len(list)
    <2>1. l \in Nat /\ DOMAIN list = 1..l
      OBVIOUS
    <2> HIDE DEF l
    <2>2. 1 \in Int /\ l \in Int
      BY <2>1
    <2>3. IsFiniteSet(1..l)
      BY ONLY <2>2, FS_Interval
    <2>4. chosen \subseteq 1..l /\ chosen \subseteq Nat
      BY <2>1
    <2> QED BY ONLY <2>3, <2>4, FS_Subset
  <1>2. m \in [chosen -> Nat] /\ \A x, y \in chosen : m[x] = m[y] => x = y
    BY <1>1
  <1>3. \A i \in chosen : Rank(chosen, m, i) = Cardinality({j \in chosen : j <= i})
    <2> TAKE i \in chosen
    <2>1. {j \in chosen : m[j] <= m[i]} = {j \in chosen : j <= i}
      OBVIOUS
    <2> QED BY <2>1 DEF Rank
  <1> HIDE DEF m
  <1>4. /\ n \in Nat
        /\ \A x \in chosen : Rank(chosen, m, x) \in 1..n
        /\ \A x, y \in chosen : m[x] < m[y] => Rank(chosen, m, x) < Rank(chosen, m, y)
        /\ \A x, y \in chosen : Rank(chosen, m, x) = Rank(chosen, m, y) => x = y
        /\ \A k \in 1..n : \E x \in chosen : Rank(chosen, m, x) = k
    <2>1. IsFiniteSet(chosen)
      BY <1>1
    <2>2. Numbered(chosen, m)
      BY ONLY <1>2, <2>1, Ranked
    <2> QED BY <2>2 DEF Numbered
  <1>5. \A k \in 1..n : place[k] \in chosen /\ Rank(chosen, m, place[k]) = k
    BY <1>3, <1>4
  <1>6. out = [k \in 1..n |-> list[place[k]]]
    BY DEF Picked
  <1>7. place \in [1..n -> chosen]
    BY <1>5
  <1> HIDE DEF n, place
  <1>8. out \in Seq(T) /\ Len(out) = n
    <2>1. \A k \in 1..n : list[place[k]] \in T
      BY <1>5
    <2> QED BY <1>4, <1>6, <2>1
  <1>9. \A j, k \in 1..n : place[j] < place[k] => j < k
    <2> SUFFICES ASSUME NEW j \in 1..n, NEW k \in 1..n, place[j] < place[k] PROVE j < k
      OBVIOUS
    <2>1. place[j] \in chosen /\ place[k] \in chosen
      BY <1>5
    <2>2. m[place[j]] < m[place[k]]
      BY <2>1 DEF m
    <2>3. Rank(chosen, m, place[j]) < Rank(chosen, m, place[k])
      BY <1>4, <2>1, <2>2
    <2> QED BY <1>5, <2>3
  <1>10. \A j, k \in 1..n : j < k => place[j] < place[k]
    <2> SUFFICES ASSUME NEW j \in 1..n, NEW k \in 1..n, j < k PROVE place[j] < place[k]
      OBVIOUS
    <2>1. place[j] \in Nat /\ place[k] \in Nat /\ place[j] # place[k]
      BY <1>1, <1>5
    <2>2. ~(place[k] < place[j])
      BY <1>4, <1>9
    <2> QED BY <2>1, <2>2
  <1>11. \A i \in chosen : \E k \in 1..n : place[k] = i
    BY <1>4, <1>5
  <1>12. Selection(out, list, chosen, place)
    BY <1>6, <1>7, <1>8, <1>9, <1>10, <1>11 DEF Selection
  <1> QED BY <1>1, <1>8, <1>12 DEF n

EventKinds == {"test", "anchor", "commit", "write", "spawn", "spawn tool", "read"}
TraceEvent == [kind : EventKinds, call : Calls, rc : {0, 1}]

\* Two events of one call that cannot both be.
Alike(e, f) ==
    /\ e.call = f.call
    /\ \/ e.kind = f.kind /\ e.kind \in {"write", "spawn", "spawn tool"}
       \/ IsTest(e) /\ IsTest(f)

\* The segments of a command with a test that its status is of.
ShowsItsTest(command) == \E k \in DOMAIN command : Attributable(command, k)

LEMMA CommandIs ==
    ASSUME NEW command \in Commands
    PROVE  /\ command \in Seq(ToSet(command))
           /\ DOMAIN command = 1..Len(command) /\ Len(command) \in Nat
           /\ \A i, j \in DOMAIN command :
                {command[i].does, command[j].does} \subseteq {"test", "script", "hidden", "reused"}
                  => i = j
  <1>1. command \in Seq(ToSet(command))
    BY TraceConstants
  <1>2. DOMAIN command = 1..Len(command) /\ Len(command) \in Nat
    BY <1>1
  <1> QED BY <1>1, <1>2, TraceConstants

LEMMA Alone ==
    ASSUME NEW S, NEW x \in S
    PROVE  <<x>> \in Seq(S) /\ Len(<<x>>) = 1 /\ <<x>>[1] = x /\ \A i \in 1..Len(<<x>>) : i = 1
  OBVIOUS

LEMMA CommandEventsAre ==
    ASSUME NEW c \in Calls, NEW command \in Commands, NEW rc \in {0, 1}
    PROVE  LET s == CommandEvents(c, command, rc) IN
             /\ s \in Seq(TraceEvent)
             /\ \A i \in 1..Len(s) : /\ s[i].call = c /\ s[i].rc = rc
                                     /\ s[i].kind \in {"test", "anchor", "commit"}
                                     /\ s[i].kind = "test" => ShowsItsTest(command)
             /\ \A i, j \in 1..Len(s) : Alike(s[i], s[j]) => i = j
  <1> DEFINE list == [i \in DOMAIN command |-> ToolEvent(SegmentKind(command, i), c, rc)]
             chosen == {i \in DOMAIN command : ShowsTest(command[i].does)
                                               \/ command[i].does = "commit"}
             s == CommandEvents(c, command, rc)
  <1>1. DOMAIN command = 1..Len(command) /\ Len(command) \in Nat
    BY CommandIs
  <1>2. \A i \in DOMAIN command : SegmentKind(command, i) \in {"test", "anchor", "commit"}
    BY DEF SegmentKind
  <1>3. list \in Seq(TraceEvent) /\ chosen \subseteq DOMAIN list /\ DOMAIN list = DOMAIN command
    <2>1. \A i \in DOMAIN command : ToolEvent(SegmentKind(command, i), c, rc) \in TraceEvent
      BY <1>2 DEF TraceEvent, EventKinds, ToolEvent
    <2> QED BY <1>1, <2>1
  <1>4. s = Picked(list, chosen)
    BY DEF CommandEvents
  <1>5. \A i \in chosen : /\ list[i].call = c /\ list[i].rc = rc
                        /\ list[i].kind = SegmentKind(command, i)
    BY DEF ToolEvent
  <1>6. \A i \in chosen : list[i].kind = "test" => Attributable(command, i)
    BY <1>5 DEF SegmentKind
  <1>7. \A i, j \in chosen : Alike(list[i], list[j]) => i = j
    <2> SUFFICES ASSUME NEW i \in chosen, NEW j \in chosen, Alike(list[i], list[j]) PROVE i = j
      OBVIOUS
    <2>1. IsTest(list[i]) /\ IsTest(list[j])
      BY <1>2, <1>5 DEF Alike
    <2>2. ShowsTest(command[i].does) /\ ShowsTest(command[j].does)
      BY <1>5, <2>1 DEF SegmentKind, IsTest
    <2> QED BY <2>2, CommandIs DEF ShowsTest
  <1> HIDE DEF list, chosen, s
  <1>8. s \in Seq(TraceEvent) /\ \E place : Selection(s, list, chosen, place)
    BY <1>3, <1>4, PickedSelects
  <1>9. PICK place : Selection(s, list, chosen, place)
    BY <1>8
  <1>10. /\ \A i \in 1..Len(s) : place[i] \in chosen /\ s[i] = list[place[i]]
         /\ \A i, j \in 1..Len(s) : place[i] = place[j] => i = j
    <2>1. \A i, j \in 1..Len(s) : i # j => place[i] # place[j]
      <3> SUFFICES ASSUME NEW i \in 1..Len(s), NEW j \in 1..Len(s), i # j
                   PROVE  place[i] # place[j]
        OBVIOUS
      <3>1. place[i] \in Nat /\ place[j] \in Nat
        BY <1>1, <1>3, <1>9 DEF Selection
      <3>2. i < j \/ j < i
        OBVIOUS
      <3> QED BY <1>9, <3>1, <3>2 DEF Selection
    <2> QED BY <1>9, <2>1 DEF Selection
  <1>11. \A i \in 1..Len(s) : /\ s[i].call = c /\ s[i].rc = rc
                              /\ s[i].kind \in {"test", "anchor", "commit"}
                              /\ s[i].kind = "test" => ShowsItsTest(command)
    BY <1>2, <1>3, <1>5, <1>6, <1>10 DEF ShowsItsTest, chosen
  <1>12. \A i, j \in 1..Len(s) : Alike(s[i], s[j]) => i = j
    BY <1>7, <1>10
  <1> QED BY <1>8, <1>11, <1>12 DEF s

LEMMA AttemptEventsAre ==
    ASSUME NEW c \in Calls, NEW command \in Commands
    PROVE  LET s == AttemptEvents(c, command) IN
             /\ s \in Seq(TraceEvent)
             /\ \A i \in 1..Len(s) : s[i].call = c /\ s[i].kind = "commit"
  <1> DEFINE list == [i \in DOMAIN command |-> ToolEvent("commit", c, 1)]
             chosen == {i \in DOMAIN command : command[i].does = "commit"}
             s == AttemptEvents(c, command)
  <1>1. DOMAIN command = 1..Len(command) /\ Len(command) \in Nat
    BY CommandIs
  <1>2. list \in Seq(TraceEvent) /\ chosen \subseteq DOMAIN list
        /\ \A i \in chosen : list[i].call = c /\ list[i].kind = "commit"
    BY <1>1 DEF TraceEvent, EventKinds, ToolEvent
  <1>3. s = Picked(list, chosen)
    BY DEF AttemptEvents
  <1> HIDE DEF list, chosen, s
  <1>4. s \in Seq(TraceEvent) /\ \E place : Selection(s, list, chosen, place)
    BY <1>2, <1>3, PickedSelects
  <1>5. \A i \in 1..Len(s) : s[i].call = c /\ s[i].kind = "commit"
    BY <1>2, <1>4 DEF Selection
  <1> QED BY <1>4, <1>5 DEF s

LEMMA ToolEventsAre ==
    ASSUME NEW c \in Calls, tool[c] \in Tools, NEW rc \in {0, 1}
    PROVE  LET s == ToolEvents(c, rc) IN
             /\ s \in Seq(TraceEvent)
             /\ \A i \in 1..Len(s) :
                  /\ s[i].call = c /\ s[i].rc = rc
                  /\ s[i].kind = "spawn tool" => harness = "claude"
                  /\ s[i].kind = "spawn" => harness # "claude"
                  /\ s[i].kind = "test" =>
                       tool[c].command \in Commands /\ ShowsItsTest(tool[c].command)
             /\ \A i, j \in 1..Len(s) : Alike(s[i], s[j]) => i = j
  <1> DEFINE s == ToolEvents(c, rc)
             Good(u) == /\ u \in Seq(TraceEvent)
                        /\ \A i \in 1..Len(u) :
                             /\ u[i].call = c /\ u[i].rc = rc
                             /\ u[i].kind = "spawn tool" => harness = "claude"
                             /\ u[i].kind = "spawn" => harness # "claude"
                             /\ u[i].kind = "test" =>
                                  tool[c].command \in Commands /\ ShowsItsTest(tool[c].command)
                        /\ \A i, j \in 1..Len(u) : Alike(u[i], u[j]) => i = j
  <1> SUFFICES Good(s)
    OBVIOUS
  <1>1. ASSUME NEW kind \in {"write", "spawn tool", "spawn"},
               kind = "spawn tool" => harness = "claude", kind = "spawn" => harness # "claude",
               s = <<ToolEvent(kind, c, rc)>>
        PROVE  Good(s)
    <2> DEFINE e == ToolEvent(kind, c, rc)
    <2>1. e \in TraceEvent /\ e.kind = kind /\ e.call = c /\ e.rc = rc
      BY DEF TraceEvent, EventKinds, ToolEvent
    <2> HIDE DEF e
    <2>2. <<e>> \in Seq(TraceEvent) /\ Len(<<e>>) = 1 /\ <<e>>[1] = e
          /\ \A i \in 1..Len(<<e>>) : i = 1
      BY <2>1, Alone
    <2>3. \A i \in 1..Len(<<e>>) : <<e>>[i] = e
      BY <2>2
    <2>4. s = <<e>>
      BY <1>1 DEF e
    <2> HIDE DEF s
    <2> QED BY <1>1, <2>1, <2>2, <2>3, <2>4
  <1>2. CASE tool[c].kind = "write"
    <2>1. s = <<ToolEvent("write", c, rc)>>
      BY <1>2 DEF ToolEvents
    <2> HIDE DEF s, Good
    <2> QED BY <1>1, <2>1
  <1>3. CASE tool[c].kind = "spawn"
    <2>1. s = <<ToolEvent(IF harness = "claude" THEN "spawn tool" ELSE "spawn", c, rc)>>
      BY <1>3 DEF ToolEvents
    <2> HIDE DEF s, Good
    <2>2. CASE harness = "claude"
      BY <1>1, <2>1, <2>2
    <2>3. CASE harness # "claude"
      BY <1>1, <2>1, <2>3
    <2> QED BY <2>2, <2>3
  <1>4. CASE tool[c].kind = "command"
    <2> DEFINE command == tool[c].command
               u == CommandEvents(c, command, rc)
               v == IF harness = "codex" THEN ReadEvents(c, command, rc) ELSE << >>
    <2>1. command \in Commands /\ s = u \o v
      BY <1>4 DEF ToolEvents, Tools
    <2>2. /\ u \in Seq(TraceEvent)
          /\ \A i \in 1..Len(u) : /\ u[i].call = c /\ u[i].rc = rc
                                  /\ u[i].kind \in {"test", "anchor", "commit"}
                                  /\ u[i].kind = "test" => ShowsItsTest(command)
          /\ \A i, j \in 1..Len(u) : Alike(u[i], u[j]) => i = j
      <3> HIDE DEF command
      <3> QED BY <2>1, CommandEventsAre
    <2>3. /\ v \in Seq(TraceEvent)
          /\ \A i \in 1..Len(v) : v[i].call = c /\ v[i].rc = rc /\ v[i].kind = "read"
      <3> DEFINE e == ToolEvent("read", c, rc)
      <3>1. e \in TraceEvent /\ e.kind = "read" /\ e.call = c /\ e.rc = rc
        BY DEF TraceEvent, EventKinds, ToolEvent
      <3>2. v = <<e>> \/ v = << >>
        BY DEF ReadEvents
      <3> HIDE DEF e, v
      <3>3. CASE v = <<e>>
        <4>1. <<e>> \in Seq(TraceEvent) /\ Len(<<e>>) = 1 /\ <<e>>[1] = e
              /\ \A i \in 1..Len(<<e>>) : i = 1
          BY <3>1, Alone
        <4>2. \A i \in 1..Len(<<e>>) : <<e>>[i] = e
          BY <4>1
        <4> QED BY <3>1, <3>3, <4>1, <4>2
      <3>4. CASE v = << >>
        BY <3>4
      <3> QED BY <3>2, <3>3, <3>4
    <2> HIDE DEF u, v, command
    <2>4. /\ s \in Seq(TraceEvent) /\ Len(s) = Len(u) + Len(v)
          /\ \A i \in 1..Len(u) : s[i] = u[i]
          /\ \A i \in 1..Len(v) : s[Len(u) + i] = v[i]
      <3> HIDE DEF s
      <3> QED BY ONLY <2>1, <2>2, <2>3, Concatenated
    <2> HIDE DEF s
    <2>5. ASSUME NEW i \in 1..Len(s)
          PROVE  \/ i \in 1..Len(u) /\ s[i] = u[i]
                 \/ \E k \in 1..Len(v) : s[i] = v[k]
      <3>1. Len(u) \in Nat /\ Len(v) \in Nat
        BY <2>2, <2>3
      <3>2. CASE i > Len(u)
        <4>1. i - Len(u) \in 1..Len(v) /\ i = Len(u) + (i - Len(u))
          BY <2>4, <3>1, <3>2
        <4> QED BY <2>4, <4>1
      <3> QED BY <2>4, <3>1, <3>2
    <2>6. \A i \in 1..Len(s) : /\ s[i].call = c /\ s[i].rc = rc
                               /\ s[i].kind \in {"test", "anchor", "commit", "read"}
                               /\ s[i].kind = "test" => ShowsItsTest(command)
      BY <2>2, <2>3, <2>5
    <2>7. \A i, j \in 1..Len(s) : Alike(s[i], s[j]) => i = j
      <3> SUFFICES ASSUME NEW i \in 1..Len(s), NEW j \in 1..Len(s), Alike(s[i], s[j]) PROVE i = j
        OBVIOUS
      <3>1. IsTest(s[i]) /\ IsTest(s[j])
        BY <2>6 DEF Alike
      <3>2. s[i].kind # "read" /\ s[j].kind # "read"
        BY <3>1 DEF IsTest
      <3>3. i \in 1..Len(u) /\ s[i] = u[i] /\ j \in 1..Len(u) /\ s[j] = u[j]
        BY <2>3, <2>5, <3>2
      <3> QED BY <2>2, <3>3
    <2> QED BY <2>1, <2>4, <2>6, <2>7 DEF command
  <1>5. tool[c].kind \in {"write", "spawn", "command"}
    BY DEF Tools
  <1> HIDE DEF Good, s
  <1> QED BY <1>2, <1>3, <1>4, <1>5

\* Where a command's status is of its test, the test ran and ended with it, or run-receipt
\* answered that it had passed.
LEMMA ItsTestIsNative ==
    ASSUME NEW command \in Commands, ShowsItsTest(command), NEW o \in OutcomesOf(command)
    PROVE  \/ \E k \in o.ran : /\ {i \in o.ran : command[i].does \in TestingSegments} = {k}
                               /\ o.rc = o.codes[k]
           \/ o.rc = 0 /\ \E k \in DOMAIN command : command[k].does = "reused"
  <1> DEFINE n == Len(command)
  <1>1. DOMAIN command = 1..n /\ n \in Nat
    BY CommandIs
  <1>2. PICK k \in DOMAIN command : Attributable(command, k)
    BY DEF ShowsItsTest
  <1>3. k = n /\ command[k].does \in {"test", "reused"}
        /\ \A j \in 1..k - 1 : command[j].does = "cd"
    BY <1>1, <1>2 DEF Attributable
  <1>4. PICK a \in [0..n -> {0, 1}] :
          /\ a[0] = 0
          /\ \A i \in DOMAIN command :
               IF ~RunsOf(command[i].op, a[i - 1]) THEN a[i] = a[i - 1]
               ELSE CASE command[i].does = "false" -> a[i] = 1
                      [] command[i].does \in TestingSegments -> a[i] \in {0, 1}
                      [] OTHER -> a[i] = 0
          /\ o = [ran |-> {i \in DOMAIN command : RunsOf(command[i].op, a[i - 1])},
                  rc |-> a[n], codes |-> a]
    BY DEF OutcomesOf
  <1> HIDE DEF n
  <1>5. \A j \in 0..n - 1 : a[j] = 0
    <2> SUFFICES ASSUME \E j \in 0..n - 1 : a[j] # 0 PROVE FALSE
      OBVIOUS
    <2> DEFINE bad == {j \in 0..n - 1 : a[j] # 0}
    <2>1. bad \subseteq Nat /\ bad # {}
      BY <1>1
    <2>2. PICK j \in bad : \A m \in bad : j <= m
      <3> HIDE DEF bad
      <3> QED BY <2>1, Least
    <2>3. j \in 1..n - 1 /\ j - 1 \in 0..n - 1 /\ a[j - 1] = 0
      <3>1. j # 0
        BY <1>4
      <3>2. j - 1 \in 0..n - 1 /\ j - 1 < j
        BY <1>1, <3>1
      <3> QED BY <1>1, <2>2, <3>1, <3>2
    <2>4. RunsOf(command[j].op, a[j - 1]) /\ command[j].does = "cd" /\ j \in DOMAIN command
      BY <1>1, <1>3, <2>3 DEF RunsOf
    <2>5. a[j] = 0
      BY <1>4, <2>4 DEF TestingSegments
    <2> QED BY <2>5
  <1>6. k - 1 \in 0..n - 1 /\ a[k - 1] = 0 /\ RunsOf(command[k].op, a[k - 1])
    BY <1>1, <1>3, <1>5 DEF RunsOf
  <1>7. k \in o.ran /\ o.rc = a[k] /\ o.codes[k] = a[k] /\ o.ran \subseteq DOMAIN command
    BY <1>3, <1>4, <1>6
  <1>8. CASE command[k].does = "reused"
    <2>1. a[k] = 0
      BY <1>4, <1>6, <1>8 DEF TestingSegments
    <2> QED BY <1>7, <1>8, <2>1
  <1>9. CASE command[k].does = "test"
    <2>1. {i \in o.ran : command[i].does \in TestingSegments} = {k}
      BY <1>7, <1>9, CommandIs DEF TestingSegments
    <2> QED BY <1>7, <2>1
  <1> QED BY <1>3, <1>8, <1>9

\* What a test of the evidence without receipts is.
NativeOf(e) ==
    \/ RunsTest(e.call) /\ e.rc = TestCode(e.call)
    \/ e.rc = 0 /\ \E k \in DOMAIN tool[e.call].command : tool[e.call].command[k].does = "reused"

CallStages == {"unused", "asked", "running", "ran", "told"}
CallOutcome ==
    [ran : SUBSET Nat, rc : {0, 1}, codes : UNION {[0..n -> {0, 1}] : n \in Nat},
     start : Nat, stable : BOOLEAN]
CallReceipt == [call : Calls, start : Nat, rc : {0, 1}, stable : BOOLEAN]

TraceTypes ==
    /\ harness \in {"claude", "codex"} /\ lifecycle \in BOOLEAN /\ collected \in BOOLEAN
    /\ callStage \in [Calls -> CallStages] /\ tool \in [Calls -> Tools \cup {NoTool}]
    /\ outcome \in [Calls -> CallOutcome]
    /\ receipts \in Seq(CallReceipt) /\ truth \in Seq(Calls) /\ told \in Seq(TraceEvent)
    /\ together \in BOOLEAN /\ valid \in BOOLEAN /\ ended \in BOOLEAN
    /\ awaited \subseteq Calls /\ repeats \in 0..MaxRepeats
    /\ IsFiniteSet({c \in Calls : callStage[c] # "unused"})

Began(c) == outcome[c].start > 0
IsRun(c) == Began(c) /\ callStage[c] \in {"ran", "told"}

\* A call has begun with a number of its own, and ended with an outcome of its command.
CallsAreRuns ==
    /\ lifecycle => harness = "claude"
    /\ \A c \in Calls :
         /\ callStage[c] # "unused" => tool[c] \in Tools
         /\ callStage[c] \in {"running", "ran"} => Began(c)
         /\ Began(c) =>
              /\ callStage[c] \in {"running", "ran", "told"}
              /\ outcome[c].start <= Started
              /\ [ran |-> outcome[c].ran, rc |-> outcome[c].rc, codes |-> outcome[c].codes]
                   \in OutcomesOf(tool[c].command)
         /\ ~Began(c) => outcome[c].ran = {}
    /\ \A c, d \in Calls : Began(c) /\ outcome[c].start = outcome[d].start => c = d
    /\ Distinct(truth) /\ Elements(truth) = {c \in Calls : IsRun(c)}

\* Calls that follow one another end in the order they began.
RunsFollow ==
    ~together =>
      /\ \A c, d \in Calls :
           callStage[c] \in {"running", "ran"} /\ callStage[d] \in {"running", "ran"} => c = d
      /\ \A c, d \in Calls :
           callStage[c] \in {"running", "ran"} /\ c # d => outcome[d].start < outcome[c].start
      /\ \A c \in Calls : callStage[c] = "ran" => Len(truth) > 0 /\ truth[Len(truth)] = c
      /\ \A p, q \in 1..Len(truth) :
           p < q => outcome[truth[p]].start < outcome[truth[q]].start

ReceiptOfRun(r) ==
    IsRun(r.call) /\ RunsTest(r.call) /\ r.start = outcome[r.call].start

ReceiptsAreOfRuns ==
    /\ ~collected => receipts = << >>
    /\ \A n \in 1..Len(receipts) : ReceiptOfRun(receipts[n])
    /\ \A m, n \in 1..Len(receipts) : receipts[m].call = receipts[n].call => m = n
    /\ collected => \A c \in Calls : IsRun(c) /\ RunsTest(c) =>
         \E n \in 1..Len(receipts) : receipts[n].call = c

Timed(e) == IsTest(e) \/ e.kind = "write"

ToldOfCall(e) ==
    /\ e.kind = "spawn tool" => harness = "claude"
    /\ e.kind = "spawn" => lifecycle \/ harness # "claude"
    /\ e.kind = "spawn" /\ lifecycle => Began(e.call)
    /\ e.kind # "spawn" \/ ~lifecycle => callStage[e.call] = "told"
    /\ Timed(e) => IsRun(e.call)
    /\ e.kind = "test" => NativeOf(e)

ToldIsOfCalls ==
    /\ \A i \in 1..Len(told) : ToldOfCall(told[i])
    /\ \A i, j \in 1..Len(told) : Alike(told[i], told[j]) => i = j
    /\ ~together => \A i, j \in 1..Len(told) :
         i < j /\ Timed(told[i]) /\ Timed(told[j]) =>
           outcome[told[i].call].start <= outcome[told[j].call].start

TraceCore == TraceTypes /\ CallsAreRuns /\ RunsFollow /\ ReceiptsAreOfRuns /\ ToldIsOfCalls

TraceInv == TraceCore /\ (ended => evidence = Normalized)

LEMMA InitTraceCore == ASSUME TraceInit PROVE TraceCore /\ ended = FALSE
  <1>1. /\ callStage = [c \in Calls |-> "unused"] /\ tool = [c \in Calls |-> NoTool]
        /\ receipts = << >> /\ truth = << >> /\ told = << >> /\ awaited = {} /\ repeats = 0
        /\ harness \in {"claude", "codex"} /\ collected \in BOOLEAN
        /\ together = FALSE /\ valid = TRUE /\ ended = FALSE
    BY DEF TraceInit
  <1>2. lifecycle \in BOOLEAN /\ (lifecycle => harness = "claude")
    <2>1. lifecycle \in IF harness = "claude" THEN BOOLEAN ELSE {FALSE}
      BY DEF TraceInit
    <2>2. CASE harness = "claude"
      BY <2>1, <2>2
    <2>3. CASE harness # "claude"
      BY <2>1, <2>3
    <2> QED BY <2>2, <2>3
  <1> DEFINE o == [ran |-> {}, rc |-> 0, codes |-> [i \in {0} |-> 0], start |-> 0, stable |-> TRUE]
  <1>3. outcome = [c \in Calls |-> o]
    BY DEF TraceInit
  <1>4. o \in CallOutcome
    <2>1. [i \in {0} |-> 0] \in [0..0 -> {0, 1}]
      OBVIOUS
    <2>2. [i \in {0} |-> 0] \in UNION {[0..n -> {0, 1}] : n \in Nat}
      BY <2>1
    <2> QED BY <2>2 DEF CallOutcome
  <1>5. o.start = 0 /\ o.ran = {}
    OBVIOUS
  <1> HIDE DEF o
  <1>6. \A c \in Calls : ~Began(c) /\ outcome[c].ran = {} /\ outcome[c].start = 0
    BY <1>3, <1>5 DEF Began
  <1>7. IsFiniteSet({c \in Calls : callStage[c] # "unused"})
    <2>1. {c \in Calls : callStage[c] # "unused"} = {}
      BY <1>1
    <2> QED BY <2>1, FS_EmptySet
  <1>8. TraceTypes
    <2>1. callStage \in [Calls -> CallStages] /\ tool \in [Calls -> Tools \cup {NoTool}]
      BY <1>1 DEF CallStages
    <2>2. outcome \in [Calls -> CallOutcome]
      BY <1>3, <1>4
    <2>3. receipts \in Seq(CallReceipt) /\ truth \in Seq(Calls) /\ told \in Seq(TraceEvent)
      BY <1>1
    <2>4. awaited \subseteq Calls /\ repeats \in 0..MaxRepeats
      BY <1>1, TraceConstants
    <2>5. together \in BOOLEAN /\ valid \in BOOLEAN /\ ended \in BOOLEAN
      BY <1>1, Zenon
    <2> QED BY <1>1, <1>2, <1>7, <2>1, <2>2, <2>3, <2>4, <2>5 DEF TraceTypes
  <1>9. Distinct(truth) /\ Elements(truth) = {}
    BY <1>1 DEF Distinct, Elements
  <1>10. CallsAreRuns
    BY <1>1, <1>2, <1>6, <1>9 DEF CallsAreRuns, IsRun, Began
  <1>11. RunsFollow
    BY <1>1 DEF RunsFollow
  <1>12. ReceiptsAreOfRuns
    BY <1>1, <1>6 DEF ReceiptsAreOfRuns, IsRun
  <1>13. ToldIsOfCalls
    BY <1>1 DEF ToldIsOfCalls
  <1> QED BY <1>1, <1>8, <1>10, <1>11, <1>12, <1>13 DEF TraceCore

LEMMA StartedIs ==
    ASSUME TraceTypes
    PROVE  /\ Started \in Nat
           /\ IsFiniteSet({c \in Calls : callStage[c] \notin {"unused", "asked"}})
  <1> DEFINE S == {c \in Calls : callStage[c] # "unused"}
             T == {c \in Calls : callStage[c] \notin {"unused", "asked"}}
  <1>1. IsFiniteSet(S) /\ T \subseteq S
    BY DEF TraceTypes
  <1> HIDE DEF S, T
  <1>2. IsFiniteSet(T) /\ Cardinality(T) \in Nat
    BY <1>1, FS_Subset, FS_CardinalityType
  <1> QED BY <1>2 DEF T, Started

\* The stage of one call moves on.
LEMMA StageMoves ==
    ASSUME TraceTypes, NEW call \in Calls, NEW to \in CallStages \ {"unused"},
           callStage' = [callStage EXCEPT ![call] = to]
    PROVE  /\ callStage' \in [Calls -> CallStages] /\ callStage'[call] = to
           /\ \A c \in Calls : c # call => callStage'[c] = callStage[c]
           /\ IsFiniteSet({c \in Calls : callStage'[c] # "unused"})
           /\ Started \in Nat /\ Started' \in Nat
           /\ callStage[call] = "unused" /\ to = "asked" => Started' = Started
           /\ callStage[call] = "asked" /\ to # "asked" => Started' = Started + 1
           /\ callStage[call] \notin {"unused", "asked"} /\ to # "asked" => Started' = Started
  <1> DEFINE S == {c \in Calls : callStage[c] # "unused"}
             S1 == {c \in Calls : callStage'[c] # "unused"}
             T == {c \in Calls : callStage[c] \notin {"unused", "asked"}}
             T1 == {c \in Calls : callStage'[c] \notin {"unused", "asked"}}
  <1>1. callStage \in [Calls -> CallStages] /\ IsFiniteSet(S)
    BY DEF TraceTypes
  <1>2. /\ callStage' \in [Calls -> CallStages] /\ callStage'[call] = to
        /\ \A c \in Calls : c # call => callStage'[c] = callStage[c]
    BY <1>1
  <1>3. S1 = S \cup {call}
    BY <1>2
  <1>4. T1 \subseteq S1
    OBVIOUS
  <1>5. Started = Cardinality(T) /\ Started' = Cardinality(T1)
    BY DEF Started
  <1>6. callStage[call] = "unused" /\ to = "asked" => T1 = T
    BY <1>2
  <1>7. callStage[call] = "asked" /\ to # "asked" => T1 = T \cup {call} /\ call \notin T
    BY <1>2
  <1>8. callStage[call] \notin {"unused", "asked"} /\ to # "asked" => T1 = T
    BY <1>2
  <1>9. IsFiniteSet(T)
    BY StartedIs
  <1> HIDE DEF S, T, S1, T1
  <1>10. IsFiniteSet(S1) /\ IsFiniteSet(T1)
    BY <1>1, <1>3, <1>4, FS_AddElement, FS_Subset
  <1>11. Cardinality(T) \in Nat /\ Cardinality(T1) \in Nat
    BY <1>9, <1>10, FS_CardinalityType
  <1>12. call \notin T => Cardinality(T \cup {call}) = Cardinality(T) + 1
    BY <1>9, FS_AddElement
  <1> QED BY <1>2, <1>5, <1>6, <1>7, <1>8, <1>10, <1>11, <1>12 DEF S1

\* What the actor's calls and the trace's lines leave alone.
TraceStays == UNCHANGED <<harness, lifecycle, collected, ended>>

LEMMA ReceiptsSay ==
    ASSUME TraceTypes
    PROVE  /\ Len(receipts) \in Nat /\ DOMAIN receipts = 1..Len(receipts)
           /\ \A n \in 1..Len(receipts) : receipts[n].call \in Calls
           /\ Len(truth) \in Nat /\ \A n \in 1..Len(truth) : truth[n] \in Calls
           /\ Len(told) \in Nat /\ DOMAIN told = 1..Len(told)
           /\ \A i \in 1..Len(told) : told[i] \in TraceEvent /\ told[i].call \in Calls
           /\ \A c \in Calls : outcome[c].start \in Nat /\ outcome[c] \in CallOutcome
  <1>1. /\ receipts \in Seq(CallReceipt) /\ truth \in Seq(Calls) /\ told \in Seq(TraceEvent)
        /\ outcome \in [Calls -> CallOutcome]
    BY DEF TraceTypes
  <1>2. \A r \in CallReceipt : r.call \in Calls
    BY DEF CallReceipt
  <1>3. \A e \in TraceEvent : e.call \in Calls
    BY DEF TraceEvent
  <1>4. \A o \in CallOutcome : o.start \in Nat
    BY DEF CallOutcome
  <1> QED BY <1>1, <1>2, <1>3, <1>4

\* What is true of each element of the new list is true of the list.
LEMMA ToldCarries ==
    ASSUME \A i \in 1..Len(told') : \E e : e = told'[i] /\ ToldOfCall(e)'
    PROVE  (\A i \in 1..Len(told) : ToldOfCall(told[i]))'
  <1> SUFFICES ASSUME NEW i \in (1..Len(told))' PROVE ToldOfCall(told[i])'
    OBVIOUS
  <1>1. PICK e : e = told'[i] /\ ToldOfCall(e)'
    OBVIOUS
  <1>2. ToldOfCall(told[i])' <=> ToldOfCall(e)'
    <2>1. NativeOf(told[i])' <=> NativeOf(e)'
      BY <1>1 DEF NativeOf, RunsTest, TestsRun, TestCode
    <2> QED BY <1>1, <2>1 DEF ToldOfCall, Began, IsRun, Timed, IsTest
  <1> QED BY <1>1, <1>2

LEMMA ReceiptsCarry ==
    ASSUME \A n \in 1..Len(receipts') : \E r : r = receipts'[n] /\ ReceiptOfRun(r)'
    PROVE  (\A n \in 1..Len(receipts) : ReceiptOfRun(receipts[n]))'
  BY DEF ReceiptOfRun, Began, IsRun, RunsTest, TestsRun

LEMMA AskKeeps ==
    ASSUME TraceCore, TraceStays, NEW call \in Calls, Ask(call)
    PROVE  TraceCore'
  <1> USE DEF TraceCore
  <1>1. /\ callStage[call] = "unused" /\ callStage' = [callStage EXCEPT ![call] = "asked"]
        /\ outcome' = outcome /\ receipts' = receipts /\ truth' = truth /\ together' = together
        /\ told' = told /\ repeats' = repeats /\ valid' = valid
        /\ awaited' = IF harness = "claude" THEN awaited \cup {call} ELSE awaited
        /\ harness' = harness /\ lifecycle' = lifecycle /\ collected' = collected
        /\ ended' = ended
    BY DEF Ask, TraceStays
  <1>2. PICK t \in Tools : tool' = [tool EXCEPT ![call] = t]
    BY DEF Ask
  <1>3. /\ callStage' \in [Calls -> CallStages] /\ callStage'[call] = "asked"
        /\ \A c \in Calls : c # call => callStage'[c] = callStage[c]
        /\ IsFiniteSet({c \in Calls : callStage'[c] # "unused"})
        /\ Started \in Nat /\ Started' = Started
    BY <1>1, StageMoves DEF CallStages
  <1>4. /\ tool' \in [Calls -> Tools \cup {NoTool}] /\ tool'[call] = t
        /\ \A c \in Calls : c # call => tool'[c] = tool[c]
    BY <1>2 DEF TraceTypes
  <1>5. TraceTypes'
    <2>1. awaited' \subseteq Calls
      BY <1>1 DEF TraceTypes
    <2> QED BY <1>1, <1>3, <1>4, <2>1 DEF TraceTypes
  <1>6. ~Began(call) /\ ~Began(call)' /\ \A c \in Calls : Began(c)' <=> Began(c)
    BY <1>1 DEF CallsAreRuns, Began
  <1>7. \A c \in Calls : IsRun(c)' <=> IsRun(c)
    BY <1>1, <1>3, <1>6 DEF IsRun
  <1>8. \A c \in Calls : /\ RunsTest(c)' <=> RunsTest(c)
                         /\ RunsTest(c) => TestCode(c)' = TestCode(c) /\ c # call
    <2>1. outcome[call].ran = {}
      BY <1>6 DEF CallsAreRuns
    <2>2. TestsRun(call) = {} /\ TestsRun(call)' = {}
      BY <1>1, <2>1 DEF TestsRun
    <2>3. \A c \in Calls : c # call => TestsRun(c)' = TestsRun(c)
      BY <1>1, <1>4 DEF TestsRun
    <2> QED BY <1>1, <2>2, <2>3 DEF RunsTest, TestCode
  <1>9. CallsAreRuns'
    BY <1>1, <1>3, <1>4, <1>6, <1>7 DEF CallsAreRuns
  <1>10. RunsFollow'
    BY <1>1, <1>3 DEF RunsFollow
  <1>11. ReceiptsAreOfRuns'
    <2>1. \A n \in 1..Len(receipts) : \E r : r = receipts[n] /\ ReceiptOfRun(r)'
      <3> TAKE n \in 1..Len(receipts)
      <3>1. PICK r : r = receipts[n]
        OBVIOUS
      <3>2. r.call \in Calls /\ ReceiptOfRun(r)
        BY <3>1, ReceiptsSay DEF ReceiptsAreOfRuns
      <3>3. ReceiptOfRun(r)'
        BY <1>1, <1>7, <1>8, <3>2 DEF ReceiptOfRun
      <3> QED BY <3>1, <3>3
    <2>2. (\A n \in 1..Len(receipts) : ReceiptOfRun(receipts[n]))'
      BY <1>1, <2>1, ReceiptsCarry
    <2> QED BY <1>1, <1>7, <1>8, <2>2 DEF ReceiptsAreOfRuns
  <1>12. ToldIsOfCalls'
    <2>1. \A i \in 1..Len(told) : \E e : e = told[i] /\ ToldOfCall(e)'
      <3> TAKE i \in 1..Len(told)
      <3>1. PICK e : e = told[i]
        OBVIOUS
      <3>2. e.call \in Calls /\ ToldOfCall(e)
        BY <3>1, ReceiptsSay DEF ToldIsOfCalls
      <3>3. callStage[e.call] = "told" => e.call # call /\ callStage'[e.call] = "told"
        BY <1>1, <1>3, <3>2
      <3>4. e.kind = "test" => NativeOf(e)'
        BY <1>1, <1>4, <1>8, <3>2, <3>3 DEF NativeOf, ToldOfCall
      <3>5. ToldOfCall(e)'
        BY <1>1, <1>6, <1>7, <3>2, <3>3, <3>4 DEF ToldOfCall, Timed, IsTest
      <3> QED BY <3>1, <3>5
    <2>2. (\A i \in 1..Len(told) : ToldOfCall(told[i]))'
      BY <1>1, <2>1, ToldCarries
    <2> QED BY <1>1, <2>2 DEF ToldIsOfCalls, Alike, IsTest, Timed
  <1> QED BY <1>5, <1>9, <1>10, <1>11, <1>12

LEMMA EndingsAre ==
    ASSUME NEW t \in Tools, NEW o \in OutcomesOf(t.command)
    PROVE  /\ o.ran \in SUBSET Nat /\ o.rc \in {0, 1}
           /\ o.codes \in UNION {[0..n -> {0, 1}] : n \in Nat}
           /\ o = [ran |-> o.ran, rc |-> o.rc, codes |-> o.codes]
  <1> DEFINE command == t.command
  <1>1. DOMAIN command = 1..Len(command) /\ Len(command) \in Nat
    <2>1. CASE t \in [kind : {"write", "spawn"}, command : {<< >>}]
      BY <2>1
    <2>2. CASE t \in [kind : {"command"}, command : Commands]
      <3>1. command \in Commands
        BY <2>2
      <3> HIDE DEF command
      <3> QED BY <3>1, CommandIs
    <2> QED BY <2>1, <2>2 DEF Tools
  <1>2. o \in OutcomesOf(command)
    OBVIOUS
  <1> HIDE DEF command
  <1>3. PICK after \in [0..Len(command) -> {0, 1}] :
          o = [ran |-> {i \in DOMAIN command : RunsOf(command[i].op, after[i - 1])},
               rc |-> after[Len(command)], codes |-> after]
    BY <1>2 DEF OutcomesOf
  <1>4. o.ran \subseteq DOMAIN command /\ o.rc = after[Len(command)] /\ o.codes = after
    BY <1>3
  <1>5. o = [ran |-> o.ran, rc |-> o.rc, codes |-> o.codes]
    BY <1>3
  <1>6. after \in UNION {[0..n -> {0, 1}] : n \in Nat}
    BY <1>1
  <1>7. after[Len(command)] \in {0, 1} /\ o.ran \subseteq Nat
    BY <1>1, <1>4
  <1> QED BY <1>4, <1>5, <1>6, <1>7

\* What is told at the end of the trace.
LEMMA Extended ==
    ASSUME NEW S, NEW s \in Seq(S), NEW t \in Seq(S)
    PROVE  LET u == s \o t IN
             /\ u \in Seq(S) /\ Len(u) = Len(s) + Len(t)
             /\ \A i \in 1..Len(u) :
                  \/ i \in 1..Len(s) /\ u[i] = s[i]
                  \/ /\ i > Len(s) /\ i - Len(s) \in 1..Len(t) /\ u[i] = t[i - Len(s)]
                     /\ i \notin 1..Len(s)
  <1> DEFINE u == s \o t
  <1>1. /\ u \in Seq(S) /\ Len(u) = Len(s) + Len(t)
        /\ \A i \in 1..Len(s) : u[i] = s[i]
        /\ \A i \in 1..Len(t) : u[Len(s) + i] = t[i]
    BY Concatenated
  <1> HIDE DEF u
  <1>2. Len(s) \in Nat /\ Len(t) \in Nat
    OBVIOUS
  <1>3. ASSUME NEW i \in 1..Len(u), i > Len(s)
        PROVE  i - Len(s) \in 1..Len(t) /\ u[i] = t[i - Len(s)]
    <2>1. i - Len(s) \in 1..Len(t) /\ i = Len(s) + (i - Len(s))
      BY <1>1, <1>2, <1>3
    <2> QED BY <1>1, <2>1
  <1>4. \A i \in 1..Len(u) : i > Len(s) \/ i \in 1..Len(s)
    BY <1>2
  <1>5. \A i \in 1..Len(u) : i > Len(s) => i \notin 1..Len(s)
    BY <1>2
  <1> QED BY <1>1, <1>3, <1>4, <1>5 DEF u

LEMMA CallBeginsKeeps ==
    ASSUME TraceCore, TraceStays, NEW call \in Calls, CallBegins(call)
    PROVE  TraceCore'
  <1> USE DEF TraceCore
  <1> DEFINE s == IF lifecycle /\ tool[call].kind = "spawn" THEN <<ToolEvent("spawn", call, 0)>>
                  ELSE << >>
             n == Len(told)
  <1>1. /\ callStage[call] = "asked" /\ callStage' = [callStage EXCEPT ![call] = "running"]
        /\ tool' = tool /\ receipts' = receipts /\ truth' = truth
        /\ awaited' = awaited /\ repeats' = repeats /\ valid' = valid
        /\ together' = (together \/ \E c \in Calls : callStage[c] \in {"running", "ran"})
        /\ harness' = harness /\ lifecycle' = lifecycle /\ collected' = collected
        /\ ended' = ended
    BY DEF CallBegins, TraceStays
  <1>2. PICK o \in OutcomesOf(tool[call].command) :
          outcome' = [outcome EXCEPT ![call] =
                       [ran |-> o.ran, rc |-> o.rc, codes |-> o.codes,
                        start |-> Started + 1, stable |-> TRUE]]
    BY DEF CallBegins
  <1>3. /\ callStage' \in [Calls -> CallStages] /\ callStage'[call] = "running"
        /\ \A c \in Calls : c # call => callStage'[c] = callStage[c]
        /\ IsFiniteSet({c \in Calls : callStage'[c] # "unused"})
        /\ Started \in Nat /\ Started' = Started + 1
    BY <1>1, StageMoves DEF CallStages
  <1>4. /\ o.ran \in SUBSET Nat /\ o.rc \in {0, 1}
        /\ o.codes \in UNION {[0..m -> {0, 1}] : m \in Nat}
        /\ o = [ran |-> o.ran, rc |-> o.rc, codes |-> o.codes]
    <2>1. tool[call] \in Tools
      BY <1>1 DEF CallsAreRuns
    <2> QED BY <2>1, EndingsAre
  <1> DEFINE begun == [ran |-> o.ran, rc |-> o.rc, codes |-> o.codes,
                       start |-> Started + 1, stable |-> TRUE]
  <1>5. begun \in CallOutcome
    BY <1>3, <1>4 DEF CallOutcome
  <1>6. begun.ran = o.ran /\ begun.rc = o.rc /\ begun.codes = o.codes
        /\ begun.start = Started + 1
    OBVIOUS
  <1>7. /\ outcome' \in [Calls -> CallOutcome] /\ outcome'[call] = begun
        /\ \A c \in Calls : c # call => outcome'[c] = outcome[c]
    <2>1. outcome' = [outcome EXCEPT ![call] = begun] /\ outcome \in [Calls -> CallOutcome]
      BY <1>2 DEF TraceTypes
    <2> HIDE DEF begun
    <2> QED BY <1>5, <2>1
  <1> HIDE DEF begun
  <1>8. told' = told \o s
    BY DEF CallBegins, TraceTypes
  <1>9. s \in Seq(TraceEvent) /\ \A i \in 1..Len(s) : /\ s[i].kind = "spawn" /\ s[i].call = call
                                                      /\ i = 1 /\ lifecycle
    <2> DEFINE e == ToolEvent("spawn", call, 0)
    <2>1. e \in TraceEvent /\ e.kind = "spawn" /\ e.call = call
      BY DEF ToolEvent, TraceEvent, EventKinds
    <2> HIDE DEF e
    <2>2. <<e>> \in Seq(TraceEvent) /\ Len(<<e>>) = 1 /\ <<e>>[1] = e
          /\ \A i \in 1..Len(<<e>>) : i = 1
      BY <2>1, Alone
    <2>3. CASE lifecycle /\ tool[call].kind = "spawn"
      <3>1. s = <<e>>
        BY <2>3 DEF e
      <3> HIDE DEF s
      <3> QED BY <2>1, <2>2, <2>3, <3>1
    <2>4. CASE ~(lifecycle /\ tool[call].kind = "spawn")
      <3>1. s = << >>
        BY <2>4
      <3> HIDE DEF s
      <3> QED BY <3>1
    <2> QED BY <2>3, <2>4
  <1> HIDE DEF s
  <1>10. /\ told' \in Seq(TraceEvent) /\ Len(told') = n + Len(s)
         /\ \A i \in 1..Len(told') :
              \/ i \in 1..n /\ told'[i] = told[i]
              \/ /\ i > n /\ i - n \in 1..Len(s) /\ told'[i] = s[i - n]
                 /\ i \notin 1..n
    <2>1. told \in Seq(TraceEvent)
      BY DEF TraceTypes
    <2> QED BY <1>8, <1>9, <2>1, Extended
  <1>11. n \in Nat
    BY ReceiptsSay
  <1> HIDE DEF n
  <1>12. ASSUME NEW i \in 1..Len(told')
         PROVE  \/ i \in 1..n /\ told'[i] = told[i]
                \/ i = n + 1 /\ i \notin 1..n /\ told'[i].kind = "spawn" /\ told'[i].call = call
                   /\ lifecycle
    <2>1. CASE i \in 1..n /\ told'[i] = told[i]
      BY <2>1
    <2>2. CASE i > n /\ i - n \in 1..Len(s) /\ told'[i] = s[i - n] /\ i \notin 1..n
      <3>1. i - n = 1 /\ told'[i].kind = "spawn" /\ told'[i].call = call /\ lifecycle
        BY <1>9, <2>2
      <3>2. i = n + 1
        BY <1>11, <3>1
      <3> QED BY <2>2, <3>1, <3>2
    <2> QED BY <1>10, <2>1, <2>2
  <1>13. TraceTypes'
    BY <1>1, <1>3, <1>7, <1>10 DEF TraceTypes
  <1>14. /\ ~Began(call) /\ Began(call)' /\ outcome[call].ran = {} /\ ~IsRun(call)
         /\ ~IsRun(call)'
         /\ \A c \in Calls : c # call => /\ Began(c)' <=> Began(c)
                                         /\ IsRun(c)' <=> IsRun(c)
                                         /\ outcome'[c] = outcome[c]
    <2>1. ~Began(call) /\ outcome[call].ran = {}
      BY <1>1 DEF CallsAreRuns
    <2>2. Began(call)'
      BY <1>3, <1>6, <1>7 DEF Began
    <2>3. \A c \in Calls : c # call => (Began(c)' <=> Began(c))
      BY <1>7 DEF Began
    <2> QED BY <1>1, <1>3, <1>7, <2>1, <2>2, <2>3 DEF IsRun
  <1>15. \A c \in Calls : IsRun(c) => c # call
    BY <1>14
  <1>16. \A c \in Calls : c # call => RunsTest(c)' = RunsTest(c) /\ TestCode(c)' = TestCode(c)
    BY <1>1, <1>14 DEF RunsTest, TestsRun, TestCode
  <1>17. \A c \in Calls : outcome[c].start <= Started /\ outcome[c].start \in Nat
    <2> TAKE c \in Calls
    <2>1. outcome[c].start \in Nat
      BY ReceiptsSay
    <2>2. CASE Began(c)
      BY <2>1, <2>2 DEF CallsAreRuns
    <2>3. CASE ~Began(c)
      BY <1>3, <2>1, <2>3 DEF Began
    <2> QED BY <2>2, <2>3
  <1>18. CallsAreRuns'
    <2>1. \A c \in Calls : callStage'[c] # "unused" => tool'[c] \in Tools
      BY <1>1, <1>3 DEF CallsAreRuns
    <2>2. \A c \in Calls : callStage'[c] \in {"running", "ran"} => Began(c)'
      BY <1>3, <1>14 DEF CallsAreRuns
    <2>3. \A c \in Calls : Began(c)' =>
              /\ callStage'[c] \in {"running", "ran", "told"}
              /\ outcome'[c].start <= Started'
              /\ [ran |-> outcome'[c].ran, rc |-> outcome'[c].rc, codes |-> outcome'[c].codes]
                   \in OutcomesOf(tool'[c].command)
      <3> SUFFICES ASSUME NEW c \in Calls, Began(c)'
                   PROVE /\ callStage'[c] \in {"running", "ran", "told"}
                         /\ outcome'[c].start <= Started'
                         /\ [ran |-> outcome'[c].ran, rc |-> outcome'[c].rc,
                             codes |-> outcome'[c].codes] \in OutcomesOf(tool'[c].command)
        OBVIOUS
      <3>1. CASE c = call
        <4>1. outcome'[c].start = Started + 1
          BY <1>6, <1>7, <3>1
        <4> QED BY <1>1, <1>3, <1>4, <1>6, <1>7, <3>1, <4>1
      <3>2. CASE c # call
        <4>1. Began(c) /\ outcome'[c] = outcome[c] /\ callStage'[c] = callStage[c]
          BY <1>3, <1>14, <3>2
        <4>2. outcome'[c].start <= Started'
          BY <1>3, <1>17, <4>1
        <4> QED BY <1>1, <4>1, <4>2 DEF CallsAreRuns
      <3> QED BY <3>1, <3>2
    <2>4. \A c \in Calls : ~Began(c)' => outcome'[c].ran = {}
      BY <1>14 DEF CallsAreRuns
    <2>5. \A c, d \in Calls : Began(c)' /\ outcome'[c].start = outcome'[d].start => c = d
      <3> SUFFICES ASSUME NEW c \in Calls, NEW d \in Calls, Began(c)', c # d,
                          outcome'[c].start = outcome'[d].start
                   PROVE FALSE
        OBVIOUS
      <3>0. outcome'[call].start = Started + 1
        BY <1>6, <1>7
      <3>1. CASE c # call /\ d # call
        BY <1>14, <3>1 DEF CallsAreRuns
      <3>2. CASE c = call
        BY <1>3, <1>14, <1>17, <3>0, <3>2
      <3>3. CASE d = call
        BY <1>3, <1>14, <1>17, <3>0, <3>3
      <3> QED BY <3>1, <3>2, <3>3
    <2>6. {c \in Calls : IsRun(c)'} = {c \in Calls : IsRun(c)}
      BY <1>14
    <2> QED BY <1>1, <2>1, <2>2, <2>3, <2>4, <2>5, <2>6 DEF CallsAreRuns
  <1>19. RunsFollow'
    <2> SUFFICES ASSUME ~together' PROVE RunsFollow'
      BY DEF RunsFollow
    <2>1. ~together /\ \A c \in Calls : callStage[c] \notin {"running", "ran"}
      BY <1>1
    <2>2. \A c \in Calls : callStage'[c] \in {"running", "ran"} => c = call
      BY <1>3, <2>1
    <2>3. \A c \in Calls : callStage'[c] # "ran"
      BY <1>3, <2>1
    <2>4. \A d \in Calls : d # call => outcome'[d].start < outcome'[call].start
      BY <1>3, <1>6, <1>7, <1>14, <1>17
    <2>5. \A p \in 1..Len(truth) : truth[p] \in Calls /\ outcome'[truth[p]] = outcome[truth[p]]
      <3> TAKE p \in 1..Len(truth)
      <3>1. truth[p] \in Elements(truth)
        BY DEF Elements
      <3>2. truth[p] \in Calls /\ IsRun(truth[p])
        BY <3>1 DEF CallsAreRuns
      <3> QED BY <1>14, <1>15, <3>2
    <2> QED BY <1>1, <2>1, <2>2, <2>3, <2>4, <2>5 DEF RunsFollow
  <1>20. ReceiptsAreOfRuns'
    <2>1. \A m \in 1..Len(receipts) : \E r : r = receipts[m] /\ ReceiptOfRun(r)'
      <3> TAKE m \in 1..Len(receipts)
      <3>1. PICK r : r = receipts[m]
        OBVIOUS
      <3>2. r.call \in Calls /\ ReceiptOfRun(r)
        BY <3>1, ReceiptsSay DEF ReceiptsAreOfRuns
      <3>3. r.call # call
        BY <1>15, <3>2 DEF ReceiptOfRun
      <3>4. ReceiptOfRun(r)'
        BY <1>14, <1>16, <3>2, <3>3 DEF ReceiptOfRun
      <3> QED BY <3>1, <3>4
    <2>2. (\A m \in 1..Len(receipts) : ReceiptOfRun(receipts[m]))'
      BY <1>1, <2>1, ReceiptsCarry
    <2>3. collected => \A c \in Calls : IsRun(c)' /\ RunsTest(c)' =>
            \E m \in 1..Len(receipts) : receipts[m].call = c
      BY <1>14, <1>16 DEF ReceiptsAreOfRuns
    <2> QED BY <1>1, <2>2, <2>3 DEF ReceiptsAreOfRuns
  <1>21. ToldIsOfCalls'
    <2>0. 1..n = 1..Len(told) /\ \A i \in 1..n : told[i] \in TraceEvent /\ told[i].call \in Calls
      BY ReceiptsSay DEF n
    <2>1. ASSUME NEW i \in 1..n, NEW e, e = told[i]
          PROVE  /\ ToldOfCall(e)'
                 /\ e.call # call
      <3>1. ToldOfCall(e) /\ e.call \in Calls
        BY <2>0, <2>1 DEF ToldIsOfCalls
      <3>2. /\ e.kind = "spawn" /\ lifecycle => e.call # call
            /\ e.kind # "spawn" \/ ~lifecycle => e.call # call
        BY <1>1, <1>14, <3>1 DEF ToldOfCall
      <3>3. e.kind = "test" => NativeOf(e)'
        BY <1>1, <1>16, <3>1, <3>2 DEF NativeOf, ToldOfCall
      <3>4. e.call # call
        BY <3>2
      <3>5. ToldOfCall(e)'
        BY <1>1, <1>3, <1>14, <3>1, <3>3, <3>4 DEF ToldOfCall, Timed, IsTest
      <3> QED BY <3>4, <3>5
    <2>2. \A i, j \in 1..Len(told') : Alike(told'[i], told'[j]) => i = j
      <3> SUFFICES ASSUME NEW i \in 1..Len(told'), NEW j \in 1..Len(told'),
                          Alike(told'[i], told'[j])
                   PROVE i = j
        OBVIOUS
      <3>1. CASE i \in 1..n /\ told'[i] = told[i] /\ j \in 1..n /\ told'[j] = told[j]
        BY <2>0, <3>1 DEF ToldIsOfCalls
      <3>2. ASSUME NEW k \in 1..n, NEW e, lifecycle, e.kind = "spawn", e.call = call
            PROVE  ~Alike(told[k], e) /\ ~Alike(e, told[k])
        <4>1. told[k].kind = "spawn" => told[k].call # call
          BY <2>1, <3>2
        <4> QED BY <2>0, <3>2, <4>1 DEF Alike, IsTest
      <3> QED BY <1>12, <3>1, <3>2
    <2>3. ~together' => \A i, j \in 1..Len(told') :
            i < j /\ Timed(told'[i]) /\ Timed(told'[j]) =>
              outcome'[told'[i].call].start <= outcome'[told'[j].call].start
      <3> SUFFICES ASSUME ~together', NEW i \in 1..Len(told'), NEW j \in 1..Len(told'),
                          i < j, Timed(told'[i]), Timed(told'[j])
                   PROVE outcome'[told'[i].call].start <= outcome'[told'[j].call].start
        OBVIOUS
      <3>1. i \in 1..n /\ told'[i] = told[i] /\ j \in 1..n /\ told'[j] = told[j]
        BY <1>12 DEF Timed, IsTest
      <3>2. outcome[told[i].call].start <= outcome[told[j].call].start
        BY <1>1, <2>0, <3>1 DEF ToldIsOfCalls
      <3>3. told[i].call # call /\ told[j].call # call
        BY <2>1, <3>1
      <3> QED BY <1>14, <2>0, <3>1, <3>2, <3>3
    <2>4. \A i \in 1..Len(told') : \E e : e = told'[i] /\ ToldOfCall(e)'
      <3> TAKE i \in 1..Len(told')
      <3>0. PICK e : e = told'[i]
        OBVIOUS
      <3>1. CASE i \in 1..n /\ told'[i] = told[i]
        BY <2>1, <3>0, <3>1
      <3>2. CASE told'[i].kind = "spawn" /\ told'[i].call = call /\ lifecycle
        <4>1. ToldOfCall(e)'
          BY <1>1, <1>14, <3>0, <3>2 DEF ToldOfCall, Timed, IsTest
        <4> QED BY <3>0, <4>1
      <3> QED BY <1>12, <3>1, <3>2
    <2>5. (\A i \in 1..Len(told) : ToldOfCall(told[i]))'
      BY <2>4, ToldCarries
    <2> QED BY <2>2, <2>3, <2>5 DEF ToldIsOfCalls, Alike, IsTest, Timed
  <1> QED BY <1>13, <1>18, <1>19, <1>20, <1>21

\* A write that ends unsettles the runs of its time, and nothing else of them.
LEMMA OutcomesStand ==
    ASSUME TraceTypes, NEW call \in Calls, End(call)
    PROVE  /\ outcome' \in [Calls -> CallOutcome]
           /\ \A c \in Calls :
                /\ outcome'[c].start = outcome[c].start /\ outcome'[c].ran = outcome[c].ran
                /\ outcome'[c].rc = outcome[c].rc /\ outcome'[c].codes = outcome[c].codes
  <1>1. outcome \in [Calls -> CallOutcome]
    BY DEF TraceTypes
  <1>2. CASE tool[call].kind # "write"
    BY <1>1, <1>2 DEF End
  <1>3. CASE tool[call].kind = "write"
    <2> DEFINE unsettled(c) == [outcome[c] EXCEPT !.stable = FALSE]
    <2>1. outcome' = [c \in Calls |->
                        IF callStage[c] = "running" THEN unsettled(c) ELSE outcome[c]]
      BY <1>3 DEF End
    <2>2. ASSUME NEW c \in Calls
          PROVE  /\ unsettled(c) \in CallOutcome
                 /\ unsettled(c).start = outcome[c].start /\ unsettled(c).ran = outcome[c].ran
                 /\ unsettled(c).rc = outcome[c].rc /\ unsettled(c).codes = outcome[c].codes
      BY <1>1 DEF CallOutcome
    <2> HIDE DEF unsettled
    <2>3. \A c \in Calls : outcome'[c] = unsettled(c) \/ outcome'[c] = outcome[c]
      BY <2>1
    <2> QED BY <1>1, <2>1, <2>2, <2>3
  <1> QED BY <1>2, <1>3

LEMMA EndKeeps ==
    ASSUME TraceCore, TraceStays, NEW call \in Calls, End(call)
    PROVE  TraceCore'
  <1> USE DEF TraceCore
  <1> DEFINE n == Len(truth)
             r == [call |-> call, start |-> outcome[call].start,
                   rc |-> TestCode(call), stable |-> outcome[call].stable]
             s == IF collected /\ RunsTest(call) THEN <<r>> ELSE << >>
             m == Len(receipts)
  <1>1. /\ callStage[call] = "running" /\ callStage' = [callStage EXCEPT ![call] = "ran"]
        /\ tool' = tool /\ told' = told /\ truth' = Append(truth, call)
        /\ awaited' = awaited /\ repeats' = repeats /\ valid' = valid /\ together' = together
        /\ harness' = harness /\ lifecycle' = lifecycle /\ collected' = collected
        /\ ended' = ended
    BY DEF End, TraceStays
  <1>2. /\ outcome' \in [Calls -> CallOutcome]
        /\ \A c \in Calls :
             /\ outcome'[c].start = outcome[c].start /\ outcome'[c].ran = outcome[c].ran
             /\ outcome'[c].rc = outcome[c].rc /\ outcome'[c].codes = outcome[c].codes
    BY OutcomesStand
  <1>3. /\ callStage' \in [Calls -> CallStages] /\ callStage'[call] = "ran"
        /\ \A c \in Calls : c # call => callStage'[c] = callStage[c]
        /\ IsFiniteSet({c \in Calls : callStage'[c] # "unused"})
        /\ Started \in Nat /\ Started' = Started
    BY <1>1, StageMoves DEF CallStages
  <1>4. /\ Began(call) /\ ~IsRun(call) /\ IsRun(call)'
        /\ \A c \in Calls : /\ Began(c)' <=> Began(c)
                            /\ c # call => (IsRun(c)' <=> IsRun(c))
    <2>1. Began(call)
      BY <1>1 DEF CallsAreRuns
    <2>2. \A c \in Calls : Began(c)' <=> Began(c)
      BY <1>2 DEF Began
    <2> QED BY <1>1, <1>3, <2>1, <2>2 DEF IsRun
  <1>5. \A c \in Calls : RunsTest(c)' = RunsTest(c) /\ TestCode(c)' = TestCode(c)
    BY <1>1, <1>2 DEF RunsTest, TestsRun, TestCode
  <1>6. /\ truth' \in Seq(Calls) /\ Len(truth') = n + 1 /\ n \in Nat
        /\ Distinct(truth') /\ Elements(truth') = Elements(truth) \cup {call}
        /\ truth'[n + 1] = call /\ \A i \in 1..n : truth'[i] = truth[i]
        /\ \A i \in 1..n : truth[i] \in Calls /\ truth[i] # call
    <2>1. truth \in Seq(Calls) /\ Distinct(truth) /\ Elements(truth) = {c \in Calls : IsRun(c)}
      BY DEF TraceTypes, CallsAreRuns
    <2>2. call \notin Elements(truth)
      BY <1>4, <2>1
    <2>3. \A i \in 1..n : truth[i] \in Calls /\ truth[i] # call
      BY <1>4, <2>1 DEF Elements
    <2> QED BY <1>1, <2>1, <2>2, <2>3, Pushed
  <1> HIDE DEF n
  <1>7. RunsTest(call) => r \in CallReceipt
    <2>1. outcome[call].start \in Nat /\ outcome[call].stable \in BOOLEAN
      BY DEF TraceTypes, CallOutcome
    <2>2. RunsTest(call) => TestCode(call) \in {0, 1}
      <3> DEFINE x == CHOOSE i \in TestsRun(call) : TRUE
      <3> SUFFICES ASSUME RunsTest(call) PROVE outcome[call].codes[x] \in {0, 1}
        BY DEF TestCode
      <3>1. x \in outcome[call].ran
        BY DEF RunsTest, TestsRun
      <3>2. /\ tool[call] \in Tools
            /\ [ran |-> outcome[call].ran, rc |-> outcome[call].rc,
                codes |-> outcome[call].codes] \in OutcomesOf(tool[call].command)
        BY <1>1, <1>4 DEF CallsAreRuns
      <3> DEFINE command == tool[call].command
      <3>3. DOMAIN command = 1..Len(command) /\ Len(command) \in Nat
        <4>1. CASE command = << >>
          BY <4>1
        <4>2. CASE command \in Commands
          <5> HIDE DEF command
          <5> QED BY <4>2, CommandIs
        <4> QED BY <3>2, <4>1, <4>2 DEF Tools
      <3> HIDE DEF command, x
      <3>4. PICK after \in [0..Len(command) -> {0, 1}] :
              /\ outcome[call].ran = {i \in DOMAIN command : RunsOf(command[i].op, after[i - 1])}
              /\ outcome[call].codes = after
        BY <3>2 DEF OutcomesOf, command
      <3> QED BY <3>1, <3>3, <3>4
    <2> QED BY <2>1, <2>2 DEF CallReceipt
  <1>8. r.call = call /\ r.start = outcome[call].start
    OBVIOUS
  <1> HIDE DEF r
  <1>9. receipts' = receipts \o s /\ receipts \in Seq(CallReceipt) /\ m \in Nat
    BY DEF End, TraceTypes, r
  <1>10. /\ s \in Seq(CallReceipt) /\ \A i \in 1..Len(s) : i = 1 /\ s[i] = r
         /\ collected /\ RunsTest(call) => Len(s) = 1
         /\ Len(s) = 1 => collected /\ RunsTest(call)
         /\ ~collected => s = << >>
         /\ Len(s) \in {0, 1}
    <2>1. CASE collected /\ RunsTest(call)
      <3>1. s = <<r>> /\ r \in CallReceipt
        BY <1>7, <2>1
      <3>2. <<r>> \in Seq(CallReceipt) /\ Len(<<r>>) = 1 /\ <<r>>[1] = r
            /\ \A i \in 1..Len(<<r>>) : i = 1
        BY <3>1, Alone
      <3> HIDE DEF s
      <3> QED BY <2>1, <3>1, <3>2
    <2>2. CASE ~(collected /\ RunsTest(call))
      <3>1. s = << >>
        BY <2>2
      <3> HIDE DEF s
      <3> QED BY <2>2, <3>1
    <2> QED BY <2>1, <2>2
  <1> HIDE DEF s
  <1>11. /\ receipts' \in Seq(CallReceipt) /\ Len(receipts') = m + Len(s)
         /\ \A i \in 1..Len(receipts') :
              \/ i \in 1..m /\ receipts'[i] = receipts[i]
              \/ i > m /\ i - m \in 1..Len(s) /\ receipts'[i] = s[i - m] /\ i \notin 1..m
    BY <1>9, <1>10, Extended
  <1>12. \A i \in 1..m : i \in 1..Len(receipts') /\ receipts'[i] = receipts[i]
    <2>1. \A i \in 1..m : i \in 1..Len(receipts')
      BY <1>9, <1>10, <1>11
    <2>2. \A i \in 1..m : ~(i > m)
      BY <1>9
    <2> QED BY <1>11, <2>1, <2>2
  <1>13. ASSUME NEW i \in 1..Len(receipts'), i \notin 1..m
         PROVE  i = m + 1 /\ receipts'[i] = r /\ collected /\ RunsTest(call)
    <2>1. i - m \in 1..Len(s) /\ receipts'[i] = s[i - m]
      BY <1>11, <1>13
    <2>2. i - m = 1 /\ Len(s) = 1 /\ s[i - m] = r
      BY <1>10, <2>1
    <2>3. i = m + 1
      BY <1>9, <2>2
    <2> QED BY <1>10, <2>1, <2>2, <2>3
  <1>14. collected /\ RunsTest(call) => m + 1 \in 1..Len(receipts') /\ receipts'[m + 1] = r
    <2> SUFFICES ASSUME collected /\ RunsTest(call)
                 PROVE  m + 1 \in 1..Len(receipts') /\ receipts'[m + 1] = r
      OBVIOUS
    <2>0. Len(s) = 1
      BY <1>10
    <2>1. m + 1 \in 1..Len(receipts')
      <3>1. Len(receipts') = m + 1
        BY <1>11, <2>0
      <3> QED BY ONLY <1>9, <3>1
    <2> QED BY <1>9, <1>13, <2>1
  <1>15. \A i \in 1..m : /\ receipts[i].call \in Calls /\ receipts[i].call # call
                         /\ ReceiptOfRun(receipts[i])
    BY <1>4, ReceiptsSay DEF ReceiptsAreOfRuns, ReceiptOfRun
  <1>16. m = Len(receipts)
    OBVIOUS
  <1> HIDE DEF m
  <1>17. TraceTypes'
    BY <1>1, <1>2, <1>3, <1>6, <1>11 DEF TraceTypes
  <1>18. CallsAreRuns'
    <2>1. Elements(truth') = {c \in Calls : IsRun(c)'}
      BY <1>4, <1>6 DEF CallsAreRuns
    <2> QED BY <1>1, <1>2, <1>3, <1>4, <1>6, <2>1 DEF CallsAreRuns
  <1>19. RunsFollow'
    <2> SUFFICES ASSUME ~together PROVE RunsFollow'
      BY <1>1 DEF RunsFollow
    <2>1. \A c \in Calls :
            callStage'[c] \in {"running", "ran"} <=> callStage[c] \in {"running", "ran"}
      BY <1>1, <1>3
    <2>2. \A c \in Calls : callStage'[c] = "ran" => c = call
      BY <1>1, <2>1 DEF RunsFollow
    <2>3. ASSUME NEW p \in 1..n + 1, NEW q \in 1..n + 1, p < q
          PROVE  outcome'[truth'[p]].start < outcome'[truth'[q]].start
      <3>1. p \in 1..n /\ truth'[p] = truth[p] /\ truth[p] \in Calls /\ truth[p] # call
        BY <1>6, <2>3
      <3>2. CASE q \in 1..n
        <4>1. truth'[q] = truth[q] /\ truth[q] \in Calls
          BY <1>6, <3>2
        <4>2. outcome[truth[p]].start < outcome[truth[q]].start
          BY <2>3, <3>1, <3>2 DEF RunsFollow, n
        <4> QED BY <1>2, <3>1, <4>1, <4>2
      <3>3. CASE q = n + 1
        <4>1. outcome[truth[p]].start < outcome[call].start
          BY <1>1, <3>1 DEF RunsFollow
        <4> QED BY <1>2, <1>6, <3>1, <3>3, <4>1
      <3> QED BY <1>6, <3>2, <3>3
    <2>4. \A c, d \in Calls : callStage'[c] \in {"running", "ran"} /\ c # d
            => outcome'[d].start < outcome'[c].start
      BY <1>2, <2>1 DEF RunsFollow
    <2>5. \A c, d \in Calls : callStage'[c] \in {"running", "ran"}
                              /\ callStage'[d] \in {"running", "ran"} => c = d
      BY <2>1 DEF RunsFollow
    <2> QED BY <1>1, <1>6, <2>2, <2>3, <2>4, <2>5 DEF RunsFollow
  <1>20. ReceiptsAreOfRuns'
    <2>1. \A i \in 1..Len(receipts') : \E x : x = receipts'[i] /\ ReceiptOfRun(x)'
      <3> TAKE i \in 1..Len(receipts')
      <3>1. PICK x : x = receipts'[i]
        OBVIOUS
      <3>2. CASE i \in 1..m
        <4>1. x = receipts[i] /\ x.call \in Calls /\ x.call # call /\ ReceiptOfRun(x)
          BY <1>12, <1>15, <3>1, <3>2
        <4>2. ReceiptOfRun(x)'
          BY <1>2, <1>4, <1>5, <4>1 DEF ReceiptOfRun
        <4> QED BY <3>1, <4>2
      <3>3. CASE i \notin 1..m
        <4>1. x = r /\ RunsTest(call)
          BY <1>13, <3>1, <3>3
        <4>2. x.call = call /\ x.start = outcome[call].start
          BY <1>8, <4>1
        <4>3. ReceiptOfRun(x)'
          BY <1>2, <1>4, <1>5, <4>1, <4>2 DEF ReceiptOfRun
        <4> QED BY <3>1, <4>3
      <3> QED BY <3>2, <3>3
    <2>2. (\A i \in 1..Len(receipts) : ReceiptOfRun(receipts[i]))'
      BY <2>1, ReceiptsCarry
    <2>3. \A i, j \in 1..Len(receipts') : receipts'[i].call = receipts'[j].call => i = j
      <3> SUFFICES ASSUME NEW i \in 1..Len(receipts'), NEW j \in 1..Len(receipts'),
                          receipts'[i].call = receipts'[j].call
                   PROVE i = j
        OBVIOUS
      <3>1. CASE i \in 1..m /\ j \in 1..m
        BY <1>12, <1>16, <3>1 DEF ReceiptsAreOfRuns
      <3>2. \A k \in 1..Len(receipts') : k \notin 1..m => receipts'[k].call = call /\ k = m + 1
        BY <1>8, <1>13
      <3>3. \A k \in 1..m : receipts'[k].call # call
        BY <1>12, <1>15
      <3> QED BY <3>1, <3>2, <3>3
    <2>4. ASSUME collected, NEW c \in Calls, IsRun(c)', RunsTest(c)'
          PROVE  \E i \in 1..Len(receipts') : receipts'[i].call = c
      <3>1. CASE c = call
        BY <1>5, <1>8, <1>14, <2>4, <3>1
      <3>2. CASE c # call
        <4>1. PICK i \in 1..m : receipts[i].call = c
          BY <1>4, <1>5, <1>16, <2>4, <3>2 DEF ReceiptsAreOfRuns
        <4> QED BY <1>12, <4>1
      <3> QED BY <3>1, <3>2
    <2>5. ~collected' => receipts' = << >>
      <3> SUFFICES ASSUME ~collected PROVE receipts' = << >>
        BY <1>1
      <3>1. receipts = << >> /\ s = << >>
        BY <1>10 DEF ReceiptsAreOfRuns
      <3> QED BY <1>9, <3>1
    <2> QED BY <1>1, <2>2, <2>3, <2>4, <2>5 DEF ReceiptsAreOfRuns
  <1>21. ToldIsOfCalls'
    <2>1. \A i \in 1..Len(told) : \E e : e = told[i] /\ ToldOfCall(e)'
      <3> TAKE i \in 1..Len(told)
      <3>1. PICK e : e = told[i]
        OBVIOUS
      <3>2. e.call \in Calls /\ ToldOfCall(e)
        BY <3>1, ReceiptsSay DEF ToldIsOfCalls
      <3>3. callStage[e.call] = "told" => callStage'[e.call] = "told"
        BY <1>1, <1>3, <3>2
      <3>4. e.kind = "test" => NativeOf(e)'
        BY <1>1, <1>5, <3>2 DEF NativeOf, ToldOfCall
      <3>5. ToldOfCall(e)'
        BY <1>1, <1>4, <3>2, <3>3, <3>4 DEF ToldOfCall, Timed, IsTest
      <3> QED BY <3>1, <3>5
    <2>2. (\A i \in 1..Len(told) : ToldOfCall(told[i]))'
      BY <1>1, <2>1, ToldCarries
    <2>3. \A i \in 1..Len(told) : outcome'[told[i].call].start = outcome[told[i].call].start
      BY <1>2, ReceiptsSay
    <2>4. ~together' => \A i, j \in 1..Len(told') :
            i < j /\ Timed(told'[i]) /\ Timed(told'[j]) =>
              outcome'[told'[i].call].start <= outcome'[told'[j].call].start
      BY <1>1, <2>3 DEF ToldIsOfCalls
    <2> QED BY <1>1, <2>2, <2>4 DEF ToldIsOfCalls, Alike, IsTest, Timed
  <1> QED BY <1>17, <1>18, <1>19, <1>20, <1>21

TellsOf(s, call) ==
    /\ \A k \in 1..Len(s) :
         /\ s[k].call = call
         /\ s[k].kind = "spawn tool" => harness = "claude"
         /\ s[k].kind = "spawn" => harness # "claude"
         /\ Timed(s[k]) => callStage[call] = "ran"
         /\ s[k].kind = "test" => NativeOf(s[k])
    /\ \A j, k \in 1..Len(s) : Alike(s[j], s[k]) => j = k

\* What a result tells of its call keeps the invariant.
LEMMA ToldKeeps ==
    ASSUME TraceCore, TraceStays, NEW call \in Calls, callStage[call] \in {"ran", "asked"},
           callStage' = [callStage EXCEPT ![call] = "told"], awaited' \subseteq Calls,
           UNCHANGED <<tool, outcome, receipts, truth, together, repeats, valid>>,
           NEW s \in Seq(TraceEvent), told' = told \o s, TellsOf(s, call)
    PROVE  TraceCore'
  <1> USE DEF TraceCore
  <1> DEFINE n == Len(told)
  <1>1. /\ tool' = tool /\ outcome' = outcome /\ receipts' = receipts /\ truth' = truth
        /\ together' = together /\ repeats' = repeats /\ valid' = valid
        /\ harness' = harness /\ lifecycle' = lifecycle /\ collected' = collected
        /\ ended' = ended
    BY DEF TraceStays
  <1>2. /\ callStage' \in [Calls -> CallStages] /\ callStage'[call] = "told"
        /\ \A c \in Calls : c # call => callStage'[c] = callStage[c]
        /\ IsFiniteSet({c \in Calls : callStage'[c] # "unused"})
        /\ Started \in Nat /\ Started' \in Nat
        /\ Started' = Started + 1 \/ Started' = Started
    BY StageMoves DEF CallStages
  <1>3. callStage[call] = "asked" => ~Began(call)
    BY DEF CallsAreRuns
  <1>4. callStage[call] = "ran" => IsRun(call)
    BY DEF CallsAreRuns, IsRun
  <1>5. \A c \in Calls : (Began(c)' <=> Began(c)) /\ (IsRun(c)' <=> IsRun(c))
    <2>1. \A c \in Calls : Began(c)' <=> Began(c)
      BY <1>1 DEF Began
    <2> QED BY <1>2, <1>3, <2>1 DEF IsRun
  <1>6. \A c \in Calls : RunsTest(c)' = RunsTest(c) /\ TestCode(c)' = TestCode(c)
    BY <1>1 DEF RunsTest, TestsRun, TestCode
  <1>7. /\ told' \in Seq(TraceEvent) /\ Len(told') = n + Len(s)
        /\ \A i \in 1..Len(told') :
             \/ i \in 1..n /\ told'[i] = told[i]
             \/ i > n /\ i - n \in 1..Len(s) /\ told'[i] = s[i - n] /\ i \notin 1..n
    <2>1. told \in Seq(TraceEvent)
      BY DEF TraceTypes
    <2>2. told' = told \o s /\ s \in Seq(TraceEvent) /\ n = Len(told)
      OBVIOUS
    <2> HIDE DEF n
    <2> QED BY ONLY <2>1, <2>2, Extended
  <1>8. /\ n \in Nat
        /\ \A i \in 1..n : told[i] \in TraceEvent /\ told[i].call \in Calls /\ ToldOfCall(told[i])
    BY ReceiptsSay DEF ToldIsOfCalls
  <1>9. n = Len(told)
    OBVIOUS
  <1> HIDE DEF n
  <1>10. TraceTypes'
    BY <1>1, <1>2, <1>7 DEF TraceTypes
  <1>11. CallsAreRuns'
    <2>1. {c \in Calls : IsRun(c)'} = {c \in Calls : IsRun(c)}
      BY <1>5
    <2>2. \A c \in Calls : outcome[c].start \in Nat
      BY ReceiptsSay
    <2>3. \A c \in Calls : Began(c) => outcome[c].start <= Started'
      <3> SUFFICES ASSUME NEW c \in Calls, Began(c) PROVE outcome[c].start <= Started'
        OBVIOUS
      <3>1. outcome[c].start <= Started /\ outcome[c].start \in Nat
        BY <2>2 DEF CallsAreRuns
      <3> QED BY ONLY <1>2, <3>1
    <2>4. \A c \in Calls : Began(c) => callStage'[c] \in {"running", "ran", "told"}
      BY <1>2 DEF CallsAreRuns
    <2>5. \A c \in Calls : callStage'[c] # "unused" => tool[c] \in Tools
      BY <1>2 DEF CallsAreRuns
    <2>6. \A c \in Calls : callStage'[c] \in {"running", "ran"} => Began(c)
      BY <1>2 DEF CallsAreRuns
    <2> QED BY <1>1, <1>5, <2>1, <2>3, <2>4, <2>5, <2>6 DEF CallsAreRuns
  <1>12. RunsFollow'
    <2>1. \A c \in Calls :
            /\ callStage'[c] \in {"running", "ran"} => callStage[c] \in {"running", "ran"}
            /\ callStage'[c] = "ran" => callStage[c] = "ran"
      BY <1>2
    <2> SUFFICES ASSUME ~together PROVE RunsFollow'
      BY <1>1 DEF RunsFollow
    <2>2. \A c, d \in Calls : callStage'[c] \in {"running", "ran"}
                              /\ callStage'[d] \in {"running", "ran"} => c = d
      BY <2>1 DEF RunsFollow
    <2>3. \A c, d \in Calls : callStage'[c] \in {"running", "ran"} /\ c # d
            => outcome[d].start < outcome[c].start
      BY <2>1 DEF RunsFollow
    <2> QED BY <1>1, <2>1, <2>2, <2>3 DEF RunsFollow
  <1>13. ReceiptsAreOfRuns'
    <2>1. \A m \in 1..Len(receipts) : \E r : r = receipts[m] /\ ReceiptOfRun(r)'
      <3> TAKE m \in 1..Len(receipts)
      <3>1. PICK r : r = receipts[m]
        OBVIOUS
      <3>2. r.call \in Calls /\ ReceiptOfRun(r)
        BY <3>1, ReceiptsSay DEF ReceiptsAreOfRuns
      <3>3. ReceiptOfRun(r)'
        BY <1>1, <1>5, <1>6, <3>2 DEF ReceiptOfRun
      <3> QED BY <3>1, <3>3
    <2>2. (\A m \in 1..Len(receipts) : ReceiptOfRun(receipts[m]))'
      BY <1>1, <2>1, ReceiptsCarry
    <2> QED BY <1>1, <1>5, <1>6, <2>2 DEF ReceiptsAreOfRuns
  <1>14. ToldIsOfCalls'
    <2>1. \A i \in 1..Len(told') : \E e : e = told'[i] /\ ToldOfCall(e)'
      <3> TAKE i \in 1..Len(told')
      <3>0. PICK e : e = told'[i]
        OBVIOUS
      <3>1. CASE i \in 1..n /\ told'[i] = told[i]
        <4>1. e.call \in Calls /\ ToldOfCall(e)
          BY <1>8, <3>0, <3>1
        <4>2. e.kind = "test" => NativeOf(e)'
          BY <1>1, <1>6, <4>1 DEF NativeOf, ToldOfCall
        <4>3. callStage[e.call] = "told" => callStage'[e.call] = "told"
          BY <1>2, <4>1
        <4>4. ToldOfCall(e)'
          BY <1>1, <1>5, <4>1, <4>2, <4>3 DEF ToldOfCall, Timed, IsTest
        <4> QED BY <3>0, <4>4
      <3>2. CASE i > n /\ i - n \in 1..Len(s) /\ told'[i] = s[i - n]
        <4>1. /\ e.call = call
              /\ e.kind = "spawn tool" => harness = "claude"
              /\ e.kind = "spawn" => harness # "claude"
              /\ Timed(e) => callStage[call] = "ran"
              /\ e.kind = "test" => NativeOf(e)
          BY <3>0, <3>2 DEF TellsOf
        <4>2. e.kind = "test" => NativeOf(e)'
          BY <1>1, <1>6, <4>1 DEF NativeOf
        <4>3. Timed(e) => IsRun(call)'
          BY <1>4, <1>5, <4>1
        <4>4. e.kind = "spawn" => ~lifecycle
          BY <4>1 DEF CallsAreRuns
        <4>5. ToldOfCall(e)'
          BY <1>1, <1>2, <4>1, <4>2, <4>3, <4>4 DEF ToldOfCall, Timed, IsTest
        <4> QED BY <3>0, <4>5
      <3> QED BY <1>7, <3>1, <3>2
    <2>2. (\A i \in 1..Len(told) : ToldOfCall(told[i]))'
      BY <2>1, ToldCarries
    <2>3. ASSUME NEW i \in 1..n, told[i].call = call
          PROVE  told[i].kind = "spawn" /\ lifecycle
      BY <1>8, <2>3 DEF ToldOfCall
    <2>4. \A i, j \in 1..Len(told') : Alike(told'[i], told'[j]) => i = j
      <3> SUFFICES ASSUME NEW i \in 1..Len(told'), NEW j \in 1..Len(told'),
                          Alike(told'[i], told'[j])
                   PROVE i = j
        OBVIOUS
      <3>1. CASE i \in 1..n /\ told'[i] = told[i] /\ j \in 1..n /\ told'[j] = told[j]
        BY <1>9, <3>1 DEF ToldIsOfCalls
      <3>2. ASSUME NEW k \in 1..n, NEW l \in 1..Len(s)
            PROVE  ~Alike(told[k], s[l]) /\ ~Alike(s[l], told[k])
        <4> SUFFICES ASSUME Alike(told[k], s[l]) \/ Alike(s[l], told[k]) PROVE FALSE
          OBVIOUS
        <4>1. told[k].call = call
          BY DEF Alike, TellsOf
        <4>2. told[k].kind = "spawn" /\ lifecycle
          BY <2>3, <4>1
        <4>3. s[l].kind = "spawn"
          BY <4>2 DEF Alike, IsTest
        <4> QED BY <4>2, <4>3 DEF CallsAreRuns, TellsOf
      <3>3. CASE i > n /\ i - n \in 1..Len(s) /\ told'[i] = s[i - n]
                 /\ j > n /\ j - n \in 1..Len(s) /\ told'[j] = s[j - n]
        <4>1. i - n = j - n
          BY <3>3 DEF TellsOf
        <4>2. i \in Nat /\ j \in Nat
          OBVIOUS
        <4> QED BY ONLY <1>8, <4>1, <4>2
      <3> QED BY <1>7, <3>1, <3>2, <3>3
    <2>5. ~together => \A i, j \in 1..Len(told') :
            i < j /\ Timed(told'[i]) /\ Timed(told'[j]) =>
              outcome[told'[i].call].start <= outcome[told'[j].call].start
      <3> SUFFICES ASSUME ~together, NEW i \in 1..Len(told'), NEW j \in 1..Len(told'),
                          i < j, Timed(told'[i]), Timed(told'[j])
                   PROVE outcome[told'[i].call].start <= outcome[told'[j].call].start
        OBVIOUS
      <3>0. \A c \in Calls : outcome[c].start \in Nat
        BY ReceiptsSay
      <3>1. CASE i \in 1..n /\ told'[i] = told[i] /\ j \in 1..n /\ told'[j] = told[j]
        BY <1>9, <3>1 DEF ToldIsOfCalls
      <3>2. CASE i \in 1..n /\ told'[i] = told[i]
                 /\ j > n /\ j - n \in 1..Len(s) /\ told'[j] = s[j - n]
        <4>1. told'[j].call = call /\ callStage[call] = "ran"
          BY <3>2 DEF TellsOf
        <4>2. told[i].call \in Calls /\ told[i].call # call
          BY <1>8, <2>3, <3>2 DEF Timed, IsTest
        <4>3. outcome[told[i].call].start < outcome[call].start
          BY <4>1, <4>2 DEF RunsFollow
        <4>4. outcome[told'[i].call].start < outcome[told'[j].call].start
          BY <3>2, <4>1, <4>3
        <4>5. told'[i].call \in Calls /\ told'[j].call \in Calls
          BY <3>2, <4>1, <4>2
        <4>6. outcome[told'[i].call].start \in Nat /\ outcome[told'[j].call].start \in Nat
          BY <3>0, <4>5
        <4> QED BY ONLY <4>4, <4>6
      <3>3. CASE i > n /\ i - n \in 1..Len(s) /\ told'[i] = s[i - n]
                 /\ j > n /\ j - n \in 1..Len(s) /\ told'[j] = s[j - n]
        <4>1. told'[j].call = call /\ told'[i].call = call
          BY <3>3 DEF TellsOf
        <4>2. outcome[told'[i].call] = outcome[call] /\ outcome[told'[j].call] = outcome[call]
          BY <4>1
        <4>3. PICK x \in Nat : x = outcome[call].start
          BY <3>0
        <4>4. outcome[told'[i].call].start = x /\ outcome[told'[j].call].start = x /\ x <= x
          BY <4>2, <4>3
        <4> QED BY <4>4
      <3>4. ~(i > n /\ j \in 1..n)
        <4>1. i \in Nat /\ j \in Nat /\ i < j
          OBVIOUS
        <4> QED BY ONLY <1>8, <4>1
      <3> QED BY <1>7, <3>1, <3>2, <3>3, <3>4
    <2>6. ~together' => \A i, j \in 1..Len(told') :
            i < j /\ Timed(told'[i]) /\ Timed(told'[j]) =>
              outcome'[told'[i].call].start <= outcome'[told'[j].call].start
      BY <1>1, <2>5
    <2> QED BY <2>2, <2>4, <2>6 DEF ToldIsOfCalls, Alike, IsTest, Timed
  <1> QED BY <1>10, <1>11, <1>12, <1>13, <1>14

\* The code of an outcome is that of its test, where an event of the test's own shows it.
LEMMA NativeIs ==
    ASSUME TraceCore, NEW call \in Calls, Began(call), tool[call].command \in Commands,
           ShowsItsTest(tool[call].command), NEW e, e.call = call, e.rc = outcome[call].rc
    PROVE  NativeOf(e)
  <1> DEFINE command == tool[call].command
             o == [ran |-> outcome[call].ran, rc |-> outcome[call].rc,
                   codes |-> outcome[call].codes]
  <1>1. o \in OutcomesOf(command) /\ command \in Commands /\ ShowsItsTest(command)
    BY DEF TraceCore, CallsAreRuns
  <1>2. o.ran = outcome[call].ran /\ o.rc = outcome[call].rc /\ o.codes = outcome[call].codes
    OBVIOUS
  <1> HIDE DEF o, command
  <1>3. \/ \E k \in o.ran : /\ {i \in o.ran : command[i].does \in TestingSegments} = {k}
                            /\ o.rc = o.codes[k]
        \/ o.rc = 0 /\ \E k \in DOMAIN command : command[k].does = "reused"
    BY <1>1, ItsTestIsNative
  <1>4. TestsRun(call) = {i \in o.ran : command[i].does \in TestingSegments}
    BY <1>2 DEF TestsRun, command
  <1>5. ASSUME NEW k \in o.ran, TestsRun(call) = {k}, o.rc = o.codes[k]
        PROVE  NativeOf(e)
    <2>1. (CHOOSE i \in TestsRun(call) : TRUE) = k
      BY <1>5
    <2>2. TestCode(call) = o.rc /\ RunsTest(call)
      BY <1>2, <1>5, <2>1 DEF TestCode, RunsTest
    <2> QED BY <1>2, <2>2 DEF NativeOf
  <1>6. CASE o.rc = 0 /\ \E k \in DOMAIN command : command[k].does = "reused"
    BY <1>2, <1>6 DEF NativeOf, command
  <1> QED BY <1>3, <1>4, <1>5, <1>6

LEMMA TellKeeps ==
    ASSUME TraceCore, TraceStays, NEW call \in Calls, Tell(call)
    PROVE  TraceCore'
  <1> DEFINE rc == outcome[call].rc
  <1>1. /\ callStage[call] = "ran" /\ callStage' = [callStage EXCEPT ![call] = "told"]
        /\ UNCHANGED <<tool, outcome, receipts, truth, together, repeats, valid>>
        /\ awaited' = awaited \ {call}
    BY DEF Tell
  <1>2. awaited' \subseteq Calls /\ told \in Seq(TraceEvent)
    BY <1>1 DEF TraceCore, TraceTypes
  <1>3. CASE told' = told
    <2> DEFINE s == << >>
    <2>1. s \in Seq(TraceEvent) /\ Len(s) = 0 /\ told' = told \o s
      BY <1>2, <1>3
    <2> HIDE DEF s
    <2>2. PICK t \in Seq(TraceEvent) : Len(t) = 0 /\ told' = told \o t
      BY <2>1
    <2>3. TellsOf(t, call)
      BY <2>2 DEF TellsOf
    <2> QED BY <1>1, <1>2, <2>2, <2>3, ToldKeeps
  <1>4. CASE told' = told \o ToolEvents(call, rc)
    <2>1. PICK s : s = ToolEvents(call, rc)
      OBVIOUS
    <2>2. tool[call] \in Tools /\ Began(call)
      BY <1>1 DEF TraceCore, CallsAreRuns
    <2>3. rc \in {0, 1}
      <3>1. outcome[call] \in CallOutcome
        BY DEF TraceCore, TraceTypes
      <3> QED BY <3>1 DEF CallOutcome
    <2>9. PICK code \in {0, 1} : code = rc
      BY <2>3
    <2> HIDE DEF rc
    <2>4. /\ s \in Seq(TraceEvent)
          /\ \A i \in 1..Len(s) :
               /\ s[i].call = call /\ s[i].rc = rc
               /\ s[i].kind = "spawn tool" => harness = "claude"
               /\ s[i].kind = "spawn" => harness # "claude"
               /\ s[i].kind = "test" =>
                    tool[call].command \in Commands /\ ShowsItsTest(tool[call].command)
          /\ \A i, j \in 1..Len(s) : Alike(s[i], s[j]) => i = j
      <3> DEFINE u == ToolEvents(call, code)
      <3>1. /\ u \in Seq(TraceEvent)
            /\ \A i \in 1..Len(u) :
                 /\ u[i].call = call /\ u[i].rc = code
                 /\ u[i].kind = "spawn tool" => harness = "claude"
                 /\ u[i].kind = "spawn" => harness # "claude"
                 /\ u[i].kind = "test" =>
                      tool[call].command \in Commands /\ ShowsItsTest(tool[call].command)
            /\ \A i, j \in 1..Len(u) : Alike(u[i], u[j]) => i = j
        <4>1. call \in Calls /\ code \in {0, 1} /\ tool[call] \in Tools
          BY <2>2
        <4> QED BY ONLY <4>1, ToolEventsAre
      <3>2. s = u /\ rc = code
        BY <2>1, <2>9
      <3> HIDE DEF u
      <3> QED BY <3>1, <3>2
    <2>5. \A i \in 1..Len(s) : s[i].kind = "test" => NativeOf(s[i])
      <3> TAKE i \in 1..Len(s)
      <3> HAVE s[i].kind = "test"
      <3> QED BY <2>2, <2>4, NativeIs DEF rc
    <2>6. TellsOf(s, call)
      BY <1>1, <2>4, <2>5 DEF TellsOf
    <2> QED BY <1>1, <1>2, <1>4, <2>1, <2>4, <2>6, ToldKeeps
  <1> QED BY <1>3, <1>4 DEF Tell

LEMMA DeclineKeeps ==
    ASSUME TraceCore, TraceStays, NEW call \in Calls, Decline(call)
    PROVE  TraceCore'
  <1>1. /\ callStage[call] = "asked" /\ callStage' = [callStage EXCEPT ![call] = "told"]
        /\ UNCHANGED <<tool, outcome, receipts, truth, together, awaited, repeats, valid>>
        /\ told' = told \o AttemptEvents(call, tool[call].command)
        /\ tool[call].kind = "command"
    BY DEF Decline
  <1>2. awaited' \subseteq Calls /\ tool[call].command \in Commands
    BY <1>1 DEF TraceCore, TraceTypes, CallsAreRuns, Tools
  <1>3. PICK s : s = AttemptEvents(call, tool[call].command)
    OBVIOUS
  <1>4. /\ s \in Seq(TraceEvent)
        /\ \A i \in 1..Len(s) : s[i].call = call /\ s[i].kind = "commit"
    BY <1>2, <1>3, AttemptEventsAre
  <1>5. \A k \in 1..Len(s) :
          /\ s[k].call = call
          /\ s[k].kind = "spawn tool" => harness = "claude"
          /\ s[k].kind = "spawn" => harness # "claude"
          /\ Timed(s[k]) => callStage[call] = "ran"
          /\ s[k].kind = "test" => NativeOf(s[k])
    BY <1>4 DEF Timed, IsTest
  <1>6. TellsOf(s, call)
    BY <1>4, <1>5 DEF TellsOf, Alike, IsTest
  <1> QED BY <1>1, <1>2, <1>3, <1>4, <1>6, ToldKeeps

LEMMA StandKeeps ==
    ASSUME TraceCore, repeats' \in 0..MaxRepeats, valid' \in BOOLEAN, ended' \in BOOLEAN,
           UNCHANGED <<harness, lifecycle, collected, tool, callStage, outcome, receipts, truth,
                       together, awaited, told>>
    PROVE  TraceCore'
  <1>1. /\ tool' = tool /\ outcome' = outcome /\ receipts' = receipts /\ truth' = truth
        /\ together' = together /\ callStage' = callStage /\ awaited' = awaited /\ told' = told
        /\ harness' = harness /\ lifecycle' = lifecycle /\ collected' = collected
    OBVIOUS
  <1>2. TraceTypes'
    BY <1>1 DEF TraceCore, TraceTypes
  <1>3. CallsAreRuns'
    BY <1>1 DEF TraceCore, CallsAreRuns, Began, IsRun, Started
  <1>4. RunsFollow'
    BY <1>1 DEF TraceCore, RunsFollow
  <1>5. ReceiptsAreOfRuns'
    BY <1>1 DEF TraceCore, ReceiptsAreOfRuns, ReceiptOfRun, IsRun, Began, RunsTest, TestsRun
  <1>6. ToldIsOfCalls'
    <2>1. \A i \in 1..Len(told) : \E e : e = told[i] /\ ToldOfCall(e)'
      <3> TAKE i \in 1..Len(told)
      <3>1. PICK e : e = told[i]
        OBVIOUS
      <3>2. ToldOfCall(e)
        BY <3>1 DEF TraceCore, ToldIsOfCalls
      <3>3. e.kind = "test" => NativeOf(e)'
        <4>1. RunsTest(e.call)' = RunsTest(e.call)
          BY <1>1 DEF RunsTest, TestsRun
        <4>2. TestCode(e.call)' = TestCode(e.call)
          <5>1. TestsRun(e.call)' = TestsRun(e.call)
            BY <1>1 DEF TestsRun
          <5> QED BY <1>1, <5>1 DEF TestCode
        <4> QED BY <1>1, <3>2, <4>1, <4>2 DEF NativeOf, ToldOfCall
      <3>4. ToldOfCall(e)'
        <4>1. Began(e.call)' <=> Began(e.call)
          BY <1>1 DEF Began
        <4>2. IsRun(e.call)' <=> IsRun(e.call)
          BY <1>1, <4>1 DEF IsRun
        <4>3. Timed(e) => IsRun(e.call)'
          BY <3>2, <4>2 DEF ToldOfCall
        <4>4. lifecycle' = lifecycle /\ harness' = harness /\ callStage' = callStage
              /\ lifecycle \in BOOLEAN
          BY <1>1 DEF TraceCore, TraceTypes
        <4>5. Timed(e)' <=> Timed(e)
          BY DEF Timed, IsTest
        <4>6. e.kind = "spawn tool" => harness' = "claude"
          BY <3>2, <4>4 DEF ToldOfCall
        <4>7. e.kind = "spawn" => lifecycle' \/ harness' # "claude"
          BY <3>2, <4>4 DEF ToldOfCall
        <4>8. e.kind = "spawn" /\ lifecycle' => Began(e.call)'
          BY <3>2, <4>1, <4>4 DEF ToldOfCall
        <4>9. e.kind # "spawn" \/ ~lifecycle' => callStage'[e.call] = "told"
          <5>1. e.kind # "spawn" \/ ~lifecycle => callStage[e.call] = "told"
            BY <3>2 DEF ToldOfCall
          <5>2. callStage'[e.call] = callStage[e.call]
            BY <4>4
          <5>3. lifecycle' = lifecycle
            BY <4>4
          <5> QED BY <5>1, <5>2, <5>3
        <4> QED BY <3>3, <4>3, <4>5, <4>6, <4>7, <4>8, <4>9 DEF ToldOfCall
      <3> QED BY <3>1, <3>4
    <2>2. (\A i \in 1..Len(told) : ToldOfCall(told[i]))'
      BY <1>1, <2>1, ToldCarries
    <2>3. \A i, j \in 1..Len(told') : Alike(told'[i], told'[j]) => i = j
      BY <1>1 DEF TraceCore, ToldIsOfCalls
    <2>4. ~together' => \A i, j \in 1..Len(told') :
            i < j /\ Timed(told'[i]) /\ Timed(told'[j]) =>
              outcome'[told'[i].call].start <= outcome'[told'[j].call].start
      BY <1>1 DEF TraceCore, ToldIsOfCalls
    <2> QED BY <2>2, <2>3, <2>4 DEF ToldIsOfCalls, Alike, IsTest, Timed
  <1> QED BY <1>2, <1>3, <1>4, <1>5, <1>6 DEF TraceCore

LEMMA NormalizedStays ==
    ASSUME UNCHANGED <<harness, receipts, told>>
    PROVE  Normalized' = Normalized
  <1>1. harness' = harness /\ receipts' = receipts /\ told' = told
    OBVIOUS
  <1>2. ASSUME NEW k PROVE Ordered(k)' = Ordered(k)
    <2>1. \A r : Cardinality({s \in ToSet(receipts') : s.start <= r.start})
                = Cardinality({s \in ToSet(receipts) : s.start <= r.start})
      BY <1>1
    <2> QED BY <1>1, <2>1 DEF Ordered
  <1>3. ASSUME NEW list PROVE Following(list)' = Following(list)
    BY <1>1 DEF Following
  <1>4. ASSUME NEW list PROVE Bind(list)' = Bind(list)
    BY <1>1, <1>2, <1>3 DEF Bind
  <1>5. PICK list : list = IF harness = "claude" THEN ReconcileSpawns(told) ELSE told
    OBVIOUS
  <1>6. Normalized = PromoteReads(Bind(list))
    BY <1>5 DEF Normalized
  <1>7. Normalized' = PromoteReads(Bind(list)')
    BY <1>1, <1>5 DEF Normalized
  <1> QED BY <1>4, <1>6, <1>7

LEMMA RepeatResultKeeps ==
    ASSUME TraceCore, TraceStays, NEW call \in Calls, RepeatResult(call)
    PROVE  TraceCore'
  <1>1. /\ repeats < MaxRepeats /\ repeats' = repeats + 1 /\ valid' = FALSE
        /\ UNCHANGED <<tool, callStage, outcome, receipts, truth, together, awaited, told>>
    BY DEF RepeatResult
  <1>2. repeats' \in 0..MaxRepeats
    BY <1>1, TraceConstants DEF TraceCore, TraceTypes
  <1>3. valid' \in BOOLEAN
    BY <1>1, Zenon
  <1> QED BY <1>1, <1>2, <1>3, StandKeeps DEF TraceStays, TraceCore, TraceTypes

LEMMA InitTraceInv == ASSUME TraceInit PROVE TraceInv
  BY InitTraceCore DEF TraceInv

LEMMA NextTraceInv == ASSUME TraceInv, [TraceNext]_traceVars PROVE TraceInv'
  <1>1. CASE UNCHANGED traceVars
    <2>1. /\ harness' = harness /\ lifecycle' = lifecycle /\ collected' = collected
          /\ tool' = tool /\ callStage' = callStage /\ outcome' = outcome
          /\ receipts' = receipts /\ truth' = truth /\ together' = together
          /\ awaited' = awaited /\ told' = told /\ repeats' = repeats /\ valid' = valid
          /\ ended' = ended /\ evidence' = evidence
      BY <1>1 DEF traceVars
    <2>2. TraceCore'
      BY <2>1, StandKeeps DEF TraceInv, TraceCore, TraceTypes
    <2>3. Normalized' = Normalized
      BY <2>1, NormalizedStays
    <2> QED BY <2>1, <2>2, <2>3 DEF TraceInv
  <1>2. CASE EndTrace /\ UNCHANGED <<harness, lifecycle, collected>>
    <2>1. /\ harness' = harness /\ lifecycle' = lifecycle /\ collected' = collected
          /\ tool' = tool /\ callStage' = callStage /\ outcome' = outcome
          /\ receipts' = receipts /\ truth' = truth /\ together' = together
          /\ awaited' = awaited /\ told' = told /\ repeats' = repeats /\ valid' = valid
          /\ ended' = TRUE /\ evidence' = Normalized
      BY <1>2 DEF EndTrace
    <2>2. TraceCore'
      BY <2>1, StandKeeps DEF TraceInv, TraceCore, TraceTypes
    <2>3. Normalized' = Normalized
      BY <2>1, NormalizedStays
    <2> QED BY <2>1, <2>2, <2>3 DEF TraceInv
  <1>3. ASSUME NEW call \in Calls, TraceStays, ~ended,
               \/ Ask(call) \/ CallBegins(call) \/ End(call)
               \/ Tell(call) \/ Decline(call) \/ RepeatResult(call)
        PROVE  TraceInv'
    <2>1. TraceCore'
      BY <1>3, AskKeeps, CallBeginsKeeps, EndKeeps, TellKeeps, DeclineKeeps, RepeatResultKeeps
         DEF TraceInv
    <2> QED BY <1>3, <2>1 DEF TraceInv, TraceStays
  <1> QED BY <1>1, <1>2, <1>3 DEF TraceNext, TraceStays

\* A list of events that are of runs and tell of each call once; and in the order they began.
Honest(list) ==
    /\ list \in Seq(TraceEvent)
    /\ \A i \in 1..Len(list) : /\ list[i].kind # "spawn tool"
                               /\ Timed(list[i]) => IsRun(list[i].call)
    /\ \A i, j \in 1..Len(list) : Alike(list[i], list[j]) => i = j

InTime(list) ==
    \A i, j \in 1..Len(list) :
      i < j /\ Timed(list[i]) /\ Timed(list[j]) =>
        outcome[list[i].call].start <= outcome[list[j].call].start

\* What a selection has, by its places.
PlacedIn(place, out, list, chosen) ==
    /\ \A k \in 1..Len(out) : /\ place[k] \in chosen /\ place[k] \in 1..Len(list)
                              /\ out[k] = list[place[k]]
    /\ \A j, k \in 1..Len(out) : /\ j < k => place[j] < place[k]
                                 /\ place[j] = place[k] => j = k

Selects(out, list, chosen) ==
    /\ \A i \in chosen : \E k \in 1..Len(out) : out[k] = list[i]
    /\ \E place : PlacedIn(place, out, list, chosen)

LEMMA SelectionSays ==
    ASSUME NEW T, NEW list \in Seq(T), NEW chosen, chosen \subseteq 1..Len(list)
    PROVE  Picked(list, chosen) \in Seq(T) /\ Selects(Picked(list, chosen), list, chosen)
  <1> DEFINE out == Picked(list, chosen)
  <1>1. chosen \subseteq DOMAIN list /\ 1..Len(list) \subseteq Nat
    OBVIOUS
  <1>2. out \in Seq(T) /\ \E place : Selection(out, list, chosen, place)
    BY <1>1, PickedSelects
  <1> HIDE DEF out
  <1>3. PICK place : Selection(out, list, chosen, place)
    BY <1>2
  <1>4. \A k \in 1..Len(out) : /\ place[k] \in chosen /\ place[k] \in 1..Len(list)
                               /\ out[k] = list[place[k]]
    BY <1>3 DEF Selection
  <1>5. \A j, k \in 1..Len(out) : j < k => place[j] < place[k]
    BY <1>3 DEF Selection
  <1>6. \A j, k \in 1..Len(out) : place[j] = place[k] => j = k
    <2> SUFFICES ASSUME NEW j \in 1..Len(out), NEW k \in 1..Len(out), place[j] = place[k], j # k
                 PROVE  FALSE
      OBVIOUS
    <2>1. j < k \/ k < j
      OBVIOUS
    <2>2. place[j] \in Nat /\ place[k] \in Nat
      BY <1>1, <1>4
    <2>3. place[j] < place[k] \/ place[k] < place[j]
      BY <1>5, <2>1
    <2> QED BY <2>2, <2>3
  <1>7. \A i \in chosen : \E k \in 1..Len(out) : out[k] = list[i]
    BY <1>3 DEF Selection
  <1>8. PlacedIn(place, out, list, chosen)
    BY <1>4, <1>5, <1>6 DEF PlacedIn
  <1>9. Selects(out, list, chosen)
    BY <1>7, <1>8 DEF Selects
  <1> QED BY <1>2, <1>9 DEF out

HonestlyPicked(out, list, chosen) ==
    /\ Honest(out) /\ (InTime(list) => InTime(out))
    /\ \A i \in chosen : \E k \in 1..Len(out) : out[k] = list[i]
    /\ \A k \in 1..Len(out) : \E i \in chosen : out[k] = list[i]

LEMMA PickedIsHonest ==
    ASSUME NEW list, Honest(list), NEW chosen, chosen \subseteq 1..Len(list)
    PROVE  HonestlyPicked(Picked(list, chosen), list, chosen)
  <1> DEFINE out == Picked(list, chosen)
  <1>1. list \in Seq(TraceEvent)
    BY DEF Honest
  <1>2. out \in Seq(TraceEvent) /\ Selects(out, list, chosen)
    BY <1>1, SelectionSays
  <1> HIDE DEF out
  <1>a. \A i \in chosen : \E k \in 1..Len(out) : out[k] = list[i]
    BY <1>2 DEF Selects
  <1>b. PICK place : PlacedIn(place, out, list, chosen)
    BY <1>2 DEF Selects
  <1>3. /\ \A k \in 1..Len(out) : /\ place[k] \in chosen /\ place[k] \in 1..Len(list)
                                  /\ out[k] = list[place[k]]
        /\ \A j, k \in 1..Len(out) : /\ j < k => place[j] < place[k]
                                     /\ place[j] = place[k] => j = k
    BY <1>b DEF PlacedIn
  <1>4. Honest(out)
    <2>1. \A k \in 1..Len(out) : /\ out[k].kind # "spawn tool"
                                 /\ Timed(out[k]) => IsRun(out[k].call)
      <3> TAKE k \in 1..Len(out)
      <3>1. PICK i \in 1..Len(list) : out[k] = list[i]
        BY <1>3
      <3> QED BY <3>1 DEF Honest
    <2>2. \A j, k \in 1..Len(out) : Alike(out[j], out[k]) => j = k
      <3> SUFFICES ASSUME NEW j \in 1..Len(out), NEW k \in 1..Len(out), Alike(out[j], out[k])
                   PROVE  place[j] = place[k]
        BY <1>3
      <3>1. Alike(list[place[j]], list[place[k]])
        BY <1>3
      <3> QED BY <1>3, <3>1 DEF Honest
    <2> QED BY <1>2, <2>1, <2>2 DEF Honest
  <1>5. InTime(list) => InTime(out)
    BY <1>3 DEF InTime
  <1>6. \A k \in 1..Len(out) : \E i \in chosen : out[k] = list[i]
    BY <1>3
  <1> QED BY <1>a, <1>4, <1>5, <1>6 DEF out, HonestlyPicked

\* The trace's own events, when spawns that both sources tell of are one.
Reconciled == IF harness = "claude" THEN ReconcileSpawns(told) ELSE told

LEMMA ToldIsHonest ==
    ASSUME TraceCore, \A i \in 1..Len(told) : told[i].kind # "spawn tool"
    PROVE  Honest(told)
  <1>1. told \in Seq(TraceEvent)
    BY DEF TraceCore, TraceTypes
  <1>2. \A i \in 1..Len(told) : Timed(told[i]) => IsRun(told[i].call)
    BY DEF TraceCore, ToldIsOfCalls, ToldOfCall
  <1> QED BY <1>1, <1>2 DEF Honest, TraceCore, ToldIsOfCalls

\* Reconciling leaves the tests as they were.
LEMMA ReconciledIs ==
    ASSUME TraceCore
    PROVE  /\ Honest(Reconciled)
           /\ ~together => InTime(Reconciled)
           /\ \A i \in 1..Len(told) : IsTest(told[i]) =>
                \E k \in 1..Len(Reconciled) : Reconciled[k] = told[i]
           /\ \A k \in 1..Len(Reconciled) : IsTest(Reconciled[k]) =>
                \E i \in 1..Len(told) : Reconciled[k] = told[i]
  <1> DEFINE list == Reconciled
  <1>1. told \in Seq(TraceEvent) /\ DOMAIN told = 1..Len(told) /\ Len(told) \in Nat
    BY DEF TraceCore, TraceTypes
  <1>2. ~together => InTime(told)
    BY DEF TraceCore, ToldIsOfCalls, InTime
  <1>3. CASE harness # "claude"
    <2>1. list = told
      BY <1>3 DEF Reconciled
    <2>2. \A i \in 1..Len(told) : told[i].kind # "spawn tool"
      BY <1>3 DEF TraceCore, ToldIsOfCalls, ToldOfCall
    <2>3. Honest(told)
      BY <2>2, ToldIsHonest
    <2> HIDE DEF list
    <2>4. Honest(list) /\ (~together => InTime(list))
      BY <1>2, <2>1, <2>3
    <2> QED BY <2>1, <2>4 DEF list
  <1>4. CASE harness = "claude" /\ \E i \in DOMAIN told : told[i].kind = "spawn"
    <2> DEFINE chosen == {i \in DOMAIN told : told[i].kind # "spawn tool"}
    <2>1. list = Picked(told, chosen) /\ chosen \subseteq 1..Len(told)
      BY <1>1, <1>4 DEF Reconciled, ReconcileSpawns
    <2>a. \A i \in 1..Len(told) : IsTest(told[i]) => i \in chosen
      BY <1>1 DEF IsTest
    <2>b. \A i \in chosen : i \in 1..Len(told) /\ told[i].kind # "spawn tool"
      BY <1>1
    <2> HIDE DEF list, chosen
    <2>c. list \in Seq(TraceEvent) /\ Selects(list, told, chosen)
      BY <1>1, <2>1, SelectionSays
    <2>2. list \in Seq(TraceEvent) /\ \A i \in chosen : \E k \in 1..Len(list) : list[k] = told[i]
      BY <2>c DEF Selects
    <2>d. PICK place : PlacedIn(place, list, told, chosen)
      BY <2>c DEF Selects
    <2>3. /\ \A k \in 1..Len(list) : /\ place[k] \in chosen /\ place[k] \in 1..Len(told)
                                     /\ list[k] = told[place[k]]
          /\ \A j, k \in 1..Len(list) : /\ j < k => place[j] < place[k]
                                        /\ place[j] = place[k] => j = k
      BY <2>d DEF PlacedIn
    <2>4. Honest(list)
      <3>1. \A k \in 1..Len(list) : /\ list[k].kind # "spawn tool"
                                    /\ Timed(list[k]) => IsRun(list[k].call)
        <4> TAKE k \in 1..Len(list)
        <4>1. PICK i \in chosen : list[k] = told[i]
          BY <2>3
        <4> QED BY <2>b, <4>1 DEF TraceCore, ToldIsOfCalls, ToldOfCall
      <3>2. \A j, k \in 1..Len(list) : Alike(list[j], list[k]) => j = k
        BY <2>3 DEF TraceCore, ToldIsOfCalls
      <3> QED BY <2>2, <3>1, <3>2 DEF Honest
    <2>5. ~together => InTime(list)
      BY <1>2, <2>3 DEF InTime
    <2>6. \A i \in 1..Len(told) : IsTest(told[i]) => \E k \in 1..Len(list) : list[k] = told[i]
      BY <2>a, <2>2
    <2> QED BY <2>3, <2>4, <2>5, <2>6 DEF list
  <1>5. CASE harness = "claude" /\ ~ \E i \in DOMAIN told : told[i].kind = "spawn"
    <2> DEFINE spawned(i) == [told[i] EXCEPT !.kind = "spawn"]
    <2>1. list = [i \in DOMAIN told |->
                    IF told[i].kind = "spawn tool" THEN spawned(i) ELSE told[i]]
      BY <1>5 DEF Reconciled, ReconcileSpawns
    <2>2. ASSUME NEW i \in 1..Len(told)
          PROVE  /\ spawned(i) \in TraceEvent /\ spawned(i).kind = "spawn"
                 /\ spawned(i).call = told[i].call
      <3>1. told[i] \in TraceEvent
        BY <1>1
      <3> QED BY <3>1 DEF TraceEvent, EventKinds
    <2> HIDE DEF spawned, list
    <2>3. \A i \in 1..Len(told) :
            /\ list[i] \in TraceEvent
            /\ list[i].call = told[i].call
            /\ told[i].kind # "spawn tool" => list[i] = told[i] /\ list[i].kind # "spawn"
            /\ told[i].kind = "spawn tool" => list[i].kind = "spawn"
      <3> TAKE i \in 1..Len(told)
      <3>1. list[i] = IF told[i].kind = "spawn tool" THEN spawned(i) ELSE told[i]
        BY <1>1, <2>1
      <3>2. told[i] \in TraceEvent /\ told[i].kind # "spawn"
        BY <1>1, <1>5
      <3>3. CASE told[i].kind = "spawn tool"
        BY <2>2, <3>1, <3>2, <3>3
      <3>4. CASE told[i].kind # "spawn tool"
        BY <3>1, <3>2, <3>4
      <3> QED BY <3>3, <3>4
    <2>4. list \in Seq(TraceEvent) /\ Len(list) = Len(told)
      <3>1. list = [i \in 1..Len(told) |-> list[i]]
        BY <1>1, <2>1
      <3> DEFINE n == Len(told)
      <3>2. n \in Nat /\ \A i \in 1..n : list[i] \in TraceEvent
        BY <1>1, <2>3
      <3>3. list = [i \in 1..n |-> list[i]]
        BY <3>1
      <3> HIDE DEF n
      <3>4. list \in [1..n -> TraceEvent]
        BY <3>2, <3>3
      <3>5. list \in Seq(TraceEvent) /\ Len(list) = n
        BY <3>2, <3>4
      <3> QED BY <3>5 DEF n
    <2>5. \A i \in 1..Len(told) : Timed(list[i]) \/ IsTest(list[i]) \/ IsTest(told[i])
            => list[i] = told[i]
      BY <2>3 DEF Timed, IsTest
    <2>6. \A i, j \in 1..Len(told) : Alike(list[i], list[j]) => i = j
      <3> SUFFICES ASSUME NEW i \in 1..Len(told), NEW j \in 1..Len(told), Alike(list[i], list[j])
                   PROVE  Alike(told[i], told[j])
        BY DEF TraceCore, ToldIsOfCalls
      <3>1. CASE told[i].kind = "spawn tool"
        BY <2>3, <3>1 DEF Alike, IsTest
      <3>2. CASE told[i].kind # "spawn tool"
        BY <2>3, <3>2 DEF Alike, IsTest
      <3> QED BY <3>1, <3>2
    <2>7. \A i \in 1..Len(told) : /\ list[i].kind # "spawn tool"
                                  /\ Timed(list[i]) => IsRun(list[i].call)
      <3>1. \A i \in 1..Len(told) : list[i].kind # "spawn tool"
        BY <2>3
      <3>2. \A i \in 1..Len(told) : Timed(list[i]) => IsRun(list[i].call)
        BY <2>5 DEF TraceCore, ToldIsOfCalls, ToldOfCall
      <3> QED BY <3>1, <3>2
    <2>8. Honest(list)
      BY <2>4, <2>6, <2>7 DEF Honest
    <2>9. ~together => InTime(list)
      BY <1>2, <2>4, <2>5 DEF InTime
    <2> QED BY <2>4, <2>5, <2>8, <2>9 DEF list
  <1> QED BY <1>3, <1>4, <1>5

\* A run has at most one receipt, and its number.
LEMMA ReceiptsAre ==
    ASSUME TraceCore
    PROVE  /\ ToSet(receipts) = Elements(receipts)
           /\ IsFiniteSet(ToSet(receipts)) /\ Cardinality(ToSet(receipts)) = Len(receipts)
           /\ \A r \in ToSet(receipts) :
                /\ r \in CallReceipt /\ r.call \in Calls
                /\ IsRun(r.call) /\ RunsTest(r.call) /\ r.start = outcome[r.call].start
                /\ TestOf(r) \in TraceEvent /\ TestOf(r).kind = "test" /\ TestOf(r).call = r.call
           /\ \A r, s \in ToSet(receipts) : r.call = s.call \/ r.start = s.start => r = s
  <1>1. /\ receipts \in Seq(CallReceipt) /\ DOMAIN receipts = 1..Len(receipts)
        /\ \A n \in 1..Len(receipts) : ReceiptOfRun(receipts[n]) /\ receipts[n] \in CallReceipt
        /\ \A m, n \in 1..Len(receipts) : receipts[m].call = receipts[n].call => m = n
    BY DEF TraceCore, TraceTypes, ReceiptsAreOfRuns
  <1>2. ToSet(receipts) = Elements(receipts)
    BY <1>1 DEF ToSet, Elements
  <1>3. Distinct(receipts)
    BY <1>1 DEF Distinct
  <1>4. IsFiniteSet(ToSet(receipts)) /\ Cardinality(ToSet(receipts)) = Len(receipts)
    BY <1>1, <1>2, <1>3, LengthOfSet
  <1>5. ASSUME NEW r \in ToSet(receipts)
        PROVE  /\ r \in CallReceipt /\ r.call \in Calls
               /\ IsRun(r.call) /\ RunsTest(r.call) /\ r.start = outcome[r.call].start
               /\ TestOf(r) \in TraceEvent /\ TestOf(r).kind = "test" /\ TestOf(r).call = r.call
    <2>1. PICK n \in 1..Len(receipts) : r = receipts[n]
      BY <1>2 DEF Elements
    <2>2. r \in CallReceipt /\ ReceiptOfRun(r)
      BY <1>1, <2>1
    <2>3. r.call \in Calls /\ r.rc \in {0, 1}
      BY <2>2 DEF CallReceipt
    <2> QED BY <2>2, <2>3 DEF ReceiptOfRun, TestOf, ToolEvent, TraceEvent, EventKinds
  <1>6. ASSUME NEW r \in ToSet(receipts), NEW s \in ToSet(receipts),
               r.call = s.call \/ r.start = s.start
        PROVE  r = s
    <2>1. PICK m \in 1..Len(receipts) : r = receipts[m]
      BY <1>2 DEF Elements
    <2>2. PICK n \in 1..Len(receipts) : s = receipts[n]
      BY <1>2 DEF Elements
    <2>3. r.call = s.call
      <3>1. CASE r.start = s.start
        <4>1. outcome[r.call].start = outcome[s.call].start /\ Began(r.call)
          BY <1>5, <3>1 DEF IsRun
        <4> QED BY <1>5, <4>1 DEF TraceCore, CallsAreRuns
      <3> QED BY <1>6, <3>1
    <2> QED BY <1>1, <2>1, <2>2, <2>3
  <1> QED BY <1>2, <1>4, <1>5, <1>6

\* The tests of a list are the trusted receipts.
TrustedOnly(list) ==
    /\ \A i \in 1..Len(list) : list[i].kind = "test" =>
         \E r \in ToSet(receipts) : Trusted(r) /\ list[i] = TestOf(r)
    /\ \A r \in ToSet(receipts) : Trusted(r) => \E i \in 1..Len(list) : list[i] = TestOf(r)

LEMMA FollowingIs ==
    ASSUME TraceCore, NEW list, Honest(list)
    PROVE  LET out == Following(list) IN
             /\ Honest(out) /\ TrustedOnly(out)
             /\ \A i \in 1..Len(out) : out[i].kind # "anchor"
  <1> DEFINE trustedAt == {i \in DOMAIN receipts : Trusted(receipts[i])}
             trusted == Picked(receipts, trustedAt)
             rest == DOMAIN list \ Tests(list)
             shown == Picked(list, rest)
             tests == [i \in DOMAIN trusted |-> TestOf(trusted[i])]
             whole == Following(list)
  <1>1. whole = shown \o tests
    BY DEF Following
  <1> HIDE DEF trustedAt, trusted, rest, shown, tests, whole
  <1>2. /\ list \in Seq(TraceEvent) /\ DOMAIN list = 1..Len(list) /\ rest \subseteq 1..Len(list)
        /\ \A i \in rest : ~IsTest(list[i])
    <2>0. list \in Seq(TraceEvent)
      BY DEF Honest
    <2>1. list \in Seq(TraceEvent) /\ DOMAIN list = 1..Len(list)
      BY ONLY <2>0
    <2> QED BY <2>1 DEF Tests, rest
  <1>3. /\ receipts \in Seq(CallReceipt) /\ DOMAIN receipts = 1..Len(receipts)
        /\ trustedAt \subseteq 1..Len(receipts)
        /\ \A i \in trustedAt : Trusted(receipts[i]) /\ receipts[i] \in ToSet(receipts)
        /\ \A r \in ToSet(receipts) : Trusted(r) => \E i \in trustedAt : r = receipts[i]
    <2>1. receipts \in Seq(CallReceipt)
      BY DEF TraceCore, TraceTypes
    <2> QED BY <2>1, ReceiptsAre DEF Elements, trustedAt
  <1>4. /\ Honest(shown) /\ \A k \in 1..Len(shown) : \E i \in rest : shown[k] = list[i]
    <2>1. Honest(list) /\ rest \subseteq 1..Len(list)
      BY <1>2
    <2>2. shown = Picked(list, rest)
      BY DEF shown
    <2>3. HonestlyPicked(shown, list, rest)
      BY ONLY <2>1, <2>2, PickedIsHonest
    <2> QED BY <2>3 DEF HonestlyPicked
  <1>a. trusted \in Seq(CallReceipt) /\ Selects(trusted, receipts, trustedAt)
    BY <1>3, SelectionSays DEF trusted
  <1>5. /\ trusted \in Seq(CallReceipt)
        /\ \A i \in trustedAt : \E k \in 1..Len(trusted) : trusted[k] = receipts[i]
    BY <1>a DEF Selects
  <1>b. PICK place : PlacedIn(place, trusted, receipts, trustedAt)
    BY <1>a DEF Selects
  <1>6. /\ \A k \in 1..Len(trusted) : /\ place[k] \in trustedAt /\ place[k] \in 1..Len(receipts)
                                      /\ trusted[k] = receipts[place[k]]
        /\ \A j, k \in 1..Len(trusted) : /\ j < k => place[j] < place[k]
                                         /\ place[j] = place[k] => j = k
    BY <1>b DEF PlacedIn
  <1>7. \A k \in 1..Len(trusted) : trusted[k] \in ToSet(receipts) /\ Trusted(trusted[k])
    BY <1>3, <1>6
  <1>8. /\ tests \in Seq(TraceEvent) /\ Len(tests) = Len(trusted)
        /\ \A k \in 1..Len(tests) : tests[k] = TestOf(trusted[k]) /\ tests[k].kind = "test"
                                /\ tests[k].call = trusted[k].call /\ IsRun(tests[k].call)
    <2> DEFINE n == Len(trusted)
    <2>1. n \in Nat /\ DOMAIN trusted = 1..n
      BY <1>5
    <2>2. \A k \in 1..n : TestOf(trusted[k]) \in TraceEvent
      BY <1>7, ReceiptsAre
    <2>3. tests = [k \in 1..n |-> TestOf(trusted[k])]
      BY <2>1 DEF tests
    <2> HIDE DEF n
    <2>4. tests \in [1..n -> TraceEvent]
      BY <2>2, <2>3
    <2>5. tests \in Seq(TraceEvent) /\ Len(tests) = n
      BY <2>1, <2>4
    <2>6. \A k \in 1..n : tests[k] = TestOf(trusted[k]) /\ tests[k].kind = "test"
                          /\ tests[k].call = trusted[k].call /\ IsRun(tests[k].call)
      BY <1>7, <2>3, ReceiptsAre DEF n
    <2> QED BY <2>5, <2>6 DEF n
  <1>9. /\ whole \in Seq(TraceEvent) /\ Len(whole) = Len(shown) + Len(tests)
        /\ \A i \in 1..Len(whole) :
             \/ i \in 1..Len(shown) /\ whole[i] = shown[i]
             \/ /\ i > Len(shown) /\ i - Len(shown) \in 1..Len(tests)
                /\ whole[i] = tests[i - Len(shown)]
                /\ i \notin 1..Len(shown)
    <2>1. shown \in Seq(TraceEvent)
      BY <1>4 DEF Honest
    <2>2. tests \in Seq(TraceEvent)
      BY <1>8
    <2> QED BY ONLY <1>1, <2>1, <2>2, Extended
  <1>10. /\ Len(shown) \in Nat /\ Len(tests) \in Nat
         /\ \A k \in 1..Len(tests) :
              Len(shown) + k \in 1..Len(whole) /\ whole[Len(shown) + k] = tests[k]
    <2>1. shown \in Seq(TraceEvent) /\ tests \in Seq(TraceEvent)
      BY <1>4, <1>8 DEF Honest
    <2>2. Len(shown) \in Nat /\ Len(tests) \in Nat
      BY <2>1
    <2>3. \A k \in 1..Len(tests) : (shown \o tests)[Len(shown) + k] = tests[k]
      BY ONLY <2>1, Concatenated
    <2>4. \A k \in 1..Len(tests) : Len(shown) + k \in 1..Len(whole)
      BY <1>9, <2>2
    <2> QED BY <1>1, <2>2, <2>3, <2>4
  <1>11. \A k \in 1..Len(shown) : ~IsTest(shown[k])
    BY <1>2, <1>4
  <1>12. \A i \in 1..Len(whole) :
             \/ i \in 1..Len(shown) /\ whole[i] = shown[i] /\ ~IsTest(whole[i])
             \/ /\ i - Len(shown) \in 1..Len(tests) /\ whole[i] = tests[i - Len(shown)]
                /\ whole[i].kind = "test" /\ IsRun(whole[i].call)
    BY <1>8, <1>9, <1>11
  <1>13. \A i \in 1..Len(whole) : whole[i].kind # "anchor"
    BY <1>12 DEF IsTest
  <1>14. Honest(whole)
    <2>1. \A i \in 1..Len(whole) :
            whole[i].kind # "spawn tool" /\ (Timed(whole[i]) => IsRun(whole[i].call))
      BY <1>4, <1>12 DEF Honest
    <2>2. \A i, j \in 1..Len(whole) : Alike(whole[i], whole[j]) => i = j
      <3> SUFFICES ASSUME NEW i \in 1..Len(whole), NEW j \in 1..Len(whole),
                          Alike(whole[i], whole[j])
                   PROVE  i = j
        OBVIOUS
      <3>1. CASE /\ i \in 1..Len(shown) /\ whole[i] = shown[i]
                 /\ j \in 1..Len(shown) /\ whole[j] = shown[j]
        BY <1>4, <3>1 DEF Honest
      <3>2. CASE /\ i - Len(shown) \in 1..Len(tests) /\ whole[i] = tests[i - Len(shown)]
                 /\ j - Len(shown) \in 1..Len(tests) /\ whole[j] = tests[j - Len(shown)]
        <4> DEFINE k == i - Len(shown)
                   m == j - Len(shown)
        <4>1. k \in 1..Len(trusted) /\ m \in 1..Len(trusted) /\ trusted[k].call = trusted[m].call
          BY <1>8, <3>2 DEF Alike
        <4>2. receipts[place[k]].call = receipts[place[m]].call
              /\ place[k] \in 1..Len(receipts) /\ place[m] \in 1..Len(receipts)
          BY <1>6, <4>1
        <4>3. place[k] = place[m]
          BY <4>2 DEF TraceCore, ReceiptsAreOfRuns
        <4>4. k = m
          BY <1>6, <4>1, <4>3
        <4>5. i \in Nat /\ j \in Nat
          OBVIOUS
        <4> QED BY ONLY <1>10, <4>4, <4>5
      <3>3. ~(IsTest(whole[i]) /\ ~IsTest(whole[j])) /\ ~(IsTest(whole[j]) /\ ~IsTest(whole[i]))
        BY DEF Alike, IsTest
      <3>4. \A m \in 1..Len(whole) : whole[m].kind = "test" => IsTest(whole[m])
        BY DEF IsTest
      <3> QED BY <1>12, <3>1, <3>2, <3>3, <3>4
    <2>3. whole \in Seq(TraceEvent)
      BY <1>9
    <2> QED BY <2>1, <2>2, <2>3, Zenon DEF Honest
  <1>15. TrustedOnly(whole)
    <2>1. ASSUME NEW i \in 1..Len(whole), whole[i].kind = "test"
          PROVE  \E r \in ToSet(receipts) : Trusted(r) /\ whole[i] = TestOf(r)
      <3>1. i - Len(shown) \in 1..Len(tests) /\ whole[i] = tests[i - Len(shown)]
        BY <1>12, <2>1 DEF IsTest
      <3> QED BY <1>7, <1>8, <3>1
    <2>2. ASSUME NEW r \in ToSet(receipts), Trusted(r)
          PROVE  \E i \in 1..Len(whole) : whole[i] = TestOf(r)
      <3>1. PICK k \in 1..Len(trusted) : trusted[k] = r
        BY <1>3, <1>5, <2>2
      <3> QED BY <1>8, <1>10, <3>1
    <2> QED BY <2>1, <2>2 DEF TrustedOnly
  <1> QED BY <1>13, <1>14, <1>15 DEF whole

\* As many as their images, where the images differ.
LEMMA SameNumber ==
    ASSUME NEW S, NEW T, IsFiniteSet(S), NEW g \in [S -> T],
           \A x, y \in S : g[x] = g[y] => x = y, \A z \in T : \E x \in S : g[x] = z
    PROVE  IsFiniteSet(T) /\ Cardinality(T) = Cardinality(S)
  <1>1. g \in Bijection(S, T)
    BY DEF Bijection, Injection, Surjection, IsInjective
  <1>2. ExistsBijection(S, T)
    BY <1>1 DEF ExistsBijection
  <1> QED BY <1>2, FS_Bijection

\* The receipt that takes the place of the shown test at i.
BoundTo(list, i) == Ordered(Cardinality({j \in Tests(list) : j <= i}))

\* Where there are as many of both, the k-th of each belong together.
Bindings(list) ==
    /\ \A i \in Tests(list) : BoundTo(list, i) \in ToSet(receipts)
    /\ \A i, j \in Tests(list) : BoundTo(list, i) = BoundTo(list, j) => i = j
    /\ \A r \in ToSet(receipts) : \E i \in Tests(list) : BoundTo(list, i) = r

LEMMA TestsAre ==
    ASSUME NEW list, Honest(list)
    PROVE  /\ DOMAIN list = 1..Len(list) /\ Len(list) \in Nat /\ list \in Seq(TraceEvent)
           /\ Tests(list) \subseteq 1..Len(list) /\ Tests(list) \subseteq Nat
           /\ IsFiniteSet(Tests(list))
           /\ \A i \in 1..Len(list) : i \in Tests(list) <=> IsTest(list[i])
  <1> DEFINE n == Len(list)
             S == Tests(list)
  <1>1. list \in Seq(TraceEvent)
    BY DEF Honest
  <1>2. DOMAIN list = 1..n /\ n \in Nat
    BY ONLY <1>1
  <1>3. S \subseteq 1..n /\ \A i \in 1..n : i \in S <=> IsTest(list[i])
    BY <1>2 DEF Tests
  <1> HIDE DEF n, S
  <1>4. 1 \in Int /\ n \in Int
    BY <1>2
  <1>5. IsFiniteSet(1..n)
    BY ONLY <1>4, FS_Interval
  <1>6. IsFiniteSet(S)
    BY ONLY <1>3, <1>5, FS_Subset
  <1>7. S \subseteq Nat
    BY <1>2, <1>3
  <1> QED BY <1>1, <1>2, <1>3, <1>6, <1>7 DEF n, S

\* Receipts, numbered by when their runs began.
LEMMA OrderedIs ==
    ASSUME TraceCore
    PROVE  /\ \A r \in ToSet(receipts) :
                Ordered(Cardinality({s \in ToSet(receipts) : s.start <= r.start})) = r
           /\ \A k \in 1..Len(receipts) :
                /\ Ordered(k) \in ToSet(receipts)
                /\ Cardinality({s \in ToSet(receipts) : s.start <= Ordered(k).start}) = k
  <1> DEFINE S == ToSet(receipts)
             m == [r \in S |-> r.start]
  <1>1. /\ IsFiniteSet(S) /\ Cardinality(S) = Len(receipts)
        /\ \A r \in S : r \in CallReceipt /\ \A s \in S : r.start = s.start => r = s
    BY ReceiptsAre
  <1>2. m \in [S -> Nat] /\ \A r, s \in S : m[r] = m[s] => r = s
    BY <1>1 DEF CallReceipt
  <1>3. \A r \in S : Rank(S, m, r) = Cardinality({s \in S : s.start <= r.start})
    <2> TAKE r \in S
    <2>1. {s \in S : m[s] <= m[r]} = {s \in S : s.start <= r.start}
      OBVIOUS
    <2> QED BY <2>1 DEF Rank
  <1> HIDE DEF m
  <1>4. \A k : Ordered(k) = CHOOSE r \in S : Cardinality({s \in S : s.start <= r.start}) = k
    BY DEF Ordered
  <1> HIDE DEF S
  <1>5. /\ \A r, s \in S : Rank(S, m, r) = Rank(S, m, s) => r = s
        /\ \A k \in 1..Cardinality(S) : \E r \in S : Rank(S, m, r) = k
    <2>1. IsFiniteSet(S)
      BY <1>1
    <2>2. Numbered(S, m)
      BY ONLY <1>2, <2>1, Ranked
    <2> QED BY <2>2 DEF Numbered
  <1>6. ASSUME NEW r \in S
        PROVE  Ordered(Cardinality({s \in S : s.start <= r.start})) = r
    <2> DEFINE k == Cardinality({s \in S : s.start <= r.start})
    <2>1. PICK x : x = k
      OBVIOUS
    <2>2. Ordered(x) \in S /\ Cardinality({s \in S : s.start <= Ordered(x).start}) = x
      BY <1>4, <2>1
    <2>3. Rank(S, m, Ordered(x)) = Rank(S, m, r)
      BY <1>3, <2>1, <2>2
    <2> QED BY <1>5, <2>1, <2>2, <2>3
  <1>7. ASSUME NEW k \in 1..Len(receipts)
        PROVE  Ordered(k) \in S /\ Cardinality({s \in S : s.start <= Ordered(k).start}) = k
    <2>1. \E r \in S : Cardinality({s \in S : s.start <= r.start}) = k
      BY <1>1, <1>3, <1>5
    <2> QED BY <1>4, <2>1
  <1> QED BY <1>6, <1>7 DEF S

LEMMA BindingsAre ==
    ASSUME TraceCore, NEW list, Honest(list), Cardinality(Tests(list)) = Len(receipts)
    PROVE  Bindings(list)
  <1> DEFINE S == Tests(list)
             m == [i \in S |-> i]
             among(i) == Cardinality({j \in S : j <= i})
  <1>1. IsFiniteSet(S) /\ S \subseteq Nat /\ Cardinality(S) = Len(receipts)
    BY TestsAre
  <1>2. m \in [S -> Nat] /\ \A i, j \in S : m[i] = m[j] => i = j
    BY <1>1
  <1>3. \A i \in S : Rank(S, m, i) = among(i)
    <2> TAKE i \in S
    <2>1. {j \in S : m[j] <= m[i]} = {j \in S : j <= i}
      OBVIOUS
    <2> QED BY <2>1 DEF Rank
  <1> HIDE DEF m
  <1>4. \A i : BoundTo(list, i) = Ordered(among(i))
    BY DEF BoundTo
  <1> HIDE DEF S, among
  <1>5. /\ Cardinality(S) \in Nat
        /\ \A x \in S : Rank(S, m, x) \in 1..Cardinality(S)
        /\ \A x, y \in S : m[x] < m[y] => Rank(S, m, x) < Rank(S, m, y)
        /\ \A x, y \in S : Rank(S, m, x) = Rank(S, m, y) => x = y
        /\ \A k \in 1..Cardinality(S) : \E x \in S : Rank(S, m, x) = k
    <2>1. IsFiniteSet(S)
      BY <1>1
    <2>2. Numbered(S, m)
      BY ONLY <1>2, <2>1, Ranked
    <2> QED BY <2>2 DEF Numbered
  <1>6. /\ \A i \in S : among(i) \in 1..Len(receipts)
        /\ \A i, j \in S : among(i) = among(j) => i = j
        /\ \A k \in 1..Len(receipts) : \E i \in S : among(i) = k
    BY <1>1, <1>3, <1>5
  <1>7. \A i \in S : BoundTo(list, i) \in ToSet(receipts)
    <2> TAKE i \in S
    <2>1. PICK a \in 1..Len(receipts) : a = among(i)
      BY <1>6
    <2>2. Ordered(a) \in ToSet(receipts)
      BY OrderedIs
    <2> QED BY <1>4, <2>1, <2>2
  <1>8. \A i, j \in S : BoundTo(list, i) = BoundTo(list, j) => i = j
    <2> SUFFICES ASSUME NEW i \in S, NEW j \in S, BoundTo(list, i) = BoundTo(list, j)
                 PROVE  among(i) = among(j)
      BY <1>6
    <2>1. PICK a \in 1..Len(receipts) : a = among(i)
      BY <1>6
    <2>2. PICK b \in 1..Len(receipts) : b = among(j)
      BY <1>6
    <2>3. Ordered(a) = Ordered(b)
      BY <1>4, <2>1, <2>2
    <2>4. a = b
      BY <2>3, OrderedIs
    <2> QED BY <2>1, <2>2, <2>4
  <1>9. \A r \in ToSet(receipts) : \E i \in S : BoundTo(list, i) = r
    <2> TAKE r \in ToSet(receipts)
    <2> DEFINE k == Cardinality({s \in ToSet(receipts) : s.start <= r.start})
    <2>1. Ordered(k) = r
      BY OrderedIs
    <2>2. k \in 1..Len(receipts)
      <3> DEFINE R == ToSet(receipts)
                 m1 == [x \in R |-> x.start]
      <3>1. /\ IsFiniteSet(R) /\ Cardinality(R) = Len(receipts)
            /\ \A x \in R : x \in CallReceipt /\ \A y \in R : x.start = y.start => x = y
        BY ReceiptsAre
      <3>2. m1 \in [R -> Nat] /\ \A x, y \in R : m1[x] = m1[y] => x = y
        BY <3>1 DEF CallReceipt
      <3>3. Rank(R, m1, r) = k
        <4>1. {x \in R : m1[x] <= m1[r]} = {s \in R : s.start <= r.start}
          OBVIOUS
        <4> QED BY <4>1 DEF Rank
      <3> HIDE DEF m1, k
      <3>4. r \in R
        OBVIOUS
      <3> HIDE DEF R
      <3>5. IsFiniteSet(R)
        BY <3>1
      <3>6. Numbered(R, m1)
        BY ONLY <3>2, <3>5, Ranked
      <3> QED BY <3>1, <3>3, <3>4, <3>6 DEF Numbered
    <2> HIDE DEF k
    <2>3. PICK i \in S : among(i) = k
      BY <1>6, <2>2
    <2> QED BY <1>4, <2>1, <2>3
  <1> QED BY <1>7, <1>8, <1>9 DEF Bindings, S

\* The tests of a list are the runs that have a receipt.
ShownIn(list) ==
    /\ \A i \in Tests(list) : RunsTest(list[i].call)
    /\ \A r \in ToSet(receipts) : \E i \in Tests(list) : list[i].call = r.call

\* The receipt of the run that the test at i shows.
OwnReceipt(list, i) == CHOOSE r \in ToSet(receipts) : r.call = list[i].call

Owned(list) ==
    /\ \A i \in Tests(list) : /\ OwnReceipt(list, i) \in ToSet(receipts)
                              /\ OwnReceipt(list, i).call = list[i].call
                              /\ OwnReceipt(list, i).start = outcome[list[i].call].start
    /\ \A i, j \in Tests(list) : OwnReceipt(list, i) = OwnReceipt(list, j) => i = j
    /\ \A r \in ToSet(receipts) : \E i \in Tests(list) : OwnReceipt(list, i) = r

LEMMA OwnedAre ==
    ASSUME TraceCore, receipts # << >>, NEW list, Honest(list), ShownIn(list)
    PROVE  Owned(list)
  <1>1. /\ \A r \in ToSet(receipts) : r.start = outcome[r.call].start
        /\ \A r, s \in ToSet(receipts) : r.call = s.call => r = s
    BY ReceiptsAre
  <1>2. /\ Tests(list) \subseteq 1..Len(list) /\ \A i \in Tests(list) : IsTest(list[i])
    BY TestsAre
  <1>3. ASSUME NEW i \in Tests(list)
        PROVE  \E r \in ToSet(receipts) : r.call = list[i].call
    <2> DEFINE c == list[i].call
    <2>1. i \in 1..Len(list) /\ IsTest(list[i]) /\ list \in Seq(TraceEvent)
      BY <1>2 DEF Honest
    <2>2. list[i] \in TraceEvent /\ Timed(list[i])
      BY <2>1 DEF Timed
    <2>3. c \in Calls /\ IsRun(c) /\ RunsTest(c)
      BY <2>1, <2>2 DEF Honest, ShownIn, TraceEvent
    <2> HIDE DEF c
    <2>4. PICK n \in 1..Len(receipts) : receipts[n].call = c
      BY <2>3 DEF TraceCore, ReceiptsAreOfRuns
    <2>5. receipts[n] \in ToSet(receipts)
      BY ReceiptsAre DEF Elements
    <2> QED BY <2>4, <2>5 DEF c
  <1>4. \A i \in Tests(list) : /\ OwnReceipt(list, i) \in ToSet(receipts)
                               /\ OwnReceipt(list, i).call = list[i].call
    BY <1>3 DEF OwnReceipt
  <1>5. ASSUME NEW i \in Tests(list), NEW j \in Tests(list),
               OwnReceipt(list, i) = OwnReceipt(list, j)
        PROVE  i = j
    <2>1. Alike(list[i], list[j])
      BY <1>2, <1>4, <1>5 DEF Alike
    <2> QED BY <1>2, <2>1 DEF Honest
  <1>6. ASSUME NEW r \in ToSet(receipts)
        PROVE  \E i \in Tests(list) : OwnReceipt(list, i) = r
    <2>1. PICK i \in Tests(list) : list[i].call = r.call
      BY DEF ShownIn
    <2> QED BY <1>1, <1>4, <2>1
  <1>7. \A i \in Tests(list) : OwnReceipt(list, i).start = outcome[list[i].call].start
    BY <1>1, <1>4
  <1> QED BY <1>4, <1>5, <1>6, <1>7 DEF Owned

\* Where the tests are the runs that have a receipt, there are as many of both.
LEMMA AsManyShown ==
    ASSUME TraceCore, receipts # << >>, NEW list, Honest(list), ShownIn(list)
    PROVE  Cardinality(Tests(list)) = Len(receipts)
  <1> DEFINE S == Tests(list)
             T == ToSet(receipts)
             g == [i \in S |-> OwnReceipt(list, i)]
  <1>1. Owned(list)
    BY OwnedAre
  <1>2. /\ g \in [S -> T] /\ (\A x, y \in S : g[x] = g[y] => x = y)
        /\ \A z \in T : \E x \in S : g[x] = z
    BY <1>1 DEF Owned
  <1>3. IsFiniteSet(S) /\ Cardinality(T) = Len(receipts)
    BY TestsAre, ReceiptsAre
  <1> HIDE DEF S, T, g
  <1>4. Cardinality(T) = Cardinality(S)
    BY ONLY <1>2, <1>3, SameNumber
  <1> QED BY <1>3, <1>4 DEF S

\* And where they are in the order their runs began, each has its own receipt.
LEMMA BoundToItsOwn ==
    ASSUME TraceCore, receipts # << >>, NEW list, Honest(list), ShownIn(list), InTime(list)
    PROVE  \A i \in Tests(list) : BoundTo(list, i) = OwnReceipt(list, i)
  <1>1. Owned(list)
    BY OwnedAre
  <1>2. /\ Tests(list) \subseteq 1..Len(list) /\ Tests(list) \subseteq Nat
        /\ \A i \in Tests(list) : IsTest(list[i]) /\ Timed(list[i])
        /\ IsFiniteSet(Tests(list))
    BY TestsAre DEF Timed
  <1>3. \A r \in ToSet(receipts) : r.start \in Nat
    BY ReceiptsAre DEF CallReceipt
  <1>4. \A i, j \in Tests(list) :
          i < j => OwnReceipt(list, i).start <= OwnReceipt(list, j).start
    BY <1>1, <1>2 DEF Owned, InTime
  <1>5. \A r, s \in ToSet(receipts) : r.start = s.start => r = s
    BY ReceiptsAre
  <1> SUFFICES ASSUME NEW i \in Tests(list)
               PROVE  BoundTo(list, i) = OwnReceipt(list, i)
    OBVIOUS
  <1> DEFINE S == {j \in Tests(list) : j <= i}
             T == {s \in ToSet(receipts) : s.start <= OwnReceipt(list, i).start}
             g == [j \in S |-> OwnReceipt(list, j)]
  <1>6. \A j \in Tests(list) : j <= i <=> OwnReceipt(list, j).start <= OwnReceipt(list, i).start
    <2> TAKE j \in Tests(list)
    <2>1. i \in Nat /\ j \in Nat
      BY <1>2
    <2>2. /\ OwnReceipt(list, i) \in ToSet(receipts) /\ OwnReceipt(list, j) \in ToSet(receipts)
          /\ OwnReceipt(list, i) = OwnReceipt(list, j) => i = j
      BY <1>1 DEF Owned
    <2> DEFINE a == OwnReceipt(list, i).start
               b == OwnReceipt(list, j).start
    <2>3. a \in Nat /\ b \in Nat /\ (a = b => i = j)
      BY <1>3, <1>5, <2>2
    <2>4. (i < j => a <= b) /\ (j < i => b <= a) /\ (i = j => a = b)
      BY <1>4
    <2> HIDE DEF a, b
    <2>5. j <= i <=> b <= a
      BY ONLY <2>1, <2>3, <2>4
    <2> QED BY <2>5 DEF a, b
  <1>7. /\ g \in [S -> T] /\ (\A x, y \in S : g[x] = g[y] => x = y)
        /\ \A z \in T : \E x \in S : g[x] = z
    <2>1. \A j \in S : j \in Tests(list) /\ g[j] = OwnReceipt(list, j) /\ g[j] \in T
      BY <1>1, <1>6 DEF Owned
    <2>2. g \in [S -> T]
      BY <2>1
    <2>3. \A x, y \in S : g[x] = g[y] => x = y
      BY <1>1, <2>1 DEF Owned
    <2>4. ASSUME NEW z \in T PROVE \E x \in S : g[x] = z
      <3>1. PICK x \in Tests(list) : OwnReceipt(list, x) = z
        BY <1>1 DEF Owned
      <3>2. x \in S
        BY <1>6, <3>1
      <3> QED BY <2>1, <3>1, <3>2
    <2> QED BY <2>2, <2>3, <2>4
  <1>8. IsFiniteSet(S)
    <2>1. S \subseteq Tests(list)
      OBVIOUS
    <2> HIDE DEF S
    <2> QED BY <1>2, <2>1, FS_Subset
  <1>9. BoundTo(list, i) = Ordered(Cardinality(S))
    BY DEF BoundTo
  <1>10. Ordered(Cardinality(T)) = OwnReceipt(list, i)
    BY <1>1, OrderedIs DEF Owned
  <1> HIDE DEF S, T, g
  <1>11. Cardinality(T) = Cardinality(S)
    BY ONLY <1>7, <1>8, SameNumber
  <1> QED BY <1>9, <1>10, <1>11

\* What binding makes of a list: its tests are what the receipts tell, or without any its
\* own, and where all of it is in time and shown it stays in time.
BoundFrom(out, list) ==
    /\ Honest(out)
    /\ \A k \in 1..Len(out) : out[k].kind # "anchor"
    /\ receipts # << >> => TrustedOnly(out)
    /\ receipts = << >> => \A k \in 1..Len(out) : out[k].kind = "test" =>
                             \E i \in 1..Len(list) : out[k] = list[i]
    /\ InTime(list) /\ (receipts # << >> => ShownIn(list)) => InTime(out)

LEMMA BindNothing ==
    ASSUME NEW list, Honest(list), receipts = << >>
    PROVE  BoundFrom(Bind(list), list)
  <1> DEFINE chosen == {i \in DOMAIN list : list[i].kind # "anchor"}
             out == Bind(list)
  <1>1. DOMAIN list = 1..Len(list)
    BY TestsAre
  <1>2. out = Picked(list, chosen) /\ chosen \subseteq 1..Len(list)
    BY <1>1 DEF Bind
  <1>3. \A i \in chosen : i \in 1..Len(list) /\ list[i].kind # "anchor"
    BY <1>1
  <1> HIDE DEF chosen, out
  <1>4. HonestlyPicked(out, list, chosen)
    BY <1>2, PickedIsHonest
  <1>5. Honest(out) /\ (InTime(list) => InTime(out))
        /\ \A k \in 1..Len(out) : \E i \in chosen : out[k] = list[i]
    BY <1>4 DEF HonestlyPicked
  <1> QED BY <1>3, <1>5 DEF BoundFrom, out

LEMMA BindBehind ==
    ASSUME TraceCore, NEW list, Honest(list), receipts # << >>,
           Cardinality(Tests(list)) # Len(receipts)
    PROVE  BoundFrom(Bind(list), list)
  <1> DEFINE out == Bind(list)
  <1>1. out = Following(list)
    BY DEF Bind
  <1>2. Honest(out) /\ TrustedOnly(out) /\ \A k \in 1..Len(out) : out[k].kind # "anchor"
    BY <1>1, FollowingIs
  <1>3. ~ShownIn(list)
    BY AsManyShown
  <1> HIDE DEF out
  <1> QED BY <1>2, <1>3 DEF BoundFrom, out

LEMMA BindInPlace ==
    ASSUME TraceCore, NEW list, Honest(list), receipts # << >>,
           Cardinality(Tests(list)) = Len(receipts)
    PROVE  BoundFrom(Bind(list), list)
  <1> DEFINE bound(i) == BoundTo(list, i)
             put == [i \in DOMAIN list |->
                       IF i \in Tests(list) THEN TestOf(bound(i)) ELSE list[i]]
             chosen == {i \in DOMAIN list : i \in Tests(list) => Trusted(bound(i))}
             out == Bind(list)
             n == Len(list)
  <1>1. /\ DOMAIN list = 1..n /\ n \in Nat /\ list \in Seq(TraceEvent)
        /\ Tests(list) \subseteq 1..n
        /\ \A i \in 1..n : i \in Tests(list) <=> IsTest(list[i])
    BY TestsAre
  <1>2. out = Picked(put, chosen)
    BY DEF Bind, BoundTo
  <1>3. /\ \A i \in chosen : i \in 1..n /\ (i \in Tests(list) => Trusted(bound(i)))
        /\ \A i \in 1..n : i \in Tests(list) /\ Trusted(bound(i)) => i \in chosen
    BY <1>1
  <1>4. \A i \in 1..n : /\ i \in Tests(list) => put[i] = TestOf(bound(i))
                        /\ i \notin Tests(list) => put[i] = list[i]
    BY <1>1
  <1>5. put = [i \in 1..n |-> put[i]]
    BY <1>1
  <1> HIDE DEF put, chosen, out
  <1>6. /\ \A i \in Tests(list) : bound(i) \in ToSet(receipts)
        /\ \A i, j \in Tests(list) : bound(i) = bound(j) => i = j
        /\ \A r \in ToSet(receipts) : \E i \in Tests(list) : bound(i) = r
    BY BindingsAre DEF Bindings
  <1> HIDE DEF bound
  <1>7. \A i \in Tests(list) :
          /\ TestOf(bound(i)) \in TraceEvent /\ TestOf(bound(i)).kind = "test"
          /\ TestOf(bound(i)).call = bound(i).call /\ IsRun(bound(i).call)
    BY <1>6, ReceiptsAre
  <1>8. \A i \in 1..n :
          /\ put[i] \in TraceEvent
          /\ i \in Tests(list) => /\ put[i] = TestOf(bound(i)) /\ put[i].kind = "test"
                                  /\ put[i].call = bound(i).call /\ IsRun(bound(i).call)
                                  /\ IsTest(put[i])
          /\ i \notin Tests(list) => put[i] = list[i] /\ ~IsTest(put[i])
    BY <1>1, <1>4, <1>7 DEF IsTest
  <1>9. put \in Seq(TraceEvent) /\ Len(put) = n
    <2>1. n \in Nat /\ \A i \in 1..n : put[i] \in TraceEvent
      BY <1>1, <1>8
    <2> HIDE DEF n
    <2>2. put \in [1..n -> TraceEvent]
      BY <1>5, <2>1
    <2> QED BY <2>1, <2>2
  <1>10. Honest(put)
    <2>1. \A i \in 1..Len(put) :
            put[i].kind # "spawn tool" /\ (Timed(put[i]) => IsRun(put[i].call))
      <3> TAKE i \in 1..Len(put)
      <3>0. i \in 1..n
        BY <1>9
      <3>1. CASE i \in Tests(list)
        BY <1>8, <3>0, <3>1
      <3>2. CASE i \notin Tests(list)
        BY <1>8, <3>0, <3>2 DEF Honest
      <3> QED BY <3>1, <3>2
    <2>2. \A i, j \in 1..Len(put) : Alike(put[i], put[j]) => i = j
      <3> SUFFICES ASSUME NEW i \in 1..Len(put), NEW j \in 1..Len(put), Alike(put[i], put[j])
                   PROVE  i = j
        OBVIOUS
      <3>0. i \in 1..n /\ j \in 1..n
        BY <1>9
      <3>1. CASE i \in Tests(list) /\ j \in Tests(list)
        <4>1. bound(i).call = bound(j).call
          BY <1>8, <3>0, <3>1 DEF Alike
        <4>2. bound(i) = bound(j)
          BY <1>6, <3>1, <4>1, ReceiptsAre
        <4> QED BY <1>6, <3>1, <4>2
      <3>2. CASE i \notin Tests(list) /\ j \notin Tests(list)
        BY <1>8, <3>0, <3>2 DEF Honest
      <3>3. CASE i \in Tests(list) <=> j \notin Tests(list)
        BY <1>8, <3>0, <3>3 DEF Alike, IsTest
      <3> QED BY <3>1, <3>2, <3>3
    <2> QED BY <1>9, <2>1, <2>2, Zenon DEF Honest
  <1>11. HonestlyPicked(out, put, chosen)
    <2>1. chosen \subseteq 1..Len(put)
      BY <1>3, <1>9
    <2> QED BY ONLY <1>2, <1>10, <2>1, PickedIsHonest
  <1>12. /\ Honest(out) /\ (InTime(put) => InTime(out))
         /\ \A i \in chosen : \E k \in 1..Len(out) : out[k] = put[i]
         /\ \A k \in 1..Len(out) : \E i \in chosen : out[k] = put[i]
    BY <1>11 DEF HonestlyPicked
  <1>13. \A k \in 1..Len(out) : out[k].kind # "anchor"
    <2> TAKE k \in 1..Len(out)
    <2>1. PICK i \in chosen : out[k] = put[i]
      BY <1>12
    <2>2. i \in 1..n
      BY <1>3
    <2> QED BY <1>8, <2>1, <2>2 DEF IsTest
  <1>14. TrustedOnly(out)
    <2>1. ASSUME NEW k \in 1..Len(out), out[k].kind = "test"
          PROVE  \E r \in ToSet(receipts) : Trusted(r) /\ out[k] = TestOf(r)
      <3>1. PICK i \in chosen : out[k] = put[i]
        BY <1>12
      <3>2. i \in 1..n /\ IsTest(put[i])
        BY <1>3, <2>1, <3>1 DEF IsTest
      <3> QED BY <1>3, <1>6, <1>8, <3>1, <3>2
    <2>2. ASSUME NEW r \in ToSet(receipts), Trusted(r)
          PROVE  \E k \in 1..Len(out) : out[k] = TestOf(r)
      <3>1. PICK i \in Tests(list) : bound(i) = r
        BY <1>6
      <3>2. i \in chosen /\ put[i] = TestOf(r)
        BY <1>1, <1>3, <1>8, <2>2, <3>1
      <3> QED BY <1>12, <3>2
    <2> QED BY <2>1, <2>2 DEF TrustedOnly
  <1>15. ASSUME InTime(list), ShownIn(list) PROVE InTime(put)
    <2>1. \A i \in Tests(list) : bound(i).call = list[i].call
      BY <1>15, BoundToItsOwn, OwnedAre DEF Owned, bound
    <2>2. \A i \in 1..n : put[i].call = list[i].call /\ (Timed(put[i]) => Timed(list[i]))
      BY <1>1, <1>8, <2>1 DEF Timed
    <2> QED BY <1>9, <1>15, <2>2 DEF InTime
  <1> QED BY <1>12, <1>13, <1>14, <1>15 DEF BoundFrom, out

LEMMA BindIs ==
    ASSUME TraceCore, NEW list, Honest(list)
    PROVE  BoundFrom(Bind(list), list)
  BY BindNothing, BindBehind, BindInPlace

ReadAt(list, i) == list[i].kind = "read" /\ list[i].rc = 0
PromotedEvent == [kind : EventKinds \cup {"selected"}, call : Calls, rc : {0, 1}]
Promoted(e) == IF e.kind = "read" THEN [e EXCEPT !.kind = "selected"] ELSE e

\* What promoting the reads of a list keeps of it, and where.
PromotedAt(out, list, place) ==
    /\ \A k \in 1..Len(out) : place[k] \in 1..Len(list) /\ out[k] = Promoted(list[place[k]])
    /\ \A j, k \in 1..Len(out) : /\ j < k => place[j] < place[k]
                                 /\ place[j] = place[k] => j = k

PromotedFrom(out, list) ==
    /\ out \in Seq(PromotedEvent)
    /\ \E place : PromotedAt(out, list, place)
    /\ \A i \in 1..Len(list) : list[i].kind # "read" => \E k \in 1..Len(out) : out[k] = list[i]
    /\ \A j, k \in 1..Len(out) :
         /\ out[j].kind = "selected" /\ out[j].rc = 0
         /\ out[k].kind = "selected" /\ out[k].rc = 0
         => j = k

LEMMA PromotedIs ==
    ASSUME NEW e \in TraceEvent
    PROVE  /\ Promoted(e) \in PromotedEvent
           /\ Promoted(e).call = e.call /\ Promoted(e).rc = e.rc
           /\ e.kind # "read" => Promoted(e) = e
           /\ Promoted(e).kind = "selected" <=> e.kind = "read"
           /\ Promoted(e).kind # "read"
  <1>1. CASE e.kind = "read"
    <2>1. Promoted(e) = [kind |-> "selected", call |-> e.call, rc |-> e.rc]
      BY <1>1 DEF TraceEvent, Promoted
    <2> QED BY <1>1, <2>1 DEF TraceEvent, PromotedEvent
  <1>2. CASE e.kind # "read"
    BY <1>2 DEF TraceEvent, PromotedEvent, Promoted, EventKinds
  <1> QED BY <1>1, <1>2

LEMMA PromoteReadsIs ==
    ASSUME NEW list \in Seq(TraceEvent)
    PROVE  PromotedFrom(PromoteReads(list), list)
  <1> DEFINE n == Len(list)
             put == [i \in DOMAIN list |->
                       IF list[i].kind = "read" THEN [list[i] EXCEPT !.kind = "selected"]
                       ELSE list[i]]
             chosen == {i \in DOMAIN list :
                          ReadAt(list, i) => ~ \E j \in 1..i - 1 : ReadAt(list, j)}
             out == PromoteReads(list)
  <1>1. DOMAIN list = 1..n /\ n \in Nat /\ \A i \in 1..n : list[i] \in TraceEvent
    OBVIOUS
  <1>2. out = Picked(put, chosen)
    BY DEF PromoteReads, ReadAt
  <1>3. put = [i \in 1..n |-> Promoted(list[i])]
    BY <1>1 DEF Promoted
  <1>4. /\ \A i \in chosen : i \in 1..n /\ (ReadAt(list, i) => \A j \in 1..i - 1 : ~ReadAt(list, j))
        /\ \A i \in 1..n : list[i].kind # "read" => i \in chosen
    BY <1>1 DEF ReadAt
  <1> HIDE DEF put, chosen, out
  <1>5. put \in Seq(PromotedEvent) /\ Len(put) = n /\ \A i \in 1..n : put[i] = Promoted(list[i])
    <2>1. \A i \in 1..n : Promoted(list[i]) \in PromotedEvent
      BY <1>1, PromotedIs
    <2>2. \A i \in 1..n : put[i] = Promoted(list[i])
      BY <1>3
    <2>3. n \in Nat
      BY <1>1
    <2> HIDE DEF n
    <2>4. put \in [1..n -> PromotedEvent]
      BY <1>3, <2>1
    <2> QED BY <2>2, <2>3, <2>4
  <1>6. out \in Seq(PromotedEvent) /\ Selects(out, put, chosen)
    <2>1. put \in Seq(PromotedEvent) /\ chosen \subseteq 1..Len(put)
      BY <1>4, <1>5
    <2> QED BY ONLY <1>2, <2>1, SelectionSays
  <1>7. PICK place : PlacedIn(place, out, put, chosen)
    BY <1>6 DEF Selects
  <1>8. /\ \A k \in 1..Len(out) : /\ place[k] \in chosen /\ place[k] \in 1..n
                                  /\ out[k] = Promoted(list[place[k]])
        /\ \A j, k \in 1..Len(out) : /\ j < k => place[j] < place[k]
                                     /\ place[j] = place[k] => j = k
    BY <1>5, <1>7 DEF PlacedIn
  <1>9. ASSUME NEW i \in 1..n, list[i].kind # "read"
        PROVE  \E k \in 1..Len(out) : out[k] = list[i]
    <2>1. i \in chosen /\ put[i] = list[i]
      BY <1>1, <1>4, <1>5, <1>9, PromotedIs
    <2> QED BY <1>6, <2>1 DEF Selects
  <1>10. ASSUME NEW j \in 1..Len(out), NEW k \in 1..Len(out),
                out[j].kind = "selected" /\ out[j].rc = 0,
                out[k].kind = "selected" /\ out[k].rc = 0
         PROVE  j = k
    <2> DEFINE p == place[j]
               q == place[k]
    <2>1. p \in chosen /\ q \in chosen /\ p \in 1..n /\ q \in 1..n /\ (p = q => j = k)
      BY <1>8
    <2>2. ReadAt(list, p) /\ ReadAt(list, q)
      <3>1. list[p] \in TraceEvent /\ list[q] \in TraceEvent
        BY <1>1, <2>1
      <3>2. out[j] = Promoted(list[p]) /\ out[k] = Promoted(list[q])
        BY <1>8
      <3> QED BY <1>10, <3>1, <3>2, PromotedIs DEF ReadAt
    <2> HIDE DEF p, q
    <2>3. ~(p \in 1..q - 1) /\ ~(q \in 1..p - 1)
      BY <1>4, <2>1, <2>2
    <2>4. p = q
      BY <2>1, <2>3
    <2> QED BY <2>1, <2>4
  <1>11. PromotedAt(out, list, place)
    BY <1>8 DEF PromotedAt
  <1> QED BY <1>6, <1>9, <1>10, <1>11 DEF PromotedFrom, out

\* The evidence at the end, by what it was bound from.
BoundList == Bind(Reconciled)

LEMMA EvidenceIs ==
    ASSUME TraceInv, ended
    PROVE  /\ evidence = PromoteReads(BoundList)
           /\ BoundFrom(BoundList, Reconciled) /\ PromotedFrom(evidence, BoundList)
           /\ BoundList \in Seq(TraceEvent) /\ Honest(Reconciled)
  <1>1. TraceCore /\ evidence = Normalized
    BY DEF TraceInv
  <1>2. Normalized = PromoteReads(BoundList)
    BY DEF Normalized, BoundList, Reconciled
  <1>3. Honest(Reconciled)
    BY <1>1, ReconciledIs
  <1>4. BoundFrom(BoundList, Reconciled)
    BY <1>1, <1>3, BindIs DEF BoundList
  <1>5. BoundList \in Seq(TraceEvent)
    BY <1>4 DEF BoundFrom, Honest
  <1>6. PromotedFrom(evidence, BoundList)
    BY <1>1, <1>2, <1>5, PromoteReadsIs
  <1> QED BY <1>1, <1>2, <1>3, <1>4, <1>5, <1>6

\* Its events, but for the skills, are those of the list, each in its place.
EvidenceAt(place) ==
    /\ \A k \in 1..Len(evidence) :
         /\ place[k] \in 1..Len(BoundList) /\ BoundList[place[k]] \in TraceEvent
         /\ evidence[k].kind \in {"test", "write", "commit", "spawn", "selected"}
         /\ evidence[k].kind # "selected" => evidence[k] = BoundList[place[k]]
    /\ \A j, k \in 1..Len(evidence) : /\ j < k => place[j] < place[k]
                                      /\ place[j] = place[k] => j = k

LEMMA EvidencePlaces ==
    ASSUME TraceInv, ended
    PROVE  DOMAIN evidence = 1..Len(evidence) /\ \E place : EvidenceAt(place)
  <1>1. /\ BoundFrom(BoundList, Reconciled) /\ PromotedFrom(evidence, BoundList)
        /\ BoundList \in Seq(TraceEvent)
    BY EvidenceIs
  <1>2. evidence \in Seq(PromotedEvent)
    BY <1>1 DEF PromotedFrom
  <1>3. PICK place : PromotedAt(evidence, BoundList, place)
    BY <1>1 DEF PromotedFrom
  <1>4. Honest(BoundList) /\ \A k \in 1..Len(BoundList) : BoundList[k].kind # "anchor"
    BY <1>1 DEF BoundFrom
  <1>5. ASSUME NEW k \in 1..Len(evidence)
        PROVE  /\ place[k] \in 1..Len(BoundList) /\ BoundList[place[k]] \in TraceEvent
               /\ evidence[k].kind \in {"test", "write", "commit", "spawn", "selected"}
               /\ evidence[k].kind # "selected" => evidence[k] = BoundList[place[k]]
    <2> DEFINE e == BoundList[place[k]]
    <2>1. place[k] \in 1..Len(BoundList) /\ evidence[k] = Promoted(e)
      BY <1>3 DEF PromotedAt
    <2>2. e \in TraceEvent
      BY <1>1, <2>1
    <2>3. e.kind # "anchor" /\ e.kind # "spawn tool"
      BY <1>4, <2>1 DEF Honest
    <2> HIDE DEF e
    <2>4. CASE e.kind = "read"
      BY <2>1, <2>2, <2>4, PromotedIs DEF e
    <2>5. CASE e.kind # "read"
      BY <2>1, <2>2, <2>3, <2>5, PromotedIs DEF e, TraceEvent, EventKinds
    <2> QED BY <2>4, <2>5, <2>1, <2>2 DEF e
  <1>6. EvidenceAt(place)
    BY <1>3, <1>5 DEF EvidenceAt, PromotedAt
  <1> QED BY <1>2, <1>6

LEMMA EvidenceIsTyped == ASSUME TraceInv PROVE TraceTypeOK
  <1>1. /\ harness \in {"claude", "codex"} /\ lifecycle \in BOOLEAN
        /\ callStage \in [Calls -> CallStages]
        /\ truth \in Seq(Calls) /\ awaited \subseteq Calls /\ repeats \in 0..MaxRepeats
    BY DEF TraceInv, TraceCore, TraceTypes
  <1>2. ToSet(truth) \subseteq Calls
    BY <1>1 DEF ToSet
  <1>3. ended => \A i \in DOMAIN evidence :
                   evidence[i].kind \in {"test", "write", "commit", "spawn", "selected"}
    BY EvidencePlaces DEF EvidenceAt
  <1> QED BY <1>1, <1>2, <1>3 DEF TraceTypeOK, CallStages

\* Tests of one call are one.
LEMMA EvidenceAlike ==
    ASSUME TraceInv, ended, NEW i \in 1..Len(evidence), NEW j \in 1..Len(evidence),
           evidence[i].call = evidence[j].call, evidence[i].kind = evidence[j].kind,
           evidence[i].kind \in {"test", "write", "spawn"}
    PROVE  i = j
  <1>1. PICK place : EvidenceAt(place)
    BY EvidencePlaces
  <1>2. Honest(BoundList)
    BY EvidenceIs DEF BoundFrom
  <1>3. /\ place[i] \in 1..Len(BoundList) /\ evidence[i] = BoundList[place[i]]
        /\ place[j] \in 1..Len(BoundList) /\ evidence[j] = BoundList[place[j]]
        /\ place[i] = place[j] => i = j
    BY <1>1 DEF EvidenceAt
  <1>4. Alike(BoundList[place[i]], BoundList[place[j]])
    BY <1>3 DEF Alike, IsTest
  <1> QED BY <1>2, <1>3, <1>4 DEF Honest

LEMMA EventsAreCountedOnce == ASSUME TraceInv PROVE CountedOnce
  <1> SUFFICES ASSUME ended PROVE CountedOnce
    BY DEF CountedOnce
  <1>1. DOMAIN evidence = 1..Len(evidence)
    BY EvidencePlaces
  <1>2. ASSUME NEW kind \in {"write", "spawn"},
               NEW i \in DOMAIN evidence, NEW j \in DOMAIN evidence,
               evidence[i].kind = kind /\ evidence[j].kind = kind,
               evidence[i].call = evidence[j].call
        PROVE  i = j
    BY <1>1, <1>2, EvidenceAlike
  <1>3. ASSUME NEW i \in EvidenceOf("selected"), NEW j \in EvidenceOf("selected"),
               evidence[i].rc = 0 /\ evidence[j].rc = 0
        PROVE  i = j
    <2>1. PromotedFrom(evidence, BoundList)
      BY EvidenceIs
    <2> QED BY <1>1, <1>3, <2>1 DEF PromotedFrom, EvidenceOf
  <1> QED BY <1>2, <1>3 DEF CountedOnce

LEMMA EvidenceTestsAreTrusted == ASSUME TraceInv PROVE TestsAreTrustedRuns
  <1> SUFFICES ASSUME ended, receipts # << >> PROVE TestsAreTrustedRuns
    BY DEF TestsAreTrustedRuns
  <1> DEFINE S == EvidenceOf("test")
             T == {n \in DOMAIN receipts : Trusted(receipts[n])}
             own(i) == CHOOSE n \in T : evidence[i] = TestOf(receipts[n])
             g == [i \in S |-> own(i)]
  <1>1. /\ DOMAIN evidence = 1..Len(evidence)
        /\ \A i \in S : i \in 1..Len(evidence) /\ evidence[i].kind = "test"
    BY EvidencePlaces DEF EvidenceOf
  <1>2. TraceCore /\ receipts \in Seq(CallReceipt) /\ DOMAIN receipts = 1..Len(receipts)
        /\ ToSet(receipts) = Elements(receipts)
    BY ReceiptsAre DEF TraceInv, TraceCore, TraceTypes
  <1>3. TrustedOnly(BoundList) /\ BoundList \in Seq(TraceEvent)
    BY EvidenceIs DEF BoundFrom
  <1>4. PICK place : EvidenceAt(place)
    BY EvidencePlaces
  <1>5. \A n \in DOMAIN receipts : /\ receipts[n] \in ToSet(receipts)
                                   /\ TestOf(receipts[n]).kind = "test"
                                   /\ TestOf(receipts[n]).call = receipts[n].call
    <2> TAKE n \in DOMAIN receipts
    <2>1. receipts[n] \in ToSet(receipts)
      BY <1>2 DEF Elements
    <2> QED BY <1>2, <2>1, ReceiptsAre
  <1>6. ASSUME NEW i \in S
        PROVE  \E n \in T : evidence[i] = TestOf(receipts[n])
    <2>1. place[i] \in 1..Len(BoundList) /\ evidence[i] = BoundList[place[i]]
          /\ evidence[i].kind = "test"
      BY <1>1, <1>4 DEF EvidenceAt
    <2>2. PICK r \in ToSet(receipts) : Trusted(r) /\ evidence[i] = TestOf(r)
      BY <1>3, <2>1 DEF TrustedOnly
    <2>3. PICK n \in 1..Len(receipts) : r = receipts[n]
      BY <1>2 DEF Elements
    <2> QED BY <1>2, <2>2, <2>3
  <1>7. ASSUME NEW n \in T PROVE \E i \in S : evidence[i] = TestOf(receipts[n])
    <2>1. PICK k \in 1..Len(BoundList) : BoundList[k] = TestOf(receipts[n])
      BY <1>3, <1>5 DEF TrustedOnly
    <2>2. BoundList[k].kind = "test"
      BY <1>5, <2>1
    <2>3. PICK i \in 1..Len(evidence) : evidence[i] = BoundList[k]
      BY <2>2, EvidenceIs DEF PromotedFrom
    <2>4. i \in S
      BY <1>1, <2>2, <2>3 DEF EvidenceOf
    <2> QED BY <2>1, <2>3, <2>4
  <1>8. \A i \in S : own(i) \in T /\ evidence[i] = TestOf(receipts[own(i)])
    BY <1>6
  <1> HIDE DEF own
  <1>9. /\ g \in [S -> T]
        /\ \A i \in S : g[i] \in T /\ evidence[i] = TestOf(receipts[g[i]])
    BY <1>8
  <1>10. \A x, y \in S : g[x] = g[y] => x = y
    <2> SUFFICES ASSUME NEW x \in S, NEW y \in S, g[x] = g[y] PROVE x = y
      OBVIOUS
    <2>1. evidence[x] = evidence[y]
      BY <1>9
    <2> QED BY <1>1, <2>1, EvidenceAlike
  <1>11. \A n \in T : \E x \in S : g[x] = n
    <2> TAKE n \in T
    <2>1. PICK i \in S : evidence[i] = TestOf(receipts[n])
      BY <1>7
    <2>2. receipts[g[i]].call = receipts[n].call /\ g[i] \in T
      BY <1>5, <1>9, <2>1
    <2>3. g[i] = n
      BY <1>2, <2>2 DEF TraceCore, ReceiptsAreOfRuns
    <2> QED BY <2>3
  <1>12. IsFiniteSet(S)
    <2> DEFINE l == Len(evidence)
    <2>1. evidence \in Seq(PromotedEvent)
      BY EvidenceIs DEF PromotedFrom
    <2>2. 1 \in Int /\ l \in Int
      BY <2>1
    <2>3. S \subseteq 1..l
      BY <1>1
    <2> HIDE DEF l, S
    <2>4. IsFiniteSet(1..l)
      BY ONLY <2>2, FS_Interval
    <2> QED BY ONLY <2>3, <2>4, FS_Subset
  <1>13. Cardinality(T) = Cardinality(S)
    <2> HIDE DEF S, T, g
    <2> QED BY ONLY <1>9, <1>10, <1>11, <1>12, SameNumber
  <1>14. {TestOf(r) : r \in {s \in ToSet(receipts) : Trusted(s)}} = {evidence[i] : i \in S}
    <2>1. ASSUME NEW r \in ToSet(receipts), Trusted(r)
          PROVE  \E i \in S : evidence[i] = TestOf(r)
      <3>1. PICK n \in 1..Len(receipts) : r = receipts[n]
        BY <1>2 DEF Elements
      <3> QED BY <1>2, <1>7, <2>1, <3>1
    <2>2. ASSUME NEW i \in S
          PROVE  \E r \in ToSet(receipts) : Trusted(r) /\ evidence[i] = TestOf(r)
      BY <1>5, <1>6
    <2> HIDE DEF S
    <2> QED BY <2>1, <2>2
  <1> QED BY <1>13, <1>14 DEF TestsAreTrustedRuns

LEMMA EvidenceCodesAreTheTests == ASSUME TraceInv PROVE NativeCodesAreTheTests
  <1> SUFFICES ASSUME ended, receipts = << >>, NEW i \in EvidenceOf("test")
               PROVE  NativeOf(evidence[i])
    BY DEF NativeCodesAreTheTests, NativeOf
  <1>1. TraceCore
    BY DEF TraceInv
  <1>2. i \in 1..Len(evidence) /\ evidence[i].kind = "test"
    BY EvidencePlaces DEF EvidenceOf
  <1>3. PICK place : EvidenceAt(place)
    BY EvidencePlaces
  <1>4. place[i] \in 1..Len(BoundList) /\ evidence[i] = BoundList[place[i]]
    BY <1>2, <1>3 DEF EvidenceAt
  <1>5. PICK k \in 1..Len(Reconciled) : evidence[i] = Reconciled[k]
    BY <1>2, <1>4, EvidenceIs DEF BoundFrom
  <1>6. PICK m \in 1..Len(told) : evidence[i] = told[m]
    BY <1>1, <1>2, <1>5, ReconciledIs DEF IsTest
  <1> QED BY <1>1, <1>2, <1>6 DEF TraceCore, ToldIsOfCalls, ToldOfCall

\* Of runs that followed one another, the one that began first ended first.
LEMMA PlacesFollow ==
    ASSUME TraceCore, ~together, NEW c \in Calls, NEW d \in Calls, IsRun(c), IsRun(d),
           outcome[c].start <= outcome[d].start
    PROVE  PlaceInTrace(c) <= PlaceInTrace(d)
  <1>1. truth \in Seq(Calls) /\ DOMAIN truth = 1..Len(truth) /\ Len(truth) \in Nat
    BY DEF TraceCore, TraceTypes
  <1>2. Distinct(truth) /\ c \in Elements(truth) /\ d \in Elements(truth)
    BY DEF TraceCore, CallsAreRuns
  <1>3. PICK p \in 1..Len(truth) : truth[p] = c
    BY <1>2 DEF Elements
  <1>4. PICK q \in 1..Len(truth) : truth[q] = d
    BY <1>2 DEF Elements
  <1>5. PlaceInTrace(c) = p /\ PlaceInTrace(d) = q
    BY <1>1, <1>2, <1>3, <1>4 DEF PlaceInTrace, Distinct
  <1>6. p \in Nat /\ q \in Nat
    BY <1>1
  <1>7. q < p => outcome[d].start < outcome[c].start
    BY <1>3, <1>4 DEF TraceCore, RunsFollow
  <1> DEFINE a == outcome[c].start
             b == outcome[d].start
  <1>8. a \in Nat /\ b \in Nat
    BY DEF TraceCore, TraceTypes, CallOutcome
  <1>9. a <= b /\ (q < p => b < a)
    BY <1>7
  <1> HIDE DEF a, b
  <1>10. p <= q
    BY ONLY <1>6, <1>8, <1>9
  <1> QED BY <1>5, <1>10

LEMMA EvidenceKeepsItsPlace == ASSUME TraceInv PROVE TestsKeepTheirPlace
  <1> SUFFICES ASSUME ended, ~together, AllShown PROVE InOrder
    BY DEF TestsKeepTheirPlace
  <1>1. TraceCore
    BY DEF TraceInv
  <1>2. Honest(Reconciled) /\ InTime(Reconciled)
    BY <1>1, ReconciledIs
  <1>3. ShownIn(Reconciled)
    <2>1. /\ DOMAIN told = 1..Len(told) /\ DOMAIN Reconciled = 1..Len(Reconciled)
          /\ \A k \in 1..Len(Reconciled) : k \in Tests(Reconciled) <=> IsTest(Reconciled[k])
      BY <1>1, <1>2, TestsAre DEF TraceCore, TraceTypes
    <2>2. ASSUME NEW k \in Tests(Reconciled) PROVE RunsTest(Reconciled[k].call)
      <3>1. k \in 1..Len(Reconciled) /\ IsTest(Reconciled[k])
        BY <2>1 DEF Tests
      <3>2. PICK i \in 1..Len(told) : Reconciled[k] = told[i]
        BY <1>1, <3>1, ReconciledIs
      <3> QED BY <2>1, <3>1, <3>2 DEF AllShown, Shown
    <2>3. ASSUME NEW r \in ToSet(receipts)
          PROVE  \E k \in Tests(Reconciled) : Reconciled[k].call = r.call
      <3>1. PICK i \in 1..Len(told) : IsTest(told[i]) /\ told[i].call = r.call
        BY <2>1 DEF AllShown, Shown
      <3>2. PICK k \in 1..Len(Reconciled) : Reconciled[k] = told[i]
        BY <1>1, <3>1, ReconciledIs
      <3> QED BY <2>1, <3>1, <3>2
    <2> QED BY <2>2, <2>3 DEF ShownIn
  <1>4. InTime(BoundList) /\ Honest(BoundList)
    BY <1>2, <1>3, EvidenceIs DEF BoundFrom
  <1>5. PICK place : EvidenceAt(place)
    BY EvidencePlaces
  <1> SUFFICES ASSUME NEW i \in EvidenceOf("test") \cup EvidenceOf("write"),
                      NEW j \in EvidenceOf("test") \cup EvidenceOf("write"), i < j
               PROVE  PlaceInTrace(evidence[i].call) <= PlaceInTrace(evidence[j].call)
    BY DEF InOrder
  <1>6. /\ i \in 1..Len(evidence) /\ evidence[i].kind \in {"test", "write"}
        /\ j \in 1..Len(evidence) /\ evidence[j].kind \in {"test", "write"}
    BY EvidencePlaces DEF EvidenceOf
  <1>7. /\ place[i] \in 1..Len(BoundList) /\ evidence[i] = BoundList[place[i]]
        /\ place[j] \in 1..Len(BoundList) /\ evidence[j] = BoundList[place[j]]
        /\ place[i] < place[j]
        /\ evidence[i] \in TraceEvent /\ evidence[j] \in TraceEvent
    BY <1>5, <1>6 DEF EvidenceAt
  <1>8. Timed(evidence[i]) /\ Timed(evidence[j])
    BY <1>6 DEF Timed, IsTest
  <1>9. /\ IsRun(evidence[i].call) /\ IsRun(evidence[j].call)
        /\ outcome[evidence[i].call].start <= outcome[evidence[j].call].start
    BY <1>4, <1>7, <1>8 DEF Honest, InTime
  <1>10. evidence[i].call \in Calls /\ evidence[j].call \in Calls
    BY <1>7 DEF TraceEvent
  <1> QED BY <1>1, <1>9, <1>10, PlacesFollow

LEMMA TraceInvSays ==
    ASSUME TraceInv
    PROVE  TraceTypeOK /\ TestsAreTrustedRuns /\ NativeCodesAreTheTests
           /\ TestsKeepTheirPlace /\ CountedOnce
  BY EvidenceIsTyped, EvidenceTestsAreTrusted, EvidenceCodesAreTheTests, EvidenceKeepsItsPlace,
     EventsAreCountedOnce

LEMMA TraceSteps ==
    ASSUME [Next]_evaluationVars, part' = "trace"
    PROVE  part = "trace" /\ [TraceNext]_traceVars
  BY DEF Next, evaluationVars, Only, BrokerStep, InputsStep, CaseStep, TddStep, PlanStep,
     AcceptanceStep, TriggerStep, ScoringStep, TraceStep, ProofStep

\* However an actor's tools overlap and its trace tells of them, the evidence is of runs:
\* the trusted receipts are its tests, each once and with the code the run had, and where
\* the actor waits and every test shows, tests and writes keep the order they ran in.
THEOREM EvidenceIsOfRunsHolds == Spec => []EvidenceIsOfRuns
  <1> DEFINE Inv == part = "trace" => TraceInv
  <1>1. Init => Inv
    BY InitTraceInv DEF Init
  <1>2. Inv /\ [Next]_evaluationVars => Inv'
    BY TraceSteps, NextTraceInv
  <1>3. Inv => EvidenceIsOfRuns
    BY TraceInvSays DEF EvidenceIsOfRuns
  <1> QED BY <1>1, <1>2, <1>3, PTL DEF Spec
===============================================================================
