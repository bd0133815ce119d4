------------------------------ MODULE MCHarness ------------------------------
(* One of three: the two ways the broker drives a harness, a Claude process  *)
(* behind the follow-up gate and a Codex app-server process, or the tunnel   *)
(* through which a harness reaches its provider.  The parts that do not run  *)
(* rest in a state where they are over.                                      *)
EXTENDS FollowupGate, TLC

CONSTANTS t1, t2, AppTurns, Room, OutRoom, MaxExtra, MaxUp, MaxDown, LinkRoom

VARIABLES
    part,
    client, result, appTrace, scanner, reaper, toServer, toClient, server, emitted, late,
    wire, shut, copier, request, actor, provider

codexVars ==
    <<client, result, appTrace, scanner, reaper, toServer, toClient, server, emitted, late>>
tunnelVars == <<wire, shut, copier, request, actor, provider>>

App == INSTANCE CodexAppServer WITH Turns <- AppTurns, trace <- appTrace
Tunnel == INSTANCE ProviderTunnel

ASSUME AppFits == App!AppConstants
ASSUME TunnelFits == Tunnel!TunnelConstants

Broken == {"announce", "faulty", "crash"}
Background == {"announce", "background", "faulty", "crash"}
Announcing == {"announce", "late", "background"}
Inner == {"late", "inner"}

\* With "announce" and "inner" at once the gate takes an inner result for the root.
Unruly == {Broken, Background, Announcing, Inner}

AppOver ==
    /\ client = [at |-> "returned", id |-> 1, back |-> "send"]
    /\ result = App!NoResult
    /\ appTrace = << >> /\ emitted = << >>
    /\ scanner = [at |-> "done", held |-> App!NoFrame, err |-> FALSE]
    /\ reaper = "reaped"
    /\ toServer = << >> /\ toClient = << >>
    /\ server = [up |-> FALSE, owes |-> 0, turn |-> 0, done |-> 0, extra |-> 0,
                 signal |-> "kill", garbled |-> FALSE]
    /\ late = TRUE

GateOver ==
    /\ gate = NewGate /\ ready = FALSE
    /\ writer = "finished" /\ begun = 0 /\ stdin = 0 /\ eof = TRUE
    /\ cli = [NewCli EXCEPT !.exited = TRUE]
    /\ pipe = << >> /\ trace = NewTrace
    /\ rc = 125 /\ habits = Broken

NoTunnel ==
    /\ wire = [l \in Tunnel!Links |-> [up |-> << >>, down |-> << >>]]
    /\ shut = [l \in Tunnel!Links |-> {"near", "far"}]
    /\ copier = [c \in Tunnel!Copiers |-> [at |-> "done", held |-> 0]]
    /\ request = "over"
    /\ actor = [allowed |-> FALSE, patient |-> FALSE, asked |-> FALSE, reply |-> Tunnel!Unasked,
                sent |-> 0, got |-> << >>, half |-> TRUE, eof |-> TRUE]
    /\ provider = [sent |-> 0, got |-> << >>]

MCInit ==
    \/ part = "claude" /\ Init /\ AppOver /\ NoTunnel
    \/ part = "codex" /\ App!AppInit /\ GateOver /\ NoTunnel
    \/ part = "tunnel" /\ Tunnel!TunnelInit /\ GateOver /\ AppOver

ClaudeStep == part = "claude" /\ Next /\ UNCHANGED <<part, codexVars, tunnelVars>>
CodexStep == part = "codex" /\ App!AppNext /\ UNCHANGED <<part, vars, tunnelVars>>
TunnelStep == part = "tunnel" /\ Tunnel!TunnelNext /\ UNCHANGED <<part, vars, codexVars>>

MCNext == ClaudeStep \/ CodexStep \/ TunnelStep

\* Fairness, AppFairness and TunnelFairness, each for the part that runs.
MCSpec ==
    /\ MCInit /\ [][MCNext]_<<part, vars, codexVars, tunnelVars>>
    /\ WF_vars(part = "claude" /\ Observe) /\ WF_vars(part = "claude" /\ Writer)
    /\ WF_vars(part = "claude" /\ CliDue)
    /\ WF_codexVars(part = "codex" /\ App!Client) /\ WF_codexVars(part = "codex" /\ App!Goroutines)
    /\ WF_codexVars(part = "codex" /\ App!DeadlinePasses)
    /\ WF_codexVars(part = "codex" /\ App!ServerKilled)
    /\ WF_tunnelVars(part = "tunnel" /\ Tunnel!TunnelRuns)

\* The Codex client's run has the outcome its server gave it: success when every turn was
\* completed, "closed" when the server closed before; its trace has no gap, and when it has
\* returned no goroutine of it runs on and the process is gone (runCodexAppServer).
CodexOutcome ==
    part = "codex" =>
      /\ App!AppTypeOK /\ App!DoneMeansAllCompleted /\ App!TraceHasNoGaps
      /\ App!ClosedMeansUnfinished /\ App!OneTurnAtATime /\ App!NothingRunsOn

\* A tunnel gives each end what the other one sent, from the first frame on and in order, and
\* a provider that has read everything and ends the connection cuts no answer short, whatever
\* the two hops still held (bridgeConnection, startRestrictedConnectProxy).
TunnelIsFaithful ==
    part = "tunnel" => Tunnel!TunnelTypeOK /\ Tunnel!NothingSkipped /\ Tunnel!AnswerIsWhole

\* A Claude run ends without its timeout; whatever the Codex server does, its run is over once
\* the deadline has passed; and a tunnel one end of which is gone leaves nothing behind.
\* Terminates, EndsByDeadline and TunnelEnds in one formula: the parts that rest are over.
EveryRunEnds ==
    part = "claude" \/ (part = "codex" /\ late) \/ (part = "tunnel" /\ Tunnel!Released)
      ~> writer = "finished" /\ client.at = "returned" /\ Tunnel!TunnelOver
==============================================================================
