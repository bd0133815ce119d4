--------------------------- MODULE TransportProofs ---------------------------
(***************************************************************************)
(* What a run's two transports guarantee: the Codex app-server client      *)
(* (CodexAppServer), for any number of turns and any size of the two       *)
(* pipes, and the tunnel to a provider (ProviderTunnel), for links of any  *)
(* size and any number of frames.  Nothing here relates the one to the     *)
(* other.                                                                  *)
(*                                                                         *)
(* The client.  Between it and the server lie the frames the server has    *)
(* written and the client has not received.  A view says how far the one   *)
(* request that may be outstanding has come at a place of this stream: the *)
(* first view is the client's, each frame leads to the next, the last is   *)
(* the server's.                                                           *)
(*                                                                         *)
(* The tunnel.  Frames going up are numbered as they are sent, the CONNECT *)
(* 0; frames going down are counted, the proxy's reply first.  The         *)
(* invariant says of each link and of each goroutine which frames it has,  *)
(* as long as those behind it can still get to the end they are for; and   *)
(* of each goroutine that has left, why.                                   *)
(***************************************************************************)
EXTENDS CodexAppServer, ProviderTunnel, TLAPS

-----------------------------------------------------------------------------
(* Types *)

Kinds ==
    Notifications \cup Answers \cup {"ask", "garbage", "request", "initialized", "refusal", "none"}
Frames == [kind : Kinds, id : Nat]

ClientRecord ==
    [at : {"send", "notify", "reply", "await", "turn", "stop", "grace", "reap", "returned"},
     id : 1..LastRequest, back : {"send", "await", "turn"}]
ScannerRecord == [at : {"read", "offer", "done"}, held : Frames, err : BOOLEAN]
ServerRecord ==
    [up : BOOLEAN, owes : Nat, turn : Nat, done : Nat, extra : Nat,
     signal : {"none", "term", "kill"}, garbled : BOOLEAN]

TypesOK ==
    /\ client \in ClientRecord
    /\ client.at = "reply" => client.back # "send"
    /\ result.rc \in {-1, 0, 124, 125}
    /\ trace \in Seq(Notifications) /\ emitted \in Seq(Notifications)
    /\ scanner \in ScannerRecord
    /\ reaper \in {"scan", "wait", "reaped"}
    /\ toServer \in Seq(Frames) /\ Len(toServer) <= Room
    /\ toClient \in Seq(Frames) /\ Len(toClient) <= OutRoom
    /\ server \in ServerRecord
    /\ late \in BOOLEAN

-----------------------------------------------------------------------------
(* The server's work, the end of a run.  The operators take the states they  *)
(* are about as parameters, so that they serve before and after a step.      *)

Over(c) == c.at \in {"stop", "grace", "reap", "returned"}

Asked(q) == \E i \in 1..Len(q) : q[i].kind = "request"

\* Turns completed before request k is sent.
Before(k) == IF k > Handshake THEN k - Handshake - 1 ELSE 0

\* Request k is the one outstanding, and the turn it starts is the next.
IsNext(k, s) == s.turn = s.done /\ (k > Handshake => s.done = Before(k))

Requests(s, q) ==
    /\ s.turn \in {s.done, s.done + 1}
    /\ s.owes # 0 => IsNext(s.owes, s) /\ ~Asked(q)
    /\ \A i \in 1..Len(q) : q[i].kind = "request" =>
         /\ q[i].id # 0 /\ IsNext(q[i].id, s) /\ s.owes = 0
         /\ \A j \in 1..Len(q) : q[j].kind = "request" => j = i

Idle(s, q) == s.owes = 0 /\ ~Asked(q) /\ s.turn = s.done

\* A client about to send has nothing outstanding.
Sends(c, s, q) == c.at \in {"send", "notify"} => Idle(s, q) /\ s.done = Before(c.id)

Outcome(c, r, s, q, l) ==
    /\ ~Over(c) => r = NoResult
    /\ r.rc = 0 => Idle(s, q) /\ s.done = Turns
    /\ r.why = "closed" => l \/ (s.done < Turns /\ ~s.up)

ReaperOK ==
    /\ reaper # "scan" => scanner.at = "done"
    /\ reaper = "reaped" => ~server.up
    /\ client.at = "returned" => reaper = "reaped"

\* A scanner that ends in order, before the deadline, has read all a closed server wrote.
ScannerOK ==
    scanner.at = "done" /\ ~scanner.err /\ ~late /\ ~Over(client) =>
      toClient = << >> /\ ~server.up

TraceOK == Len(trace) <= Len(emitted) /\ \A i \in 1..Len(trace) : trace[i] = emitted[i]

-----------------------------------------------------------------------------
(* The stream *)

\* phase: nothing is outstanding, an answer is, the turn's end is, or neither will come in
\* order; done: turns completed; pos: notifications seen.
View == [phase : {"idle", "asked", "turn", "broken"}, done : Nat, pos : Nat]

\* What frame f tells a reader who knows that request k is the last.
ViewStep(v, f, k) ==
    [phase |-> IF f.kind = "result" /\ f.id = k THEN (IF k > Handshake THEN "turn" ELSE "idle")
               ELSE IF f.kind \in Answers \cup {"failed"} THEN "broken"
               ELSE IF f.kind = "completed" THEN "idle"
               ELSE v.phase,
     done |-> IF f.kind = "completed" THEN v.done + 1 ELSE v.done,
     pos |-> IF f.kind \in Notifications THEN v.pos + 1 ELSE v.pos]

Legal(v, f, e) ==
    /\ f.kind \in Answers => v.phase = "asked"
    /\ f.kind \in {"completed", "failed"} => v.phase = "turn"
    /\ f.kind \in Notifications => v.pos + 1 <= Len(e) /\ e[v.pos + 1] = f.kind

\* From view to view along the n frames f; nothing comes after what is idle or broken.
Path(vs, f, n, k, e) ==
    /\ \A i \in 1..n : Legal(vs[i], f[i], e) /\ vs[i + 1] = ViewStep(vs[i], f[i], k)
    /\ \A i, j \in 1..n + 1 : i <= j /\ vs[i].phase \in {"idle", "broken"} =>
         vs[j].phase = vs[i].phase /\ vs[j].done = vs[i].done

\* The frames on their way: the one the scanner holds, and those in the pipe.
OnTheWay(sc, q) == IF sc.at = "offer" THEN Len(q) + 1 ELSE Len(q)
Ahead(sc, q) ==
    [i \in 1..OnTheWay(sc, q) |->
       IF sc.at = "offer" THEN (IF i = 1 THEN sc.held ELSE q[i - 1]) ELSE q[i]]

\* Where the client is, a refusal it is still to write aside.
Place(c) == IF c.at = "reply" THEN c.back ELSE c.at

ClientAt(v, c, t) ==
    /\ v.phase = (IF Place(c) = "await" THEN "asked" ELSE IF Place(c) = "turn" THEN "turn" ELSE "idle")
    /\ v.done = Before(c.id)
    /\ v.pos = Len(t)
    /\ Place(c) = "turn" => c.id > Handshake

ServerAt(v, s, q, e, k) ==
    /\ v.done = s.done
    /\ v.pos = Len(e)
    /\ v.phase \in {"idle", "broken"} => Idle(s, q)
    /\ v.phase = "turn" => s.owes = 0 /\ ~Asked(q) /\ s.turn = s.done + 1
    /\ v.phase = "asked" =>
         /\ s.turn = s.done
         /\ s.owes # 0 => s.owes = k
         /\ \A i \in 1..Len(q) : q[i].kind = "request" => q[i].id = k

\* n frames f lead from the client c with trace t to the server s that has emitted e.
Linked(f, n, c, t, s, q, e) ==
    \E vs \in [1..n + 1 -> View] :
      /\ Path(vs, f, n, c.id, e)
      /\ ClientAt(vs[1], c, t)
      /\ ServerAt(vs[n + 1], s, q, e, c.id)

Watched(c, sc, l) == ~Over(c) /\ (sc.at # "done" \/ (~sc.err /\ ~l))

Stream ==
    Watched(client, scanner, late) =>
      Linked(Ahead(scanner, toClient), OnTheWay(scanner, toClient), client, trace,
             server, toServer, emitted)

AppInv ==
    /\ TypesOK
    /\ Requests(server, toServer) /\ Sends(client, server, toServer)
    /\ Outcome(client, result, server, toServer, late)
    /\ ReaperOK /\ ScannerOK /\ TraceOK
    /\ Stream

-----------------------------------------------------------------------------
(* Types *)

LEMMA ClientFields ==
    ASSUME NEW c \in ClientRecord
    PROVE  /\ \A a \in {"send", "notify", "await", "turn", "stop", "grace", "reap", "returned"} :
                /\ [c EXCEPT !.at = a] \in ClientRecord
                /\ [c EXCEPT !.at = a].at = a
                /\ [c EXCEPT !.at = a].id = c.id
           /\ \A a \in {"send", "notify", "await", "turn"}, i \in 1..LastRequest :
                /\ [c EXCEPT !.at = a, !.id = i] \in ClientRecord
                /\ [c EXCEPT !.at = a, !.id = i].at = a
                /\ [c EXCEPT !.at = a, !.id = i].id = i
           /\ \A b \in {"send", "await", "turn"} :
                /\ [c EXCEPT !.at = "reply", !.back = b] \in ClientRecord
                /\ [c EXCEPT !.at = "reply", !.back = b].at = "reply"
                /\ [c EXCEPT !.at = "reply", !.back = b].back = b
                /\ [c EXCEPT !.at = "reply", !.back = b].id = c.id
  BY DEF ClientRecord

LEMMA ScannerFields ==
    ASSUME NEW s \in ScannerRecord
    PROVE  /\ \A a \in {"read", "offer", "done"}, f \in Frames :
                /\ [s EXCEPT !.at = a, !.held = f] \in ScannerRecord
                /\ [s EXCEPT !.at = a, !.held = f].at = a
                /\ [s EXCEPT !.at = a, !.held = f].held = f
                /\ [s EXCEPT !.at = a, !.held = f].err = s.err
           /\ [s EXCEPT !.at = "done", !.err = TRUE] \in ScannerRecord
           /\ [s EXCEPT !.at = "done", !.err = TRUE].at = "done"
           /\ [s EXCEPT !.at = "done", !.err = TRUE].err = TRUE
           /\ [s EXCEPT !.at = "done"] \in ScannerRecord
           /\ [s EXCEPT !.at = "done"].at = "done"
           /\ [s EXCEPT !.at = "done"].err = s.err
  BY DEF ScannerRecord

LEMMA ServerFields ==
    ASSUME NEW s \in ServerRecord
    PROVE  /\ \A x \in {"none", "term", "kill"} : [s EXCEPT !.signal = x] \in ServerRecord
           /\ [s EXCEPT !.up = FALSE] \in ServerRecord
           /\ \A n \in Nat : [s EXCEPT !.owes = n] \in ServerRecord
           /\ \A n, m \in Nat : [s EXCEPT !.owes = n, !.turn = m] \in ServerRecord
           /\ \A n, m \in Nat : [s EXCEPT !.owes = n, !.extra = m] \in ServerRecord
           /\ \A n \in Nat, b \in BOOLEAN : [s EXCEPT !.extra = n, !.garbled = b] \in ServerRecord
           /\ \A n, m \in Nat : [s EXCEPT !.turn = n, !.done = m] \in ServerRecord
  BY DEF ServerRecord

LEMMA InitTypes ==
    ASSUME AppConstants, AppInit
    PROVE  TypesOK
  <1>1. NoFrame \in Frames
    BY DEF NoFrame, Frame, Frames, Kinds
  <1>2. client \in ClientRecord /\ client.at = "send"
    BY DEF AppConstants, AppInit, ClientRecord, LastRequest, Handshake
  <1>3. scanner \in ScannerRecord
    BY <1>1 DEF AppInit, ScannerRecord
  <1>4. server \in ServerRecord
    BY DEF AppInit, ServerRecord
  <1>5. << >> \in Seq(Notifications) /\ << >> \in Seq(Frames) /\ Len(<< >>) = 0
    OBVIOUS
  <1>6. result.rc = -1
    BY DEF AppInit, NoResult
  <1>7. /\ trace = << >> /\ emitted = << >> /\ toServer = << >> /\ toClient = << >>
        /\ reaper = "scan" /\ late = FALSE
    BY DEF AppInit
  <1>8. Room \in Nat /\ OutRoom \in Nat
    BY DEF AppConstants
  <1>9. /\ client \in ClientRecord /\ (client.at = "reply" => client.back # "send")
        /\ result.rc \in {-1, 0, 124, 125}
        /\ scanner \in ScannerRecord /\ server \in ServerRecord
        /\ reaper \in {"scan", "wait", "reaped"} /\ late \in BOOLEAN
    BY <1>2, <1>3, <1>4, <1>6, <1>7
  <1> QED BY <1>5, <1>7, <1>8, <1>9 DEF TypesOK

\* What a write does to the stdin pipe.
LEMMA WriteTypes ==
    ASSUME AppConstants, TypesOK, NEW frame \in Frames, WriteFrame(frame)
    PROVE  /\ toServer' \in Seq(Frames) /\ Len(toServer') <= Room
           /\ Len(toServer') = Len(toServer) + 1
           /\ toServer'[Len(toServer')] = frame
           /\ \A i \in 1..Len(toServer) : toServer'[i] = toServer[i]
  BY DEF AppConstants, TypesOK, WriteFrame

\* What the server's write does to the stdout pipe and to what it has emitted.
LEMMA EmitTypes ==
    ASSUME AppConstants, TypesOK, NEW frame \in Frames, Emit(frame)
    PROVE  /\ server.up
           /\ toClient' \in Seq(Frames) /\ Len(toClient') <= OutRoom
           /\ Len(toClient') = Len(toClient) + 1
           /\ toClient'[Len(toClient')] = frame
           /\ \A i \in 1..Len(toClient) : toClient'[i] = toClient[i]
           /\ emitted' \in Seq(Notifications)
           /\ \A i \in 1..Len(emitted) : emitted'[i] = emitted[i]
           /\ frame.kind \in Notifications =>
                Len(emitted') = Len(emitted) + 1 /\ emitted'[Len(emitted')] = frame.kind
           /\ frame.kind \notin Notifications => emitted' = emitted
  BY DEF AppConstants, TypesOK, Emit

\* The frames that are written.
LEMMA FrameTypes ==
    ASSUME NEW n \in Nat, NEW kind \in Kinds
    PROVE  Frame(kind, n) \in Frames /\ Frame(kind, n).kind = kind /\ Frame(kind, n).id = n
  BY DEF Frame, Frames

LEMMA ClientTypes ==
    ASSUME AppConstants, TypesOK, Client
    PROVE  TypesOK'
  <1> USE DEF AppConstants
  <1>0. /\ client \in ClientRecord
        /\ client.id \in 1..LastRequest /\ client.id \in Nat
        /\ client.at \in {"send", "notify", "reply", "await", "turn", "stop", "grace", "reap", "returned"}
        /\ client.back \in {"send", "await", "turn"}
        /\ client.at = "reply" => client.back # "send"
    BY DEF TypesOK, ClientRecord, LastRequest, Handshake
  <1>a. client \in ClientRecord
    BY <1>0
  <1>b. [client EXCEPT !.at = "stop"] \in ClientRecord /\ [client EXCEPT !.at = "stop"].at = "stop"
    BY <1>a, ClientFields
  <1>1. ASSUME NEW frame \in Frames, NEW a \in {"send", "await", "turn"}, WriteFrame(frame),
               client' = [client EXCEPT !.at = a],
               UNCHANGED <<result, trace, scanner, reaper, toClient, server, emitted, late>>
        PROVE  TypesOK'
    <2>1. client' \in ClientRecord /\ client'.at = a
      <3>1. a \in {"send", "notify", "await", "turn", "stop", "grace", "reap", "returned"}
        OBVIOUS
      <3>2. [client EXCEPT !.at = a] \in ClientRecord
        BY <1>a, <3>1 DEF ClientRecord
      <3>3. [client EXCEPT !.at = a].at = a
        BY <1>a DEF ClientRecord
      <3> QED BY <1>1, <3>2, <3>3
    <2> QED BY <1>1, <2>1, WriteTypes DEF TypesOK
  <1>2. ASSUME NEW rc \in {0, 124, 125}, NEW why, NEW timedOut, Finish(rc, why, timedOut),
               UNCHANGED <<scanner, reaper, toServer, toClient, server, emitted, late>>,
               trace' \in Seq(Notifications)
        PROVE  TypesOK'
    <2>1. client' \in ClientRecord /\ client'.at = "stop"
      BY <1>2, <1>b DEF Finish
    <2> QED BY <1>2, <2>1 DEF TypesOK, Finish
  <1>3. CASE AppSend
    <2>1. Frame("request", client.id) \in Frames
      BY <1>0, FrameTypes DEF Kinds
    <2> QED BY <1>3, <2>1, <1>1 DEF AppSend
  <1>4. CASE AppNotify
    <2>1. Frame("initialized", 0) \in Frames
      BY FrameTypes DEF Kinds
    <2> QED BY <1>4, <2>1, <1>1 DEF AppNotify
  <1>5. CASE AppRefuse
    <2>1. Frame("refusal", 0) \in Frames
      BY FrameTypes DEF Kinds
    <2> QED BY <1>5, <2>1, <1>1, <1>0 DEF AppRefuse
  <1>6. CASE AppWriteFails
    BY <1>6, <1>2 DEF AppWriteFails, TypesOK
  <1>7. CASE AppReceive
    <2> DEFINE frame == scanner.held
    <2>1. frame \in Frames /\ scanner' \in ScannerRecord
      <3>1. NoFrame \in Frames
        BY FrameTypes DEF NoFrame, Kinds
      <3>2. scanner \in ScannerRecord
        BY DEF TypesOK
      <3>3. scanner' \in ScannerRecord
        BY <1>7, <3>1, <3>2, ScannerFields DEF AppReceive
      <3> QED BY <3>2, <3>3 DEF ScannerRecord
    <2>2. Kept(frame) \in Seq(Notifications)
      BY DEF TypesOK, Kept
    <2>3. ASSUME client' \in ClientRecord, client'.at = "reply" => client'.back # "send",
                 result' = result, trace' \in Seq(Notifications)
          PROVE  TypesOK'
      BY <1>7, <2>1, <2>3 DEF AppReceive, TypesOK
    <2>4. ASSUME NEW rc \in {0, 124, 125}, NEW why, NEW timedOut, Finish(rc, why, timedOut),
                 trace' \in Seq(Notifications)
          PROVE  TypesOK'
      <3>1. client' \in ClientRecord /\ client'.at = "stop"
        BY <2>4, <1>b DEF Finish
      <3> QED BY <1>7, <2>1, <2>4, <3>1 DEF AppReceive, TypesOK, Finish
    <2>5. CASE /\ client' = [client EXCEPT !.at = "reply", !.back = client.at]
               /\ UNCHANGED <<result, trace>>
      <3>1. client.at \in {"await", "turn"}
        BY <1>7 DEF AppReceive
      <3>2. client' \in ClientRecord /\ client'.back # "send"
        BY <2>5, <3>1, <1>0, ClientFields
      <3> QED BY <2>5, <3>2, <2>3 DEF TypesOK
    <2>6. CASE trace' = Kept(frame) /\ client.at = "await" /\ Await(frame)
      <3>1. CASE UNCHANGED <<client, result>>
        BY <2>6, <3>1, <2>2, <2>3, <1>0
      <3>2. CASE Finish(125, "answer", FALSE)
        BY <2>6, <3>2, <2>2, <2>4
      <3>3. CASE /\ client' = CASE client.id = 1 -> [client EXCEPT !.at = "notify", !.id = 2]
                                [] client.id \in 2..Handshake ->
                                     [client EXCEPT !.at = "send", !.id = client.id + 1]
                                [] OTHER -> [client EXCEPT !.at = "turn"]
                 /\ UNCHANGED result
        <4>1. CASE client.id = 1
          <5>1. client' = [client EXCEPT !.at = "notify", !.id = 2] /\ 2 \in 1..LastRequest
            BY <3>3, <4>1 DEF LastRequest, Handshake
          <5> DEFINE d == [client EXCEPT !.at = "notify", !.id = 2]
          <5>3. d \in ClientRecord
            BY <5>1, <1>a DEF ClientRecord
          <5>4. d.at = "notify"
            BY <1>a DEF ClientRecord
          <5>2. client' \in ClientRecord /\ client'.at = "notify"
            BY <5>1, <5>3, <5>4
          <5> QED BY <5>2, <3>3, <2>6, <2>2, <2>3
        <4>2. CASE client.id \in 2..Handshake
          <5>1. /\ client' = [client EXCEPT !.at = "send", !.id = client.id + 1]
                /\ client.id + 1 \in 1..LastRequest
            BY <3>3, <4>2 DEF LastRequest, Handshake
          <5> DEFINE i == client.id + 1
                     d == [client EXCEPT !.at = "send", !.id = i]
          <5>3. d \in ClientRecord /\ d.at = "send"
            <6>1. i \in 1..LastRequest
              BY <5>1
            <6> HIDE DEF i
            <6>2. d \in ClientRecord
              BY <6>1, <1>a DEF ClientRecord
            <6>3. d.at = "send"
              BY <1>a DEF ClientRecord
            <6> QED BY <6>2, <6>3
          <5>2. client' \in ClientRecord /\ client'.at = "send"
            BY <5>1, <5>3
          <5> QED BY <5>2, <3>3, <2>6, <2>2, <2>3
        <4>3. CASE client.id # 1 /\ client.id \notin 2..Handshake
          <5>1. client' = [client EXCEPT !.at = "turn"]
            BY <3>3, <4>3
          <5>2. client' \in ClientRecord /\ client'.at = "turn"
            BY <5>1, <1>a, ClientFields
          <5> QED BY <5>2, <3>3, <2>6, <2>2, <2>3
        <4> QED BY <4>1, <4>2, <4>3
      <3> QED BY <2>6, <3>1, <3>2, <3>3 DEF Await
    <2>7. CASE trace' = Kept(frame) /\ client.at # "await" /\ InTurn(frame)
      <3>1. CASE UNCHANGED <<client, result>>
        BY <2>7, <3>1, <2>2, <2>3, <1>0
      <3>2. CASE Finish(125, "turn", FALSE)
        BY <2>7, <3>2, <2>2, <2>4
      <3>3. CASE MoreTurns /\ client' = [client EXCEPT !.at = "send", !.id = @ + 1] /\ UNCHANGED result
        <4>1. client' = [client EXCEPT !.at = "send", !.id = client.id + 1]
          BY <3>3
        <4>2. client.id + 1 \in 1..LastRequest
          BY <3>3, <1>0 DEF MoreTurns, LastRequest, Handshake
        <4> DEFINE i == client.id + 1
                   d == [client EXCEPT !.at = "send", !.id = i]
        <4>5. d \in ClientRecord /\ d.at = "send"
          <5>1. i \in 1..LastRequest
            BY <4>2
          <5> HIDE DEF i
          <5>2. d \in ClientRecord
            BY <5>1, <1>a DEF ClientRecord
          <5>3. d.at = "send"
            BY <1>a DEF ClientRecord
          <5> QED BY <5>2, <5>3
        <4>3. client' \in ClientRecord /\ client'.at = "send"
          BY <4>1, <4>5
        <4> QED BY <4>3, <3>3, <2>7, <2>2, <2>3
      <3>4. CASE Finish(0, "done", FALSE)
        BY <2>7, <3>4, <2>2, <2>4
      <3> QED BY <2>7, <3>1, <3>2, <3>3, <3>4 DEF InTurn
    <2> QED BY <1>7, <2>5, <2>6, <2>7 DEF AppReceive
  <1>8. CASE AppClosed
    <2>1. PICK why \in {"json", "closed"} : Finish(125, why, FALSE)
      BY <1>8 DEF AppClosed
    <2>2. /\ UNCHANGED <<scanner, reaper, toServer, toClient, server, emitted, late>>
          /\ trace' \in Seq(Notifications)
      BY <1>8 DEF AppClosed, TypesOK
    <2> QED BY <2>1, <2>2, <1>2
  <1>9. CASE AppDeadline
    <2>0. /\ UNCHANGED <<scanner, reaper, toServer, toClient, server, emitted, late>>
          /\ trace' \in Seq(Notifications)
      BY <1>9 DEF AppDeadline, TypesOK
    <2>1. CASE Finish(124, "deadline", TRUE)
      BY <2>0, <2>1, <1>2
    <2>2. CASE Finish(125, "deadline", FALSE)
      BY <2>0, <2>2, <1>2
    <2> QED BY <1>9, <2>1, <2>2 DEF AppDeadline
  <1>10. CASE AppStop \/ AppKill
    <2>1. /\ client' \in ClientRecord /\ client'.at # "reply"
          /\ server' \in ServerRecord
      <3>1. server \in ServerRecord
        BY DEF TypesOK
      <3>2. CASE AppStop
        BY <3>2, <1>a, <3>1, ClientFields, ServerFields DEF AppStop
      <3>3. CASE AppKill
        BY <3>3, <1>a, <3>1, ClientFields, ServerFields DEF AppKill
      <3> QED BY <1>10, <3>2, <3>3
    <2> QED BY <1>10, <2>1 DEF AppStop, AppKill, TypesOK
  <1>11. CASE AppReturn
    <2>1. client' \in ClientRecord /\ client'.at # "reply"
      BY <1>11, <1>0, ClientFields DEF AppReturn
    <2> QED BY <1>11, <2>1 DEF AppReturn, TypesOK
  <1> QED BY <1>3, <1>4, <1>5, <1>6, <1>7, <1>8, <1>9, <1>10, <1>11 DEF Client

LEMMA GoroutineTypes ==
    ASSUME AppConstants, TypesOK, Goroutines
    PROVE  TypesOK'
  <1>1. NoFrame \in Frames
    BY FrameTypes DEF NoFrame, Kinds
  <1>2. CASE ScanLine
    <2>1. /\ toClient' \in Seq(Frames) /\ Len(toClient') <= OutRoom
          /\ Head(toClient) \in Frames
      BY <1>2 DEF ScanLine, TypesOK, AppConstants
    <2>2. scanner' \in ScannerRecord
      <3>1. scanner \in ScannerRecord
        BY DEF TypesOK
      <3> QED BY <1>2, <2>1, <3>1, ScannerFields DEF ScanLine
    <2> QED BY <1>2, <2>1, <2>2 DEF ScanLine, TypesOK
  <1>3. CASE ScanEnd \/ ScanCancelled
    <2>1. scanner' \in ScannerRecord
      <3>1. scanner \in ScannerRecord
        BY DEF TypesOK
      <3>2. CASE ScanEnd
        BY <3>1, <3>2, ScannerFields DEF ScanEnd
      <3>3. CASE ScanCancelled
        BY <1>1, <3>1, <3>3, ScannerFields DEF ScanCancelled
      <3> QED BY <1>3, <3>2, <3>3
    <2> QED BY <1>3, <2>1 DEF ScanEnd, ScanCancelled, TypesOK
  <1>4. CASE ReapStart \/ Reap
    BY <1>4 DEF ReapStart, Reap, TypesOK
  <1> QED BY <1>2, <1>3, <1>4 DEF Goroutines

LEMMA ServerTypes ==
    ASSUME AppConstants, TypesOK, Requests(server, toServer), Server
    PROVE  TypesOK'
  <1> USE DEF AppConstants
  <1>0. /\ server \in ServerRecord
        /\ server.owes \in Nat /\ server.turn \in Nat /\ server.done \in Nat /\ server.extra \in Nat
        /\ server.garbled \in BOOLEAN
    BY DEF TypesOK, ServerRecord
  <1>1. ASSUME NEW frame \in Frames, Emit(frame), server' \in ServerRecord,
               UNCHANGED <<client, result, trace, scanner, reaper, toServer, late>>
        PROVE  TypesOK'
    BY <1>1, EmitTypes DEF TypesOK
  <1>2. CASE ServerTake
    <2>1. /\ toServer' \in Seq(Frames) /\ Len(toServer') <= Room
          /\ Head(toServer) \in Frames
      BY <1>2 DEF ServerTake, TypesOK
    <2>3. Head(toServer).id \in Nat
      BY <2>1 DEF Frames
    <2>2. server' \in ServerRecord
      BY <1>2, <2>3, <1>0, ServerFields DEF ServerTake
    <2> QED BY <1>2, <2>1, <2>2 DEF ServerTake, TypesOK
  <1>3. CASE ServerAnswer
    <2>1. Frame("result", server.owes) \in Frames
      BY <1>0, FrameTypes DEF Kinds, Answers
    <2> DEFINE m == IF server.owes > Handshake THEN server.owes - Handshake ELSE server.turn
    <2>2. m \in Nat
      BY <1>0 DEF Handshake
    <2>3. server' = [server EXCEPT !.owes = 0, !.turn = m]
      BY <1>3 DEF ServerAnswer
    <2>4. server' \in ServerRecord
      <3> HIDE DEF m
      <3> QED BY <2>2, <2>3, <1>0, ServerFields
    <2> QED BY <1>3, <2>1, <2>4, <1>1 DEF ServerAnswer
  <1>4. CASE ServerMisanswers
    <2>1. PICK frame \in {Frame("error", server.owes), Frame("odd", server.owes),
                          Frame("result", server.owes + 1)} : Emit(frame)
      BY <1>4 DEF ServerMisanswers
    <2>2. frame \in Frames
      BY <2>1, <1>0, FrameTypes DEF Kinds, Answers
    <2> DEFINE m == server.extra + 1
    <2>3. m \in Nat /\ server' = [server EXCEPT !.owes = 0, !.extra = m]
      BY <1>4, <1>0 DEF ServerMisanswers
    <2>4. server' \in ServerRecord
      <3> HIDE DEF m
      <3> QED BY <2>3, <1>0, ServerFields
    <2> QED BY <1>4, <2>1, <2>2, <2>4, <1>1 DEF ServerMisanswers
  <1>5. CASE ServerExtra
    <2>1. PICK kind \in {"note", "foreign", "ask", "garbage"} :
            /\ Emit(Frame(kind, 0))
            /\ server' = [server EXCEPT !.extra = @ + 1, !.garbled = @ \/ kind = "garbage"]
      BY <1>5 DEF ServerExtra
    <2>2. Frame(kind, 0) \in Frames
      BY <2>1, FrameTypes DEF Kinds, Notifications
    <2> DEFINE m == server.extra + 1
               b == server.garbled \/ kind = "garbage"
    <2>3. m \in Nat /\ b \in BOOLEAN /\ server' = [server EXCEPT !.extra = m, !.garbled = b]
      BY <2>1, <1>0
    <2>4. server' \in ServerRecord
      <3> HIDE DEF m, b
      <3> QED BY <2>3, <1>0, ServerFields
    <2> QED BY <1>5, <2>1, <2>2, <2>4, <1>1 DEF ServerExtra
  <1>6. CASE ServerEndsTurn
    <2>1. PICK kind \in {"completed", "failed"} :
            /\ Emit(Frame(kind, 0))
            /\ server' = [server EXCEPT !.turn = IF kind = "completed" THEN @ ELSE server.done,
                                        !.done = IF kind = "completed" THEN server.turn ELSE @]
      BY <1>6 DEF ServerEndsTurn
    <2>2. Frame(kind, 0) \in Frames
      BY <2>1, FrameTypes DEF Kinds, Notifications
    <2> DEFINE n == IF kind = "completed" THEN server.turn ELSE server.done
               m == IF kind = "completed" THEN server.turn ELSE server.done
    <2>3. n \in Nat /\ m \in Nat /\ server' = [server EXCEPT !.turn = n, !.done = m]
      BY <2>1, <1>0
    <2>4. server' \in ServerRecord
      <3> HIDE DEF n, m
      <3> QED BY <2>3, <1>0, ServerFields
    <2> QED BY <1>6, <2>1, <2>2, <2>4, <1>1 DEF ServerEndsTurn
  <1>7. CASE ServerExit
    <2>1. server' \in ServerRecord
      BY <1>7, <1>0, ServerFields DEF ServerExit
    <2> QED BY <1>7, <2>1 DEF ServerExit, TypesOK
  <1> QED BY <1>2, <1>3, <1>4, <1>5, <1>6, <1>7 DEF Server

-----------------------------------------------------------------------------
(* Paths *)

LEMMA ViewStepType ==
    ASSUME NEW v \in View, NEW f, NEW k
    PROVE  ViewStep(v, f, k) \in View
  BY DEF View, ViewStep

\* The first frame is received.
LEMMA PathTail ==
    ASSUME NEW n \in Nat \ {0}, NEW vs \in [1..n + 1 -> View], NEW f, NEW k, NEW e,
           Path(vs, f, n, k, e), NEW g, NEW m \in Nat, m = n - 1, \A i \in 1..m : g[i] = f[i + 1]
    PROVE  /\ Legal(vs[1], f[1], e)
           /\ \E ws \in [1..m + 1 -> View] :
                /\ Path(ws, g, m, k, e)
                /\ ws[1] = ViewStep(vs[1], f[1], k)
                /\ ws[m + 1] = vs[n + 1]
  <1> DEFINE ws == [i \in 1..m + 1 |-> vs[i + 1]]
  <1>1. ws \in [1..m + 1 -> View]
    OBVIOUS
  <1>2. ASSUME NEW i \in 1..m
        PROVE  Legal(ws[i], g[i], e) /\ ws[i + 1] = ViewStep(ws[i], g[i], k)
    <2>1. i + 1 \in 1..n /\ g[i] = f[i + 1] /\ ws[i] = vs[i + 1] /\ ws[i + 1] = vs[(i + 1) + 1]
      BY <1>2
    <2> HIDE DEF ws
    <2> QED BY <2>1 DEF Path
  <1>3. ASSUME NEW i \in 1..m + 1, NEW j \in 1..m + 1, i <= j, ws[i].phase \in {"idle", "broken"}
        PROVE  ws[j].phase = ws[i].phase /\ ws[j].done = ws[i].done
    <2>1. /\ i + 1 \in 1..n + 1 /\ j + 1 \in 1..n + 1 /\ i + 1 <= j + 1
          /\ ws[i] = vs[i + 1] /\ ws[j] = vs[j + 1]
      BY <1>3
    <2> HIDE DEF ws
    <2> QED BY <1>3, <2>1 DEF Path
  <1>4. 1 \in 1..n /\ ws[1] = vs[1 + 1] /\ ws[m + 1] = vs[n + 1]
    OBVIOUS
  <1>5. Path(ws, g, m, k, e)
    <2> HIDE DEF ws
    <2> QED BY <1>2, <1>3 DEF Path
  <1>6. Legal(vs[1], f[1], e) /\ vs[1 + 1] = ViewStep(vs[1], f[1], k)
    BY <1>4 DEF Path
  <1> HIDE DEF ws
  <1> QED BY <1>1, <1>4, <1>5, <1>6

\* Nothing on a path that starts idle depends on the request that is outstanding.
LEMMA PathAnyRequest ==
    ASSUME NEW n \in Nat, NEW vs \in [1..n + 1 -> View], NEW f, NEW k, NEW m, NEW e,
           Path(vs, f, n, k, e), vs[1].phase = "idle"
    PROVE  /\ Path(vs, f, n, m, e)
           /\ vs[n + 1].phase = "idle" /\ vs[n + 1].done = vs[1].done
  <1>1. \A j \in 1..n + 1 : vs[j].phase = "idle" /\ vs[j].done = vs[1].done
    BY DEF Path
  <1>2. ASSUME NEW i \in 1..n
        PROVE  Legal(vs[i], f[i], e) /\ vs[i + 1] = ViewStep(vs[i], f[i], m)
    <2>1. Legal(vs[i], f[i], e) /\ vs[i + 1] = ViewStep(vs[i], f[i], k)
      BY DEF Path
    <2>2. f[i].kind \notin Answers
      BY <2>1, <1>1 DEF Legal
    <2>3. ViewStep(vs[i], f[i], m) = ViewStep(vs[i], f[i], k)
      BY <2>2 DEF ViewStep, Answers
    <2> QED BY <2>1, <2>3
  <1> QED BY <1>1, <1>2 DEF Path

\* A request is sent: every view that was idle knows of it.
LEMMA PathAsked ==
    ASSUME NEW n \in Nat, NEW vs \in [1..n + 1 -> View], NEW f, NEW k, NEW e,
           Path(vs, f, n, k, e), vs[1].phase = "idle"
    PROVE  \E ws \in [1..n + 1 -> View] :
             /\ Path(ws, f, n, k, e)
             /\ \A i \in {1, n + 1} :
                  ws[i].phase = "asked" /\ ws[i].done = vs[i].done /\ ws[i].pos = vs[i].pos
  <1> DEFINE ws == [i \in 1..n + 1 |-> [phase |-> "asked", done |-> vs[i].done, pos |-> vs[i].pos]]
  <1>1. \A i \in 1..n + 1 : vs[i] \in View /\ vs[i].phase = "idle"
    BY DEF Path
  <1>2. ws \in [1..n + 1 -> View]
    BY <1>1 DEF View
  <1>3. ASSUME NEW i \in 1..n
        PROVE  Legal(ws[i], f[i], e) /\ ws[i + 1] = ViewStep(ws[i], f[i], k)
    <2>1. Legal(vs[i], f[i], e) /\ vs[i + 1] = ViewStep(vs[i], f[i], k) /\ vs[i].phase = "idle"
      BY <1>1 DEF Path
    <2>2. /\ ws[i] = [phase |-> "asked", done |-> vs[i].done, pos |-> vs[i].pos]
          /\ ws[i + 1] = [phase |-> "asked", done |-> vs[i + 1].done, pos |-> vs[i + 1].pos]
      OBVIOUS
    <2>3. f[i].kind \notin Answers \cup {"completed", "failed"}
      BY <2>1 DEF Legal
    <2> HIDE DEF ws
    <2>4. Legal(ws[i], f[i], e)
      BY <2>1, <2>2, <2>3 DEF Legal
    <2>5. /\ vs[i + 1].done = vs[i].done
          /\ vs[i + 1].pos = IF f[i].kind \in Notifications THEN vs[i].pos + 1 ELSE vs[i].pos
      BY <2>1, <2>3 DEF ViewStep
    <2>6. ViewStep(ws[i], f[i], k) =
            [phase |-> "asked", done |-> vs[i].done,
             pos |-> IF f[i].kind \in Notifications THEN vs[i].pos + 1 ELSE vs[i].pos]
      BY <2>2, <2>3 DEF ViewStep, Answers
    <2> QED BY <2>2, <2>4, <2>5, <2>6
  <1>4. \A i \in 1..n + 1 : ws[i].phase = "asked" /\ ws[i].done = vs[i].done /\ ws[i].pos = vs[i].pos
    OBVIOUS
  <1> HIDE DEF ws
  <1>5. Path(ws, f, n, k, e)
    BY <1>3, <1>4 DEF Path
  <1> QED BY <1>2, <1>4, <1>5

\* The server writes a frame.
LEMMA PathAppend ==
    ASSUME NEW n \in Nat, NEW vs \in [1..n + 1 -> View], NEW f, NEW k, NEW e, Len(e) \in Nat,
           Path(vs, f, n, k, e),
           NEW g, NEW m \in Nat, m = n + 1, \A i \in 1..n : g[i] = f[i],
           NEW d, Len(d) \in Nat, Len(e) <= Len(d), \A i \in 1..Len(e) : d[i] = e[i],
           NEW v, v = vs[n + 1], Legal(v, g[m], d)
    PROVE  \E ws \in [1..m + 1 -> View] :
             /\ Path(ws, g, m, k, d)
             /\ ws[1] = vs[1]
             /\ ws[m + 1] = ViewStep(v, g[m], k)
  <1> DEFINE last == ViewStep(vs[n + 1], g[m], k)
             ws == [i \in 1..m + 1 |-> IF i = m + 1 THEN last ELSE vs[i]]
  <1>1. last \in View /\ \A i \in 1..n + 1 : vs[i] \in View
    BY ViewStepType
  <1>2. ws \in [1..m + 1 -> View] /\ ws[m + 1] = last /\ \A i \in 1..m : ws[i] = vs[i]
    <2> HIDE DEF last
    <2> QED BY <1>1
  <1> HIDE DEF ws
  <1>3. ASSUME NEW i \in 1..m
        PROVE  Legal(ws[i], g[i], d) /\ ws[i + 1] = ViewStep(ws[i], g[i], k)
    <2>1. CASE i = m
      BY <2>1, <1>2
    <2>2. CASE i \in 1..n
      <3>1. Legal(vs[i], f[i], e) /\ vs[i + 1] = ViewStep(vs[i], f[i], k) /\ g[i] = f[i]
        BY <2>2 DEF Path
      <3>2. ws[i] = vs[i] /\ ws[i + 1] = vs[i + 1]
        BY <2>2, <1>2
      <3>3. vs[i].pos \in Nat
        BY <1>1, <2>2 DEF View
      <3>4. Legal(vs[i], f[i], d)
        BY <3>1, <3>3 DEF Legal
      <3> QED BY <3>1, <3>2, <3>4
    <2> QED BY <2>1, <2>2
  <1>4. ASSUME NEW i \in 1..m + 1, NEW j \in 1..m + 1, i <= j, ws[i].phase \in {"idle", "broken"}
        PROVE  ws[j].phase = ws[i].phase /\ ws[j].done = ws[i].done
    <2>1. CASE i = m + 1
      BY <1>4, <2>1
    <2>2. CASE i # m + 1 /\ j # m + 1
      <3>1. i \in 1..n + 1 /\ j \in 1..n + 1 /\ ws[i] = vs[i] /\ ws[j] = vs[j]
        BY <2>2, <1>2
      <3> QED BY <1>4, <3>1 DEF Path
    <2>3. CASE i # m + 1 /\ j = m + 1
      <3>1. i \in 1..n + 1 /\ n + 1 \in 1..n + 1 /\ i <= n + 1 /\ ws[i] = vs[i] /\ ws[j] = last
        BY <2>3, <1>2
      <3>2. vs[n + 1].phase = vs[i].phase /\ vs[n + 1].done = vs[i].done
        BY <1>4, <3>1 DEF Path
      <3>3. g[m].kind \notin Answers \cup {"completed", "failed"}
        BY <1>4, <3>1, <3>2 DEF Legal
      <3>4. last.phase = vs[n + 1].phase /\ last.done = vs[n + 1].done
        BY <3>3 DEF ViewStep, Answers
      <3> QED BY <3>1, <3>2, <3>4
    <2> QED BY <2>1, <2>2, <2>3
  <1>5. Path(ws, g, m, k, d)
    BY <1>3, <1>4 DEF Path
  <1> QED BY <1>2, <1>5

-----------------------------------------------------------------------------
(* The frames on their way *)

LEMMA AheadTypes ==
    ASSUME NEW sc \in ScannerRecord, NEW q \in Seq(Frames)
    PROVE  /\ OnTheWay(sc, q) \in Nat
           /\ \A i \in 1..OnTheWay(sc, q) : Ahead(sc, q)[i] \in Frames
  <1>1. Len(q) \in Nat /\ sc.held \in Frames /\ \A i \in 1..Len(q) : q[i] \in Frames
    BY DEF ScannerRecord
  <1> QED BY <1>1 DEF OnTheWay, Ahead

\* The scanner takes a line from the pipe, or ends with an empty one.
LEMMA AheadScan ==
    ASSUME NEW sc, NEW tc, NEW q \in Seq(Frames), NEW r, sc.at = "read",
           \/ q # << >> /\ tc.at = "offer" /\ tc.held = Head(q) /\ r = Tail(q)
           \/ tc.at = "done" /\ r = q
    PROVE  OnTheWay(tc, r) = OnTheWay(sc, q) /\ Ahead(tc, r) = Ahead(sc, q)
  <1>1. CASE q # << >> /\ tc.at = "offer" /\ tc.held = Head(q) /\ r = Tail(q)
    <2>1. Len(q) \in Nat \ {0} /\ Len(r) = Len(q) - 1 /\ Head(q) = q[1]
      BY <1>1
    <2>2. \A i \in 1..Len(q) : i # 1 => r[i - 1] = q[i]
      BY <1>1, <2>1
    <2>3. OnTheWay(tc, r) = Len(q) /\ OnTheWay(sc, q) = Len(q)
      BY <1>1, <2>1 DEF OnTheWay
    <2> QED BY <1>1, <2>1, <2>2, <2>3 DEF Ahead
  <1>2. CASE tc.at = "done" /\ r = q
    BY <1>2 DEF OnTheWay, Ahead
  <1> QED BY <1>1, <1>2

\* The server writes a frame.
LEMMA AheadAppend ==
    ASSUME NEW sc, NEW q \in Seq(Frames), NEW r, Len(r) = Len(q) + 1,
           \A i \in 1..Len(q) : r[i] = q[i]
    PROVE  /\ OnTheWay(sc, q) \in Nat /\ OnTheWay(sc, r) = OnTheWay(sc, q) + 1
           /\ \A i \in 1..OnTheWay(sc, q) : Ahead(sc, r)[i] = Ahead(sc, q)[i]
           /\ Ahead(sc, r)[OnTheWay(sc, r)] = r[Len(r)]
  <1>1. Len(q) \in Nat
    OBVIOUS
  <1>2. CASE sc.at = "offer"
    <2>1. OnTheWay(sc, q) = Len(q) + 1 /\ OnTheWay(sc, r) = Len(q) + 2
      BY <1>1, <1>2 DEF OnTheWay
    <2>2. ASSUME NEW i \in 1..OnTheWay(sc, q)
          PROVE  Ahead(sc, r)[i] = Ahead(sc, q)[i]
      <3>1. i = 1 \/ i - 1 \in 1..Len(q)
        BY <2>1, <2>2, <1>1
      <3> QED BY <1>2, <2>1, <2>2, <3>1, <1>1 DEF Ahead
    <2>3. Ahead(sc, r)[OnTheWay(sc, r)] = r[Len(r)]
      BY <1>1, <1>2, <2>1 DEF Ahead
    <2> QED BY <1>1, <2>1, <2>2, <2>3
  <1>3. CASE sc.at # "offer"
    BY <1>1, <1>3 DEF OnTheWay, Ahead
  <1> QED BY <1>2, <1>3

-----------------------------------------------------------------------------
(* The steps of the client *)

LEMMA InitAppInv ==
    ASSUME AppConstants, AppInit
    PROVE  AppInv
  <1>1. TypesOK
    BY InitTypes
  <1>2. Len(<< >>) = 0
    OBVIOUS
  <1>3. /\ ~Over(client) /\ client.at = "send" /\ client.id = 1 /\ result = NoResult
        /\ Before(client.id) = 0
        /\ server.owes = 0 /\ server.turn = 0 /\ server.done = 0 /\ ~Asked(toServer)
        /\ Len(toServer) = 0 /\ Len(toClient) = 0 /\ Len(trace) = 0 /\ Len(emitted) = 0
        /\ scanner.at = "read" /\ reaper = "scan"
    BY <1>2 DEF AppInit, Over, Before, Handshake, Asked
  <1>4. Requests(server, toServer) /\ Idle(server, toServer) /\ Sends(client, server, toServer)
    BY <1>3 DEF Requests, Idle, Sends
  <1>5. Outcome(client, result, server, toServer, late)
    BY <1>3 DEF Outcome, NoResult
  <1>6. ReaperOK /\ ScannerOK /\ TraceOK
    BY <1>3 DEF ReaperOK, ScannerOK, TraceOK
  <1>7. Stream
    <2> DEFINE v == [phase |-> "idle", done |-> 0, pos |-> 0]
               vs == [i \in 1..0 + 1 |-> v]
    <2>1. v \in View /\ vs \in [1..0 + 1 -> View] /\ vs[1] = v /\ vs[0 + 1] = v
      BY DEF View
    <2>2. OnTheWay(scanner, toClient) = 0
      BY <1>3 DEF OnTheWay
    <2>3. Path(vs, Ahead(scanner, toClient), 0, client.id, emitted)
      <3>1. \A i \in 1..0 + 1 : vs[i] = v
        OBVIOUS
      <3>2. 1..0 = {}
        OBVIOUS
      <3> HIDE DEF vs, v
      <3> QED BY <3>1, <3>2 DEF Path
    <2>4. ClientAt(v, client, trace)
      BY <1>3 DEF ClientAt, Place
    <2>5. ServerAt(v, server, toServer, emitted, client.id)
      BY <1>3, <1>4 DEF ServerAt
    <2> HIDE DEF vs, v
    <2>6. Linked(Ahead(scanner, toClient), 0, client, trace, server, toServer, emitted)
      BY <2>1, <2>3, <2>4, <2>5 DEF Linked
    <2> QED BY <2>2, <2>6 DEF Stream
  <1> QED BY <1>1, <1>4, <1>5, <1>6, <1>7 DEF AppInv

\* A return: what the result says is to be shown, the rest is kept.
LEMMA FinishInv ==
    ASSUME AppConstants, AppInv, TypesOK', ~Over(client), client'.at = "stop",
           UNCHANGED <<reaper, toServer, toClient, server, emitted, late>>,
           scanner' = scanner \/ (scanner.at = "offer" /\ scanner'.at = "read"),
           TraceOK',
           result'.rc = 0 => Idle(server, toServer) /\ server.done = Turns,
           result'.why = "closed" => late \/ (server.done < Turns /\ ~server.up)
    PROVE  AppInv'
  <1>1. Over(client')
    BY DEF Over
  <1>2. Requests(server', toServer') /\ Sends(client', server', toServer')
    BY DEF AppInv, Sends
  <1>3. Outcome(client', result', server', toServer', late')
    BY <1>1 DEF Outcome
  <1>4. ReaperOK' /\ ScannerOK'
    BY <1>1 DEF AppInv, ReaperOK, ScannerOK, Over
  <1>5. Stream'
    BY <1>1 DEF Stream, Watched
  <1> QED BY <1>2, <1>3, <1>4, <1>5 DEF AppInv

\* Frames that are not requests leave the server's side as it is.
LEMMA WriteOther ==
    ASSUME NEW q \in Seq(Frames), NEW r, Len(r) = Len(q) + 1, r[Len(r)].kind # "request",
           \A i \in 1..Len(q) : r[i] = q[i]
    PROVE  /\ \A i \in 1..Len(r) : r[i].kind = "request" => i \in 1..Len(q) /\ r[i] = q[i]
           /\ Asked(r) = Asked(q)
           /\ \A s : Requests(s, q) => Requests(s, r)
           /\ \A s : Idle(s, r) = Idle(s, q)
           /\ \A v, s, e, k : ServerAt(v, s, q, e, k) => ServerAt(v, s, r, e, k)
  <1>1. Len(q) \in Nat
    OBVIOUS
  <1>2. \A i \in 1..Len(r) : r[i].kind = "request" => i \in 1..Len(q) /\ r[i] = q[i]
    BY <1>1
  <1>3. \A i \in 1..Len(q) : i \in 1..Len(r)
    BY <1>1
  <1>4. Asked(r) = Asked(q)
    BY <1>2, <1>3 DEF Asked
  <1>5. \A s : Requests(s, q) => Requests(s, r)
    BY <1>2, <1>3, <1>4 DEF Requests
  <1>6. \A s : Idle(s, r) = Idle(s, q)
    BY <1>4 DEF Idle
  <1>7. \A v, s, e, k : ServerAt(v, s, q, e, k) => ServerAt(v, s, r, e, k)
    BY <1>2, <1>4, <1>6 DEF ServerAt
  <1> QED BY <1>2, <1>4, <1>5, <1>6, <1>7

LEMMA SendInv ==
    ASSUME AppConstants, AppInv, TypesOK', AppSend
    PROVE  AppInv'
  <1> DEFINE frame == Frame("request", client.id)
             n == OnTheWay(scanner, toClient)
             f == Ahead(scanner, toClient)
  <1>1. /\ client \in ClientRecord /\ client.at = "send" /\ client.id \in 1..LastRequest
        /\ client.id # 0 /\ client.id \in Nat
    BY DEF AppSend, AppInv, TypesOK, ClientRecord, LastRequest, Handshake, AppConstants
  <1>2. client'.at = "await" /\ client'.id = client.id
    BY <1>1 DEF AppSend, ClientRecord
  <1>3. frame \in Frames /\ frame.kind = "request" /\ frame.id = client.id
    BY <1>1, FrameTypes DEF Kinds
  <1>4. /\ toServer \in Seq(Frames) /\ Len(toServer) \in Nat
        /\ Len(toServer') = Len(toServer) + 1
        /\ toServer'[Len(toServer')] = frame
        /\ \A i \in 1..Len(toServer) : toServer'[i] = toServer[i]
    BY <1>3, WriteTypes DEF AppSend, AppInv, TypesOK
  <1>5. UNCHANGED <<result, trace, scanner, reaper, toClient, server, emitted, late>>
    BY DEF AppSend
  <1>6. ~Over(client) /\ ~Over(client')
    BY <1>1, <1>2 DEF Over
  <1>7. /\ server.owes = 0 /\ server.turn = server.done /\ server.done = Before(client.id)
        /\ \A i \in 1..Len(toServer) : toServer[i].kind # "request"
    BY <1>1 DEF AppInv, Sends, Idle, Asked
  <1> HIDE DEF frame, n, f
  <1>8. \A i \in 1..Len(toServer') : toServer'[i].kind = "request" =>
          i = Len(toServer') /\ toServer'[i].id = client.id
    BY <1>3, <1>4, <1>7
  <1>9. Requests(server', toServer') /\ Sends(client', server', toServer')
    <2>1. IsNext(client.id, server)
      BY <1>7 DEF IsNext
    <2>2. \A i, j \in 1..Len(toServer') :
            toServer'[i].kind = "request" /\ toServer'[j].kind = "request" => j = i
      BY <1>8
    <2> QED BY <1>1, <1>2, <1>5, <1>7, <1>8, <2>1, <2>2 DEF Requests, Sends
  <1>10. Outcome(client', result', server', toServer', late')
    <2>1. result' = NoResult
      BY <1>5, <1>6 DEF AppInv, Outcome
    <2> QED BY <2>1, <1>6 DEF Outcome, NoResult
  <1>11. ReaperOK' /\ ScannerOK' /\ TraceOK'
    BY <1>2, <1>5, <1>6 DEF AppInv, ReaperOK, ScannerOK, TraceOK
  <1>12. Stream'
    <2> SUFFICES ASSUME Watched(client', scanner', late')
                 PROVE  Linked(f, n, client', trace, server, toServer', emitted)
      BY <1>5 DEF Stream, n, f
    <2>1. Linked(f, n, client, trace, server, toServer, emitted) /\ n \in Nat
      BY <1>5, <1>6, AheadTypes DEF AppInv, TypesOK, Stream, Watched, n, f
    <2>2. PICK vs \in [1..n + 1 -> View] :
            /\ Path(vs, f, n, client.id, emitted)
            /\ ClientAt(vs[1], client, trace)
            /\ ServerAt(vs[n + 1], server, toServer, emitted, client.id)
      BY <2>1 DEF Linked
    <2>3. vs[1].phase = "idle"
      BY <2>2, <1>1 DEF ClientAt, Place
    <2>4. PICK ws \in [1..n + 1 -> View] :
             /\ Path(ws, f, n, client.id, emitted)
             /\ \A i \in {1, n + 1} :
                  ws[i].phase = "asked" /\ ws[i].done = vs[i].done /\ ws[i].pos = vs[i].pos
      BY <2>1, <2>2, <2>3, PathAsked
    <2>5. ClientAt(ws[1], client', trace)
      BY <2>2, <2>4, <1>2 DEF ClientAt, Place
    <2>6. ServerAt(ws[n + 1], server, toServer', emitted, client.id)
      BY <2>2, <2>4, <1>7, <1>8 DEF ServerAt
    <2> QED BY <2>4, <2>5, <2>6, <1>2 DEF Linked
  <1> QED BY <1>9, <1>10, <1>11, <1>12 DEF AppInv

LEMMA OtherWriteInv ==
    ASSUME AppConstants, AppInv, TypesOK', AppNotify \/ AppRefuse
    PROVE  AppInv'
  <1> DEFINE n == OnTheWay(scanner, toClient)
             f == Ahead(scanner, toClient)
  <1>1. /\ client \in ClientRecord /\ client.at \in {"notify", "reply"}
        /\ client.at = "reply" => client.back # "send"
    BY DEF AppNotify, AppRefuse, AppInv, TypesOK
  <1>2. /\ client'.id = client.id /\ Place(client') \in {Place(client), "send"}
        /\ client'.at = (IF client.at = "notify" THEN "send" ELSE client.back)
        /\ client.at = "reply" => Place(client') = Place(client)
    BY <1>1 DEF AppNotify, AppRefuse, ClientRecord, Place
  <1>3. ~Over(client) /\ ~Over(client') /\ client'.at # "returned"
    BY <1>1, <1>2 DEF Over, ClientRecord
  <1>4. UNCHANGED <<result, trace, scanner, reaper, toClient, server, emitted, late>>
    BY DEF AppNotify, AppRefuse
  <1>5. /\ toServer \in Seq(Frames)
        /\ Len(toServer') = Len(toServer) + 1
        /\ toServer'[Len(toServer')].kind # "request"
        /\ \A i \in 1..Len(toServer) : toServer'[i] = toServer[i]
    <2>1. CASE AppNotify
      <3>1. Frame("initialized", 0) \in Frames /\ Frame("initialized", 0).kind = "initialized"
        BY FrameTypes DEF Kinds
      <3> QED BY <2>1, <3>1, WriteTypes DEF AppNotify, AppInv, TypesOK
    <2>2. CASE AppRefuse
      <3>1. Frame("refusal", 0) \in Frames /\ Frame("refusal", 0).kind = "refusal"
        BY FrameTypes DEF Kinds
      <3> QED BY <2>2, <3>1, WriteTypes DEF AppRefuse, AppInv, TypesOK
    <2> QED BY <2>1, <2>2
  <1>6. /\ Requests(server, toServer')
        /\ Idle(server, toServer') = Idle(server, toServer)
        /\ \A v, e, k : ServerAt(v, server, toServer, e, k) => ServerAt(v, server, toServer', e, k)
    BY <1>5, WriteOther DEF AppInv
  <1>7. Sends(client', server', toServer')
    <2>1. client'.at \in {"send", "notify"} => client.at = "notify"
      BY <1>1, <1>2 DEF ClientRecord
    <2> QED BY <1>2, <1>4, <1>6, <2>1 DEF AppInv, Sends
  <1>8. Outcome(client', result', server', toServer', late')
    <2>1. result' = NoResult
      BY <1>3, <1>4 DEF AppInv, Outcome
    <2> QED BY <2>1, <1>3 DEF Outcome, NoResult
  <1>9. ReaperOK' /\ ScannerOK' /\ TraceOK'
    BY <1>3, <1>4 DEF AppInv, ReaperOK, ScannerOK, TraceOK
  <1>10. Stream'
    <2> SUFFICES ASSUME Watched(client', scanner', late')
                 PROVE  Linked(f, n, client', trace, server, toServer', emitted)
      BY <1>4 DEF Stream
    <2>1. Linked(f, n, client, trace, server, toServer, emitted) /\ n \in Nat
      BY <1>3, <1>4, AheadTypes DEF AppInv, TypesOK, Stream, Watched
    <2>2. \A v : ClientAt(v, client, trace) => ClientAt(v, client', trace)
      BY <1>1, <1>2 DEF ClientAt, Place
    <2> HIDE DEF n, f
    <2> QED BY <1>2, <1>6, <2>1, <2>2 DEF Linked
  <1> QED BY <1>4, <1>6, <1>7, <1>8, <1>9, <1>10 DEF AppInv

LEMMA StopInv ==
    ASSUME AppConstants, AppInv, TypesOK', AppStop \/ AppKill \/ AppReturn
    PROVE  AppInv'
  <1>1. client \in ClientRecord /\ server \in ServerRecord
    BY DEF AppInv, TypesOK
  <1>2. /\ Over(client) /\ Over(client') /\ client'.at \notin {"send", "notify"}
        /\ client'.at = "returned" => reaper = "reaped"
    BY <1>1 DEF AppStop, AppKill, AppReturn, Over, ClientRecord
  <1>3. /\ server'.up = server.up /\ server'.owes = server.owes /\ server'.turn = server.turn
        /\ server'.done = server.done
    BY <1>1 DEF AppStop, AppKill, AppReturn, ServerRecord
  <1>4. UNCHANGED <<result, trace, scanner, reaper, toServer, toClient, emitted, late>>
    BY DEF AppStop, AppKill, AppReturn
  <1>5. Idle(server', toServer) = Idle(server, toServer)
    BY <1>3 DEF Idle
  <1>6. Requests(server', toServer')
    BY <1>3, <1>4 DEF AppInv, Requests, IsNext
  <1>7. Sends(client', server', toServer') /\ Outcome(client', result', server', toServer', late')
    BY <1>2, <1>3, <1>4, <1>5 DEF AppInv, Sends, Outcome
  <1>8. ReaperOK' /\ ScannerOK' /\ TraceOK'
    BY <1>2, <1>3, <1>4 DEF AppInv, ReaperOK, ScannerOK, TraceOK
  <1>9. Stream'
    BY <1>2 DEF Stream, Watched
  <1> QED BY <1>6, <1>7, <1>8, <1>9 DEF AppInv

\* What the views say while the client waits.
LEMMA Waiting ==
    ASSUME AppConstants, AppInv, client.at \in {"await", "turn"}, scanner.at # "done" \/ (~scanner.err /\ ~late)
    PROVE  \E vs \in [1..OnTheWay(scanner, toClient) + 1 -> View] :
             /\ Path(vs, Ahead(scanner, toClient), OnTheWay(scanner, toClient), client.id, emitted)
             /\ ClientAt(vs[1], client, trace)
             /\ ServerAt(vs[OnTheWay(scanner, toClient) + 1], server, toServer, emitted, client.id)
  <1>1. Watched(client, scanner, late)
    BY DEF Watched, Over
  <1> QED BY <1>1 DEF AppInv, Stream, Linked

LEMMA BrokenOffInv ==
    ASSUME AppConstants, AppInv, TypesOK', AppWriteFails \/ AppClosed \/ AppDeadline
    PROVE  AppInv'
  <1>1. ~Over(client) /\ client \in ClientRecord
    BY DEF AppWriteFails, AppClosed, AppDeadline, Over, AppInv, TypesOK
  <1>2. /\ UNCHANGED <<reaper, toServer, toClient, server, emitted, late>> /\ scanner' = scanner
        /\ TraceOK'
    BY DEF AppWriteFails, AppClosed, AppDeadline, AppInv, TraceOK
  <1>3. CASE AppWriteFails
    <2>1. client'.at = "stop" /\ result'.rc = 125 /\ result'.why = "write"
      BY <1>1, <1>3 DEF AppWriteFails, Finish, ClientRecord
    <2> QED BY <1>1, <1>2, <2>1, FinishInv
  <1>4. CASE AppClosed
    <2>1. /\ client'.at = "stop" /\ result'.rc = 125
          /\ result'.why = IF scanner.err THEN "json" ELSE "closed"
      BY <1>1, <1>4 DEF AppClosed, Finish, ClientRecord
    <2>2. result'.why = "closed" => late \/ (server.done < Turns /\ ~server.up)
      <3> SUFFICES ASSUME ~scanner.err, ~late PROVE server.done < Turns /\ ~server.up
        BY <2>1
      <3>1. toClient = << >> /\ ~server.up
        BY <1>1, <1>4 DEF AppClosed, AppInv, ScannerOK
      <3>2. OnTheWay(scanner, toClient) = 0
        BY <1>4, <3>1 DEF AppClosed, OnTheWay
      <3>3. client.at \in {"await", "turn"}
        BY <1>4 DEF AppClosed
      <3>4. PICK vs \in [1..0 + 1 -> View] :
              /\ ClientAt(vs[1], client, trace)
              /\ ServerAt(vs[0 + 1], server, toServer, emitted, client.id)
        BY <3>2, <3>3, Waiting
      <3>5. server.done = Before(client.id)
        BY <3>4 DEF ClientAt, ServerAt
      <3>6. Before(client.id) < Turns
        BY <1>1 DEF AppConstants, ClientRecord, LastRequest, Handshake, Before
      <3> QED BY <3>1, <3>5, <3>6
    <2> QED BY <1>1, <1>2, <2>1, <2>2, FinishInv
  <1>5. CASE AppDeadline
    <2>1. client'.at = "stop" /\ result'.rc \in {124, 125} /\ result'.why = "deadline"
      BY <1>1, <1>5 DEF AppDeadline, Finish, ClientRecord
    <2> QED BY <1>1, <1>2, <2>1, FinishInv
  <1> QED BY <1>3, <1>4, <1>5

\* A frame is received and the client goes on; the views after it are as they were.
LEMMA GoOnInv ==
    ASSUME AppConstants, AppInv, TypesOK', AppReceive, result' = result, TraceOK',
           client'.at \in {"send", "notify", "reply", "await", "turn"},
           client'.at \in {"send", "notify"} =>
             Idle(server, toServer) /\ server.done = Before(client'.id),
           Linked(Ahead(scanner', toClient), OnTheWay(scanner', toClient), client', trace',
                  server, toServer, emitted)
    PROVE  AppInv'
  <1>1. /\ UNCHANGED <<reaper, toServer, toClient, server, emitted, late>>
        /\ scanner.at = "offer" /\ ~Over(client)
    BY DEF AppReceive, Over
  <1>2. scanner'.at = "read"
    BY DEF AppReceive, AppInv, TypesOK, ScannerRecord
  <1>3. Requests(server', toServer') /\ Sends(client', server', toServer')
    BY <1>1 DEF AppInv, Sends
  <1>4. Outcome(client', result', server', toServer', late')
    BY <1>1 DEF AppInv, Outcome
  <1>5. ReaperOK' /\ ScannerOK'
    BY <1>1, <1>2 DEF AppInv, ReaperOK, ScannerOK
  <1>6. Stream'
    BY <1>1 DEF Stream
  <1> QED BY <1>3, <1>4, <1>5, <1>6 DEF AppInv

LEMMA ReceiveInv ==
    ASSUME AppConstants, AppInv, TypesOK', AppReceive
    PROVE  AppInv'
  <1> DEFINE frame == scanner.held
             n == OnTheWay(scanner, toClient)
             f == Ahead(scanner, toClient)
             m == OnTheWay(scanner', toClient)
             g == Ahead(scanner', toClient)
             k == client.id
  <1>1. /\ client \in ClientRecord /\ client.at \in {"await", "turn"} /\ k \in 1..LastRequest
        /\ k \in Nat
        /\ ~Over(client) /\ Place(client) = client.at
    BY DEF AppReceive, AppInv, TypesOK, ClientRecord, LastRequest, Handshake, Over, Place
  <1>2. /\ UNCHANGED <<reaper, toServer, toClient, server, emitted, late>>
        /\ scanner.at = "offer" /\ scanner'.at = "read"
        /\ toClient \in Seq(Frames) /\ trace \in Seq(Notifications)
        /\ emitted \in Seq(Notifications)
    BY DEF AppReceive, AppInv, TypesOK, ScannerRecord
  <1>3. /\ n \in Nat \ {0} /\ m = n - 1 /\ m \in Nat
        /\ f[1] = frame
        /\ \A i \in 1..m : g[i] = f[i + 1]
    <2>1. /\ OnTheWay(scanner, toClient) \in Nat \ {0}
          /\ OnTheWay(scanner', toClient) = OnTheWay(scanner, toClient) - 1
          /\ Ahead(scanner, toClient)[1] = scanner.held
          /\ \A i \in 1..OnTheWay(scanner', toClient) :
               Ahead(scanner', toClient)[i] = Ahead(scanner, toClient)[i + 1]
      <3>1. Len(toClient) \in Nat
        BY <1>2
      <3> QED BY <1>2, <3>1 DEF OnTheWay, Ahead
    <2> QED BY <2>1
  <1>4. PICK vs \in [1..n + 1 -> View] :
             /\ Path(vs, f, n, k, emitted)
             /\ ClientAt(vs[1], client, trace)
             /\ ServerAt(vs[n + 1], server, toServer, emitted, k)
    <2>1. client.at \in {"await", "turn"} /\ scanner.at # "done"
      BY <1>1, <1>2
    <2> QED BY <2>1, Waiting
  <1> HIDE DEF frame, n, f, m, g, k
  <1> DEFINE v == vs[1]
             w == ViewStep(v, frame, k)
  <1>5. /\ Legal(v, frame, emitted)
        /\ \E ws \in [1..m + 1 -> View] :
             Path(ws, g, m, k, emitted) /\ ws[1] = w /\ ws[m + 1] = vs[n + 1]
    BY <1>3, <1>4, PathTail
  <1>6. PICK ws \in [1..m + 1 -> View] :
             Path(ws, g, m, k, emitted) /\ ws[1] = w /\ ws[m + 1] = vs[n + 1]
    BY <1>5
  <1>7. /\ v.phase = (IF client.at = "await" THEN "asked" ELSE "turn")
        /\ v.done = Before(k) /\ v.pos = Len(trace)
        /\ client.at = "turn" => k > Handshake
    BY <1>1, <1>4 DEF ClientAt, k
  <1>8. frame \in Frames
    BY DEF AppInv, TypesOK, ScannerRecord, frame
  <1> HIDE DEF v, w
  \* The trace.
  <1>9. /\ Len(Kept(frame)) = (IF frame.kind \in Notifications THEN Len(trace) + 1 ELSE Len(trace))
        /\ Len(Kept(frame)) <= Len(emitted)
        /\ \A i \in 1..Len(Kept(frame)) : Kept(frame)[i] = emitted[i]
        /\ w.pos = Len(Kept(frame))
    <2>1. CASE frame.kind \in Notifications
      <3>1. Kept(frame) = Append(trace, frame.kind)
        BY <2>1 DEF Kept
      <3>2. /\ Len(Kept(frame)) = Len(trace) + 1
            /\ Kept(frame)[Len(trace) + 1] = frame.kind
            /\ \A i \in 1..Len(trace) : Kept(frame)[i] = trace[i]
        BY <1>2, <2>1, <3>1
      <3>3. Len(trace) + 1 <= Len(emitted) /\ emitted[Len(trace) + 1] = frame.kind
        BY <1>5, <1>7, <2>1 DEF Legal
      <3>4. w.pos = Len(trace) + 1
        BY <1>7, <2>1 DEF w, ViewStep
      <3>5. \A i \in 1..Len(trace) + 1 : i \in 1..Len(trace) \/ i = Len(trace) + 1
        BY <1>2
      <3> QED BY <2>1, <3>2, <3>3, <3>4, <3>5 DEF AppInv, TraceOK
    <2>2. CASE frame.kind \notin Notifications
      <3>1. Kept(frame) = trace
        BY <2>2 DEF Kept
      <3> QED BY <1>7, <2>2, <3>1 DEF AppInv, TraceOK, w, ViewStep
    <2> QED BY <2>1, <2>2
  <1>10. trace' = Kept(frame) => TraceOK'
    BY <1>2, <1>9 DEF TraceOK
  \* The client stays with its request.
  <1>12. ASSUME client'.id = k, Place(client') \in {"await", "turn"}, client'.at \in {"reply", "await", "turn"},
                w.phase = (IF Place(client') = "await" THEN "asked" ELSE "turn"),
                w.done = Before(k), Place(client') = "turn" => k > Handshake,
                result' = result, trace' = Kept(frame)
         PROVE  AppInv'
    <2>1. ClientAt(w, client', trace')
      BY <1>9, <1>12 DEF ClientAt
    <2>2. Linked(g, m, client', trace', server, toServer, emitted)
      BY <1>4, <1>6, <1>12, <2>1 DEF Linked
    <2> QED BY <1>10, <1>12, <2>2, GoOnInv DEF g, m
  \* The client goes on to the next request.
  <1>13. ASSUME client'.at \in {"send", "notify"}, w.phase = "idle", w.done = Before(client'.id),
                result' = result, trace' = Kept(frame)
         PROVE  AppInv'
    <2>1. /\ Path(ws, g, m, client'.id, emitted)
          /\ ws[m + 1].phase = "idle" /\ ws[m + 1].done = w.done
      BY <1>3, <1>6, <1>13, PathAnyRequest
    <2>2. Idle(server, toServer) /\ server.done = Before(client'.id)
      BY <1>4, <1>6, <1>13, <2>1 DEF ServerAt
    <2>3. ServerAt(ws[m + 1], server, toServer, emitted, client'.id)
      BY <1>4, <1>6, <2>1 DEF ServerAt
    <2>4. ClientAt(w, client', trace')
      BY <1>9, <1>13 DEF ClientAt, Place
    <2>5. Linked(g, m, client', trace', server, toServer, emitted)
      BY <1>6, <2>1, <2>3, <2>4 DEF Linked
    <2> QED BY <1>10, <1>13, <2>2, <2>5, GoOnInv DEF g, m
  <1>14. ASSUME client'.at = "stop", trace' = Kept(frame), result'.why # "closed",
                result'.rc = 0 => Idle(server, toServer) /\ server.done = Turns
         PROVE  AppInv'
    BY <1>1, <1>2, <1>10, <1>14, FinishInv
  <1>15. CASE /\ frame.kind = "ask"
              /\ client' = [client EXCEPT !.at = "reply", !.back = client.at]
              /\ UNCHANGED <<result, trace>>
    <2>1. client'.id = k /\ Place(client') = client.at /\ client'.at = "reply"
      BY <1>1, <1>15 DEF ClientRecord, Place, k
    <2>2. w.phase = v.phase /\ w.done = v.done
      BY <1>15 DEF w, ViewStep, Answers
    <2>3. Kept(frame) = trace
      BY <1>15 DEF Kept, Notifications
    <2> QED BY <1>1, <1>7, <1>12, <1>15, <2>1, <2>2, <2>3
  <1>16. CASE trace' = Kept(frame) /\ client.at = "await" /\ Await(frame)
    <2>1. CASE frame.kind \in Notifications /\ UNCHANGED <<client, result>>
      <3>1. frame.kind \notin {"completed", "failed"} \cup Answers
        BY <1>5, <1>7, <1>16, <2>1 DEF Legal, Notifications, Answers
      <3>2. w.phase = v.phase /\ w.done = v.done
        BY <3>1 DEF w, ViewStep, Answers
      <3>3. client'.id = k /\ Place(client') = "await" /\ client'.at = "await"
        BY <1>1, <1>16, <2>1 DEF k
      <3> QED BY <1>7, <1>12, <1>16, <2>1, <3>2, <3>3
    <2>2. CASE Finish(125, "answer", FALSE)
      <3>1. client'.at = "stop" /\ result'.rc = 125 /\ result'.why = "answer"
        BY <1>1, <2>2 DEF Finish, ClientRecord
      <3> QED BY <1>14, <1>16, <3>1
    <2>3. CASE /\ frame.kind = "result" /\ frame.id = k
               /\ client' = CASE client.id = 1 -> [client EXCEPT !.at = "notify", !.id = 2]
                              [] client.id \in 2..Handshake ->
                                   [client EXCEPT !.at = "send", !.id = client.id + 1]
                              [] OTHER -> [client EXCEPT !.at = "turn"]
               /\ UNCHANGED result
      <3>1. /\ w.phase = (IF k > Handshake THEN "turn" ELSE "idle")
            /\ w.done = Before(k)
        BY <1>7, <2>3 DEF w, ViewStep
      <3>2. CASE k = 1
        <4>0. client' = [client EXCEPT !.at = "notify", !.id = 2]
          BY <2>3, <3>2 DEF k
        <4>1. client'.at = "notify" /\ client'.id = 2
          BY <1>1, <4>0 DEF ClientRecord
        <4>2. w.phase = "idle" /\ w.done = Before(2)
          BY <3>1, <3>2 DEF Handshake, Before
        <4> QED BY <1>13, <1>16, <2>3, <4>1, <4>2
      <3>3. CASE k \in 2..Handshake
        <4>1. client' = [client EXCEPT !.at = "send", !.id = client.id + 1]
          BY <2>3, <3>3 DEF Handshake, k
        <4>2. client'.at = "send" /\ client'.id = k + 1
          BY <1>1, <4>1 DEF ClientRecord, k
        <4>3. w.phase = "idle" /\ w.done = Before(k + 1)
          BY <3>1, <3>3 DEF Handshake, Before
        <4> QED BY <1>13, <1>16, <2>3, <4>2, <4>3
      <3>4. CASE k > Handshake
        <4>1. client' = [client EXCEPT !.at = "turn"]
          BY <2>3, <3>4 DEF Handshake, k
        <4>2. client'.at = "turn" /\ client'.id = k /\ Place(client') = "turn"
          BY <1>1, <4>1 DEF ClientRecord, k, Place
        <4> QED BY <1>12, <1>16, <2>3, <3>1, <3>4, <4>2
      <3>5. k = 1 \/ k \in 2..Handshake \/ k > Handshake
        BY <1>1 DEF Handshake
      <3> QED BY <3>2, <3>3, <3>4, <3>5
    <2> QED BY <1>16, <2>1, <2>2, <2>3 DEF Await, k
  <1>17. CASE trace' = Kept(frame) /\ client.at = "turn" /\ InTurn(frame)
    <2>0. k > Handshake /\ v.phase = "turn"
      BY <1>7, <1>17
    <2>1. CASE frame.kind # "failed" /\ ~TurnOver(frame) /\ UNCHANGED <<client, result>>
      <3>1. frame.kind \notin {"completed", "failed"} \cup Answers
        BY <1>5, <2>0, <2>1 DEF Legal, TurnOver
      <3>2. w.phase = v.phase /\ w.done = v.done
        BY <3>1 DEF w, ViewStep, Answers
      <3>3. client'.id = k /\ Place(client') = "turn" /\ client'.at = "turn"
        BY <1>1, <1>17, <2>1 DEF k
      <3> QED BY <1>7, <1>12, <1>17, <2>0, <2>1, <3>2, <3>3
    <2>2. CASE Finish(125, "turn", FALSE)
      <3>1. client'.at = "stop" /\ result'.rc = 125 /\ result'.why = "turn"
        BY <1>1, <2>2 DEF Finish, ClientRecord
      <3> QED BY <1>14, <1>17, <3>1
    <2>3. CASE TurnOver(frame)
      <3>1. w.phase = "idle" /\ w.done = Before(k) + 1
        BY <1>7, <2>3 DEF TurnOver, w, ViewStep, Answers
      <3>2. CASE MoreTurns /\ client' = [client EXCEPT !.at = "send", !.id = @ + 1] /\ UNCHANGED result
        <4>1. client'.at = "send" /\ client'.id = k + 1
          BY <1>1, <3>2 DEF ClientRecord, k
        <4>2. w.done = Before(k + 1)
          BY <1>1, <2>0, <3>1 DEF Before, Handshake
        <4> QED BY <1>13, <1>17, <3>1, <3>2, <4>1, <4>2
      <3>3. CASE ~MoreTurns /\ Finish(0, "done", FALSE)
        <4>1. w.done = Turns
          BY <1>1, <2>0, <3>1, <3>3 DEF AppConstants, MoreTurns, LastRequest, Before, Handshake, k
        <4>2. ws[m + 1].phase = "idle" /\ ws[m + 1].done = Turns
          BY <1>3, <1>6, <3>1, <4>1, PathAnyRequest
        <4>3. Idle(server, toServer) /\ server.done = Turns
          BY <1>4, <1>6, <4>2 DEF ServerAt
        <4>4. client'.at = "stop" /\ result'.why = "done"
          BY <1>1, <3>3 DEF Finish, ClientRecord
        <4> QED BY <1>14, <1>17, <4>3, <4>4
      <3>4. CASE Finish(125, "turn", FALSE)
        <4>1. client'.at = "stop" /\ result'.rc = 125 /\ result'.why = "turn"
          BY <1>1, <3>4 DEF Finish, ClientRecord
        <4> QED BY <1>14, <1>17, <4>1
      <3> QED BY <1>17, <2>3, <3>2, <3>3, <3>4 DEF InTurn
    <2> QED BY <1>17, <2>1, <2>2, <2>3 DEF InTurn
  <1> QED BY <1>1, <1>15, <1>16, <1>17 DEF AppReceive, frame

-----------------------------------------------------------------------------
(* The steps of the goroutines and of the server *)

LEMMA ScanInv ==
    ASSUME AppConstants, AppInv, TypesOK', ScanLine \/ ScanEnd
    PROVE  AppInv'
  <1>1. /\ scanner \in ScannerRecord /\ scanner.at = "read" /\ reaper = "scan"
        /\ toClient \in Seq(Frames)
        /\ UNCHANGED <<client, result, trace, reaper, toServer, server, emitted, late>>
    BY DEF ScanLine, ScanEnd, AppInv, TypesOK, ReaperOK
  <1>2. \/ scanner'.at = "done" /\ scanner'.err
        \/ toClient # << >> /\ scanner'.at = "offer" /\ scanner'.held = Head(toClient)
             /\ toClient' = Tail(toClient)
        \/ scanner'.at = "done" /\ toClient' = toClient /\ toClient = << >> /\ ~server.up
    <2>1. CASE ScanLine
      <3>1. CASE Head(toClient).kind = "garbage"
        BY <1>1, <2>1, <3>1 DEF ScanLine, ScannerRecord
      <3>2. CASE Head(toClient).kind # "garbage"
        BY <1>1, <2>1, <3>2 DEF ScanLine, ScannerRecord
      <3> QED BY <3>1, <3>2
    <2>2. CASE ScanEnd
      BY <1>1, <2>2 DEF ScanEnd, PipeClosed, ScannerRecord
    <2> QED BY <2>1, <2>2
  <1>3. Requests(server', toServer') /\ Sends(client', server', toServer')
    BY <1>1 DEF AppInv, Sends
  <1>4. Outcome(client', result', server', toServer', late')
    BY <1>1 DEF AppInv
  <1>5. TraceOK'
    BY <1>1 DEF AppInv, TraceOK
  <1>6. ReaperOK'
    BY <1>1 DEF AppInv, ReaperOK
  <1>7. ScannerOK'
    BY <1>1, <1>2 DEF ScannerOK
  <1>8. Stream'
    <2> SUFFICES ASSUME Watched(client, scanner', late)
                 PROVE  Linked(Ahead(scanner', toClient'), OnTheWay(scanner', toClient'), client, trace,
                               server, toServer, emitted)
      BY <1>1 DEF Stream
    <2>1. Watched(client, scanner, late)
      BY <1>1 DEF Watched
    <2>2. ~(scanner'.at = "done" /\ scanner'.err)
      BY DEF Watched
    <2>3. /\ OnTheWay(scanner', toClient') = OnTheWay(scanner, toClient)
          /\ Ahead(scanner', toClient') = Ahead(scanner, toClient)
      BY <1>1, <1>2, <2>2, AheadScan
    <2> QED BY <2>1, <2>3 DEF AppInv, Stream
  <1> QED BY <1>3, <1>4, <1>5, <1>6, <1>7, <1>8 DEF AppInv

LEMMA ReaperInv ==
    ASSUME AppConstants, AppInv, TypesOK', ScanCancelled \/ ReapStart \/ Reap \/ DeadlinePasses
    PROVE  AppInv'
  <1>1. UNCHANGED <<client, result, trace, toServer, toClient, server, emitted>>
    BY DEF ScanCancelled, ReapStart, Reap, DeadlinePasses
  <1>2. Requests(server', toServer') /\ Sends(client', server', toServer') /\ TraceOK'
    BY <1>1 DEF AppInv, TraceOK
  <1>3. late' = late \/ late'
    BY DEF ScanCancelled, ReapStart, Reap, DeadlinePasses
  <1>4. Outcome(client', result', server', toServer', late')
    BY <1>1, <1>3 DEF AppInv, Outcome
  <1>5. CASE ScanCancelled
    <2>1. /\ scanner'.at = "done" /\ reaper' = reaper /\ late' = late /\ scanner.at = "offer"
          /\ late \/ Over(client)
      BY <1>5 DEF ScanCancelled, Cancelled, Over, AppInv, TypesOK, ScannerRecord
    <2>2. ReaperOK' /\ ScannerOK' /\ Stream'
      BY <1>1, <2>1 DEF AppInv, ReaperOK, ScannerOK, Stream, Watched
    <2> QED BY <1>2, <1>4, <2>2 DEF AppInv
  <1>6. CASE ReapStart \/ Reap
    <2>1. /\ scanner' = scanner /\ late' = late
          /\ \/ reaper = "scan" /\ reaper' = "wait" /\ scanner.at = "done"
             \/ reaper = "wait" /\ reaper' = "reaped" /\ ~server.up
      BY <1>6 DEF ReapStart, Reap, Drained
    <2>2. ReaperOK' /\ ScannerOK'
      BY <1>1, <2>1 DEF AppInv, ReaperOK, ScannerOK
    <2>3. Stream'
      BY <1>1, <2>1 DEF AppInv, Stream
    <2> QED BY <1>2, <1>4, <2>2, <2>3 DEF AppInv
  <1>7. CASE DeadlinePasses
    <2>1. scanner' = scanner /\ reaper' = reaper /\ late'
      BY <1>7 DEF DeadlinePasses
    <2>2. ReaperOK' /\ ScannerOK'
      BY <1>1, <2>1 DEF AppInv, ReaperOK, ScannerOK
    <2>3. Stream'
      BY <1>1, <2>1 DEF AppInv, Stream, Watched
    <2> QED BY <1>2, <1>4, <2>2, <2>3 DEF AppInv
  <1> QED BY <1>5, <1>6, <1>7

\* The server takes a frame.
LEMMA TakeInv ==
    ASSUME AppConstants, AppInv, TypesOK', ServerTake
    PROVE  AppInv'
  <1> DEFINE x == toServer[1]
  <1>1. /\ toServer \in Seq(Frames) /\ Len(toServer) \in Nat \ {0}
        /\ Len(toServer') = Len(toServer) - 1
        /\ \A i \in 1..Len(toServer') : toServer'[i] = toServer[i + 1]
        /\ x = Head(toServer) /\ x \in Frames /\ server \in ServerRecord /\ server.owes \in Nat
        /\ UNCHANGED <<client, result, trace, scanner, reaper, toClient, emitted, late>>
    BY DEF ServerTake, AppInv, TypesOK, ServerRecord
  <1>2. /\ server'.up = server.up /\ server'.turn = server.turn /\ server'.done = server.done
        /\ server'.owes = (IF x.kind = "request" THEN x.id ELSE server.owes)
    BY <1>1 DEF ServerTake, ServerRecord
  <1> HIDE DEF x
  <1>3. \A i \in 1..Len(toServer') : i + 1 \in 1..Len(toServer) /\ i + 1 # 1
    BY <1>1
  <1>4. 1 \in 1..Len(toServer)
    BY <1>1
  <1>5. Asked(toServer') => Asked(toServer)
    BY <1>1, <1>3 DEF Asked
  <1>6. x.kind = "request" => Asked(toServer) /\ ~Asked(toServer') /\ x.id # 0 /\ IsNext(x.id, server)
                                /\ server.owes = 0
    <2> SUFFICES ASSUME x.kind = "request"
                 PROVE  Asked(toServer) /\ ~Asked(toServer') /\ x.id # 0 /\ IsNext(x.id, server)
                          /\ server.owes = 0
      OBVIOUS
    <2>1. Asked(toServer)
      BY <1>4 DEF Asked, x
    <2>2. x.id # 0 /\ IsNext(x.id, server) /\ server.owes = 0
      BY <1>4 DEF AppInv, Requests, x
    <2>3. \A j \in 1..Len(toServer) : toServer[j].kind = "request" => j = 1
      BY <1>4 DEF AppInv, Requests, x
    <2>4. ~Asked(toServer')
      BY <1>1, <1>3, <2>3 DEF Asked
    <2> QED BY <2>1, <2>2, <2>4
  <1>7. \A k : IsNext(k, server') = IsNext(k, server)
    BY <1>2 DEF IsNext
  <1>8. Requests(server', toServer')
    <2>1. server'.turn \in {server'.done, server'.done + 1}
      BY <1>2 DEF AppInv, Requests
    <2>2. server'.owes # 0 => IsNext(server'.owes, server') /\ ~Asked(toServer')
      BY <1>2, <1>5, <1>6, <1>7 DEF AppInv, Requests
    <2>3. ASSUME NEW i \in 1..Len(toServer'), toServer'[i].kind = "request"
          PROVE  /\ toServer'[i].id # 0 /\ IsNext(toServer'[i].id, server') /\ server'.owes = 0
                 /\ \A j \in 1..Len(toServer') : toServer'[j].kind = "request" => j = i
      <3>1. Asked(toServer')
        BY <2>3 DEF Asked
      <3>2. server'.owes = server.owes
        BY <1>2, <1>6, <3>1
      <3>3. i + 1 \in 1..Len(toServer) /\ toServer'[i] = toServer[i + 1]
        BY <1>1, <1>3
      <3>4. ASSUME NEW j \in 1..Len(toServer'), toServer'[j].kind = "request"
            PROVE  j = i
        <4>1. j + 1 \in 1..Len(toServer) /\ toServer'[j] = toServer[j + 1]
          BY <1>1, <1>3
        <4>2. j + 1 = i + 1
          BY <2>3, <3>3, <3>4, <4>1 DEF AppInv, Requests
        <4> QED BY <4>2
      <3>5. toServer[i + 1].id # 0 /\ IsNext(toServer[i + 1].id, server) /\ server.owes = 0
        BY <2>3, <3>3 DEF AppInv, Requests
      <3> QED BY <1>7, <3>2, <3>3, <3>4, <3>5
    <2> QED BY <2>1, <2>2, <2>3 DEF Requests
  <1>9. Idle(server, toServer) => Idle(server', toServer')
    BY <1>2, <1>5, <1>6 DEF Idle
  <1>10. Sends(client', server', toServer') /\ Outcome(client', result', server', toServer', late')
    BY <1>1, <1>2, <1>9 DEF AppInv, Sends, Outcome
  <1>11. ReaperOK' /\ ScannerOK' /\ TraceOK'
    BY <1>1, <1>2 DEF AppInv, ReaperOK, ScannerOK, TraceOK
  <1>12. \A v, k : ServerAt(v, server, toServer, emitted, k) =>
                     ServerAt(v, server', toServer', emitted, k)
    <2> SUFFICES ASSUME NEW v, NEW k, ServerAt(v, server, toServer, emitted, k)
                 PROVE  ServerAt(v, server', toServer', emitted, k)
      OBVIOUS
    <2>1. v.phase = "turn" =>
            server'.owes = 0 /\ ~Asked(toServer') /\ server'.turn = server'.done + 1
      BY <1>2, <1>5, <1>6 DEF ServerAt
    <2>2. ASSUME v.phase = "asked"
          PROVE  /\ server'.turn = server'.done
                 /\ server'.owes # 0 => server'.owes = k
                 /\ \A i \in 1..Len(toServer') : toServer'[i].kind = "request" => toServer'[i].id = k
      <3>1. x.kind = "request" => x.id = k
        BY <1>4, <2>2 DEF ServerAt, x
      <3> QED BY <1>1, <1>2, <1>3, <2>2, <3>1 DEF ServerAt
    <2> QED BY <1>2, <1>9, <2>1, <2>2 DEF ServerAt
  <1>13. Stream'
    BY <1>1, <1>12 DEF AppInv, Stream, Linked
  <1> QED BY <1>8, <1>10, <1>11, <1>13 DEF AppInv

\* The server writes a frame: it is legal where the server is, and leads to where it is then.
LEMMA EmitInv ==
    ASSUME AppConstants, AppInv, TypesOK', NEW frame \in Frames, Emit(frame),
           UNCHANGED <<client, result, trace, scanner, reaper, toServer, late>>,
           server'.up = server.up, Requests(server', toServer),
           Idle(server, toServer) => Idle(server', toServer) /\ server'.done = server.done,
           \A v \in View, k \in Nat : ServerAt(v, server, toServer, emitted, k) =>
             /\ Legal(v, frame, emitted')
             /\ ServerAt(ViewStep(v, frame, k), server', toServer, emitted', k)
    PROVE  AppInv'
  <1> DEFINE n == OnTheWay(scanner, toClient)
             f == Ahead(scanner, toClient)
             m == OnTheWay(scanner, toClient')
             g == Ahead(scanner, toClient')
             k == client.id
  <1>1. /\ server.up
        /\ Len(toClient') = Len(toClient) + 1 /\ toClient'[Len(toClient')] = frame
        /\ \A i \in 1..Len(toClient) : toClient'[i] = toClient[i]
        /\ \A i \in 1..Len(emitted) : emitted'[i] = emitted[i]
        /\ Len(emitted') \in {Len(emitted), Len(emitted) + 1}
    BY EmitTypes DEF AppInv
  <1>2. /\ toClient \in Seq(Frames) /\ emitted \in Seq(Notifications) /\ Len(emitted) \in Nat
        /\ Len(emitted') \in Nat /\ Len(trace) \in Nat /\ k \in Nat
    BY <1>1 DEF AppInv, TypesOK, ClientRecord, LastRequest, Handshake, AppConstants
  <1>3. Sends(client', server', toServer') /\ Outcome(client', result', server', toServer', late')
    BY <1>1 DEF AppInv, Sends, Outcome
  <1>4. ReaperOK' /\ ScannerOK'
    BY <1>1 DEF AppInv, ReaperOK, ScannerOK
  <1>5. TraceOK'
    <2>1. \A i \in 1..Len(trace) : i \in 1..Len(emitted)
      BY <1>2 DEF AppInv, TraceOK
    <2> QED BY <1>1, <1>2, <2>1 DEF AppInv, TraceOK
  <1>6. Stream'
    <2> SUFFICES ASSUME Watched(client, scanner, late)
                 PROVE  Linked(g, m, client, trace, server', toServer, emitted')
      BY DEF Stream
    <2>1. n \in Nat /\ m = n + 1 /\ (\A i \in 1..n : g[i] = f[i]) /\ g[m] = frame
      <3>1. /\ OnTheWay(scanner, toClient) \in Nat
            /\ OnTheWay(scanner, toClient') = OnTheWay(scanner, toClient) + 1
            /\ \A i \in 1..OnTheWay(scanner, toClient) :
                 Ahead(scanner, toClient')[i] = Ahead(scanner, toClient)[i]
            /\ Ahead(scanner, toClient')[OnTheWay(scanner, toClient')] = frame
        <4>1. \A r : /\ Len(r) = Len(toClient) + 1
                     /\ \A i \in 1..Len(toClient) : r[i] = toClient[i]
                     => /\ OnTheWay(scanner, toClient) \in Nat
                        /\ OnTheWay(scanner, r) = OnTheWay(scanner, toClient) + 1
                        /\ \A i \in 1..OnTheWay(scanner, toClient) :
                             Ahead(scanner, r)[i] = Ahead(scanner, toClient)[i]
                        /\ Ahead(scanner, r)[OnTheWay(scanner, r)] = r[Len(r)]
          BY <1>2, AheadAppend
        <4> QED BY <1>1, <4>1
      <3> QED BY <3>1
    <2>2. PICK vs \in [1..n + 1 -> View] :
               /\ Path(vs, f, n, k, emitted)
               /\ ClientAt(vs[1], client, trace)
               /\ ServerAt(vs[n + 1], server, toServer, emitted, k)
      BY DEF AppInv, Stream, Linked
    <2> HIDE DEF n, f, m, g
    <2>3. vs[n + 1] \in View /\ m \in Nat
      BY <2>1
    <2>4. /\ Legal(vs[n + 1], g[m], emitted')
          /\ ServerAt(ViewStep(vs[n + 1], g[m], k), server', toServer, emitted', k)
      BY <1>2, <2>1, <2>2, <2>3
    <2> HIDE DEF k
    <2>5. PICK ws \in [1..m + 1 -> View] :
               /\ Path(ws, g, m, k, emitted')
               /\ ws[1] = vs[1]
               /\ ws[m + 1] = ViewStep(vs[n + 1], g[m], k)
      <3> DEFINE last == vs[n + 1]
      <3>1. Len(emitted) <= Len(emitted')
        BY <1>1, <1>2
      <3>2. /\ n \in Nat /\ Len(emitted) \in Nat /\ Path(vs, f, n, k, emitted)
            /\ m \in Nat /\ m = n + 1 /\ (\A i \in 1..n : g[i] = f[i])
            /\ Len(emitted') \in Nat /\ (\A i \in 1..Len(emitted) : emitted'[i] = emitted[i])
            /\ Legal(last, g[m], emitted') /\ last = vs[n + 1]
        BY <1>1, <1>2, <2>1, <2>2, <2>3, <2>4
      <3> QED BY <3>1, <3>2, PathAppend
    <2> QED BY <2>2, <2>4, <2>5 DEF Linked, k
  <1> QED BY <1>3, <1>4, <1>5, <1>6 DEF AppInv

\* What is known of the server when it writes.
LEMMA ServerNumbers ==
    ASSUME AppInv
    PROVE  /\ server \in ServerRecord /\ toServer \in Seq(Frames)
           /\ server.owes \in Nat /\ server.turn \in Nat /\ server.done \in Nat
           /\ server.turn \in {server.done, server.done + 1}
           /\ server.owes # 0 => IsNext(server.owes, server) /\ ~Asked(toServer)
           /\ server.turn # server.done =>
                server.owes = 0 /\ ~Asked(toServer) /\ server.turn = server.done + 1
           /\ ~Asked(toServer) => \A i \in 1..Len(toServer) : toServer[i].kind # "request"
  <1>1. /\ server \in ServerRecord /\ toServer \in Seq(Frames)
        /\ server.owes \in Nat /\ server.turn \in Nat /\ server.done \in Nat
    BY DEF AppInv, TypesOK, ServerRecord
  <1>2. /\ server.turn \in {server.done, server.done + 1}
        /\ server.owes # 0 => IsNext(server.owes, server) /\ ~Asked(toServer)
    BY DEF AppInv, Requests
  <1>3. server.turn # server.done =>
          server.owes = 0 /\ ~Asked(toServer) /\ server.turn = server.done + 1
    BY <1>1, <1>2 DEF AppInv, Requests, IsNext, Asked
  <1>4. ~Asked(toServer) => \A i \in 1..Len(toServer) : toServer[i].kind # "request"
    BY DEF Asked
  <1> QED BY <1>1, <1>2, <1>3, <1>4

\* An answer, as asked or not.
LEMMA AnswerInv ==
    ASSUME AppConstants, AppInv, TypesOK', ServerAnswer \/ ServerMisanswers
    PROVE  AppInv'
  <1>1. /\ server.owes # 0 /\ IsNext(server.owes, server) /\ ~Asked(toServer)
        /\ server \in ServerRecord
        /\ server.owes \in Nat /\ server.turn \in Nat /\ server.done \in Nat
        /\ \A i \in 1..Len(toServer) : toServer[i].kind # "request"
    BY ServerNumbers DEF ServerAnswer, ServerMisanswers
  <1>2. UNCHANGED <<client, result, trace, scanner, reaper, toServer, late>>
    BY DEF ServerAnswer, ServerMisanswers
  <1>3. ~Idle(server, toServer)
    BY <1>1 DEF Idle
  <1>4. PICK frame \in Frames :
          /\ Emit(frame) /\ frame.kind \in Answers
          /\ server'.up = server.up /\ server'.owes = 0 /\ server'.done = server.done
          /\ server'.turn =
               (IF frame.kind = "result" /\ frame.id = server.owes /\ server.owes > Handshake
                THEN server.done + 1 ELSE server.done)
    <2>1. CASE ServerAnswer
      <3> DEFINE t == IF server.owes > Handshake THEN server.owes - Handshake ELSE server.turn
                 x == Frame("result", server.owes)
      <3>1. t = IF server.owes > Handshake THEN server.done + 1 ELSE server.done
        BY <1>1 DEF IsNext, Before, Handshake
      <3>2. server' = [server EXCEPT !.owes = 0, !.turn = t] /\ Emit(x)
        BY <2>1 DEF ServerAnswer
      <3>3. x \in Frames /\ x.kind = "result" /\ x.id = server.owes
        BY <1>1, FrameTypes DEF Kinds, Answers
      <3> HIDE DEF t, x
      <3>4. /\ server'.up = server.up /\ server'.owes = 0 /\ server'.done = server.done
            /\ server'.turn = t
        BY <1>1, <3>2 DEF ServerRecord
      <3> QED BY <3>1, <3>2, <3>3, <3>4 DEF Answers
    <2>2. CASE ServerMisanswers
      <3> DEFINE y == server.extra + 1
      <3>1. PICK x \in {Frame("error", server.owes), Frame("odd", server.owes),
                        Frame("result", server.owes + 1)} : Emit(x)
        BY <2>2 DEF ServerMisanswers
      <3>2. x \in Frames /\ x.kind \in Answers /\ ~(x.kind = "result" /\ x.id = server.owes)
        BY <1>1, <3>1, FrameTypes DEF Kinds, Answers
      <3>3. server' = [server EXCEPT !.owes = 0, !.extra = y]
        BY <2>2 DEF ServerMisanswers
      <3> HIDE DEF y
      <3>4. /\ server'.up = server.up /\ server'.owes = 0 /\ server'.done = server.done
            /\ server'.turn = server.turn
        BY <1>1, <3>3 DEF ServerRecord
      <3>5. server.turn = server.done
        BY <1>1 DEF IsNext
      <3> QED BY <3>1, <3>2, <3>4, <3>5
    <2> QED BY <2>1, <2>2
  <1>5. Requests(server', toServer)
    BY <1>1, <1>4 DEF Requests
  <1>7. emitted' = emitted
    BY <1>4 DEF Emit, Answers, Notifications
  <1>8. ASSUME NEW v \in View, NEW k \in Nat, ServerAt(v, server, toServer, emitted, k)
        PROVE  /\ Legal(v, frame, emitted')
               /\ ServerAt(ViewStep(v, frame, k), server', toServer, emitted', k)
    <2>1. v.phase = "asked" /\ server.owes = k
      BY <1>1, <1>3, <1>8 DEF ServerAt, View
    <2>2. Legal(v, frame, emitted')
      BY <1>4, <2>1 DEF Legal, Answers, Notifications
    <2> DEFINE w == ViewStep(v, frame, k)
    <2>3. /\ w.done = v.done /\ w.pos = v.pos
          /\ w.phase = (IF frame.kind = "result" /\ frame.id = k
                        THEN (IF k > Handshake THEN "turn" ELSE "idle") ELSE "broken")
      BY <1>4 DEF ViewStep, Answers, Notifications
    <2> HIDE DEF w
    <2>4. ServerAt(w, server', toServer, emitted', k)
      BY <1>1, <1>4, <1>7, <1>8, <2>1, <2>3 DEF ServerAt, Idle
    <2> QED BY <2>2, <2>4 DEF w
  <1> QED BY <1>2, <1>3, <1>4, <1>5, <1>8, EmitInv

\* A frame that is neither an answer nor the end of a turn.
LEMMA ExtraInv ==
    ASSUME AppConstants, AppInv, TypesOK', ServerExtra
    PROVE  AppInv'
  <1>1. server \in ServerRecord
    BY ServerNumbers
  <1>2. PICK kind \in {"note", "foreign", "ask", "garbage"} :
            /\ Emit(Frame(kind, 0))
            /\ server' = [server EXCEPT !.extra = @ + 1, !.garbled = @ \/ kind = "garbage"]
    BY DEF ServerExtra
  <1> DEFINE frame == Frame(kind, 0)
  <1>3. frame \in Frames /\ frame.kind = kind
    BY <1>2, FrameTypes DEF Kinds, Notifications
  <1> HIDE DEF frame
  <1>4. frame.kind \notin Answers \cup {"completed", "failed"}
    BY <1>3 DEF Answers
  <1>5. /\ server'.up = server.up /\ server'.owes = server.owes /\ server'.done = server.done
        /\ server'.turn = server.turn
    BY <1>1, <1>2 DEF ServerRecord
  <1>6. Emit(frame) /\ UNCHANGED <<client, result, trace, scanner, reaper, toServer, late>>
    BY <1>2 DEF ServerExtra, frame
  <1>7. Requests(server', toServer) /\ Idle(server', toServer) = Idle(server, toServer)
    BY <1>5 DEF AppInv, Requests, Idle, IsNext
  <1>8. ASSUME NEW v \in View, NEW k \in Nat, ServerAt(v, server, toServer, emitted, k)
        PROVE  /\ Legal(v, frame, emitted')
               /\ ServerAt(ViewStep(v, frame, k), server', toServer, emitted', k)
    <2>1. /\ frame.kind \in Notifications =>
               Len(emitted') = Len(emitted) + 1 /\ emitted'[Len(emitted')] = frame.kind
          /\ frame.kind \notin Notifications => emitted' = emitted
          /\ Len(emitted) \in Nat
      BY <1>3, <1>6, EmitTypes DEF AppInv, TypesOK
    <2>2. v.pos = Len(emitted)
      BY <1>8 DEF ServerAt
    <2>3. Legal(v, frame, emitted')
      BY <1>4, <2>1, <2>2 DEF Legal
    <2> DEFINE w == ViewStep(v, frame, k)
    <2>4. w.phase = v.phase /\ w.done = v.done /\ w.pos = Len(emitted')
      BY <1>4, <2>1, <2>2 DEF ViewStep, Answers
    <2> HIDE DEF w
    <2>5. ServerAt(w, server', toServer, emitted', k)
      BY <1>5, <1>7, <1>8, <2>4 DEF ServerAt
    <2> QED BY <2>3, <2>5 DEF w
  <1> QED BY <1>3, <1>5, <1>6, <1>7, <1>8, EmitInv

LEMMA EndsTurnInv ==
    ASSUME AppConstants, AppInv, TypesOK', ServerEndsTurn
    PROVE  AppInv'
  <1>1. /\ server \in ServerRecord /\ server.turn \in Nat /\ server.done \in Nat
        /\ server.owes = 0 /\ ~Asked(toServer) /\ server.turn = server.done + 1
        /\ \A i \in 1..Len(toServer) : toServer[i].kind # "request"
    BY ServerNumbers DEF ServerEndsTurn
  <1>2. PICK kind \in {"completed", "failed"} :
          /\ Emit(Frame(kind, 0))
          /\ server' = [server EXCEPT !.turn = IF kind = "completed" THEN @ ELSE server.done,
                                      !.done = IF kind = "completed" THEN server.turn ELSE @]
    BY DEF ServerEndsTurn
  <1> DEFINE frame == Frame(kind, 0)
  <1>3. frame \in Frames /\ frame.kind = kind
    BY <1>2, FrameTypes DEF Kinds, Notifications
  <1> HIDE DEF frame
  <1>4. /\ server'.up = server.up /\ server'.owes = server.owes /\ server'.turn = server'.done
        /\ server'.done = (IF kind = "completed" THEN server.done + 1 ELSE server.done)
    BY <1>1, <1>2 DEF ServerRecord
  <1>5. Emit(frame) /\ UNCHANGED <<client, result, trace, scanner, reaper, toServer, late>>
    BY <1>2 DEF ServerEndsTurn, frame
  <1>6. ~Idle(server, toServer)
    BY <1>1 DEF Idle
  <1>7. Requests(server', toServer) /\ Idle(server', toServer)
    BY <1>1, <1>4 DEF Requests, Idle
  <1>8. ASSUME NEW v \in View, NEW k \in Nat, ServerAt(v, server, toServer, emitted, k)
        PROVE  /\ Legal(v, frame, emitted')
               /\ ServerAt(ViewStep(v, frame, k), server', toServer, emitted', k)
    <2>1. /\ Len(emitted') = Len(emitted) + 1 /\ emitted'[Len(emitted')] = frame.kind
          /\ Len(emitted) \in Nat
      BY <1>3, <1>5, EmitTypes DEF AppInv, TypesOK, Notifications
    <2>2. v.phase = "turn" /\ v.pos = Len(emitted) /\ v.done = server.done
      BY <1>1, <1>6, <1>8 DEF ServerAt, View
    <2>3. Legal(v, frame, emitted')
      BY <1>3, <2>1, <2>2 DEF Legal, Answers
    <2> DEFINE w == ViewStep(v, frame, k)
    <2>4. /\ w.phase \in {"idle", "broken"} /\ w.done = server'.done /\ w.pos = Len(emitted')
      BY <1>3, <1>4, <2>1, <2>2 DEF ViewStep, Answers, Notifications
    <2> HIDE DEF w
    <2>5. ServerAt(w, server', toServer, emitted', k)
      BY <1>7, <2>4 DEF ServerAt
    <2> QED BY <2>3, <2>5 DEF w
  <1> QED BY <1>3, <1>4, <1>5, <1>6, <1>7, <1>8, EmitInv

LEMMA ExitInv ==
    ASSUME AppConstants, AppInv, TypesOK', ServerExit
    PROVE  AppInv'
  <1>1. /\ ~server'.up /\ server'.owes = server.owes /\ server'.done = server.done
        /\ server'.turn = server.turn /\ server.up
    BY DEF ServerExit, AppInv, TypesOK, ServerRecord
  <1>2. UNCHANGED <<client, result, trace, scanner, reaper, toServer, toClient, emitted, late>>
    BY DEF ServerExit
  <1>3. Requests(server', toServer) /\ Idle(server', toServer) = Idle(server, toServer)
    BY <1>1 DEF AppInv, Requests, Idle, IsNext
  <1>4. Sends(client', server', toServer') /\ Outcome(client', result', server', toServer', late')
    BY <1>1, <1>2, <1>3 DEF AppInv, Sends, Outcome
  <1>5. ReaperOK' /\ ScannerOK' /\ TraceOK'
    BY <1>1, <1>2 DEF AppInv, ReaperOK, ScannerOK, TraceOK
  <1>6. \A v, k : ServerAt(v, server, toServer, emitted, k) =>
                    ServerAt(v, server', toServer, emitted, k)
    BY <1>1, <1>3 DEF ServerAt
  <1>7. Stream'
    BY <1>2, <1>6 DEF AppInv, Stream, Linked
  <1> QED BY <1>2, <1>3, <1>4, <1>5, <1>7 DEF AppInv

LEMMA NextAppInv ==
    ASSUME AppConstants, AppInv, [AppNext]_appVars
    PROVE  AppInv'
  <1>1. TypesOK /\ Requests(server, toServer)
    BY DEF AppInv
  <1>2. CASE Client
    <2>1. TypesOK'
      BY <1>1, <1>2, ClientTypes
    <2> QED BY <1>2, <2>1, SendInv, OtherWriteInv, BrokenOffInv, ReceiveInv, StopInv DEF Client
  <1>3. CASE Goroutines
    <2>1. TypesOK'
      BY <1>1, <1>3, GoroutineTypes
    <2> QED BY <1>3, <2>1, ScanInv, ReaperInv DEF Goroutines
  <1>4. CASE Server
    <2>1. TypesOK'
      BY <1>1, <1>4, ServerTypes
    <2> QED BY <1>4, <2>1, TakeInv, AnswerInv, ExtraInv, EndsTurnInv, ExitInv DEF Server
  <1>5. CASE DeadlinePasses
    <2>1. TypesOK'
      BY <1>1, <1>5 DEF DeadlinePasses, TypesOK
    <2> QED BY <1>5, <2>1, ReaperInv
  <1>6. CASE UNCHANGED appVars
    <2>1. /\ client' = client /\ result' = result /\ trace' = trace /\ scanner' = scanner
          /\ reaper' = reaper /\ toServer' = toServer /\ toClient' = toClient /\ server' = server
          /\ emitted' = emitted /\ late' = late
      BY <1>6 DEF appVars
    <2>2. TypesOK' /\ ReaperOK' /\ ScannerOK' /\ TraceOK' /\ Stream'
      BY <2>1 DEF AppInv, TypesOK, ReaperOK, ScannerOK, TraceOK, Stream
    <2> QED BY <2>1, <2>2 DEF AppInv
  <1> QED BY <1>2, <1>3, <1>4, <1>5, <1>6 DEF AppNext, AppDone

-----------------------------------------------------------------------------

\* Every reachable state satisfies the inductive invariant.
LEMMA AppInvariance ==
    ASSUME AppConstants
    PROVE  AppSpec => []AppInv
  BY InitAppInv, NextAppInv, PTL DEF AppSpec

LEMMA AppInvSays ==
    ASSUME AppInv
    PROVE  /\ AppTypeOK /\ DoneMeansAllCompleted /\ TraceHasNoGaps
           /\ ClosedMeansUnfinished /\ OneTurnAtATime /\ NothingRunsOn
  <1>1. AppTypeOK
    BY DEF AppInv, TypesOK, AppTypeOK, ClientRecord, ScannerRecord
  <1>2. DoneMeansAllCompleted /\ ClosedMeansUnfinished
    BY DEF AppInv, Outcome, DoneMeansAllCompleted, ClosedMeansUnfinished
  <1>3. TraceHasNoGaps
    <2>1. /\ trace \in Seq(Notifications) /\ emitted \in Seq(Notifications)
          /\ Len(trace) <= Len(emitted) /\ \A i \in 1..Len(trace) : trace[i] = emitted[i]
      BY DEF AppInv, TypesOK, TraceOK
    <2> DEFINE s == SubSeq(emitted, 1, Len(trace))
    <2>2. s \in Seq(Notifications) /\ Len(s) = Len(trace) /\ \A i \in 1..Len(s) : s[i] = emitted[i]
      BY <2>1
    <2>3. s = trace /\ SubSeq(trace, 1, Len(trace)) = trace
      BY <2>1, <2>2
    <2> QED BY <2>1, <2>3 DEF TraceHasNoGaps, IsPrefix
  <1>4. OneTurnAtATime
    BY DEF AppInv, Requests, OneTurnAtATime
  <1>5. NothingRunsOn
    BY DEF AppInv, ReaperOK, NothingRunsOn
  <1> QED BY <1>1, <1>2, <1>3, <1>4, <1>5

\* The client's state, its trace, the scanner, the reaper and the two pipes are well-formed,
\* and the pipes hold no more than they have room for (writeMessage, the scanner goroutine).
THEOREM AppTypeCorrect ==
    ASSUME AppConstants
    PROVE  AppSpec => []AppTypeOK
  BY AppInvSays, AppInvariance, PTL

\* runCodexAppServer returns 0 only after the server has completed the task and every
\* follow-up, whatever else it sent in between.
THEOREM SuccessIsOfAllTurns ==
    ASSUME AppConstants
    PROVE  AppSpec => []DoneMeansAllCompleted
  BY AppInvSays, AppInvariance, PTL

\* The trace of a run is what the server reported up to some point: no notification is left
\* out, none is moved (next, which appends to the trace what it passes on).
THEOREM TraceIsPrefix ==
    ASSUME AppConstants
    PROVE  AppSpec => []TraceHasNoGaps
  BY AppInvSays, AppInvariance, PTL

\* "closed before turn completion" is said of a server that has exited with a turn
\* outstanding, or after the deadline: a server that completed its turns and then exits has
\* its last frames read first (the reaper waits for the scanner).
THEOREM ClosedIsUnfinished ==
    ASSUME AppConstants
    PROVE  AppSpec => []ClosedMeansUnfinished
  BY AppInvSays, AppInvariance, PTL

\* No turn is started before the one before it is over (the turn loop).
THEOREM TurnsDoNotOverlap ==
    ASSUME AppConstants
    PROVE  AppSpec => []OneTurnAtATime
  BY AppInvSays, AppInvariance, PTL

\* When runCodexAppServer has returned, its scanner has ended, the process has been waited
\* for and is gone (the deferred stop).
THEOREM ReturnLeavesNothing ==
    ASSUME AppConstants
    PROVE  AppSpec => []NothingRunsOn
  BY AppInvSays, AppInvariance, PTL

-----------------------------------------------------------------------------
(* The state, part by part *)

ActorUp == wire["actor"].up
ActorDown == wire["actor"].down
SocketUp == wire["socket"].up
SocketDown == wire["socket"].down
ProviderUp == wire["provider"].up
ProviderDown == wire["provider"].down

BridgeUp == copier[<<"bridge", "up">>]
BridgeDown == copier[<<"bridge", "down">>]
ProxyUp == copier[<<"proxy", "up">>]
ProxyDown == copier[<<"proxy", "down">>]

ActorShut == shut["actor"]
SocketShut == shut["socket"]
ProviderShut == shut["provider"]

\* How many frames each end has got.
ActorHas == Len(actor.got)
ProviderHas == Len(provider.got)

CopierRecord == [at : {"off", "read", "write", "close", "done"}, held : Int]
Ways == [up : Seq(Int), down : Seq(Int)]

TunnelTypes ==
    /\ wire \in [Links -> Ways]
    /\ shut \in [Links -> SUBSET {"near", "far"}]
    /\ copier \in [Copiers -> CopierRecord]
    /\ request \in {"none", "head", "dial", "dialed", "tunnel", "over"}
    /\ actor \in [allowed : BOOLEAN, patient : BOOLEAN, asked : BOOLEAN, reply : Int, sent : Nat,
                  got : Seq(Int), half : BOOLEAN, eof : BOOLEAN]
    /\ provider \in [sent : Nat, got : Seq(Int)]

\* A goroutine that copies, holds a frame, has left.
Copies(c) == c.at \in {"read", "write"}
Holds(c) == IF c.at = "write" THEN 1 ELSE 0
Left(c) == c.at \in {"close", "done"}

-----------------------------------------------------------------------------
(* Down *)

\* The frames of q are number n + 1, n + 2, ... of those that go down.
IsDown(x, n) == IF n = 1 THEN x \in {Established, Forbidden, Unavailable} ELSE x = n - 1
Down(q, n) == \A i \in 1..Len(q) : IsDown(q[i], n + i)

\* Frames received by the actor, and those up to each goroutine.
Received == IF actor.reply = Unasked THEN 0 ELSE 1 + ActorHas
ToActor == Received + Len(ActorDown)
ToSocket == ToActor + Holds(BridgeDown) + Len(SocketDown)
ToProvider == ToSocket + Holds(ProxyDown) + Len(ProviderDown)

DownOK ==
    /\ actor.reply = Unasked => actor.got = << >>
    /\ actor.got = Upto(ActorHas)
    /\ Down(ActorDown, Received)
    /\ Copies(BridgeDown) /\ "near" \notin ActorShut =>
         /\ BridgeDown.at = "write" => IsDown(BridgeDown.held, ToActor + 1)
         /\ Down(SocketDown, ToActor + Holds(BridgeDown))
    /\ /\ Copies(BridgeDown) /\ "near" \notin ActorShut
       /\ Copies(ProxyDown) /\ "near" \notin SocketShut
       => /\ ProxyDown.at = "write" => IsDown(ProxyDown.held, ToSocket + 1)
          /\ Down(ProviderDown, ToSocket + Holds(ProxyDown))
          /\ ToProvider = provider.sent + 1

\* No reply is on its way or has come.
Fresh ==
    actor.reply = Unasked /\ ActorDown = << >> /\ BridgeDown.at # "write" /\ SocketDown = << >>

-----------------------------------------------------------------------------
(* Up *)

\* The frames of q are those after frame n.
Up(q, n) == \A i \in 1..Len(q) : q[i] = n + i

\* The frames of q rise, from 0 up to p at most: none of them twice, some may be missing.
Rising(q, p) ==
    /\ \A i \in 1..Len(q) : q[i] \in 0..p
    /\ \A i, j \in 1..Len(q) : i <= j => q[j] - q[i] >= j - i

\* Frames of data only.
Data(q) == \A i \in 1..Len(q) : q[i] >= 1

\* The last frame sent, the last one the bridge has taken and the last one it has passed on.
LastSent == IF actor.asked THEN actor.sent ELSE -1
Taken == LastSent - Len(ActorUp)
Passed == Taken - Holds(BridgeUp)

\* The CONNECT is on its way no more.
TunnelAsked == Passed >= 0 /\ Data(SocketUp)

UpOK ==
    /\ ~actor.asked => actor.sent = 0
    /\ actor.patient /\ actor.reply # Established => actor.sent = 0
    /\ Passed >= -1 /\ Up(ActorUp, Taken)
    /\ BridgeUp.at = "write" => BridgeUp.held = Taken
    /\ Rising(SocketUp, Passed)

\* Frames the provider has or that have left the socket.
ToProxy == ProviderHas + Len(ProviderUp) + Holds(ProxyUp)

PatientOK ==
    actor.patient =>
      /\ provider.got = Upto(ProviderHas) /\ Up(ProviderUp, ProviderHas)
      /\ Copies(ProxyUp) /\ "far" \notin ProviderShut =>
           /\ ProxyUp.at = "write" => ProxyUp.held = ToProxy
           /\ Up(SocketUp, ToProxy)
      /\ Copies(ProxyUp) /\ "far" \notin ProviderShut
           /\ Copies(BridgeUp) /\ "far" \notin SocketShut =>
           ToProxy + Len(SocketUp) = Passed

-----------------------------------------------------------------------------
(* The proxy *)

\* Nothing in q says that the tunnel is there.
NotEstablished(q) == \A i \in 1..Len(q) : q[i] # Established

RequestOK ==
    /\ ~TunnelAsked => Fresh
    /\ request \in {"dial", "dialed", "tunnel"} => TunnelAsked
    /\ request \in {"dial", "dialed"} => Fresh
    /\ request # "tunnel" =>
         /\ ProxyUp.at = "off" /\ ProxyDown.at = "off"
         /\ ProviderUp = << >> /\ provider.got = << >>
         /\ actor.reply # Established
         /\ NotEstablished(ActorDown) /\ NotEstablished(SocketDown)
         /\ BridgeDown.at = "write" => BridgeDown.held # Established
    /\ request \in {"none", "head", "dial", "dialed"} =>
         /\ "far" \notin SocketShut /\ "near" \notin ProviderShut
         /\ Down(ProviderDown, 1) /\ Len(ProviderDown) = provider.sent
    /\ request \in {"none", "head", "dial"} => provider.sent = 0
    /\ request = "none" => Passed = -1
    /\ request = "tunnel" => ProxyUp.at # "off" /\ ProxyDown.at # "off"

-----------------------------------------------------------------------------
(* Who has left, and why *)

ShutOK ==
    /\ request = "none" <=> BridgeUp.at = "off"
    /\ request = "none" <=> BridgeDown.at = "off"
    /\ "far" \in ActorShut => BridgeDown.at = "done" \/ request = "none"
    /\ "near" \in SocketShut <=> BridgeUp.at = "done" \/ BridgeDown.at = "done"
    /\ request = "tunnel" => ("far" \in SocketShut => ProxyDown.at = "done")
    /\ request = "tunnel" =>
         ("near" \in ProviderShut => ProxyUp.at = "done" \/ ProxyDown.at = "done")
    /\ actor.eof => ActorDown = << >> /\ "far" \in ActorShut
    /\ SocketShut = {} /\ (Left(BridgeUp) \/ Left(BridgeDown)) => actor.half \/ "near" \in ActorShut

Ended == actor.half \/ "near" \in ActorShut \/ "far" \in ProviderShut

CauseOK ==
    /\ request # "over" /\ (Left(BridgeUp) \/ Left(BridgeDown) \/ Left(ProxyUp) \/ Left(ProxyDown)) =>
         Ended
    /\ request = "tunnel" /\ actor.eof => actor.half \/ "far" \in ProviderShut

\* Frames sent that the provider has or may still get.
Remaining == ToProxy + Len(SocketUp) + Holds(BridgeUp) + Len(ActorUp)

\* An actor that listens to the end and has lost nothing.
Listens == ~actor.half /\ ("near" \notin ActorShut \/ actor.eof) /\ Remaining = actor.sent

WholeOK ==
    request = "tunnel" =>
      /\ Remaining <= actor.sent
      /\ Listens =>
           /\ Left(BridgeUp) => BridgeDown.at = "done"
           /\ Left(BridgeDown) => SocketDown = << >> /\ ProxyDown.at = "done"
           /\ Left(ProxyUp) => ProxyDown.at = "done"
           /\ Left(ProxyDown) => ProviderDown = << >> /\ "far" \in ProviderShut
           /\ ToProvider = provider.sent + 1

RoomOK ==
    /\ Len(ActorUp) <= LinkRoom /\ Len(ActorDown) <= LinkRoom
    /\ Len(SocketUp) <= LinkRoom /\ Len(SocketDown) <= LinkRoom
    /\ Len(ProviderUp) <= LinkRoom /\ Len(ProviderDown) <= LinkRoom

TunnelInv ==
    /\ TunnelTypes /\ RoomOK
    /\ DownOK /\ UpOK /\ PatientOK /\ RequestOK /\ ShutOK /\ CauseOK /\ WholeOK

-----------------------------------------------------------------------------
(* Frames that enter and leave a link *)

LEMMA DownIn ==
  ASSUME NEW q \in Seq(Int), NEW n \in Nat, NEW x \in Int, Down(q, n), IsDown(x, n + Len(q) + 1)
  PROVE  Down(Append(q, x), n)
  <1>1. /\ n + (Len(q) + 1) = n + Len(q) + 1 /\ Len(q) \in Nat
        /\ Len(Append(q, x)) = Len(q) + 1 /\ Append(q, x)[Len(q) + 1] = x
        /\ \A i \in 1..Len(q) : Append(q, x)[i] = q[i]
    OBVIOUS
  <1>2. \A i \in 1..(Len(q) + 1) : i \in 1..Len(q) \/ i = Len(q) + 1
    BY <1>1
  <1> QED
    BY <1>1, <1>2 DEF Down

LEMMA DownOut ==
  ASSUME NEW q \in Seq(Int), NEW n \in Nat, q # << >>, Down(q, n)
  PROVE  Head(q) \in Int /\ IsDown(Head(q), n + 1) /\ Tail(q) \in Seq(Int) /\ Down(Tail(q), n + 1)
  <1>1. Len(q) >= 1 /\ Head(q) = q[1] /\ Tail(q) \in Seq(Int) /\ Len(Tail(q)) = Len(q) - 1
    OBVIOUS
  <1>2. \A i \in 1..Len(Tail(q)) : Tail(q)[i] = q[i + 1]
    OBVIOUS
  <1>3. ASSUME NEW i \in 1..Len(Tail(q))
        PROVE  IsDown(Tail(q)[i], n + 1 + i)
    <2>1. i + 1 \in 1..Len(q) /\ n + (i + 1) = n + 1 + i
      BY <1>1
    <2>2. IsDown(q[i + 1], n + (i + 1))
      BY <2>1 DEF Down
    <2> QED
      BY <2>1, <2>2, <1>2
  <1> QED
    BY <1>1, <1>3 DEF Down

LEMMA UpIn ==
  ASSUME NEW q \in Seq(Int), NEW n \in Int, Up(q, n)
  PROVE  Up(Append(q, n + Len(q) + 1), n)
  <1> DEFINE x == n + Len(q) + 1
  <1>1. /\ x \in Int /\ x = n + (Len(q) + 1) /\ Len(q) \in Nat
        /\ Len(Append(q, x)) = Len(q) + 1 /\ Append(q, x)[Len(q) + 1] = x
        /\ \A i \in 1..Len(q) : Append(q, x)[i] = q[i]
    OBVIOUS
  <1>2. \A i \in 1..(Len(q) + 1) : i \in 1..Len(q) \/ i = Len(q) + 1
    BY <1>1
  <1> HIDE DEF x
  <1>3. Up(Append(q, x), n)
    BY <1>1, <1>2 DEF Up
  <1> QED
    BY <1>3 DEF x

LEMMA UpOut ==
  ASSUME NEW q \in Seq(Int), NEW n \in Int, q # << >>, Up(q, n)
  PROVE  Head(q) = n + 1 /\ Up(Tail(q), n + 1)
  <1>1. Len(q) >= 1 /\ Head(q) = q[1] /\ Tail(q) \in Seq(Int) /\ Len(Tail(q)) = Len(q) - 1
    OBVIOUS
  <1>2. \A i \in 1..Len(Tail(q)) : Tail(q)[i] = q[i + 1]
    OBVIOUS
  <1>3. ASSUME NEW i \in 1..Len(Tail(q))
        PROVE  Tail(q)[i] = n + 1 + i
    BY <1>1, <1>2 DEF Up
  <1> QED
    BY <1>1, <1>3 DEF Up

\* A frame more or less at the end of a list that counts up from one.
LEMMA UptoIn ==
  ASSUME NEW q \in Seq(Int), q = Upto(Len(q))
  PROVE  Append(q, Len(q) + 1) = Upto(Len(q) + 1)
  <1>1. Append(q, Len(q) + 1) \in Seq(Int) /\ Len(Append(q, Len(q) + 1)) = Len(q) + 1
    OBVIOUS
  <1>2. \A i \in 1..(Len(q) + 1) : Append(q, Len(q) + 1)[i] = i
    BY DEF Upto
  <1> QED
    BY <1>1, <1>2 DEF Upto

LEMMA QueueIn ==
  ASSUME NEW q \in Seq(Int), NEW x \in Int
  PROVE  Append(q, x) \in Seq(Int) /\ Len(Append(q, x)) = Len(q) + 1
  OBVIOUS

LEMMA QueueOut ==
  ASSUME NEW q \in Seq(Int), q # << >>
  PROVE  /\ Head(q) \in Int /\ Head(q) = q[1] /\ Tail(q) \in Seq(Int)
         /\ Len(q) >= 1 /\ Len(Tail(q)) = Len(q) - 1
         /\ \A i \in 1..Len(Tail(q)) : i + 1 \in 1..Len(q) /\ Tail(q)[i] = q[i + 1]
  <1>1. /\ Head(q) \in Int /\ Head(q) = q[1] /\ Tail(q) \in Seq(Int)
        /\ Len(q) >= 1 /\ Len(Tail(q)) = Len(q) - 1 /\ Len(q) \in Nat
    OBVIOUS
  <1>2. \A i \in 1..Len(Tail(q)) : Tail(q)[i] = q[i + 1]
    OBVIOUS
  <1>3. \A i \in 1..Len(Tail(q)) : i + 1 \in 1..Len(q)
    BY <1>1
  <1> QED
    BY <1>1, <1>2, <1>3

LEMMA RisingIn ==
  ASSUME NEW q \in Seq(Int), NEW p \in Int, p >= -1, Rising(q, p)
  PROVE  Rising(Append(q, p + 1), p + 1)
  <1> DEFINE r == Append(q, p + 1)
             n == Len(q)
  <1>1. n \in Nat /\ Len(r) = n + 1 /\ r[n + 1] = p + 1 /\ \A i \in 1..n : r[i] = q[i] /\ q[i] \in Int
    OBVIOUS
  <1>2. /\ \A i \in 1..n : q[i] \in 0..p
        /\ \A i, j \in 1..n : i <= j => q[j] - q[i] >= j - i
    BY DEF Rising
  <1> HIDE DEF r, n
  <1>3. \A i \in 1..(n + 1) : i \in 1..n \/ i = n + 1
    BY <1>1
  <1>4. \A i \in 1..(n + 1) : r[i] \in 0..(p + 1)
    BY <1>1, <1>2, <1>3
  <1>5. ASSUME NEW i \in 1..(n + 1), NEW j \in 1..(n + 1), i <= j
        PROVE  r[j] - r[i] >= j - i
    <2>1. CASE j \in 1..n
      BY <1>1, <1>2, <1>5, <2>1
    <2>2. CASE i = n + 1 /\ j = n + 1
      BY <1>1, <2>2
    <2>3. CASE i \in 1..n /\ j = n + 1
      <3>1. n \in 1..n /\ i <= n /\ q[n] - q[i] >= n - i /\ q[n] \in 0..p /\ q[i] \in 0..p
        BY <1>1, <1>2, <2>3
      <3>2. r[j] = p + 1 /\ r[i] = q[i]
        BY <1>1, <2>3
      <3>3. p + 1 - q[i] >= n + 1 - i
        <4>1. i \in Int /\ q[i] \in Int /\ q[n] \in Int /\ q[n] <= p /\ q[n] - q[i] >= n - i
          BY <2>3, <3>1
        <4>2. n \in Int /\ p \in Int
          BY <1>1
        <4> QED
          BY <4>1, <4>2
      <3> QED
        BY <1>1, <2>3, <3>1, <3>2, <3>3
    <2> QED
      BY <1>1, <1>3, <1>5, <2>1, <2>2, <2>3
  <1>6. Rising(r, p + 1)
    BY <1>1, <1>4, <1>5 DEF Rising
  <1> QED
    BY <1>6 DEF r

LEMMA RisingMore ==
  ASSUME NEW q \in Seq(Int), NEW p \in Int, Rising(q, p)
  PROVE  Rising(q, p + 1)
  <1>1. \A x \in Int : x \in 0..p => x \in 0..(p + 1)
    OBVIOUS
  <1>2. \A i \in 1..Len(q) : q[i] \in Int
    OBVIOUS
  <1> QED
    BY <1>1, <1>2 DEF Rising

\* What is left of rising frames rises, and once the first one has gone is data only.
LEMMA RisingOut ==
  ASSUME NEW q \in Seq(Int), NEW p \in Int, q # << >>, Rising(q, p)
  PROVE  Rising(Tail(q), p) /\ Data(Tail(q)) /\ Head(q) \in 0..p
  <1> DEFINE r == Tail(q)
             n == Len(r)
  <1>1. /\ n \in Nat /\ n = Len(q) - 1 /\ Len(q) \in Nat /\ 1 \in 1..Len(q) /\ Head(q) = q[1]
        /\ \A i \in 1..n : i + 1 \in 1..Len(q) /\ r[i] = q[i + 1]
    BY QueueOut
  <1>2. /\ \A i \in 1..Len(q) : q[i] \in 0..p
        /\ \A i, j \in 1..Len(q) : i <= j => q[j] - q[i] >= j - i
    BY DEF Rising
  <1> HIDE DEF r, n
  <1>3. \A i \in 1..n : r[i] \in 0..p
    BY <1>1, <1>2
  <1>4. ASSUME NEW i \in 1..n, NEW j \in 1..n, i <= j
        PROVE  r[j] - r[i] >= j - i
    <2>1. i + 1 <= j + 1 /\ (j + 1) - (i + 1) = j - i
      BY <1>1, <1>4
    <2>2. q[j + 1] - q[i + 1] >= (j + 1) - (i + 1)
      BY <1>1, <1>2, <2>1
    <2> QED
      BY <1>1, <2>1, <2>2
  <1>5. ASSUME NEW i \in 1..n
        PROVE  r[i] >= 1
    <2>1. i + 1 \in 1..Len(q) /\ 1 <= i + 1 /\ (i + 1) - 1 >= 1
      BY <1>1
    <2>2. q[i + 1] - q[1] >= (i + 1) - 1 /\ q[1] \in 0..p /\ q[i + 1] \in 0..p
      BY <1>1, <1>2, <2>1
    <2>3. q[i + 1] >= 1
      BY <2>1, <2>2
    <2> QED
      BY <1>1, <2>3
  <1>6. Rising(r, p) /\ Data(r)
    BY <1>1, <1>3, <1>4, <1>5 DEF Rising, Data, n
  <1> QED
    BY <1>1, <1>2, <1>6 DEF r

LEMMA RisingRest ==
  ASSUME NEW q \in Seq(Int), NEW p \in Int, Rising(q, p), Data(q), NEW k \in 0..Len(q)
  PROVE  LET r == SubSeq(q, k + 1, Len(q)) IN
           /\ r \in Seq(Int) /\ Len(r) = Len(q) - k /\ Rising(r, p) /\ Data(r)
  <1> DEFINE r == SubSeq(q, k + 1, Len(q))
             n == Len(q) - k
  <1>1. Len(q) \in Nat /\ k \in Nat /\ n \in Nat /\ r \in Seq(Int) /\ Len(r) = n
    OBVIOUS
  <1>2. \A i \in 1..n : i + k \in 1..Len(q) /\ r[i] = q[i + k]
    <2>1. \A i \in 1..n : i + k \in 1..Len(q) /\ k + 1 + i - 1 = i + k
      BY <1>1
    <2>2. \A i \in 1..n : r[i] = q[k + 1 + i - 1]
      <3>1. n = Len(q) - (k + 1) + 1 /\ k + 1 \in Int
        BY <1>1
      <3>2. \A i \in 1..(Len(q) - (k + 1) + 1) : SubSeq(q, k + 1, Len(q))[i] = q[k + 1 + i - 1]
        BY <1>1
      <3> QED
        BY <3>1, <3>2
    <2> QED
      BY <2>1, <2>2
  <1>3. /\ \A i \in 1..Len(q) : q[i] \in 0..p /\ q[i] >= 1
        /\ \A i, j \in 1..Len(q) : i <= j => q[j] - q[i] >= j - i
    BY DEF Rising, Data
  <1> HIDE DEF r, n
  <1>4. \A i \in 1..n : r[i] \in 0..p /\ r[i] >= 1
    BY <1>2, <1>3
  <1>5. ASSUME NEW i \in 1..n, NEW j \in 1..n, i <= j
        PROVE  r[j] - r[i] >= j - i
    <2>1. i + k <= j + k /\ (j + k) - (i + k) = j - i
      BY <1>1, <1>5
    <2>2. q[j + k] - q[i + k] >= (j + k) - (i + k)
      BY <1>2, <1>3, <2>1
    <2> QED
      BY <1>2, <2>1, <2>2
  <1>6. Rising(r, p) /\ Data(r)
    BY <1>1, <1>4, <1>5 DEF Rising, Data
  <1> QED
    BY <1>1, <1>6 DEF r, n

\* There are at most as many frames of data as have been passed on.
LEMMA RisingCounts ==
  ASSUME NEW q \in Seq(Int), NEW p \in Int, p >= 0, Rising(q, p), Data(q)
  PROVE  Len(q) <= p
  <1> DEFINE n == Len(q)
  <1>1. n \in Nat
    OBVIOUS
  <1>2. /\ \A i \in 1..n : q[i] \in 0..p /\ q[i] >= 1
        /\ \A i, j \in 1..n : i <= j => q[j] - q[i] >= j - i
    BY DEF Rising, Data
  <1> HIDE DEF n
  <1>3. CASE n >= 1
    <2>1. 1 \in 1..n /\ n \in 1..n /\ 1 <= n
      BY <1>1, <1>3
    <2>2. q[n] - q[1] >= n - 1 /\ q[1] >= 1 /\ q[n] \in 0..p /\ q[1] \in 0..p
      BY <1>2, <2>1
    <2> QED
      BY <1>1, <2>2 DEF n
  <1> QED
    BY <1>1, <1>3 DEF n

LEMMA DataIn ==
  ASSUME NEW q \in Seq(Int), NEW x \in Int, x >= 1, Data(q)
  PROVE  Data(Append(q, x))
  <1>1. /\ Len(q) \in Nat /\ Len(Append(q, x)) = Len(q) + 1 /\ Append(q, x)[Len(q) + 1] = x
        /\ \A i \in 1..Len(q) : Append(q, x)[i] = q[i]
    OBVIOUS
  <1>2. \A i \in 1..(Len(q) + 1) : i \in 1..Len(q) \/ i = Len(q) + 1
    BY <1>1
  <1> QED
    BY <1>1, <1>2 DEF Data

LEMMA DataOut ==
  ASSUME NEW q \in Seq(Int), q # << >>, Data(q)
  PROVE  Data(Tail(q)) /\ Head(q) >= 1
  BY QueueOut DEF Data

LEMMA NotEstablishedIn ==
  ASSUME NEW q \in Seq(Int), NEW x \in Int, x # Established, NotEstablished(q)
  PROVE  NotEstablished(Append(q, x))
  <1>1. /\ Len(q) \in Nat /\ Len(Append(q, x)) = Len(q) + 1 /\ Append(q, x)[Len(q) + 1] = x
        /\ \A i \in 1..Len(q) : Append(q, x)[i] = q[i]
    OBVIOUS
  <1>2. \A i \in 1..(Len(q) + 1) : i \in 1..Len(q) \/ i = Len(q) + 1
    BY <1>1
  <1> QED
    BY <1>1, <1>2 DEF NotEstablished

LEMMA NotEstablishedOut ==
  ASSUME NEW q \in Seq(Int), q # << >>, NotEstablished(q)
  PROVE  NotEstablished(Tail(q)) /\ Head(q) # Established
  BY QueueOut DEF NotEstablished

-----------------------------------------------------------------------------
(* The parts have their types *)

Sorts ==
    /\ ActorUp \in Seq(Int) /\ ActorDown \in Seq(Int)
    /\ SocketUp \in Seq(Int) /\ SocketDown \in Seq(Int)
    /\ ProviderUp \in Seq(Int) /\ ProviderDown \in Seq(Int)
    /\ BridgeUp \in CopierRecord /\ BridgeDown \in CopierRecord
    /\ ProxyUp \in CopierRecord /\ ProxyDown \in CopierRecord
    /\ ActorShut \in SUBSET {"near", "far"} /\ SocketShut \in SUBSET {"near", "far"}
    /\ ProviderShut \in SUBSET {"near", "far"}

LEMMA PartsHaveSorts ==
  ASSUME TunnelTypes
  PROVE  Sorts
  <1>1. "actor" \in Links /\ "socket" \in Links /\ "provider" \in Links
    BY DEF Links
  <1>2. /\ <<"bridge", "up">> \in Copiers /\ <<"bridge", "down">> \in Copiers
        /\ <<"proxy", "up">> \in Copiers /\ <<"proxy", "down">> \in Copiers
    BY DEF Copiers
  <1> QED
    BY <1>1, <1>2
    DEF Sorts, TunnelTypes, Ways, ActorUp, ActorDown, SocketUp, SocketDown, ProviderUp, ProviderDown,
        BridgeUp, BridgeDown, ProxyUp, ProxyDown, ActorShut, SocketShut, ProviderShut

LEMMA NextPartsHaveSorts ==
  ASSUME TunnelTypes'
  PROVE  Sorts'
  <1>1. "actor" \in Links /\ "socket" \in Links /\ "provider" \in Links
    BY DEF Links
  <1>2. /\ <<"bridge", "up">> \in Copiers /\ <<"bridge", "down">> \in Copiers
        /\ <<"proxy", "up">> \in Copiers /\ <<"proxy", "down">> \in Copiers
    BY DEF Copiers
  <1> QED
    BY <1>1, <1>2
    DEF Sorts, TunnelTypes, Ways, ActorUp, ActorDown, SocketUp, SocketDown, ProviderUp, ProviderDown,
        BridgeUp, BridgeDown, ProxyUp, ProxyDown, ActorShut, SocketShut, ProviderShut

Counts ==
    /\ Holds(BridgeUp) \in {0, 1} /\ Holds(BridgeDown) \in {0, 1}
    /\ Holds(ProxyUp) \in {0, 1} /\ Holds(ProxyDown) \in {0, 1}
    /\ Len(ActorUp) \in Nat /\ Len(ActorDown) \in Nat
    /\ Len(SocketUp) \in Nat /\ Len(SocketDown) \in Nat
    /\ Len(ProviderUp) \in Nat /\ Len(ProviderDown) \in Nat
    /\ ActorHas \in Nat /\ ProviderHas \in Nat /\ actor.sent \in Nat /\ provider.sent \in Nat
    /\ Received \in Nat /\ ToActor \in Nat /\ ToSocket \in Nat /\ ToProvider \in Nat
    /\ LastSent \in Int /\ Taken \in Int /\ Passed \in Int
    /\ ToProxy \in Nat /\ Remaining \in Nat

LEMMA CountsAreNumbers ==
  ASSUME TunnelTypes
  PROVE  Counts
  <1>1. /\ Holds(BridgeUp) \in {0, 1} /\ Holds(BridgeDown) \in {0, 1}
        /\ Holds(ProxyUp) \in {0, 1} /\ Holds(ProxyDown) \in {0, 1}
    BY DEF Holds
  <1>2. /\ Len(ActorUp) \in Nat /\ Len(ActorDown) \in Nat
        /\ Len(SocketUp) \in Nat /\ Len(SocketDown) \in Nat
        /\ Len(ProviderUp) \in Nat /\ Len(ProviderDown) \in Nat
    BY PartsHaveSorts DEF Sorts
  <1>3. /\ ActorHas \in Nat /\ ProviderHas \in Nat /\ actor.sent \in Nat
        /\ provider.sent \in Nat
    BY DEF TunnelTypes, ActorHas, ProviderHas
  <1>4. Received \in Nat /\ LastSent \in Int
    BY <1>3 DEF Received, LastSent
  <1>5. ToActor \in Nat
    BY <1>2, <1>4 DEF ToActor
  <1>6. ToSocket \in Nat
    BY <1>1, <1>2, <1>5 DEF ToSocket
  <1>7. ToProvider \in Nat
    BY <1>1, <1>2, <1>6 DEF ToProvider
  <1>8. Taken \in Int /\ Passed \in Int
    BY <1>1, <1>2, <1>4 DEF Taken, Passed
  <1>9. ToProxy \in Nat
    BY <1>1, <1>2, <1>3 DEF ToProxy
  <1>10. Remaining \in Nat
    BY <1>1, <1>2, <1>9 DEF Remaining
  <1> QED
    BY <1>1, <1>2, <1>3, <1>4, <1>5, <1>6, <1>7, <1>8, <1>9, <1>10 DEF Counts

-----------------------------------------------------------------------------
(* Types *)

LEMMA CopiersAre ==
  /\ Copiers = {<<"bridge", "up">>, <<"bridge", "down">>, <<"proxy", "up">>, <<"proxy", "down">>}
  /\ Links = {"actor", "socket", "provider"}
  /\ \A c \in Copiers : Source(c) \in Links /\ Sink(c) \in Links /\ c[2] \in {"up", "down"}
  BY DEF Copiers, Links, Source, Sink, ClientOf, Upstream

LEMMA QueueTypes ==
  ASSUME NEW w \in [Links -> Ways], NEW l \in Links, NEW way \in {"up", "down"}
  PROVE  /\ w[l][way] \in Seq(Int)
         /\ \A q \in Seq(Int) : [w EXCEPT ![l][way] = q] \in [Links -> Ways]
  <1>1. w[l] \in Ways /\ w[l][way] \in Seq(Int)
    BY DEF Ways
  <1>2. ASSUME NEW q \in Seq(Int)
        PROVE  [w[l] EXCEPT ![way] = q] \in Ways
    <2>1. CASE way = "up"
      BY <1>1, <2>1 DEF Ways
    <2>2. CASE way = "down"
      BY <1>1, <2>2 DEF Ways
    <2> QED
      BY <2>1, <2>2
  <1> QED
    BY <1>1, <1>2

LEMMA SendTypes ==
  ASSUME wire \in [Links -> Ways], NEW l \in Links, NEW way \in {"up", "down"},
         NEW frame \in Int, Send(l, way, frame)
  PROVE  wire' \in [Links -> Ways]
  <1>1. wire[l][way] \in Seq(Int)
    BY QueueTypes
  <1>2. Append(wire[l][way], frame) \in Seq(Int)
    BY <1>1
  <1> QED
    BY <1>2, QueueTypes DEF Send

LEMMA ReceiveTypes ==
  ASSUME wire \in [Links -> Ways], NEW l \in Links, NEW way \in {"up", "down"},
         wire[l][way] # << >>, Receive(l, way)
  PROVE  wire' \in [Links -> Ways] /\ Head(wire[l][way]) \in Int
  <1>1. wire[l][way] \in Seq(Int)
    BY QueueTypes
  <1>2. Tail(wire[l][way]) \in Seq(Int) /\ Head(wire[l][way]) \in Int
    BY <1>1
  <1> QED
    BY <1>2, QueueTypes DEF Receive

LEMMA GoesTypes ==
  ASSUME TunnelTypes, NEW c \in Copiers, NEW at \in {"off", "read", "write", "close", "done"},
         Goes(c, at)
  PROVE  copier' \in [Copiers -> CopierRecord]
  BY DEF TunnelTypes, Goes, CopierRecord

LEMMA TypesKept ==
  ASSUME TunnelTypes, [TunnelNext]_tunnelVars
  PROVE  TunnelTypes'
  <1>1. CASE BridgeDials
    <2>1. copier' \in [Copiers -> CopierRecord]
      <3>1. CASE Starts("bridge")
        BY <3>1 DEF Starts, TunnelTypes, CopierRecord
      <3>2. CASE UNCHANGED copier
        BY <3>2 DEF TunnelTypes
      <3> QED
        BY <1>1, <3>1, <3>2 DEF BridgeDials
    <2>2. shut' \in [Links -> SUBSET {"near", "far"}]
      BY <1>1, CopiersAre DEF BridgeDials, TunnelTypes
    <2> QED
      BY <1>1, <2>1, <2>2 DEF BridgeDials, TunnelTypes
  <1>2. ASSUME NEW c \in Copiers, CopierReads(c)
        PROVE  TunnelTypes'
    <2>1. CASE AheadEnd(c) \notin shut[Source(c)] /\ wire[Source(c)][c[2]] # << >>
               /\ copier' = [copier EXCEPT ![c] = [at |-> "write",
                                                   held |-> Head(wire[Source(c)][c[2]])]]
               /\ Receive(Source(c), c[2])
      <3>1. wire' \in [Links -> Ways] /\ Head(wire[Source(c)][c[2]]) \in Int
        <4>1. Source(c) \in Links /\ c[2] \in {"up", "down"} /\ wire \in [Links -> Ways]
          BY CopiersAre DEF TunnelTypes
        <4>2. wire[Source(c)][c[2]] # << >> /\ Receive(Source(c), c[2])
          BY <2>1
        <4> QED
          BY <4>1, <4>2, ReceiveTypes
      <3>2. copier' \in [Copiers -> CopierRecord]
        BY <2>1, <3>1 DEF TunnelTypes, CopierRecord
      <3> QED
        BY <1>2, <3>1, <3>2 DEF CopierReads, TunnelTypes
    <2>2. CASE Goes(c, "close") /\ UNCHANGED wire
      BY <1>2, <2>2 DEF CopierReads, Goes, TunnelTypes, CopierRecord
    <2> QED
      BY <1>2, <2>1, <2>2 DEF CopierReads
  <1>3. ASSUME NEW c \in Copiers, CopierWrites(c)
        PROVE  TunnelTypes'
    <2>1. copier[c].held \in Int
      BY DEF TunnelTypes, CopierRecord
    <2>2. wire' \in [Links -> Ways]
      <3>1. Sink(c) \in Links /\ c[2] \in {"up", "down"} /\ wire \in [Links -> Ways]
        BY CopiersAre DEF TunnelTypes
      <3>2. Send(Sink(c), c[2], copier[c].held) \/ UNCHANGED wire
        BY <1>3 DEF CopierWrites
      <3> QED
        BY <2>1, <3>1, <3>2, SendTypes
    <2>3. copier' \in [Copiers -> CopierRecord]
      <3>1. Goes(c, "read") \/ Goes(c, "close")
        BY <1>3 DEF CopierWrites
      <3> QED
        BY <3>1, GoesTypes
    <2> QED
      BY <1>3, <2>2, <2>3 DEF CopierWrites, TunnelTypes
  <1>4. ASSUME NEW c \in Copiers, CopierCloses(c)
        PROVE  TunnelTypes'
    <2>1. copier' \in [Copiers -> CopierRecord]
      BY <1>4, GoesTypes DEF CopierCloses
    <2>2. shut' \in [Links -> SUBSET {"near", "far"}]
      <3>1. CASE c[2] = "down"
        BY <1>4, <3>1, CopiersAre DEF CopierCloses, TunnelTypes, ClientOf, Upstream
      <3>2. CASE c[2] = "up"
        BY <1>4, <3>2, CopiersAre DEF CopierCloses, TunnelTypes, ClientOf, Upstream
      <3> QED
        BY <3>1, <3>2, CopiersAre
    <2> QED
      BY <1>4, <2>1, <2>2 DEF CopierCloses, TunnelTypes
  <1>5. CASE DropConnection
    BY <1>5 DEF DropConnection, TunnelTypes, Links
  <1>6. ASSUME NEW left \in Seq(Int), NEW reply \in Int, Refuse(left, reply)
        PROVE  wire' \in [Links -> Ways]
    <2> DEFINE one == [wire EXCEPT !["socket"].up = left]
               down == IF shut["socket"] = {} THEN Append(wire["socket"].down, reply)
                       ELSE wire["socket"].down
    <2>1. one \in [Links -> Ways] /\ one["socket"].down = wire["socket"].down
      <3>1. /\ wire["socket"] \in Ways
            /\ [wire["socket"] EXCEPT !.up = left] \in Ways
            /\ [wire["socket"] EXCEPT !.up = left].down = wire["socket"].down
        BY CopiersAre DEF TunnelTypes, Ways
      <3> QED
        BY <3>1, CopiersAre DEF TunnelTypes
    <2>2. down \in Seq(Int)
      BY CopiersAre DEF TunnelTypes, Ways
    <2>3. wire' = [one EXCEPT !["socket"].down = down]
      BY <1>6, <2>1 DEF Refuse
    <2> HIDE DEF one, down
    <2> QED
      BY <2>1, <2>2, <2>3, CopiersAre, QueueTypes
  <1>7. CASE TakeRequest
    <2>1. wire["socket"].up \in Seq(Int) /\ Tail(wire["socket"].up) \in Seq(Int)
      <3>1. wire["socket"].up \in Seq(Int)
        BY CopiersAre DEF TunnelTypes, Ways
      <3> QED
        BY <1>7, <3>1 DEF TakeRequest
    <2>2. wire' \in [Links -> Ways]
      <3>1. CASE Receive("socket", "up")
        <4>1. wire["socket"].up # << >>
          BY <1>7 DEF TakeRequest
        <4>2. wire \in [Links -> Ways] /\ "socket" \in Links
          BY CopiersAre DEF TunnelTypes
        <4> QED
          BY <3>1, <4>1, <4>2, ReceiveTypes
      <3>2. CASE Refuse(Tail(wire["socket"].up), Forbidden)
        <4> DEFINE left == Tail(wire["socket"].up)
        <4>1. left \in Seq(Int) /\ Forbidden \in Int /\ Refuse(left, Forbidden)
          BY <2>1, <3>2 DEF Forbidden
        <4> HIDE DEF left
        <4> QED
          BY <1>6, <4>1
      <3> QED
        BY <1>7, <3>1, <3>2 DEF TakeRequest
    <2> QED
      BY <1>7, <2>2 DEF TakeRequest, Refuse, TunnelTypes
  <1>8. CASE DialProvider
    <2>1. wire["socket"].up \in Seq(Int)
      BY CopiersAre DEF TunnelTypes, Ways
    <2>2. wire' \in [Links -> Ways]
      BY <1>6, <1>8, <2>1 DEF DialProvider, TunnelTypes, Unavailable
    <2> QED
      BY <1>8, <2>2 DEF DialProvider, Refuse, TunnelTypes
  <1>9. CASE Hijack
    <2>1. PICK read \in 0..Len(wire["socket"].up) :
            LET rest == [wire["socket"] EXCEPT !.up = SubSeq(@, read + 1, Len(@))] IN
            \/ /\ shut["socket"] = {}
               /\ wire' = [wire EXCEPT !["socket"] = [rest EXCEPT !.down = Append(@, Established)]]
               /\ request' = "tunnel" /\ Starts("proxy") /\ UNCHANGED shut
            \/ /\ shut["socket"] # {}
               /\ wire' = [wire EXCEPT !["socket"] = rest]
               /\ request' = "over" /\ UNCHANGED copier
               /\ shut' = [shut EXCEPT !["socket"] = @ \cup {"far"}, !["provider"] = @ \cup {"near"}]
      BY <1>9 DEF Hijack
    <2> DEFINE rest == [wire["socket"] EXCEPT !.up = SubSeq(@, read + 1, Len(@))]
    <2>2. wire["socket"] \in Ways /\ wire["socket"].up \in Seq(Int)
      BY CopiersAre DEF TunnelTypes, Ways
    <2>3. SubSeq(wire["socket"].up, read + 1, Len(wire["socket"].up)) \in Seq(Int)
      BY <2>2
    <2>4. rest \in Ways /\ rest.down \in Seq(Int)
      BY <2>2, <2>3 DEF Ways
    <2>5. wire' = [wire EXCEPT !["socket"] = [rest EXCEPT !.down = Append(@, Established)]]
          \/ wire' = [wire EXCEPT !["socket"] = rest]
      BY <2>1
    <2> HIDE DEF rest
    <2>6. Append(rest.down, Established) \in Seq(Int)
      BY <2>4 DEF Established
    <2>7. [rest EXCEPT !.down = Append(@, Established)] \in Ways
      BY <2>4, <2>6 DEF Ways
    <2>8. wire' \in [Links -> Ways]
      BY <2>4, <2>5, <2>7 DEF TunnelTypes
    <2>9. copier' \in [Copiers -> CopierRecord]
      BY <2>1 DEF Starts, TunnelTypes, CopierRecord
    <2>10. shut' \in [Links -> SUBSET {"near", "far"}] /\ request' \in {"tunnel", "over"}
      BY <2>1, CopiersAre DEF TunnelTypes
    <2> QED
      BY <1>9, <2>8, <2>9, <2>10 DEF Hijack, TunnelTypes
  <1>10. CASE Ask
    <2>1. wire' \in [Links -> Ways]
      BY <1>10, CopiersAre, SendTypes DEF Ask, TunnelTypes, Established
    <2> QED
      BY <1>10, <2>1 DEF Ask, TunnelTypes
  <1>11. CASE ActorSends
    <2>1. actor.sent \in Nat /\ actor.sent + 1 \in Nat /\ actor.sent + 1 \in Int
      BY DEF TunnelTypes
    <2>2. wire' \in [Links -> Ways]
      BY <1>11, <2>1, CopiersAre, SendTypes DEF ActorSends, TunnelTypes
    <2> QED
      BY <1>11, <2>1, <2>2 DEF ActorSends, TunnelTypes
  <1>12. CASE ActorReceives
    <2>1. CASE wire["actor"].down # << >> /\ Receive("actor", "down")
      <3>1. wire' \in [Links -> Ways] /\ Head(wire["actor"].down) \in Int
        BY <2>1, CopiersAre, ReceiveTypes DEF TunnelTypes
      <3>2. Append(actor.got, Head(wire["actor"].down)) \in Seq(Int)
        BY <3>1 DEF TunnelTypes
      <3> QED
        BY <1>12, <3>1, <3>2 DEF ActorReceives, TunnelTypes
    <2>2. CASE actor' = [actor EXCEPT !.eof = TRUE] /\ UNCHANGED wire
      BY <1>12, <2>2 DEF ActorReceives, TunnelTypes
    <2> QED
      BY <1>12, <2>1, <2>2 DEF ActorReceives
  <1>13. CASE ActorHalfCloses
    BY <1>13 DEF ActorHalfCloses, TunnelTypes
  <1>14. CASE ActorCloses
    BY <1>14 DEF ActorCloses, TunnelTypes, Links
  <1>15. CASE ProviderReceives
    <2>1. wire' \in [Links -> Ways] /\ Head(wire["provider"].up) \in Int
      BY <1>15, CopiersAre, ReceiveTypes DEF ProviderReceives, TunnelTypes
    <2>2. Append(provider.got, Head(wire["provider"].up)) \in Seq(Int)
      BY <2>1 DEF TunnelTypes
    <2> QED
      BY <1>15, <2>1, <2>2 DEF ProviderReceives, TunnelTypes
  <1>16. CASE ProviderSends
    <2>1. provider.sent \in Nat /\ provider.sent + 1 \in Nat /\ provider.sent + 1 \in Int
      BY DEF TunnelTypes
    <2>2. wire' \in [Links -> Ways]
      BY <1>16, <2>1, CopiersAre, SendTypes DEF ProviderSends, TunnelTypes
    <2> QED
      BY <1>16, <2>1, <2>2 DEF ProviderSends, TunnelTypes
  <1>17. CASE ProviderCloses
    BY <1>17 DEF ProviderCloses, TunnelTypes, Links
  <1>18. CASE UNCHANGED tunnelVars
    BY <1>18 DEF tunnelVars, TunnelTypes
  <1> QED
    BY <1>1, <1>2, <1>3, <1>4, <1>5, <1>7, <1>8, <1>9, <1>10, <1>11, <1>12, <1>13, <1>14, <1>15,
       <1>16, <1>17, <1>18
    DEF TunnelNext, Copier, ProxyStep, Ends, TunnelDone

-----------------------------------------------------------------------------
(* What the goroutines do, part by part *)

\* Of a goroutine c that reads q or writes to it: it takes a frame, stops, passes its frame on,
\* drops it, fails to write it, has closed what it closes.
Takes(c, cc, q, qq) ==
    c.at = "read" /\ q # << >> /\ cc.at = "write" /\ cc.held = Head(q) /\ qq = Tail(q)
Stops(c, cc) == c.at = "read" /\ cc.at = "close"
Passes(c, cc, q, qq) ==
    c.at = "write" /\ Len(q) < LinkRoom /\ cc.at = "read" /\ qq = Append(q, c.held)
Drops(c, cc) == c.at = "write" /\ cc.at = "read"
Fails(c, cc) == c.at = "write" /\ cc.at = "close"
Leaves(c, cc) == c.at = "close" /\ cc.at = "done"

\* Of all queues only the one that is named changes, of all goroutines only that one.
LEMMA SendChanges ==
  ASSUME wire \in [Links -> Ways], NEW l \in Links, NEW way \in {"up", "down"}, NEW frame,
         Send(l, way, frame)
  PROVE  /\ wire'[l][way] = Append(wire[l][way], frame)
         /\ \A k \in Links : \A w \in {"up", "down"} :
              k # l \/ w # way => wire'[k][w] = wire[k][w]
  BY DEF Send, Ways

LEMMA ReceiveChanges ==
  ASSUME wire \in [Links -> Ways], NEW l \in Links, NEW way \in {"up", "down"},
         Receive(l, way)
  PROVE  /\ wire'[l][way] = Tail(wire[l][way])
         /\ \A k \in Links : \A w \in {"up", "down"} :
              k # l \/ w # way => wire'[k][w] = wire[k][w]
  BY DEF Receive, Ways

LEMMA OneGoroutineChanges ==
  ASSUME copier \in [Copiers -> CopierRecord], NEW c \in Copiers
  PROVE  \A at : Goes(c, at) =>
           copier'[c].at = at /\ \A d \in Copiers \ {c} : copier'[d] = copier[d]
  BY DEF Goes, CopierRecord

LEMMA BridgeUpMoves ==
  ASSUME TunnelTypes, Copier(<<"bridge", "up">>)
  PROVE  /\ UNCHANGED <<BridgeDown, ProxyUp, ProxyDown>>
         /\ UNCHANGED <<ActorDown, SocketDown, ProviderUp, ProviderDown>>
         /\ UNCHANGED <<ActorShut, ProviderShut, request, actor, provider>>
         /\ \/ /\ "far" \notin ActorShut /\ Takes(BridgeUp, BridgeUp', ActorUp, ActorUp')
               /\ UNCHANGED <<SocketUp, SocketShut>>
            \/ /\ \/ "far" \in ActorShut
                  \/ ActorUp = << >> /\ ("near" \in ActorShut \/ actor.half)
               /\ Stops(BridgeUp, BridgeUp') /\ UNCHANGED <<ActorUp, SocketUp, SocketShut>>
            \/ /\ SocketShut = {} /\ Passes(BridgeUp, BridgeUp', SocketUp, SocketUp')
               /\ UNCHANGED <<ActorUp, SocketShut>>
            \/ /\ SocketShut # {} /\ Fails(BridgeUp, BridgeUp')
               /\ UNCHANGED <<ActorUp, SocketUp, SocketShut>>
            \/ /\ SocketShut = {"far"} /\ Drops(BridgeUp, BridgeUp')
               /\ UNCHANGED <<ActorUp, SocketUp, SocketShut>>
            \/ /\ Leaves(BridgeUp, BridgeUp') /\ SocketShut' = SocketShut \cup {"near"}
               /\ UNCHANGED <<ActorUp, SocketUp>>
  <1> DEFINE c == <<"bridge", "up">>
  <1> USE DEF ActorUp, ActorDown, SocketUp, SocketDown, ProviderUp, ProviderDown, BridgeUp,
          BridgeDown, ProxyUp, ProxyDown, ActorShut, SocketShut, ProviderShut
  <1>1. /\ c \in Copiers /\ Source(c) = "actor" /\ Sink(c) = "socket" /\ AheadEnd(c) = "far"
        /\ ClientOf(c[1]) = "actor" /\ Upstream(c[1]) = "socket" /\ c[2] = "up"
    BY DEF Copiers, Source, Sink, ClientOf, Upstream, AheadEnd
  <1>2. CASE CopierReads(c)
    <2>1. CASE /\ AheadEnd(c) \notin shut[Source(c)] /\ wire[Source(c)][c[2]] # << >>
               /\ copier' = [copier EXCEPT ![c] = [at |-> "write",
                                                   held |-> Head(wire[Source(c)][c[2]])]]
               /\ Receive(Source(c), c[2])
      <3>1. /\ BridgeUp'.at = "write" /\ BridgeUp'.held = Head(ActorUp)
            /\ UNCHANGED <<BridgeDown, ProxyUp, ProxyDown>>
        BY <1>1, <2>1, CopiersAre DEF TunnelTypes
      <3>2. /\ ActorUp' = Tail(ActorUp)
            /\ UNCHANGED <<ActorDown, SocketUp, SocketDown, ProviderUp, ProviderDown>>
        BY <1>1, <2>1, ReceiveChanges, CopiersAre DEF TunnelTypes
      <3> QED
        BY <1>1, <1>2, <2>1, <3>1, <3>2 DEF CopierReads, Takes
    <2>2. CASE /\ AheadEnd(c) \in shut[Source(c)] \/ LinkDrained(Source(c), c[2])
               /\ Goes(c, "close") /\ UNCHANGED wire
      BY <1>1, <1>2, <2>2, OneGoroutineChanges, CopiersAre
      DEF CopierReads, LinkDrained, Stops, TunnelTypes
    <2> QED
      BY <1>2, <2>1, <2>2 DEF CopierReads
  <1>3. CASE CopierWrites(c)
    <2>1. CASE /\ shut[Sink(c)] = {} /\ HasRoom(Sink(c), c[2])
               /\ Send(Sink(c), c[2], copier[c].held) /\ Goes(c, "read")
      <3>1. /\ SocketUp' = Append(SocketUp, BridgeUp.held)
            /\ UNCHANGED <<ActorUp, ActorDown, SocketDown, ProviderUp, ProviderDown>>
        BY <1>1, <2>1, SendChanges, CopiersAre DEF TunnelTypes
      <3>2. BridgeUp'.at = "read" /\ UNCHANGED <<BridgeDown, ProxyUp, ProxyDown>>
        BY <1>1, <2>1, OneGoroutineChanges, CopiersAre DEF TunnelTypes
      <3>3. /\ BridgeUp.at = "write" /\ SocketShut = {} /\ Len(SocketUp) < LinkRoom
            /\ UNCHANGED <<shut, request, actor, provider>>
        BY <1>1, <1>3, <2>1 DEF CopierWrites, HasRoom
      <3> QED
        BY <1>1, <2>1, <3>1, <3>2, <3>3 DEF Passes
    <2>2. CASE shut[Sink(c)] # {} /\ Goes(c, "close") /\ UNCHANGED wire
      BY <1>1, <1>3, <2>2, OneGoroutineChanges, CopiersAre
      DEF CopierWrites, TunnelTypes, Fails
    <2>3. CASE shut[Sink(c)] = {AheadEnd(c)} /\ Goes(c, "read") /\ UNCHANGED wire
      BY <1>1, <1>3, <2>3, OneGoroutineChanges, CopiersAre
      DEF CopierWrites, TunnelTypes, Drops
    <2> QED
      BY <1>3, <2>1, <2>2, <2>3 DEF CopierWrites
  <1>4. CASE CopierCloses(c)
    <2>1. BridgeUp'.at = "done" /\ UNCHANGED <<BridgeDown, ProxyUp, ProxyDown>>
      BY <1>1, <1>4, OneGoroutineChanges, CopiersAre DEF CopierCloses, TunnelTypes
    <2>2. BridgeUp.at = "close" /\ UNCHANGED <<wire, request, actor, provider>>
      BY <1>4 DEF CopierCloses
    <2> QED
      BY <1>1, <1>4, <2>1, <2>2, CopiersAre DEF CopierCloses, TunnelTypes, Leaves
  <1> QED
    BY <1>2, <1>3, <1>4 DEF Copier

LEMMA BridgeDownMoves ==
  ASSUME TunnelTypes, Copier(<<"bridge", "down">>)
  PROVE  /\ UNCHANGED <<BridgeUp, ProxyUp, ProxyDown>>
         /\ UNCHANGED <<ActorUp, SocketUp, ProviderUp, ProviderDown>>
         /\ UNCHANGED <<ProviderShut, request, actor, provider>>
         /\ \/ /\ "near" \notin SocketShut
               /\ Takes(BridgeDown, BridgeDown', SocketDown, SocketDown')
               /\ UNCHANGED <<ActorDown, ActorShut, SocketShut>>
            \/ /\ \/ "near" \in SocketShut
                  \/ SocketDown = << >> /\ "far" \in SocketShut
               /\ Stops(BridgeDown, BridgeDown')
               /\ UNCHANGED <<SocketDown, ActorDown, ActorShut, SocketShut>>
            \/ /\ ActorShut = {} /\ Passes(BridgeDown, BridgeDown', ActorDown, ActorDown')
               /\ UNCHANGED <<SocketDown, ActorShut, SocketShut>>
            \/ /\ ActorShut # {} /\ Fails(BridgeDown, BridgeDown')
               /\ UNCHANGED <<SocketDown, ActorDown, ActorShut, SocketShut>>
            \/ /\ ActorShut = {"near"} /\ Drops(BridgeDown, BridgeDown')
               /\ UNCHANGED <<SocketDown, ActorDown, ActorShut, SocketShut>>
            \/ /\ Leaves(BridgeDown, BridgeDown') /\ ActorShut' = ActorShut \cup {"far"}
               /\ SocketShut' = SocketShut \cup {"near"}
               /\ UNCHANGED <<SocketDown, ActorDown>>
  <1> DEFINE c == <<"bridge", "down">>
  <1> USE DEF ActorUp, ActorDown, SocketUp, SocketDown, ProviderUp, ProviderDown, BridgeUp,
          BridgeDown, ProxyUp, ProxyDown, ActorShut, SocketShut, ProviderShut
  <1>1. /\ c \in Copiers /\ Source(c) = "socket" /\ Sink(c) = "actor" /\ AheadEnd(c) = "near"
        /\ ClientOf(c[1]) = "actor" /\ Upstream(c[1]) = "socket" /\ c[2] = "down"
    BY DEF Copiers, Source, Sink, ClientOf, Upstream, AheadEnd
  <1>2. CASE CopierReads(c)
    <2>1. CASE /\ AheadEnd(c) \notin shut[Source(c)] /\ wire[Source(c)][c[2]] # << >>
               /\ copier' = [copier EXCEPT ![c] = [at |-> "write",
                                                   held |-> Head(wire[Source(c)][c[2]])]]
               /\ Receive(Source(c), c[2])
      <3>1. /\ BridgeDown'.at = "write" /\ BridgeDown'.held = Head(SocketDown)
            /\ UNCHANGED <<BridgeUp, ProxyUp, ProxyDown>>
        BY <1>1, <2>1, CopiersAre DEF TunnelTypes
      <3>2. /\ SocketDown' = Tail(SocketDown)
            /\ UNCHANGED <<ActorUp, ActorDown, SocketUp, ProviderUp, ProviderDown>>
        BY <1>1, <2>1, ReceiveChanges, CopiersAre DEF TunnelTypes
      <3> QED
        BY <1>1, <1>2, <2>1, <3>1, <3>2 DEF CopierReads, Takes
    <2>2. CASE /\ AheadEnd(c) \in shut[Source(c)] \/ LinkDrained(Source(c), c[2])
               /\ Goes(c, "close") /\ UNCHANGED wire
      BY <1>1, <1>2, <2>2, OneGoroutineChanges, CopiersAre
      DEF CopierReads, LinkDrained, Stops, TunnelTypes
    <2> QED
      BY <1>2, <2>1, <2>2 DEF CopierReads
  <1>3. CASE CopierWrites(c)
    <2>1. CASE /\ shut[Sink(c)] = {} /\ HasRoom(Sink(c), c[2])
               /\ Send(Sink(c), c[2], copier[c].held) /\ Goes(c, "read")
      <3>1. /\ ActorDown' = Append(ActorDown, BridgeDown.held)
            /\ UNCHANGED <<ActorUp, SocketUp, SocketDown, ProviderUp, ProviderDown>>
        BY <1>1, <2>1, SendChanges, CopiersAre DEF TunnelTypes
      <3>2. BridgeDown'.at = "read" /\ UNCHANGED <<BridgeUp, ProxyUp, ProxyDown>>
        BY <1>1, <2>1, OneGoroutineChanges, CopiersAre DEF TunnelTypes
      <3>3. /\ BridgeDown.at = "write" /\ ActorShut = {} /\ Len(ActorDown) < LinkRoom
            /\ UNCHANGED <<shut, request, actor, provider>>
        BY <1>1, <1>3, <2>1 DEF CopierWrites, HasRoom
      <3> QED
        BY <1>1, <2>1, <3>1, <3>2, <3>3 DEF Passes
    <2>2. CASE shut[Sink(c)] # {} /\ Goes(c, "close") /\ UNCHANGED wire
      BY <1>1, <1>3, <2>2, OneGoroutineChanges, CopiersAre
      DEF CopierWrites, TunnelTypes, Fails
    <2>3. CASE shut[Sink(c)] = {AheadEnd(c)} /\ Goes(c, "read") /\ UNCHANGED wire
      BY <1>1, <1>3, <2>3, OneGoroutineChanges, CopiersAre
      DEF CopierWrites, TunnelTypes, Drops
    <2> QED
      BY <1>3, <2>1, <2>2, <2>3 DEF CopierWrites
  <1>4. CASE CopierCloses(c)
    <2>1. BridgeDown'.at = "done" /\ UNCHANGED <<BridgeUp, ProxyUp, ProxyDown>>
      BY <1>1, <1>4, OneGoroutineChanges, CopiersAre DEF CopierCloses, TunnelTypes
    <2>2. BridgeDown.at = "close" /\ UNCHANGED <<wire, request, actor, provider>>
      BY <1>4 DEF CopierCloses
    <2> QED
      BY <1>1, <1>4, <2>1, <2>2, CopiersAre DEF CopierCloses, TunnelTypes, Leaves
  <1> QED
    BY <1>2, <1>3, <1>4 DEF Copier

LEMMA ProxyUpMoves ==
  ASSUME TunnelTypes, Copier(<<"proxy", "up">>)
  PROVE  /\ UNCHANGED <<BridgeUp, BridgeDown, ProxyDown>>
         /\ UNCHANGED <<ActorUp, ActorDown, SocketDown, ProviderDown>>
         /\ UNCHANGED <<ActorShut, SocketShut, request, actor, provider>>
         /\ \/ /\ "far" \notin SocketShut /\ Takes(ProxyUp, ProxyUp', SocketUp, SocketUp')
               /\ UNCHANGED <<ProviderUp, ProviderShut>>
            \/ /\ \/ "far" \in SocketShut
                  \/ SocketUp = << >> /\ "near" \in SocketShut
               /\ Stops(ProxyUp, ProxyUp') /\ UNCHANGED <<SocketUp, ProviderUp, ProviderShut>>
            \/ /\ ProviderShut = {} /\ Passes(ProxyUp, ProxyUp', ProviderUp, ProviderUp')
               /\ UNCHANGED <<SocketUp, ProviderShut>>
            \/ /\ ProviderShut # {} /\ Fails(ProxyUp, ProxyUp')
               /\ UNCHANGED <<SocketUp, ProviderUp, ProviderShut>>
            \/ /\ ProviderShut = {"far"} /\ Drops(ProxyUp, ProxyUp')
               /\ UNCHANGED <<SocketUp, ProviderUp, ProviderShut>>
            \/ /\ Leaves(ProxyUp, ProxyUp') /\ ProviderShut' = ProviderShut \cup {"near"}
               /\ UNCHANGED <<SocketUp, ProviderUp>>
  <1> DEFINE c == <<"proxy", "up">>
  <1> USE DEF ActorUp, ActorDown, SocketUp, SocketDown, ProviderUp, ProviderDown, BridgeUp,
          BridgeDown, ProxyUp, ProxyDown, ActorShut, SocketShut, ProviderShut
  <1>1. /\ c \in Copiers /\ Source(c) = "socket" /\ Sink(c) = "provider" /\ AheadEnd(c) = "far"
        /\ ClientOf(c[1]) = "socket" /\ Upstream(c[1]) = "provider" /\ c[2] = "up"
    BY DEF Copiers, Source, Sink, ClientOf, Upstream, AheadEnd
  <1>2. CASE CopierReads(c)
    <2>1. CASE /\ AheadEnd(c) \notin shut[Source(c)] /\ wire[Source(c)][c[2]] # << >>
               /\ copier' = [copier EXCEPT ![c] = [at |-> "write",
                                                   held |-> Head(wire[Source(c)][c[2]])]]
               /\ Receive(Source(c), c[2])
      <3>1. /\ ProxyUp'.at = "write" /\ ProxyUp'.held = Head(SocketUp)
            /\ UNCHANGED <<BridgeUp, BridgeDown, ProxyDown>>
        BY <1>1, <2>1, CopiersAre DEF TunnelTypes
      <3>2. /\ SocketUp' = Tail(SocketUp)
            /\ UNCHANGED <<ActorUp, ActorDown, SocketDown, ProviderUp, ProviderDown>>
        BY <1>1, <2>1, ReceiveChanges, CopiersAre DEF TunnelTypes
      <3> QED
        BY <1>1, <1>2, <2>1, <3>1, <3>2 DEF CopierReads, Takes
    <2>2. CASE /\ AheadEnd(c) \in shut[Source(c)] \/ LinkDrained(Source(c), c[2])
               /\ Goes(c, "close") /\ UNCHANGED wire
      BY <1>1, <1>2, <2>2, OneGoroutineChanges, CopiersAre
      DEF CopierReads, LinkDrained, Stops, TunnelTypes
    <2> QED
      BY <1>2, <2>1, <2>2 DEF CopierReads
  <1>3. CASE CopierWrites(c)
    <2>1. CASE /\ shut[Sink(c)] = {} /\ HasRoom(Sink(c), c[2])
               /\ Send(Sink(c), c[2], copier[c].held) /\ Goes(c, "read")
      <3>1. /\ ProviderUp' = Append(ProviderUp, ProxyUp.held)
            /\ UNCHANGED <<ActorUp, ActorDown, SocketUp, SocketDown, ProviderDown>>
        BY <1>1, <2>1, SendChanges, CopiersAre DEF TunnelTypes
      <3>2. ProxyUp'.at = "read" /\ UNCHANGED <<BridgeUp, BridgeDown, ProxyDown>>
        BY <1>1, <2>1, OneGoroutineChanges, CopiersAre DEF TunnelTypes
      <3>3. /\ ProxyUp.at = "write" /\ ProviderShut = {} /\ Len(ProviderUp) < LinkRoom
            /\ UNCHANGED <<shut, request, actor, provider>>
        BY <1>1, <1>3, <2>1 DEF CopierWrites, HasRoom
      <3> QED
        BY <1>1, <2>1, <3>1, <3>2, <3>3 DEF Passes
    <2>2. CASE shut[Sink(c)] # {} /\ Goes(c, "close") /\ UNCHANGED wire
      BY <1>1, <1>3, <2>2, OneGoroutineChanges, CopiersAre
      DEF CopierWrites, TunnelTypes, Fails
    <2>3. CASE shut[Sink(c)] = {AheadEnd(c)} /\ Goes(c, "read") /\ UNCHANGED wire
      BY <1>1, <1>3, <2>3, OneGoroutineChanges, CopiersAre
      DEF CopierWrites, TunnelTypes, Drops
    <2> QED
      BY <1>3, <2>1, <2>2, <2>3 DEF CopierWrites
  <1>4. CASE CopierCloses(c)
    <2>1. ProxyUp'.at = "done" /\ UNCHANGED <<BridgeUp, BridgeDown, ProxyDown>>
      BY <1>1, <1>4, OneGoroutineChanges, CopiersAre DEF CopierCloses, TunnelTypes
    <2>2. ProxyUp.at = "close" /\ UNCHANGED <<wire, request, actor, provider>>
      BY <1>4 DEF CopierCloses
    <2> QED
      BY <1>1, <1>4, <2>1, <2>2, CopiersAre DEF CopierCloses, TunnelTypes, Leaves
  <1> QED
    BY <1>2, <1>3, <1>4 DEF Copier

LEMMA ProxyDownMoves ==
  ASSUME TunnelTypes, Copier(<<"proxy", "down">>)
  PROVE  /\ UNCHANGED <<BridgeUp, BridgeDown, ProxyUp>>
         /\ UNCHANGED <<ActorUp, ActorDown, SocketUp, ProviderUp>>
         /\ UNCHANGED <<ActorShut, request, actor, provider>>
         /\ \/ /\ "near" \notin ProviderShut
               /\ Takes(ProxyDown, ProxyDown', ProviderDown, ProviderDown')
               /\ UNCHANGED <<SocketDown, SocketShut, ProviderShut>>
            \/ /\ \/ "near" \in ProviderShut
                  \/ ProviderDown = << >> /\ "far" \in ProviderShut
               /\ Stops(ProxyDown, ProxyDown')
               /\ UNCHANGED <<ProviderDown, SocketDown, SocketShut, ProviderShut>>
            \/ /\ SocketShut = {} /\ Passes(ProxyDown, ProxyDown', SocketDown, SocketDown')
               /\ UNCHANGED <<ProviderDown, SocketShut, ProviderShut>>
            \/ /\ SocketShut # {} /\ Fails(ProxyDown, ProxyDown')
               /\ UNCHANGED <<ProviderDown, SocketDown, SocketShut, ProviderShut>>
            \/ /\ SocketShut = {"near"} /\ Drops(ProxyDown, ProxyDown')
               /\ UNCHANGED <<ProviderDown, SocketDown, SocketShut, ProviderShut>>
            \/ /\ Leaves(ProxyDown, ProxyDown') /\ SocketShut' = SocketShut \cup {"far"}
               /\ ProviderShut' = ProviderShut \cup {"near"}
               /\ UNCHANGED <<ProviderDown, SocketDown>>
  <1> DEFINE c == <<"proxy", "down">>
  <1> USE DEF ActorUp, ActorDown, SocketUp, SocketDown, ProviderUp, ProviderDown, BridgeUp,
          BridgeDown, ProxyUp, ProxyDown, ActorShut, SocketShut, ProviderShut
  <1>1. /\ c \in Copiers /\ Source(c) = "provider" /\ Sink(c) = "socket" /\ AheadEnd(c) = "near"
        /\ ClientOf(c[1]) = "socket" /\ Upstream(c[1]) = "provider" /\ c[2] = "down"
    BY DEF Copiers, Source, Sink, ClientOf, Upstream, AheadEnd
  <1>2. CASE CopierReads(c)
    <2>1. CASE /\ AheadEnd(c) \notin shut[Source(c)] /\ wire[Source(c)][c[2]] # << >>
               /\ copier' = [copier EXCEPT ![c] = [at |-> "write",
                                                   held |-> Head(wire[Source(c)][c[2]])]]
               /\ Receive(Source(c), c[2])
      <3>1. /\ ProxyDown'.at = "write" /\ ProxyDown'.held = Head(ProviderDown)
            /\ UNCHANGED <<BridgeUp, BridgeDown, ProxyUp>>
        BY <1>1, <2>1, CopiersAre DEF TunnelTypes
      <3>2. /\ ProviderDown' = Tail(ProviderDown)
            /\ UNCHANGED <<ActorUp, ActorDown, SocketUp, SocketDown, ProviderUp>>
        BY <1>1, <2>1, ReceiveChanges, CopiersAre DEF TunnelTypes
      <3> QED
        BY <1>1, <1>2, <2>1, <3>1, <3>2 DEF CopierReads, Takes
    <2>2. CASE /\ AheadEnd(c) \in shut[Source(c)] \/ LinkDrained(Source(c), c[2])
               /\ Goes(c, "close") /\ UNCHANGED wire
      BY <1>1, <1>2, <2>2, OneGoroutineChanges, CopiersAre
      DEF CopierReads, LinkDrained, Stops, TunnelTypes
    <2> QED
      BY <1>2, <2>1, <2>2 DEF CopierReads
  <1>3. CASE CopierWrites(c)
    <2>1. CASE /\ shut[Sink(c)] = {} /\ HasRoom(Sink(c), c[2])
               /\ Send(Sink(c), c[2], copier[c].held) /\ Goes(c, "read")
      <3>1. /\ SocketDown' = Append(SocketDown, ProxyDown.held)
            /\ UNCHANGED <<ActorUp, ActorDown, SocketUp, ProviderUp, ProviderDown>>
        BY <1>1, <2>1, SendChanges, CopiersAre DEF TunnelTypes
      <3>2. ProxyDown'.at = "read" /\ UNCHANGED <<BridgeUp, BridgeDown, ProxyUp>>
        BY <1>1, <2>1, OneGoroutineChanges, CopiersAre DEF TunnelTypes
      <3>3. /\ ProxyDown.at = "write" /\ SocketShut = {} /\ Len(SocketDown) < LinkRoom
            /\ UNCHANGED <<shut, request, actor, provider>>
        BY <1>1, <1>3, <2>1 DEF CopierWrites, HasRoom
      <3> QED
        BY <1>1, <2>1, <3>1, <3>2, <3>3 DEF Passes
    <2>2. CASE shut[Sink(c)] # {} /\ Goes(c, "close") /\ UNCHANGED wire
      BY <1>1, <1>3, <2>2, OneGoroutineChanges, CopiersAre
      DEF CopierWrites, TunnelTypes, Fails
    <2>3. CASE shut[Sink(c)] = {AheadEnd(c)} /\ Goes(c, "read") /\ UNCHANGED wire
      BY <1>1, <1>3, <2>3, OneGoroutineChanges, CopiersAre
      DEF CopierWrites, TunnelTypes, Drops
    <2> QED
      BY <1>3, <2>1, <2>2, <2>3 DEF CopierWrites
  <1>4. CASE CopierCloses(c)
    <2>1. ProxyDown'.at = "done" /\ UNCHANGED <<BridgeUp, BridgeDown, ProxyUp>>
      BY <1>1, <1>4, OneGoroutineChanges, CopiersAre DEF CopierCloses, TunnelTypes
    <2>2. ProxyDown.at = "close" /\ UNCHANGED <<wire, request, actor, provider>>
      BY <1>4 DEF CopierCloses
    <2> QED
      BY <1>1, <1>4, <2>1, <2>2, CopiersAre DEF CopierCloses, TunnelTypes, Leaves
  <1> QED
    BY <1>2, <1>3, <1>4 DEF Copier

-----------------------------------------------------------------------------
(* What the other actions do, part by part *)

LEMMA BridgeDialsMoves ==
  ASSUME TunnelTypes, BridgeDials
  PROVE  /\ BridgeUp.at = "off" /\ ActorShut \subseteq {"near"}
         /\ \/ /\ BridgeUp'.at = "read" /\ BridgeDown'.at = "read" /\ request' = "head"
               /\ UNCHANGED ActorShut
            \/ /\ ActorShut' = ActorShut \cup {"far"}
               /\ UNCHANGED <<BridgeUp, BridgeDown, request>>
         /\ UNCHANGED <<ActorUp, ActorDown, SocketUp, SocketDown, ProviderUp, ProviderDown>>
         /\ UNCHANGED <<ProxyUp, ProxyDown>>
         /\ UNCHANGED <<SocketShut, ProviderShut, actor, provider>>
  <1> USE DEF ActorUp, ActorDown, SocketUp, SocketDown, ProviderUp, ProviderDown, BridgeUp,
          BridgeDown, ProxyUp, ProxyDown, ActorShut, SocketShut, ProviderShut
  <1>1. CASE Starts("bridge")
    BY <1>1, CopiersAre DEF BridgeDials, Starts, TunnelTypes, CopierRecord
  <1>2. CASE UNCHANGED copier
    BY <1>2, CopiersAre DEF BridgeDials, Starts, TunnelTypes, CopierRecord
  <1> QED
    BY <1>1, <1>2 DEF BridgeDials

LEMMA DropConnectionMoves ==
  ASSUME TunnelTypes, DropConnection
  PROVE  /\ request = "head" /\ request' = "over" /\ SocketShut' = SocketShut \cup {"far"}
         /\ UNCHANGED <<ActorUp, ActorDown, SocketUp, SocketDown, ProviderUp, ProviderDown>>
         /\ UNCHANGED <<BridgeUp, BridgeDown, ProxyUp, ProxyDown>>
         /\ UNCHANGED <<ActorShut, ProviderShut, actor, provider>>
  <1> USE DEF ActorUp, ActorDown, SocketUp, SocketDown, ProviderUp, ProviderDown, BridgeUp,
          BridgeDown, ProxyUp, ProxyDown, ActorShut, SocketShut, ProviderShut
  <1> QED
    BY CopiersAre DEF DropConnection, TunnelTypes

\* A reply that refuses goes into the socket unless that is shut.
Refused(reply) ==
    SocketDown' = IF SocketShut = {} THEN Append(SocketDown, reply) ELSE SocketDown

LEMMA RefuseMoves ==
  ASSUME TunnelTypes, NEW left, NEW reply, Refuse(left, reply)
  PROVE  /\ SocketUp' = left /\ Refused(reply) /\ request' = "head"
         /\ UNCHANGED <<ActorUp, ActorDown, ProviderUp, ProviderDown>>
  <1> USE DEF ActorUp, ActorDown, SocketUp, SocketDown, ProviderUp, ProviderDown, BridgeUp,
          BridgeDown, ProxyUp, ProxyDown, ActorShut, SocketShut, ProviderShut
  <1> DEFINE down == IF shut["socket"] = {} THEN Append(wire["socket"].down, reply)
                     ELSE wire["socket"].down
             pair == [[wire["socket"] EXCEPT !.up = left] EXCEPT !.down = down]
  <1>1. wire' = [wire EXCEPT !["socket"] = pair] /\ request' = "head"
    BY CopiersAre DEF Refuse, TunnelTypes, Ways
  <1>2. pair.up = left /\ pair.down = down
    BY CopiersAre DEF TunnelTypes, Ways
  <1> HIDE DEF pair
  <1>3. /\ wire'["socket"] = pair /\ wire'["actor"] = wire["actor"]
        /\ wire'["provider"] = wire["provider"]
    BY <1>1, CopiersAre DEF TunnelTypes
  <1> QED
    BY <1>1, <1>2, <1>3 DEF Refused

LEMMA TakeRequestMoves ==
  ASSUME TunnelTypes, TakeRequest
  PROVE  /\ request = "head" /\ SocketUp # << >> /\ Head(SocketUp) = Established
         /\ SocketUp' = Tail(SocketUp)
         /\ \/ request' = "dial" /\ UNCHANGED SocketDown
            \/ request' = "head" /\ Refused(Forbidden)
         /\ UNCHANGED <<ActorUp, ActorDown, ProviderUp, ProviderDown>>
         /\ UNCHANGED <<BridgeUp, BridgeDown, ProxyUp, ProxyDown>>
         /\ UNCHANGED <<ActorShut, SocketShut, ProviderShut, actor, provider>>
  <1> USE DEF ActorUp, ActorDown, SocketUp, SocketDown, ProviderUp, ProviderDown, BridgeUp,
          BridgeDown, ProxyUp, ProxyDown, ActorShut, SocketShut, ProviderShut
  <1>1. CASE Receive("socket", "up") /\ request' = "dial"
    BY <1>1, ReceiveChanges, CopiersAre DEF TakeRequest, TunnelTypes
  <1>2. CASE Refuse(Tail(wire["socket"].up), Forbidden)
    BY <1>2, RefuseMoves DEF TakeRequest
  <1> QED
    BY <1>1, <1>2 DEF TakeRequest

LEMMA DialProviderMoves ==
  ASSUME TunnelTypes, DialProvider
  PROVE  /\ request = "dial"
         /\ \/ request' = "dialed" /\ UNCHANGED SocketDown
            \/ request' = "head" /\ Refused(Unavailable)
         /\ UNCHANGED <<ActorUp, ActorDown, SocketUp, ProviderUp, ProviderDown>>
         /\ UNCHANGED <<BridgeUp, BridgeDown, ProxyUp, ProxyDown>>
         /\ UNCHANGED <<ActorShut, SocketShut, ProviderShut, actor, provider>>
  <1> USE DEF ActorUp, ActorDown, SocketUp, SocketDown, ProviderUp, ProviderDown, BridgeUp,
          BridgeDown, ProxyUp, ProxyDown, ActorShut, SocketShut, ProviderShut
  <1>1. CASE request' = "dialed" /\ UNCHANGED wire
    BY <1>1 DEF DialProvider
  <1>2. CASE Refuse(wire["socket"].up, Unavailable)
    BY <1>2, RefuseMoves DEF DialProvider
  <1> QED
    BY <1>1, <1>2 DEF DialProvider

LEMMA HijackMoves ==
  ASSUME TunnelTypes, Hijack
  PROVE  /\ request = "dialed"
         /\ \E read \in 0..Len(SocketUp) : SocketUp' = SubSeq(SocketUp, read + 1, Len(SocketUp))
         /\ \/ /\ SocketShut = {} /\ request' = "tunnel" /\ ProxyUp'.at = "read"
               /\ ProxyDown'.at = "read"
               /\ SocketDown' = Append(SocketDown, Established)
               /\ UNCHANGED <<SocketShut, ProviderShut>>
            \/ /\ SocketShut # {} /\ request' = "over"
               /\ UNCHANGED <<ProxyUp, ProxyDown, SocketDown>>
               /\ SocketShut' = SocketShut \cup {"far"}
               /\ ProviderShut' = ProviderShut \cup {"near"}
         /\ UNCHANGED <<ActorUp, ActorDown, ProviderUp, ProviderDown>>
         /\ UNCHANGED <<BridgeUp, BridgeDown>>
         /\ UNCHANGED <<ActorShut, actor, provider>>
  <1> USE DEF ActorUp, ActorDown, SocketUp, SocketDown, ProviderUp, ProviderDown, BridgeUp,
          BridgeDown, ProxyUp, ProxyDown, ActorShut, SocketShut, ProviderShut
  <1>1. PICK read \in 0..Len(wire["socket"].up) :
          LET rest == [wire["socket"] EXCEPT !.up = SubSeq(@, read + 1, Len(@))] IN
          \/ /\ shut["socket"] = {}
             /\ wire' = [wire EXCEPT !["socket"] = [rest EXCEPT !.down = Append(@, Established)]]
             /\ request' = "tunnel" /\ Starts("proxy") /\ UNCHANGED shut
          \/ /\ shut["socket"] # {}
             /\ wire' = [wire EXCEPT !["socket"] = rest]
             /\ request' = "over" /\ UNCHANGED copier
             /\ shut' = [shut EXCEPT !["socket"] = @ \cup {"far"}, !["provider"] = @ \cup {"near"}]
    BY DEF Hijack
  <1> DEFINE left == SubSeq(wire["socket"].up, read + 1, Len(wire["socket"].up))
             rest == [wire["socket"] EXCEPT !.up = left]
             pair == [rest EXCEPT !.down = Append(rest.down, Established)]
  <1>2. rest.up = left /\ rest.down = wire["socket"].down
    BY CopiersAre DEF TunnelTypes, Ways
  <1>3. pair.up = left /\ pair.down = Append(wire["socket"].down, Established)
    BY CopiersAre DEF TunnelTypes, Ways
  <1>4. CASE /\ shut["socket"] = {} /\ wire' = [wire EXCEPT !["socket"] = pair]
             /\ request' = "tunnel" /\ Starts("proxy") /\ UNCHANGED shut
    <2> HIDE DEF pair
    <2>1. wire'["socket"] = pair /\ wire'["actor"] = wire["actor"] /\ wire'["provider"] = wire["provider"]
      BY <1>4, CopiersAre DEF TunnelTypes
    <2>2. /\ ProxyUp'.at = "read" /\ ProxyDown'.at = "read"
          /\ UNCHANGED <<BridgeUp, BridgeDown>>
      BY <1>4, CopiersAre DEF Starts, TunnelTypes, CopierRecord
    <2> QED
      BY <1>1, <1>3, <1>4, <2>1, <2>2 DEF Hijack
  <1>5. CASE /\ shut["socket"] # {} /\ wire' = [wire EXCEPT !["socket"] = rest]
             /\ request' = "over" /\ UNCHANGED copier
             /\ shut' = [shut EXCEPT !["socket"] = @ \cup {"far"}, !["provider"] = @ \cup {"near"}]
    <2> HIDE DEF rest
    <2>1. wire'["socket"] = rest /\ wire'["actor"] = wire["actor"] /\ wire'["provider"] = wire["provider"]
      BY <1>5, CopiersAre DEF TunnelTypes
    <2>2. /\ SocketShut' = SocketShut \cup {"far"} /\ ProviderShut' = ProviderShut \cup {"near"}
          /\ UNCHANGED ActorShut
      BY <1>5, CopiersAre DEF TunnelTypes
    <2> QED
      BY <1>1, <1>2, <1>5, <2>1, <2>2 DEF Hijack
  <1> QED
    BY <1>1, <1>4, <1>5

LEMMA AskMoves ==
  ASSUME TunnelTypes, Ask
  PROVE  /\ ~actor.asked /\ ~actor.half /\ ActorShut = {} /\ Len(ActorUp) < LinkRoom
         /\ actor' = [actor EXCEPT !.asked = TRUE] /\ ActorUp' = Append(ActorUp, Established)
         /\ UNCHANGED <<ActorDown, SocketUp, SocketDown, ProviderUp, ProviderDown>>
         /\ UNCHANGED <<BridgeUp, BridgeDown, ProxyUp, ProxyDown>>
         /\ UNCHANGED <<ActorShut, SocketShut, ProviderShut, request, provider>>
  <1> USE DEF ActorUp, ActorDown, SocketUp, SocketDown, ProviderUp, ProviderDown, BridgeUp,
          BridgeDown, ProxyUp, ProxyDown, ActorShut, SocketShut, ProviderShut
  <1> QED
    BY SendChanges, CopiersAre DEF Ask, HasRoom, TunnelTypes

LEMMA ActorSendsMoves ==
  ASSUME TunnelTypes, ActorSends
  PROVE  /\ actor.asked /\ (actor.patient => actor.reply = Established)
         /\ ~actor.half /\ ActorShut = {} /\ Len(ActorUp) < LinkRoom
         /\ actor' = [actor EXCEPT !.sent = @ + 1] /\ ActorUp' = Append(ActorUp, actor.sent + 1)
         /\ UNCHANGED <<ActorDown, SocketUp, SocketDown, ProviderUp, ProviderDown>>
         /\ UNCHANGED <<BridgeUp, BridgeDown, ProxyUp, ProxyDown>>
         /\ UNCHANGED <<ActorShut, SocketShut, ProviderShut, request, provider>>
  <1> USE DEF ActorUp, ActorDown, SocketUp, SocketDown, ProviderUp, ProviderDown, BridgeUp,
          BridgeDown, ProxyUp, ProxyDown, ActorShut, SocketShut, ProviderShut
  <1> QED
    BY SendChanges, CopiersAre DEF ActorSends, HasRoom, TunnelTypes

LEMMA ActorReceivesMoves ==
  ASSUME TunnelTypes, ActorReceives
  PROVE  /\ "near" \notin ActorShut
         /\ \/ /\ ActorDown # << >> /\ ActorDown' = Tail(ActorDown)
               /\ actor' = IF actor.reply = Unasked THEN [actor EXCEPT !.reply = Head(ActorDown)]
                           ELSE [actor EXCEPT !.got = Append(@, Head(ActorDown))]
            \/ /\ ActorDown = << >> /\ "far" \in ActorShut
               /\ actor' = [actor EXCEPT !.eof = TRUE] /\ UNCHANGED ActorDown
         /\ UNCHANGED <<ActorUp, SocketUp, SocketDown, ProviderUp, ProviderDown>>
         /\ UNCHANGED <<BridgeUp, BridgeDown, ProxyUp, ProxyDown>>
         /\ UNCHANGED <<ActorShut, SocketShut, ProviderShut, request, provider>>
  <1> USE DEF ActorUp, ActorDown, SocketUp, SocketDown, ProviderUp, ProviderDown, BridgeUp,
          BridgeDown, ProxyUp, ProxyDown, ActorShut, SocketShut, ProviderShut
  <1>1. CASE wire["actor"].down # << >> /\ Receive("actor", "down")
             /\ actor' = IF actor.reply = Unasked THEN [actor EXCEPT !.reply = Head(ActorDown)]
                         ELSE [actor EXCEPT !.got = Append(@, Head(ActorDown))]
    BY <1>1, ReceiveChanges, CopiersAre DEF ActorReceives, TunnelTypes
  <1>2. CASE /\ LinkDrained("actor", "down") /\ actor' = [actor EXCEPT !.eof = TRUE]
             /\ UNCHANGED wire
    BY <1>2 DEF ActorReceives, LinkDrained
  <1> QED
    BY <1>1, <1>2 DEF ActorReceives

LEMMA ActorHalfClosesMoves ==
  ASSUME TunnelTypes, ActorHalfCloses
  PROVE  /\ "near" \notin ActorShut /\ actor' = [actor EXCEPT !.half = TRUE]
         /\ UNCHANGED <<ActorUp, ActorDown, SocketUp, SocketDown, ProviderUp, ProviderDown>>
         /\ UNCHANGED <<BridgeUp, BridgeDown, ProxyUp, ProxyDown>>
         /\ UNCHANGED <<ActorShut, SocketShut, ProviderShut, request, provider>>
  <1> USE DEF ActorUp, ActorDown, SocketUp, SocketDown, ProviderUp, ProviderDown, BridgeUp,
          BridgeDown, ProxyUp, ProxyDown, ActorShut, SocketShut, ProviderShut
  <1> QED
    BY DEF ActorHalfCloses

LEMMA ActorClosesMoves ==
  ASSUME TunnelTypes, ActorCloses
  PROVE  /\ ActorShut' = ActorShut \cup {"near"}
         /\ UNCHANGED <<ActorUp, ActorDown, SocketUp, SocketDown, ProviderUp, ProviderDown>>
         /\ UNCHANGED <<BridgeUp, BridgeDown, ProxyUp, ProxyDown>>
         /\ UNCHANGED <<SocketShut, ProviderShut, request, actor, provider>>
  <1> USE DEF ActorUp, ActorDown, SocketUp, SocketDown, ProviderUp, ProviderDown, BridgeUp,
          BridgeDown, ProxyUp, ProxyDown, ActorShut, SocketShut, ProviderShut
  <1> QED
    BY CopiersAre DEF ActorCloses, TunnelTypes

LEMMA ProviderReceivesMoves ==
  ASSUME TunnelTypes, ProviderReceives
  PROVE  /\ request \in {"dialed", "tunnel"} /\ ProviderUp # << >> /\ ProviderUp' = Tail(ProviderUp)
         /\ provider' = [provider EXCEPT !.got = Append(@, Head(ProviderUp))]
         /\ UNCHANGED <<ActorUp, ActorDown, SocketUp, SocketDown, ProviderDown>>
         /\ UNCHANGED <<BridgeUp, BridgeDown, ProxyUp, ProxyDown>>
         /\ UNCHANGED <<ActorShut, SocketShut, ProviderShut, request, actor>>
  <1> USE DEF ActorUp, ActorDown, SocketUp, SocketDown, ProviderUp, ProviderDown, BridgeUp,
          BridgeDown, ProxyUp, ProxyDown, ActorShut, SocketShut, ProviderShut
  <1> QED
    BY ReceiveChanges, CopiersAre DEF ProviderReceives, Connected, TunnelTypes

LEMMA ProviderSendsMoves ==
  ASSUME TunnelTypes, ProviderSends
  PROVE  /\ request \in {"dialed", "tunnel"} /\ ProviderShut = {} /\ Len(ProviderDown) < LinkRoom
         /\ provider' = [provider EXCEPT !.sent = @ + 1]
         /\ ProviderDown' = Append(ProviderDown, provider.sent + 1)
         /\ UNCHANGED <<ActorUp, ActorDown, SocketUp, SocketDown, ProviderUp>>
         /\ UNCHANGED <<BridgeUp, BridgeDown, ProxyUp, ProxyDown>>
         /\ UNCHANGED <<ActorShut, SocketShut, ProviderShut, request, actor>>
  <1> USE DEF ActorUp, ActorDown, SocketUp, SocketDown, ProviderUp, ProviderDown, BridgeUp,
          BridgeDown, ProxyUp, ProxyDown, ActorShut, SocketShut, ProviderShut
  <1> QED
    BY SendChanges, CopiersAre DEF ProviderSends, Connected, HasRoom, TunnelTypes

LEMMA ProviderClosesMoves ==
  ASSUME TunnelTypes, ProviderCloses
  PROVE  /\ request \in {"dialed", "tunnel"} /\ ProviderShut' = ProviderShut \cup {"far"}
         /\ UNCHANGED <<ActorUp, ActorDown, SocketUp, SocketDown, ProviderUp, ProviderDown>>
         /\ UNCHANGED <<BridgeUp, BridgeDown, ProxyUp, ProxyDown>>
         /\ UNCHANGED <<ActorShut, SocketShut, request, actor, provider>>
  <1> USE DEF ActorUp, ActorDown, SocketUp, SocketDown, ProviderUp, ProviderDown, BridgeUp,
          BridgeDown, ProxyUp, ProxyDown, ActorShut, SocketShut, ProviderShut
  <1> QED
    BY CopiersAre DEF ProviderCloses, Connected, TunnelTypes

-----------------------------------------------------------------------------
(* The invariant is kept: the bridge's goroutine that copies up *)

LEMMA BridgeUpKeeps ==
  ASSUME TunnelConstants, TunnelInv, TunnelTypes', Copier(<<"bridge", "up">>)
  PROVE  TunnelInv'
  <1>1. Sorts /\ Sorts' /\ Counts
    BY PartsHaveSorts, NextPartsHaveSorts, CountsAreNumbers DEF TunnelInv
  <1> DEFINE takes == /\ "far" \notin ActorShut /\ Takes(BridgeUp, BridgeUp', ActorUp, ActorUp')
                      /\ UNCHANGED <<SocketUp, SocketShut>>
             stops == /\ \/ "far" \in ActorShut
                         \/ ActorUp = << >> /\ ("near" \in ActorShut \/ actor.half)
                      /\ Stops(BridgeUp, BridgeUp') /\ UNCHANGED <<ActorUp, SocketUp, SocketShut>>
             passes == /\ SocketShut = {} /\ Passes(BridgeUp, BridgeUp', SocketUp, SocketUp')
                       /\ UNCHANGED <<ActorUp, SocketShut>>
             fails == /\ SocketShut # {} /\ Fails(BridgeUp, BridgeUp')
                      /\ UNCHANGED <<ActorUp, SocketUp, SocketShut>>
             drops == /\ SocketShut = {"far"} /\ Drops(BridgeUp, BridgeUp')
                      /\ UNCHANGED <<ActorUp, SocketUp, SocketShut>>
             leaves == /\ Leaves(BridgeUp, BridgeUp') /\ SocketShut' = SocketShut \cup {"near"}
                       /\ UNCHANGED <<ActorUp, SocketUp>>
  <1>2. /\ UNCHANGED <<BridgeDown, ProxyUp, ProxyDown>>
        /\ UNCHANGED <<ActorDown, SocketDown, ProviderUp, ProviderDown>>
        /\ UNCHANGED <<ActorShut, ProviderShut, request, actor, provider>>
        /\ takes \/ stops \/ passes \/ fails \/ drops \/ leaves
    BY BridgeUpMoves DEF TunnelInv
  <1>3. SocketShut \subseteq SocketShut' /\ SocketShut' \subseteq SocketShut \cup {"near"}
    BY <1>2
  <1>4. /\ Received' = Received /\ ToActor' = ToActor /\ ToSocket' = ToSocket
        /\ ToProvider' = ToProvider /\ LastSent' = LastSent /\ ToProxy' = ToProxy
        /\ ActorHas' = ActorHas /\ ProviderHas' = ProviderHas
    BY <1>2 DEF Received, ToActor, ToSocket, ToProvider, LastSent, ToProxy, ActorHas, ProviderHas
  <1>5. ASSUME takes
        PROVE  /\ Taken' = Taken + 1 /\ Passed' = Passed /\ Remaining' = Remaining
               /\ Head(ActorUp) = Taken + 1 /\ Up(ActorUp', Taken + 1)
               /\ Len(ActorUp') = Len(ActorUp) - 1
    <2>1. Len(ActorUp') = Len(ActorUp) - 1 /\ Holds(BridgeUp) = 0 /\ Holds(BridgeUp') = 1
      BY <1>1, <1>5, QueueOut DEF Sorts, Takes, Holds
    <2>2. Up(ActorUp, Taken)
      BY DEF TunnelInv, UpOK
    <2>3. Head(ActorUp) = Taken + 1 /\ Up(ActorUp', Taken + 1)
      BY <1>1, <1>5, <2>2, UpOut DEF Sorts, Counts, Takes
    <2>4. Taken' = Taken + 1
      BY <1>1, <1>4, <2>1 DEF Counts, Taken
    <2>5. Passed' = Passed /\ Remaining' = Remaining
      BY <1>1, <1>4, <1>5, <2>1, <2>4 DEF Counts, Passed, Remaining
    <2> QED
      BY <2>1, <2>3, <2>4, <2>5
  <1>6. ASSUME stops \/ leaves
        PROVE  Taken' = Taken /\ Passed' = Passed /\ Remaining' = Remaining
    BY <1>4, <1>6 DEF Stops, Leaves, Holds, Taken, Passed, Remaining
  <1>7. ASSUME passes
        PROVE  /\ Taken' = Taken /\ Passed' = Passed + 1 /\ Remaining' = Remaining
               /\ Len(SocketUp') = Len(SocketUp) + 1 /\ SocketUp' = Append(SocketUp, Passed + 1)
    <2>1. /\ Len(SocketUp') = Len(SocketUp) + 1 /\ Holds(BridgeUp) = 1 /\ Holds(BridgeUp') = 0
          /\ BridgeUp.held = Taken
      BY <1>1, <1>7, QueueIn DEF Sorts, CopierRecord, Passes, Holds, TunnelInv, UpOK
    <2>2. Taken' = Taken
      BY <1>4, <1>7 DEF Taken
    <2>3. Passed = Taken - 1 /\ Passed' = Taken
      BY <1>1, <2>1, <2>2 DEF Counts, Passed
    <2>4. Remaining' = Remaining
      BY <1>1, <1>4, <1>7, <2>1 DEF Counts, Remaining
    <2> QED
      BY <1>1, <1>7, <2>1, <2>2, <2>3, <2>4 DEF Counts, Passes
  <1>8. ASSUME fails \/ drops
        PROVE  Taken' = Taken /\ Passed' = Passed + 1 /\ Remaining' = Remaining - 1
    <2>1. Holds(BridgeUp) = 1 /\ Holds(BridgeUp') = 0
      BY <1>8 DEF Fails, Drops, Holds
    <2>2. Taken' = Taken
      BY <1>4, <1>8 DEF Taken
    <2> QED
      BY <1>1, <1>4, <1>8, <2>1, <2>2 DEF Counts, Passed, Remaining
  <1> HIDE DEF takes, stops, passes, fails, drops, leaves
  <1>9. RoomOK'
    <2>1. Len(ActorUp') <= LinkRoom
      BY <1>1, <1>2, <1>5
      DEF TunnelConstants, Counts, TunnelInv, RoomOK, stops, passes, fails, drops, leaves
    <2>2. Len(SocketUp') <= LinkRoom
      BY <1>1, <1>2, <1>7
      DEF TunnelConstants, Counts, TunnelInv, RoomOK, takes, stops, passes, Passes, fails,
        drops, leaves
    <2> QED
      BY <1>2, <2>1, <2>2 DEF TunnelInv, RoomOK
  <1>10. DownOK'
    BY <1>2, <1>3, <1>4 DEF TunnelInv, DownOK
  <1>11. UpOK'
    <2>1. CASE takes
      BY <1>2, <1>4, <1>5, <2>1 DEF TunnelInv, UpOK, takes, Takes
    <2>2. CASE passes
      <3>1. Rising(SocketUp', Passed')
        BY <1>1, <1>7, <2>2, RisingIn DEF TunnelInv, UpOK, Counts, Sorts
      <3> QED
        BY <1>1, <1>2, <1>4, <1>7, <2>2, <3>1 DEF TunnelInv, UpOK, passes, Passes, Counts
    <2>3. CASE fails \/ drops
      <3>1. Rising(SocketUp', Passed')
        BY <1>1, <1>8, <2>3, RisingMore DEF TunnelInv, UpOK, Counts, Sorts, fails, drops
      <3> QED
        BY <1>1, <1>2, <1>4, <1>8, <2>3, <3>1
        DEF TunnelInv, UpOK, fails, Fails, drops, Drops, Counts
    <2>4. CASE stops \/ leaves
      BY <1>2, <1>4, <1>6, <2>4 DEF TunnelInv, UpOK, stops, Stops, leaves, Leaves
    <2> QED
      BY <1>2, <2>1, <2>2, <2>3, <2>4
  <1>12. PatientOK'
    <2>1. CASE passes
      <3>1. Passed \in Int /\ ToProxy \in Nat /\ Len(SocketUp) \in Nat /\ SocketUp \in Seq(Int)
        BY <1>1 DEF Counts, Sorts
      <3>2. Copies(BridgeUp) /\ "far" \notin SocketShut /\ SocketShut' = SocketShut
        BY <2>1 DEF passes, Passes, Copies
      <3>3. ASSUME actor.patient, Copies(ProxyUp), "far" \notin ProviderShut
            PROVE  Up(SocketUp', ToProxy) /\ ToProxy + Len(SocketUp') = Passed'
        <4>1. Up(SocketUp, ToProxy) /\ ToProxy + Len(SocketUp) = Passed
          BY <3>2, <3>3 DEF TunnelInv, PatientOK
        <4>2. Passed + 1 = ToProxy + Len(SocketUp) + 1
          BY <4>1
        <4>3. Up(Append(SocketUp, ToProxy + Len(SocketUp) + 1), ToProxy)
          BY <3>1, <4>1, UpIn
        <4> QED
          <5>1. Up(SocketUp', ToProxy)
            BY <1>7, <2>1, <4>2, <4>3
          <5>2. ToProxy + Len(SocketUp') = Passed'
            BY <1>7, <2>1, <3>1, <4>1
          <5> QED
            BY <5>1, <5>2
      <3> QED
        BY <1>2, <1>4, <3>3 DEF TunnelInv, PatientOK
    <2>2. CASE takes \/ stops \/ leaves
      BY <1>2, <1>3, <1>4, <1>5, <1>6, <2>2
      DEF TunnelInv, PatientOK, Copies, takes, Takes, stops, Stops, leaves, Leaves
    <2>3. CASE fails \/ drops
      BY <1>2, <1>3, <1>4, <2>3
      DEF TunnelInv, PatientOK, Copies, fails, Fails, drops, Drops
    <2> QED
      BY <1>2, <2>1, <2>2, <2>3
  <1>13. Fresh' <=> Fresh
    BY <1>2 DEF Fresh
  <1>14. TunnelAsked => TunnelAsked'
    <2>1. CASE passes
      <3>1. ASSUME TunnelAsked
            PROVE  TunnelAsked'
        <4>1. Passed >= 0 /\ Passed + 1 >= 1 /\ Passed' >= 0 /\ Passed + 1 \in Int
          BY <1>1, <1>7, <2>1, <3>1 DEF TunnelAsked, Counts
        <4>2. Data(SocketUp')
          BY <1>1, <1>7, <2>1, <3>1, <4>1, DataIn DEF TunnelAsked, Sorts
        <4> QED
          BY <4>1, <4>2 DEF TunnelAsked
      <3> QED
        BY <3>1
    <2>2. CASE takes \/ stops \/ leaves
      BY <1>5, <1>6, <2>2 DEF TunnelAsked, takes, stops, leaves
    <2>3. CASE fails \/ drops
      BY <1>1, <1>8, <2>3 DEF Counts, TunnelAsked, fails, drops
    <2> QED
      BY <1>2, <2>1, <2>2, <2>3
  <1>15. RequestOK'
    <2>1. request # "none"
      BY <1>2
      DEF TunnelInv, ShutOK, takes, Takes, stops, Stops, passes, Passes, fails, Fails, drops,
          Drops, leaves, Leaves
    <2> QED
      BY <1>2, <1>3, <1>13, <1>14, <2>1 DEF TunnelInv, RequestOK
  <1>16. ShutOK'
    <2>1. CASE leaves
      BY <1>2, <2>1 DEF TunnelInv, ShutOK, leaves, Leaves, Left
    <2>2. CASE stops \/ fails
      BY <1>2, <2>2 DEF TunnelInv, ShutOK, Left, stops, Stops, fails, Fails
    <2>3. CASE takes \/ passes \/ drops
      BY <1>2, <2>3 DEF TunnelInv, ShutOK, Left, takes, Takes, passes, Passes, drops, Drops
    <2> QED
      BY <1>2, <2>1, <2>2, <2>3
  <1>17. CauseOK'
    <2>1. CASE stops
      BY <1>1, <1>2, <2>1 DEF TunnelInv, CauseOK, ShutOK, Ended, Left, stops, Stops
    <2>2. CASE fails
      BY <1>1, <1>2, <2>2
      DEF Sorts, TunnelInv, TunnelTypes, CauseOK, ShutOK, RequestOK, Ended, Left, fails, Fails
    <2>3. CASE takes \/ passes \/ drops \/ leaves
      BY <1>2, <2>3
      DEF TunnelInv, CauseOK, Ended, Left, takes, Takes, passes, Passes, drops, Drops, leaves,
          Leaves
    <2> QED
      BY <1>2, <2>1, <2>2, <2>3
  <1>18. WholeOK'
    <2>1. CASE fails \/ drops
      BY <1>1, <1>2, <1>8, <2>1 DEF Counts, TunnelInv, WholeOK, Listens
    <2>2. CASE takes \/ passes \/ leaves
      BY <1>2, <1>4, <1>5, <1>6, <1>7, <2>2
      DEF TunnelInv, WholeOK, Listens, Left, takes, Takes, passes, Passes, leaves, Leaves
    <2>3. CASE stops
      BY <1>2, <1>4, <1>6, <2>3 DEF TunnelInv, ShutOK, WholeOK, Listens, Left, stops, Stops
    <2> QED
      BY <1>2, <2>1, <2>2, <2>3
  <1> QED
    BY <1>9, <1>10, <1>11, <1>12, <1>15, <1>16, <1>17, <1>18 DEF TunnelInv

-----------------------------------------------------------------------------
(* The invariant is kept: the bridge's goroutine that copies down *)

LEMMA BridgeDownKeeps ==
  ASSUME TunnelConstants, TunnelInv, TunnelTypes', Copier(<<"bridge", "down">>)
  PROVE  TunnelInv'
  <1>1. Sorts /\ Sorts' /\ Counts
    BY PartsHaveSorts, NextPartsHaveSorts, CountsAreNumbers DEF TunnelInv
  <1> DEFINE takes == /\ "near" \notin SocketShut
                      /\ Takes(BridgeDown, BridgeDown', SocketDown, SocketDown')
                      /\ UNCHANGED <<ActorDown, ActorShut, SocketShut>>
             stops == /\ \/ "near" \in SocketShut
                         \/ SocketDown = << >> /\ "far" \in SocketShut
                      /\ Stops(BridgeDown, BridgeDown')
                      /\ UNCHANGED <<SocketDown, ActorDown, ActorShut, SocketShut>>
             passes == /\ ActorShut = {} /\ Passes(BridgeDown, BridgeDown', ActorDown, ActorDown')
                       /\ UNCHANGED <<SocketDown, ActorShut, SocketShut>>
             fails == /\ ActorShut # {} /\ Fails(BridgeDown, BridgeDown')
                      /\ UNCHANGED <<SocketDown, ActorDown, ActorShut, SocketShut>>
             drops == /\ ActorShut = {"near"} /\ Drops(BridgeDown, BridgeDown')
                      /\ UNCHANGED <<SocketDown, ActorDown, ActorShut, SocketShut>>
             leaves == /\ Leaves(BridgeDown, BridgeDown')
                       /\ ActorShut' = ActorShut \cup {"far"}
                       /\ SocketShut' = SocketShut \cup {"near"}
                       /\ UNCHANGED <<SocketDown, ActorDown>>
  <1>2. /\ UNCHANGED <<BridgeUp, ProxyUp, ProxyDown>>
        /\ UNCHANGED <<ActorUp, SocketUp, ProviderUp, ProviderDown>>
        /\ UNCHANGED <<ProviderShut, request, actor, provider>>
        /\ takes \/ stops \/ passes \/ fails \/ drops \/ leaves
    BY BridgeDownMoves DEF TunnelInv
  <1>3. /\ SocketShut \subseteq SocketShut' /\ SocketShut' \subseteq SocketShut \cup {"near"}
        /\ ActorShut \subseteq ActorShut' /\ ActorShut' \subseteq ActorShut \cup {"far"}
    BY <1>2
  <1>4. /\ Received' = Received /\ LastSent' = LastSent /\ Taken' = Taken /\ Passed' = Passed
        /\ ToProxy' = ToProxy /\ Remaining' = Remaining /\ ActorHas' = ActorHas /\ ProviderHas' = ProviderHas
    BY <1>2 DEF Received, LastSent, Taken, Passed, ToProxy, Remaining, ActorHas, ProviderHas
  <1>5. ASSUME takes
        PROVE  /\ Holds(BridgeDown) = 0 /\ Holds(BridgeDown') = 1
               /\ Len(SocketDown') = Len(SocketDown) - 1
               /\ ToActor' = ToActor /\ ToSocket' = ToSocket /\ ToProvider' = ToProvider
    <2>1. /\ Len(SocketDown') = Len(SocketDown) - 1
          /\ Holds(BridgeDown) = 0 /\ Holds(BridgeDown') = 1
      BY <1>1, <1>5, QueueOut DEF Sorts, Takes, Holds
    <2>2. ToActor' = ToActor
      BY <1>4, <1>5 DEF ToActor
    <2>3. ToSocket' = ToSocket
      BY <1>1, <2>1, <2>2 DEF Counts, ToSocket
    <2>4. ToProvider' = ToProvider
      BY <1>2, <2>3 DEF ToProvider
    <2> QED
      BY <2>1, <2>2, <2>3, <2>4
  <1>6. ASSUME stops \/ leaves
        PROVE  /\ ToActor' = ToActor /\ ToSocket' = ToSocket /\ ToProvider' = ToProvider
               /\ ActorDown' = ActorDown /\ SocketDown' = SocketDown
    BY <1>2, <1>4, <1>6 DEF Stops, Leaves, Holds, ToActor, ToSocket, ToProvider
  <1>7. ASSUME passes
        PROVE  /\ Holds(BridgeDown) = 1 /\ Holds(BridgeDown') = 0
               /\ Len(ActorDown') = Len(ActorDown) + 1
               /\ ToActor' = ToActor + 1 /\ ToSocket' = ToSocket /\ ToProvider' = ToProvider
    <2>1. /\ Len(ActorDown') = Len(ActorDown) + 1
          /\ Holds(BridgeDown) = 1 /\ Holds(BridgeDown') = 0
      BY <1>1, <1>7, QueueIn DEF Sorts, CopierRecord, Passes, Holds
    <2>2. ToActor' = ToActor + 1
      BY <1>1, <1>4, <2>1 DEF Counts, ToActor
    <2>3. ToSocket' = ToSocket
      BY <1>1, <1>7, <2>1, <2>2 DEF Counts, ToSocket
    <2>4. ToProvider' = ToProvider
      BY <1>2, <2>3 DEF ToProvider
    <2> QED
      BY <2>1, <2>2, <2>3, <2>4
  <1>8. ASSUME fails \/ drops
        PROVE  ActorDown' = ActorDown /\ SocketDown' = SocketDown
    BY <1>8
  <1> HIDE DEF takes, stops, passes, fails, drops, leaves
  <1>9. RoomOK'
    <2>1. Len(ActorDown') <= LinkRoom
      BY <1>1, <1>2, <1>6, <1>7, <1>8
      DEF TunnelConstants, Counts, TunnelInv, RoomOK, takes, passes, Passes
    <2>2. Len(SocketDown') <= LinkRoom
      BY <1>1, <1>2, <1>5, <1>6, <1>8 DEF TunnelConstants, Counts, TunnelInv, RoomOK, passes
    <2> QED
      BY <1>2, <2>1, <2>2 DEF TunnelInv, RoomOK
  <1>10. DownOK'
    <2>1. CASE takes
      <3>1. ASSUME "near" \notin ActorShut
            PROVE  IsDown(BridgeDown'.held, ToActor + 1) /\ Down(SocketDown', ToActor + 1)
        <4>1. Down(SocketDown, ToActor)
          BY <1>1, <1>5, <2>1, <3>1 DEF Counts, TunnelInv, DownOK, Copies, takes, Takes
        <4> QED
          BY <1>1, <2>1, <4>1, DownOut DEF Sorts, Counts, takes, Takes
      <3> QED
        BY <1>1, <1>2, <1>4, <1>5, <2>1, <3>1
        DEF Counts, TunnelInv, DownOK, Copies, takes, Takes
    <2>2. CASE passes
      <3>1. /\ IsDown(BridgeDown.held, ToActor + 1) /\ Down(SocketDown, ToActor + 1)
            /\ BridgeDown.at = "write" /\ BridgeDown'.at = "read"
        BY <1>7, <2>2 DEF TunnelInv, DownOK, Copies, passes, Passes
      <3>2. ToActor + 1 = Received + Len(ActorDown) + 1
        BY <1>1 DEF Counts, ToActor
      <3>3. Down(ActorDown', Received)
        BY <1>1, <2>2, <3>1, <3>2, DownIn
        DEF Sorts, CopierRecord, Counts, TunnelInv, DownOK, passes, Passes
      <3> QED
        BY <1>1, <1>2, <1>4, <1>7, <2>2, <3>1, <3>3 DEF Counts, TunnelInv, DownOK, Copies, passes
    <2>3. CASE fails \/ drops
      <3>1. "near" \in ActorShut'
        BY <1>1, <2>3 DEF Sorts, TunnelInv, ShutOK, RequestOK, fails, Fails, drops, Drops
      <3> QED
        BY <1>2, <1>4, <1>8, <2>3, <3>1 DEF TunnelInv, DownOK
    <2>4. CASE stops \/ leaves
      BY <1>2, <1>4, <1>6, <2>4 DEF TunnelInv, DownOK, Copies, stops, Stops, leaves, Leaves
    <2> QED
      BY <1>2, <2>1, <2>2, <2>3, <2>4
  <1>11. UpOK' /\ PatientOK'
    BY <1>2, <1>3, <1>4 DEF TunnelInv, UpOK, PatientOK
  <1>12. (TunnelAsked' <=> TunnelAsked) /\ (Fresh => Fresh')
    BY <1>2, <1>4
    DEF TunnelAsked, Fresh, takes, Takes, stops, Stops, passes, Passes, fails, Fails, drops, Drops,
        leaves, Leaves
  <1>13. RequestOK'
    <2>1. ASSUME NotEstablished(ActorDown), NotEstablished(SocketDown),
                 BridgeDown.at = "write" => BridgeDown.held # Established
          PROVE  /\ NotEstablished(ActorDown') /\ NotEstablished(SocketDown')
                 /\ BridgeDown'.at = "write" => BridgeDown'.held # Established
      <3>1. CASE takes
        BY <1>1, <2>1, <3>1, NotEstablishedOut DEF Sorts, takes, Takes
      <3>2. CASE passes
        BY <1>1, <2>1, <3>2, NotEstablishedIn DEF Sorts, CopierRecord, passes, Passes
      <3> QED
        BY <1>2, <1>6, <1>8, <2>1, <3>1, <3>2
        DEF stops, Stops, fails, Fails, drops, Drops, leaves, Leaves
    <2> QED
      BY <1>2, <1>3, <1>4, <1>12, <2>1 DEF TunnelInv, RequestOK
  <1>14. ShutOK'
    <2>1. CASE leaves
      BY <1>2, <2>1 DEF TunnelInv, ShutOK, leaves, Leaves, Left
    <2>2. CASE stops \/ fails
      BY <1>1, <1>2, <2>2 DEF Sorts, TunnelInv, ShutOK, Left, stops, Stops, fails, Fails
    <2>3. CASE takes \/ passes \/ drops
      BY <1>2, <2>3
      DEF TunnelInv, ShutOK, Left, takes, Takes, passes, Passes, drops, Drops
    <2> QED
      BY <1>2, <2>1, <2>2, <2>3
  <1>15. CauseOK'
    <2>1. CASE stops
      BY <1>1, <1>2, <2>1
      DEF TunnelInv, TunnelTypes, CauseOK, ShutOK, RequestOK, Ended, Left, stops, Stops
    <2>2. CASE fails
      BY <1>1, <1>2, <2>2
      DEF Sorts, TunnelInv, TunnelTypes, CauseOK, ShutOK, Ended, Left, fails, Fails
    <2>3. CASE takes \/ passes \/ drops
      BY <1>2, <2>3
      DEF TunnelInv, CauseOK, Ended, Left, takes, Takes, passes, Passes, drops, Drops
    <2>4. CASE leaves
      BY <1>2, <1>3, <2>4 DEF TunnelInv, CauseOK, Ended, Left, leaves, Leaves
    <2> QED
      BY <1>2, <2>1, <2>2, <2>3, <2>4
  <1>16. WholeOK'
    <2>1. CASE fails \/ drops
      BY <1>1, <1>2, <1>4, <2>1
      DEF Sorts, TunnelInv, ShutOK, WholeOK, Listens, fails, Fails, drops, Drops
    <2>2. CASE takes \/ passes
      BY <1>2, <1>4, <1>5, <1>7, <2>2
      DEF TunnelInv, WholeOK, Listens, Left, takes, Takes, passes, Passes
    <2>3. CASE stops \/ leaves
      BY <1>2, <1>3, <1>4, <1>6, <2>3
      DEF TunnelInv, ShutOK, WholeOK, Listens, Left, stops, Stops, leaves, Leaves
    <2> QED
      BY <1>2, <2>1, <2>2, <2>3
  <1> QED
    BY <1>9, <1>10, <1>11, <1>13, <1>14, <1>15, <1>16 DEF TunnelInv

-----------------------------------------------------------------------------
(* The invariant is kept: the proxy's goroutine that copies up *)

LEMMA ProxyUpKeeps ==
  ASSUME TunnelConstants, TunnelInv, TunnelTypes', Copier(<<"proxy", "up">>)
  PROVE  TunnelInv'
  <1>1. Sorts /\ Sorts' /\ Counts
    BY PartsHaveSorts, NextPartsHaveSorts, CountsAreNumbers DEF TunnelInv
  <1> DEFINE takes == /\ "far" \notin SocketShut /\ Takes(ProxyUp, ProxyUp', SocketUp, SocketUp')
                      /\ UNCHANGED <<ProviderUp, ProviderShut>>
             stops == /\ \/ "far" \in SocketShut
                         \/ SocketUp = << >> /\ "near" \in SocketShut
                      /\ Stops(ProxyUp, ProxyUp')
                      /\ UNCHANGED <<SocketUp, ProviderUp, ProviderShut>>
             passes == /\ ProviderShut = {} /\ Passes(ProxyUp, ProxyUp', ProviderUp, ProviderUp')
                       /\ UNCHANGED <<SocketUp, ProviderShut>>
             fails == /\ ProviderShut # {} /\ Fails(ProxyUp, ProxyUp')
                      /\ UNCHANGED <<SocketUp, ProviderUp, ProviderShut>>
             drops == /\ ProviderShut = {"far"} /\ Drops(ProxyUp, ProxyUp')
                      /\ UNCHANGED <<SocketUp, ProviderUp, ProviderShut>>
             leaves == /\ Leaves(ProxyUp, ProxyUp') /\ ProviderShut' = ProviderShut \cup {"near"}
                       /\ UNCHANGED <<SocketUp, ProviderUp>>
  <1>2. /\ UNCHANGED <<BridgeUp, BridgeDown, ProxyDown>>
        /\ UNCHANGED <<ActorUp, ActorDown, SocketDown, ProviderDown>>
        /\ UNCHANGED <<ActorShut, SocketShut, request, actor, provider>>
        /\ takes \/ stops \/ passes \/ fails \/ drops \/ leaves
    BY ProxyUpMoves DEF TunnelInv
  <1>3. /\ ProviderShut \subseteq ProviderShut'
        /\ ProviderShut' \subseteq ProviderShut \cup {"near"}
        /\ request = "tunnel" /\ TunnelAsked
    BY <1>2
    DEF TunnelInv, TunnelTypes, RequestOK, Takes, Stops, Passes, Fails, Drops, Leaves
  <1>4. /\ Received' = Received /\ ToActor' = ToActor /\ ToSocket' = ToSocket
        /\ ToProvider' = ToProvider /\ LastSent' = LastSent /\ Taken' = Taken /\ Passed' = Passed
        /\ ActorHas' = ActorHas /\ ProviderHas' = ProviderHas
    BY <1>2
    DEF Received, ToActor, ToSocket, ToProvider, LastSent, Taken, Passed, ActorHas, ProviderHas
  <1>5. ASSUME takes
        PROVE  /\ Len(SocketUp') = Len(SocketUp) - 1 /\ Len(SocketUp) >= 1
               /\ ToProxy' = ToProxy + 1 /\ Remaining' = Remaining
    <2>1. /\ Len(SocketUp') = Len(SocketUp) - 1 /\ Len(SocketUp) >= 1
          /\ Holds(ProxyUp) = 0 /\ Holds(ProxyUp') = 1
      BY <1>1, <1>5, QueueOut DEF Sorts, Takes, Holds
    <2>2. ToProxy' = ToProxy + 1
      BY <1>1, <1>4, <1>5, <2>1 DEF Counts, ToProxy
    <2>3. Remaining' = Remaining
      BY <1>1, <1>2, <2>1, <2>2 DEF Counts, Remaining
    <2> QED
      BY <2>1, <2>2, <2>3
  <1>6. ASSUME stops \/ leaves
        PROVE  /\ ToProxy' = ToProxy /\ Remaining' = Remaining
               /\ SocketUp' = SocketUp /\ ProviderUp' = ProviderUp
    BY <1>2, <1>4, <1>6 DEF Stops, Leaves, Holds, ToProxy, Remaining
  <1>7. ASSUME passes
        PROVE  /\ Len(ProviderUp') = Len(ProviderUp) + 1
               /\ ToProxy = ProviderHas + Len(ProviderUp) + 1
               /\ ToProxy' = ToProxy /\ Remaining' = Remaining
    <2>1. /\ Len(ProviderUp') = Len(ProviderUp) + 1
          /\ Holds(ProxyUp) = 1 /\ Holds(ProxyUp') = 0
      BY <1>1, <1>7, QueueIn DEF Sorts, CopierRecord, Passes, Holds
    <2>2. ToProxy = ProviderHas + Len(ProviderUp) + 1 /\ ToProxy' = ToProxy
      BY <1>1, <1>4, <2>1 DEF Counts, ToProxy
    <2>3. Remaining' = Remaining
      BY <1>2, <1>7, <2>2 DEF Remaining
    <2> QED
      BY <2>1, <2>2, <2>3
  <1>8. ASSUME fails \/ drops
        PROVE  Remaining' = Remaining - 1 /\ SocketUp' = SocketUp /\ ProviderUp' = ProviderUp
    <2>1. Holds(ProxyUp) = 1 /\ Holds(ProxyUp') = 0
      BY <1>8 DEF Fails, Drops, Holds
    <2>2. ToProxy' = ToProxy - 1
      BY <1>1, <1>4, <1>8, <2>1 DEF Counts, ToProxy
    <2>3. SocketUp' = SocketUp /\ ProviderUp' = ProviderUp
      BY <1>8
    <2>4. Remaining' = Remaining - 1
      BY <1>1, <1>2, <2>2, <2>3 DEF Counts, Remaining
    <2> QED
      BY <2>3, <2>4
  <1> HIDE DEF takes, stops, passes, fails, drops, leaves
  <1>9. RoomOK'
    <2>1. Len(ProviderUp') <= LinkRoom
      BY <1>1, <1>2, <1>6, <1>7, <1>8
      DEF TunnelConstants, Counts, TunnelInv, RoomOK, takes, passes, Passes
    <2>2. Len(SocketUp') <= LinkRoom
      BY <1>1, <1>2, <1>5, <1>6, <1>8 DEF TunnelConstants, Counts, TunnelInv, RoomOK, passes
    <2> QED
      BY <1>2, <2>1, <2>2 DEF TunnelInv, RoomOK
  <1>10. DownOK'
    BY <1>2, <1>4 DEF TunnelInv, DownOK
  <1>11. Rising(SocketUp', Passed') /\ TunnelAsked'
    <2>1. CASE takes
      BY <1>1, <1>3, <1>4, <2>1, RisingOut
      DEF Sorts, Counts, TunnelInv, UpOK, TunnelAsked, takes, Takes
    <2>2. CASE passes
      BY <1>3, <1>4, <2>2 DEF TunnelInv, UpOK, TunnelAsked, passes
    <2> QED
      BY <1>2, <1>3, <1>4, <1>6, <1>8, <2>1, <2>2 DEF TunnelInv, UpOK, TunnelAsked
  <1>12. UpOK'
    BY <1>2, <1>4, <1>11 DEF TunnelInv, UpOK
  <1>13. PatientOK'
    <2>1. CASE takes
      <3>1. ASSUME actor.patient, "far" \notin ProviderShut
            PROVE  Head(SocketUp) = ToProxy + 1 /\ Up(SocketUp', ToProxy + 1)
        <4>1. Up(SocketUp, ToProxy)
          BY <2>1, <3>1 DEF TunnelInv, PatientOK, Copies, takes, Takes
        <4> QED
          BY <1>1, <2>1, <4>1, UpOut DEF Sorts, Counts, takes, Takes
      <3>2. ASSUME ToProxy + Len(SocketUp) = Passed
            PROVE  ToProxy' + Len(SocketUp') = Passed'
        <4>1. /\ Len(SocketUp') = Len(SocketUp) - 1 /\ ToProxy' = ToProxy + 1
              /\ Passed' = Passed
          BY <1>4, <1>5, <2>1
        <4>2. ToProxy \in Nat /\ Len(SocketUp) \in Nat
          BY <1>1 DEF Counts
        <4> QED
          BY <3>2, <4>1, <4>2
      <3>3. /\ ProxyUp.at = "read" /\ ProxyUp'.at = "write" /\ ProxyUp'.held = Head(SocketUp)
            /\ UNCHANGED <<ProviderUp, ProviderShut>> /\ ToProxy' = ToProxy + 1
        BY <1>5, <2>1 DEF takes, Takes
      <3> QED
        BY <1>2, <1>4, <3>1, <3>2, <3>3 DEF TunnelInv, PatientOK, Copies
    <2>2. CASE passes
      <3>1. ASSUME actor.patient
            PROVE  Up(ProviderUp', ProviderHas)
        <4>1. ProxyUp.held = ProviderHas + Len(ProviderUp) + 1 /\ Up(ProviderUp, ProviderHas)
          BY <1>7, <2>2, <3>1 DEF TunnelInv, PatientOK, Copies, passes, Passes
        <4>2. Up(Append(ProviderUp, ProviderHas + Len(ProviderUp) + 1), ProviderHas)
          BY <1>1, <4>1, UpIn DEF Sorts, Counts
        <4> QED
          BY <2>2, <4>1, <4>2 DEF passes, Passes
      <3> QED
        BY <1>2, <1>4, <1>7, <2>2, <3>1 DEF TunnelInv, PatientOK, Copies, passes, Passes
    <2>3. CASE fails \/ drops
      BY <1>2, <1>4, <1>8, <2>3
      DEF TunnelInv, PatientOK, Copies, fails, Fails, drops, Drops
    <2>4. CASE stops \/ leaves
      BY <1>2, <1>4, <1>6, <2>4
      DEF TunnelInv, PatientOK, Copies, stops, Stops, leaves, Leaves
    <2> QED
      BY <1>2, <2>1, <2>2, <2>3, <2>4
  <1>14. RequestOK'
    BY <1>2, <1>3, <1>11
    DEF TunnelInv, RequestOK, takes, Takes, stops, Stops, passes, Passes, fails, Fails, drops,
        Drops, leaves, Leaves
  <1>15. ShutOK'
    <2>1. CASE leaves
      BY <1>2, <2>1 DEF TunnelInv, ShutOK, leaves, Leaves, Left
    <2>2. CASE takes \/ stops \/ passes \/ fails \/ drops
      BY <1>2, <2>2
      DEF TunnelInv, ShutOK, Left, takes, Takes, stops, Stops, passes, Passes, fails, Fails,
          drops, Drops
    <2> QED
      BY <1>2, <2>1, <2>2
  <1>16. CauseOK'
    <2>1. CASE stops
      BY <1>2, <1>3, <2>1 DEF TunnelInv, CauseOK, ShutOK, Ended, Left, stops, Stops
    <2>2. CASE fails
      BY <1>1, <1>2, <1>3, <2>2
      DEF Sorts, TunnelInv, CauseOK, ShutOK, Ended, Left, fails, Fails
    <2>3. CASE takes \/ passes \/ drops \/ leaves
      BY <1>2, <1>3, <2>3
      DEF TunnelInv, CauseOK, Ended, Left, takes, Takes, passes, Passes, drops, Drops, leaves,
          Leaves
    <2> QED
      BY <1>2, <2>1, <2>2, <2>3
  <1>17. WholeOK'
    <2>1. CASE fails \/ drops
      BY <1>1, <1>2, <1>8, <2>1 DEF Counts, TunnelInv, WholeOK, Listens
    <2>2. CASE takes \/ passes
      BY <1>2, <1>4, <1>5, <1>7, <2>2
      DEF TunnelInv, WholeOK, Listens, Left, takes, Takes, passes, Passes
    <2>3. CASE stops \/ leaves
      BY <1>2, <1>3, <1>4, <1>6, <2>3
      DEF TunnelInv, ShutOK, WholeOK, Listens, Left, stops, Stops, leaves, Leaves
    <2> QED
      BY <1>2, <2>1, <2>2, <2>3
  <1> QED
    BY <1>9, <1>10, <1>12, <1>13, <1>14, <1>15, <1>16, <1>17 DEF TunnelInv

-----------------------------------------------------------------------------
(* The invariant is kept: the proxy's goroutine that copies down *)

LEMMA ProxyDownKeeps ==
  ASSUME TunnelConstants, TunnelInv, TunnelTypes', Copier(<<"proxy", "down">>)
  PROVE  TunnelInv'
  <1>1. Sorts /\ Sorts' /\ Counts
    BY PartsHaveSorts, NextPartsHaveSorts, CountsAreNumbers DEF TunnelInv
  <1> DEFINE takes == /\ "near" \notin ProviderShut
                      /\ Takes(ProxyDown, ProxyDown', ProviderDown, ProviderDown')
                      /\ UNCHANGED <<SocketDown, SocketShut, ProviderShut>>
             stops == /\ \/ "near" \in ProviderShut
                         \/ ProviderDown = << >> /\ "far" \in ProviderShut
                      /\ Stops(ProxyDown, ProxyDown')
                      /\ UNCHANGED <<ProviderDown, SocketDown, SocketShut, ProviderShut>>
             passes == /\ SocketShut = {} /\ Passes(ProxyDown, ProxyDown', SocketDown, SocketDown')
                       /\ UNCHANGED <<ProviderDown, SocketShut, ProviderShut>>
             fails == /\ SocketShut # {} /\ Fails(ProxyDown, ProxyDown')
                      /\ UNCHANGED <<ProviderDown, SocketDown, SocketShut, ProviderShut>>
             drops == /\ SocketShut = {"near"} /\ Drops(ProxyDown, ProxyDown')
                      /\ UNCHANGED <<ProviderDown, SocketDown, SocketShut, ProviderShut>>
             leaves == /\ Leaves(ProxyDown, ProxyDown')
                       /\ SocketShut' = SocketShut \cup {"far"}
                       /\ ProviderShut' = ProviderShut \cup {"near"}
                       /\ UNCHANGED <<ProviderDown, SocketDown>>
  <1>2. /\ UNCHANGED <<BridgeUp, BridgeDown, ProxyUp>>
        /\ UNCHANGED <<ActorUp, ActorDown, SocketUp, ProviderUp>>
        /\ UNCHANGED <<ActorShut, request, actor, provider>>
        /\ takes \/ stops \/ passes \/ fails \/ drops \/ leaves
    BY ProxyDownMoves DEF TunnelInv
  <1>3. /\ SocketShut \subseteq SocketShut' /\ SocketShut' \subseteq SocketShut \cup {"far"}
        /\ ProviderShut \subseteq ProviderShut'
        /\ ProviderShut' \subseteq ProviderShut \cup {"near"}
        /\ request = "tunnel" /\ TunnelAsked
    BY <1>2
    DEF TunnelInv, TunnelTypes, RequestOK, Takes, Stops, Passes, Fails, Drops, Leaves
  <1>4. /\ Received' = Received /\ ToActor' = ToActor
        /\ LastSent' = LastSent /\ Taken' = Taken /\ Passed' = Passed
        /\ ToProxy' = ToProxy /\ Remaining' = Remaining /\ ActorHas' = ActorHas /\ ProviderHas' = ProviderHas
    BY <1>2 DEF Received, ToActor, LastSent, Taken, Passed, ToProxy, Remaining, ActorHas, ProviderHas
  <1>5. ASSUME takes
        PROVE  /\ Holds(ProxyDown) = 0 /\ Holds(ProxyDown') = 1
               /\ Len(ProviderDown') = Len(ProviderDown) - 1
               /\ ToSocket' = ToSocket /\ ToProvider' = ToProvider
    <2>1. /\ Len(ProviderDown') = Len(ProviderDown) - 1
          /\ Holds(ProxyDown) = 0 /\ Holds(ProxyDown') = 1
      BY <1>1, <1>5, QueueOut DEF Sorts, Takes, Holds
    <2>2. ToSocket' = ToSocket
      BY <1>2, <1>4, <1>5 DEF ToSocket
    <2>3. ToProvider' = ToProvider
      BY <1>1, <2>1, <2>2 DEF Counts, ToProvider
    <2> QED
      BY <2>1, <2>2, <2>3
  <1>6. ASSUME stops \/ leaves
        PROVE  /\ ToSocket' = ToSocket /\ ToProvider' = ToProvider
               /\ ProviderDown' = ProviderDown /\ SocketDown' = SocketDown
    BY <1>2, <1>4, <1>6 DEF Stops, Leaves, Holds, ToSocket, ToProvider
  <1>7. ASSUME passes
        PROVE  /\ Holds(ProxyDown) = 1 /\ Holds(ProxyDown') = 0
               /\ Len(SocketDown') = Len(SocketDown) + 1
               /\ ToSocket' = ToSocket + 1 /\ ToProvider' = ToProvider
    <2>1. /\ Len(SocketDown') = Len(SocketDown) + 1
          /\ Holds(ProxyDown) = 1 /\ Holds(ProxyDown') = 0
      BY <1>1, <1>7, QueueIn DEF Sorts, CopierRecord, Passes, Holds
    <2>2. ToSocket' = ToSocket + 1
      <3>1. ToSocket' = ToActor + Holds(BridgeDown) + (Len(SocketDown) + 1)
        BY <1>2, <1>4, <2>1 DEF Holds, ToSocket
      <3>2. ToSocket = ToActor + Holds(BridgeDown) + Len(SocketDown)
        BY DEF ToSocket
      <3>3. ToActor \in Nat /\ Holds(BridgeDown) \in {0, 1} /\ Len(SocketDown) \in Nat
        BY <1>1 DEF Counts
      <3> QED
        BY <3>1, <3>2, <3>3
    <2>3. ToProvider' = ToProvider
      <3>1. ToProvider' = (ToSocket + 1) + 0 + Len(ProviderDown)
        BY <1>7, <2>1, <2>2 DEF ToProvider
      <3>2. ToProvider = ToSocket + 1 + Len(ProviderDown)
        BY <2>1 DEF ToProvider
      <3>3. ToSocket \in Nat /\ Len(ProviderDown) \in Nat
        BY <1>1 DEF Counts
      <3> QED
        BY <3>1, <3>2, <3>3
    <2> QED
      BY <2>1, <2>2, <2>3
  <1>8. ASSUME fails \/ drops
        PROVE  ProviderDown' = ProviderDown /\ SocketDown' = SocketDown /\ ToSocket' = ToSocket
    BY <1>2, <1>4, <1>8 DEF ToSocket
  <1> HIDE DEF takes, stops, passes, fails, drops, leaves
  <1>9. RoomOK'
    <2>1. Len(SocketDown') <= LinkRoom
      BY <1>1, <1>2, <1>6, <1>7, <1>8
      DEF TunnelConstants, Counts, TunnelInv, RoomOK, takes, passes, Passes
    <2>2. Len(ProviderDown') <= LinkRoom
      BY <1>1, <1>2, <1>5, <1>6, <1>8 DEF TunnelConstants, Counts, TunnelInv, RoomOK, passes
    <2> QED
      BY <1>2, <2>1, <2>2 DEF TunnelInv, RoomOK
  <1>10. DownOK'
    <2>1. CASE takes
      <3>1. ASSUME Copies(BridgeDown), "near" \notin ActorShut, "near" \notin SocketShut
            PROVE  /\ IsDown(ProxyDown'.held, ToSocket + 1) /\ Down(ProviderDown', ToSocket + 1)
                   /\ ToProvider = provider.sent + 1
        <4>1. Down(ProviderDown, ToSocket) /\ ToProvider = provider.sent + 1
          BY <1>1, <1>5, <2>1, <3>1 DEF Counts, TunnelInv, DownOK, Copies, takes, Takes
        <4> QED
          BY <1>1, <2>1, <4>1, DownOut DEF Sorts, Counts, takes, Takes
      <3> QED
        BY <1>1, <1>2, <1>4, <1>5, <2>1, <3>1
        DEF Counts, TunnelInv, DownOK, takes
    <2>2. CASE passes
      <3>1. ASSUME Copies(BridgeDown), "near" \notin ActorShut
            PROVE  /\ Down(SocketDown', ToActor + Holds(BridgeDown))
                   /\ Down(ProviderDown, ToSocket + 1) /\ ToProvider = provider.sent + 1
        <4>1. /\ IsDown(ProxyDown.held, ToSocket + 1) /\ Down(ProviderDown, ToSocket + 1)
              /\ ToProvider = provider.sent + 1 /\ Down(SocketDown, ToActor + Holds(BridgeDown))
          BY <1>7, <2>2, <3>1 DEF TunnelInv, DownOK, Copies, passes, Passes
        <4>2. ToSocket + 1 = ToActor + Holds(BridgeDown) + Len(SocketDown) + 1
              /\ ToActor + Holds(BridgeDown) \in Nat
          BY <1>1 DEF Counts, ToSocket
        <4>3. Down(SocketDown', ToActor + Holds(BridgeDown))
          BY <1>1, <2>2, <4>1, <4>2, DownIn DEF Sorts, CopierRecord, passes, Passes
        <4> QED
          BY <4>1, <4>3
      <3>2. /\ ToSocket' = ToSocket + 1 /\ ToProvider' = ToProvider /\ ToActor' = ToActor
            /\ Holds(BridgeDown') = Holds(BridgeDown) /\ ProviderDown' = ProviderDown
            /\ Holds(ProxyDown') = 0 /\ ProxyDown'.at = "read" /\ ToSocket \in Nat
        BY <1>1, <1>2, <1>4, <1>7, <2>2 DEF Counts, passes, Passes
      <3> QED
        BY <1>2, <1>4, <2>2, <3>1, <3>2 DEF TunnelInv, DownOK, passes
    <2>3. CASE fails \/ drops
      BY <1>2, <1>4, <1>8, <2>3
      DEF TunnelInv, DownOK, Copies, fails, Fails, drops, Drops
    <2>4. CASE stops \/ leaves
      BY <1>2, <1>4, <1>6, <2>4 DEF TunnelInv, DownOK, Copies, stops, Stops, leaves, Leaves
    <2> QED
      BY <1>2, <2>1, <2>2, <2>3, <2>4
  <1>11. UpOK' /\ PatientOK'
    BY <1>2, <1>3, <1>4 DEF TunnelInv, UpOK, PatientOK
  <1>12. RequestOK'
    <2>1. TunnelAsked'
      BY <1>2, <1>3, <1>4 DEF TunnelAsked
    <2> QED
      BY <1>2, <1>3, <2>1
      DEF TunnelInv, RequestOK, takes, Takes, stops, Stops, passes, Passes, fails, Fails, drops,
          Drops, leaves, Leaves
  <1>13. ShutOK'
    <2>1. CASE leaves
      BY <1>2, <2>1 DEF TunnelInv, ShutOK, leaves, Leaves, Left
    <2>2. CASE takes \/ stops \/ passes \/ fails \/ drops
      BY <1>2, <2>2
      DEF TunnelInv, ShutOK, Left, takes, Takes, stops, Stops, passes, Passes, fails, Fails,
          drops, Drops
    <2> QED
      BY <1>2, <2>1, <2>2
  <1>14. CauseOK'
    <2>1. CASE stops
      BY <1>2, <1>3, <2>1 DEF TunnelInv, CauseOK, ShutOK, Ended, Left, stops, Stops
    <2>2. CASE fails
      BY <1>1, <1>2, <1>3, <2>2
      DEF Sorts, TunnelInv, CauseOK, ShutOK, Ended, Left, fails, Fails
    <2>3. CASE takes \/ passes \/ drops \/ leaves
      BY <1>2, <1>3, <2>3
      DEF TunnelInv, CauseOK, Ended, Left, takes, Takes, passes, Passes, drops, Drops, leaves,
          Leaves
    <2> QED
      BY <1>2, <2>1, <2>2, <2>3
  <1>15. WholeOK'
    <2>1. CASE fails \/ drops
      BY <1>1, <1>2, <1>4, <2>1
      DEF Sorts, TunnelInv, ShutOK, WholeOK, Listens, Left, fails, Fails, drops, Drops
    <2>2. CASE takes \/ passes
      BY <1>2, <1>4, <1>5, <1>7, <2>2
      DEF TunnelInv, WholeOK, Listens, Left, takes, Takes, passes, Passes
    <2>3. CASE stops \/ leaves
      BY <1>2, <1>3, <1>4, <1>6, <2>3
      DEF TunnelInv, ShutOK, WholeOK, Listens, Left, stops, Stops, leaves, Leaves
    <2> QED
      BY <1>2, <2>1, <2>2, <2>3
  <1> QED
    BY <1>9, <1>10, <1>11, <1>12, <1>13, <1>14, <1>15 DEF TunnelInv

-----------------------------------------------------------------------------
(* The invariant is kept: the bridge accepts, the proxy handles the request *)

\* A reply of the proxy is the first frame that goes down.
LEMMA ReplyIsFirst ==
  ASSUME TunnelTypes, Fresh, NEW x \in {Established, Forbidden, Unavailable}
  PROVE  /\ Received = 0 /\ ToActor = 0 /\ Holds(BridgeDown) = 0 /\ SocketDown = << >>
         /\ Down(Append(SocketDown, x), 0) /\ Len(Append(SocketDown, x)) = 1
         /\ Append(SocketDown, x) \in Seq(Int)
  <1>1. Sorts /\ Counts
    BY PartsHaveSorts, CountsAreNumbers
  <1>2. Received = 0 /\ Holds(BridgeDown) = 0
    BY DEF Fresh, Received, Holds
  <1>3. ToActor = 0
    BY <1>1, <1>2 DEF Fresh, ToActor
  <1>4. x \in Int /\ IsDown(x, 0 + Len(SocketDown) + 1) /\ Down(SocketDown, 0)
    BY DEF Fresh, IsDown, Down, Established, Forbidden, Unavailable
  <1>5. /\ Down(Append(SocketDown, x), 0) /\ Append(SocketDown, x) \in Seq(Int)
        /\ Len(Append(SocketDown, x)) = Len(SocketDown) + 1
    BY <1>1, <1>4, DownIn, QueueIn DEF Sorts
  <1> QED
    BY <1>2, <1>3, <1>5 DEF Fresh

LEMMA BridgeDialsKeeps ==
  ASSUME TunnelInv, TunnelTypes', BridgeDials
  PROVE  TunnelInv'
  <1>1. Sorts /\ Sorts' /\ Counts
    BY PartsHaveSorts, NextPartsHaveSorts, CountsAreNumbers DEF TunnelInv
  <1> DEFINE accepts == /\ BridgeUp'.at = "read" /\ BridgeDown'.at = "read" /\ request' = "head"
                        /\ UNCHANGED ActorShut
             refuses == /\ ActorShut' = ActorShut \cup {"far"}
                        /\ UNCHANGED <<BridgeUp, BridgeDown, request>>
  <1>2. /\ BridgeUp.at = "off" /\ ActorShut \subseteq {"near"} /\ (accepts \/ refuses)
        /\ UNCHANGED <<ActorUp, ActorDown, SocketUp, SocketDown, ProviderUp, ProviderDown>>
        /\ UNCHANGED <<ProxyUp, ProxyDown, SocketShut, ProviderShut, actor, provider>>
    BY BridgeDialsMoves DEF TunnelInv
  <1>3. request = "none" /\ BridgeDown.at = "off" /\ Passed = -1 /\ ~TunnelAsked /\ Fresh
    BY <1>1, <1>2 DEF Counts, TunnelInv, ShutOK, RequestOK, TunnelAsked
  <1>4. /\ Holds(BridgeUp)' = Holds(BridgeUp) /\ Holds(BridgeDown)' = Holds(BridgeDown)
        /\ Holds(ProxyUp)' = Holds(ProxyUp) /\ Holds(ProxyDown)' = Holds(ProxyDown)
    BY <1>2, <1>3 DEF Holds
  <1>5. /\ Received' = Received /\ ToActor' = ToActor /\ ToSocket' = ToSocket
        /\ ToProvider' = ToProvider /\ LastSent' = LastSent /\ Taken' = Taken
        /\ Passed' = Passed /\ ToProxy' = ToProxy /\ Remaining' = Remaining
        /\ ActorHas' = ActorHas /\ ProviderHas' = ProviderHas
    BY <1>2, <1>4
    DEF Received, ToActor, ToSocket, ToProvider, LastSent, Taken, Passed, ToProxy, Remaining, ActorHas,
        ProviderHas
  <1>6. Fresh' /\ (TunnelAsked' <=> TunnelAsked)
    BY <1>2, <1>3, <1>5 DEF Fresh, TunnelAsked
  <1>7. DownOK'
    <2>1. Down(SocketDown, ToActor + Holds(BridgeDown))
      BY <1>3 DEF Down, Fresh
    <2> QED
      BY <1>2, <1>3, <1>4, <1>5, <2>1 DEF TunnelInv, DownOK, RequestOK, Copies
  <1>8. UpOK' /\ PatientOK'
    BY <1>2, <1>3, <1>5 DEF TunnelInv, UpOK, PatientOK, RequestOK, Copies
  <1>9. RequestOK'
    BY <1>2, <1>3, <1>5, <1>6 DEF TunnelInv, RequestOK
  <1>10. ShutOK' /\ CauseOK' /\ WholeOK'
    BY <1>2, <1>3, <1>5 DEF TunnelInv, ShutOK, CauseOK, Ended, WholeOK, Left
  <1> QED
    BY <1>2, <1>7, <1>8, <1>9, <1>10 DEF TunnelInv, RoomOK

LEMMA DropConnectionKeeps ==
  ASSUME TunnelInv, TunnelTypes', DropConnection
  PROVE  TunnelInv'
  <1>1. /\ request = "head" /\ request' = "over" /\ SocketShut' = SocketShut \cup {"far"}
        /\ UNCHANGED <<ActorUp, ActorDown, SocketUp, SocketDown, ProviderUp, ProviderDown>>
        /\ UNCHANGED <<BridgeUp, BridgeDown, ProxyUp, ProxyDown>>
        /\ UNCHANGED <<ActorShut, ProviderShut, actor, provider>>
    BY DropConnectionMoves DEF TunnelInv
  <1>2. /\ Received' = Received /\ ToActor' = ToActor /\ ToSocket' = ToSocket
        /\ ToProvider' = ToProvider /\ LastSent' = LastSent /\ Taken' = Taken
        /\ Passed' = Passed /\ ToProxy' = ToProxy /\ Remaining' = Remaining
        /\ ActorHas' = ActorHas /\ ProviderHas' = ProviderHas
    BY <1>1
    DEF Received, ToActor, ToSocket, ToProvider, LastSent, Taken, Passed, ToProxy, Remaining, ActorHas,
        ProviderHas
  <1>3. DownOK' /\ UpOK' /\ PatientOK'
    BY <1>1, <1>2 DEF TunnelInv, DownOK, UpOK, PatientOK
  <1>4. RequestOK'
    BY <1>1, <1>2 DEF TunnelInv, RequestOK, TunnelAsked, Fresh
  <1>5. ShutOK' /\ CauseOK' /\ WholeOK'
    BY <1>1, <1>2 DEF TunnelInv, ShutOK, CauseOK, WholeOK, Left
  <1> QED
    BY <1>1, <1>3, <1>4, <1>5 DEF TunnelInv, RoomOK

\* The server refuses a request, or passes it on, before any other reply.
LEMMA TakeRequestKeeps ==
  ASSUME TunnelConstants, TunnelInv, TunnelTypes', TakeRequest
  PROVE  TunnelInv'
  <1>1. Sorts /\ Sorts' /\ Counts
    BY PartsHaveSorts, NextPartsHaveSorts, CountsAreNumbers DEF TunnelInv
  <1>2. /\ request = "head" /\ SocketUp # << >> /\ Head(SocketUp) = Established
        /\ SocketUp' = Tail(SocketUp)
        /\ \/ request' = "dial" /\ UNCHANGED SocketDown
           \/ request' = "head" /\ Refused(Forbidden)
        /\ UNCHANGED <<ActorUp, ActorDown, ProviderUp, ProviderDown>>
        /\ UNCHANGED <<BridgeUp, BridgeDown, ProxyUp, ProxyDown>>
        /\ UNCHANGED <<ActorShut, SocketShut, ProviderShut, actor, provider>>
    BY TakeRequestMoves DEF TunnelInv
  <1>3. /\ Received' = Received /\ ToActor' = ToActor /\ LastSent' = LastSent /\ Taken' = Taken
        /\ Passed' = Passed /\ ToProxy' = ToProxy
        /\ ActorHas' = ActorHas /\ ProviderHas' = ProviderHas
    BY <1>2
    DEF Received, ToActor, LastSent, Taken, Passed, ToProxy, ActorHas, ProviderHas
  <1>4. /\ Rising(SocketUp', Passed) /\ Data(SocketUp') /\ Head(SocketUp) \in 0..Passed
        /\ Len(SocketUp') = Len(SocketUp) - 1
    BY <1>1, <1>2, RisingOut, QueueOut DEF Sorts, Counts, TunnelInv, UpOK
  <1>5. Passed >= 0 /\ TunnelAsked'
    BY <1>1, <1>2, <1>3, <1>4 DEF Counts, TunnelAsked, Established
  <1>6. ~TunnelAsked
    <2>1. ASSUME Data(SocketUp)
          PROVE  FALSE
      BY <1>1, <1>2, <2>1, DataOut DEF Sorts, Established
    <2> QED
      BY <2>1 DEF TunnelAsked
  <1>7. Fresh
    BY <1>6 DEF TunnelInv, RequestOK
  <1>8. /\ ToActor = 0 /\ Holds(BridgeDown) = 0 /\ SocketDown = << >>
        /\ Down(SocketDown', 0) /\ Len(SocketDown') <= 1 /\ NotEstablished(SocketDown')
    <2>1. SocketDown' = SocketDown \/ SocketDown' = Append(SocketDown, Forbidden)
      BY <1>2 DEF Refused
    <2>2. /\ ToActor = 0 /\ Holds(BridgeDown) = 0 /\ SocketDown = << >>
          /\ Down(Append(SocketDown, Forbidden), 0) /\ Len(Append(SocketDown, Forbidden)) = 1
      BY <1>7, ReplyIsFirst DEF TunnelInv
    <2>3. Down(SocketDown, 0) /\ Len(SocketDown) <= 1 /\ NotEstablished(SocketDown)
      BY <2>2 DEF Down, NotEstablished
    <2>4. NotEstablished(Append(SocketDown, Forbidden))
      <3>1. Forbidden \in Int /\ Forbidden # Established
        BY DEF Forbidden, Established
      <3> QED
        BY <1>1, <2>3, <3>1, NotEstablishedIn DEF Sorts
    <2>5. CASE SocketDown' = SocketDown
      BY <2>2, <2>3, <2>5
    <2>6. CASE SocketDown' = Append(SocketDown, Forbidden)
      <3> DEFINE q == Append(SocketDown, Forbidden)
      <3>1. Down(q, 0) /\ Len(q) <= 1 /\ NotEstablished(q) /\ SocketDown' = q
        BY <2>2, <2>4, <2>6
      <3> HIDE DEF q
      <3> QED
        BY <2>2, <3>1
    <2> QED
      BY <2>1, <2>5, <2>6
  <1>9. RoomOK'
    BY <1>1, <1>2, <1>4, <1>8 DEF Counts, TunnelConstants, TunnelInv, RoomOK
  <1>10. DownOK'
    BY <1>1, <1>2, <1>3, <1>8 DEF Counts, TunnelInv, DownOK, RequestOK, Copies, Fresh
  <1>11. UpOK' /\ PatientOK'
    BY <1>2, <1>3, <1>4 DEF TunnelInv, UpOK, PatientOK, RequestOK, Copies
  <1>12. RequestOK'
    <2>1. request' = "dial" => Fresh'
      BY <1>2, <1>7 DEF Fresh
    <2> QED
      BY <1>2, <1>5, <1>8, <2>1 DEF TunnelInv, RequestOK
  <1>13. ShutOK' /\ CauseOK' /\ WholeOK'
    BY <1>2 DEF TunnelInv, ShutOK, CauseOK, Ended, WholeOK, Left
  <1> QED
    BY <1>9, <1>10, <1>11, <1>12, <1>13 DEF TunnelInv

LEMMA DialProviderKeeps ==
  ASSUME TunnelConstants, TunnelInv, TunnelTypes', DialProvider
  PROVE  TunnelInv'
  <1>1. Sorts /\ Sorts' /\ Counts
    BY PartsHaveSorts, NextPartsHaveSorts, CountsAreNumbers DEF TunnelInv
  <1>2. /\ request = "dial"
        /\ \/ request' = "dialed" /\ UNCHANGED SocketDown
           \/ request' = "head" /\ Refused(Unavailable)
        /\ UNCHANGED <<ActorUp, ActorDown, SocketUp, ProviderUp, ProviderDown>>
        /\ UNCHANGED <<BridgeUp, BridgeDown, ProxyUp, ProxyDown>>
        /\ UNCHANGED <<ActorShut, SocketShut, ProviderShut, actor, provider>>
    BY DialProviderMoves DEF TunnelInv
  <1>3. /\ Received' = Received /\ ToActor' = ToActor /\ LastSent' = LastSent /\ Taken' = Taken
        /\ Passed' = Passed /\ ToProxy' = ToProxy
        /\ ActorHas' = ActorHas /\ ProviderHas' = ProviderHas
    BY <1>2
    DEF Received, ToActor, LastSent, Taken, Passed, ToProxy, ActorHas, ProviderHas
  <1>4. Fresh /\ TunnelAsked /\ TunnelAsked'
    BY <1>2, <1>3 DEF TunnelInv, RequestOK, TunnelAsked
  <1>5. /\ ToActor = 0 /\ Holds(BridgeDown) = 0 /\ SocketDown = << >>
        /\ Down(SocketDown', 0) /\ Len(SocketDown') <= 1 /\ NotEstablished(SocketDown')
    <2>1. SocketDown' = SocketDown \/ SocketDown' = Append(SocketDown, Unavailable)
      BY <1>2 DEF Refused
    <2>2. /\ ToActor = 0 /\ Holds(BridgeDown) = 0 /\ SocketDown = << >>
          /\ Down(Append(SocketDown, Unavailable), 0)
          /\ Len(Append(SocketDown, Unavailable)) = 1
      BY <1>4, ReplyIsFirst DEF TunnelInv
    <2>3. Down(SocketDown, 0) /\ Len(SocketDown) <= 1 /\ NotEstablished(SocketDown)
      BY <2>2 DEF Down, NotEstablished
    <2>4. NotEstablished(Append(SocketDown, Unavailable))
      <3>1. Unavailable \in Int /\ Unavailable # Established
        BY DEF Unavailable, Established
      <3> QED
        BY <1>1, <2>3, <3>1, NotEstablishedIn DEF Sorts
    <2>5. CASE SocketDown' = SocketDown
      BY <2>2, <2>3, <2>5
    <2>6. CASE SocketDown' = Append(SocketDown, Unavailable)
      <3> DEFINE q == Append(SocketDown, Unavailable)
      <3>1. Down(q, 0) /\ Len(q) <= 1 /\ NotEstablished(q) /\ SocketDown' = q
        BY <2>2, <2>4, <2>6
      <3> HIDE DEF q
      <3> QED
        BY <2>2, <3>1
    <2> QED
      BY <2>1, <2>5, <2>6
  <1>6. RoomOK'
    BY <1>1, <1>2, <1>5 DEF Counts, TunnelConstants, TunnelInv, RoomOK
  <1>7. DownOK'
    BY <1>1, <1>2, <1>3, <1>5 DEF Counts, TunnelInv, DownOK, RequestOK, Copies, Fresh
  <1>8. UpOK' /\ PatientOK'
    BY <1>2, <1>3 DEF TunnelInv, UpOK, PatientOK
  <1>9. RequestOK'
    <2>1. request' = "dialed" => Fresh'
      BY <1>2, <1>4 DEF Fresh
    <2> QED
      BY <1>2, <1>4, <1>5, <2>1 DEF TunnelInv, RequestOK
  <1>10. ShutOK' /\ CauseOK' /\ WholeOK'
    BY <1>2 DEF TunnelInv, ShutOK, CauseOK, Ended, WholeOK, Left
  <1> QED
    BY <1>6, <1>7, <1>8, <1>9, <1>10 DEF TunnelInv

LEMMA HijackKeeps ==
  ASSUME TunnelConstants, TunnelInv, TunnelTypes', Hijack
  PROVE  TunnelInv'
  <1>1. Sorts /\ Sorts' /\ Counts
    BY PartsHaveSorts, NextPartsHaveSorts, CountsAreNumbers DEF TunnelInv
  <1> DEFINE opens == /\ SocketShut = {} /\ request' = "tunnel"
                      /\ ProxyUp'.at = "read" /\ ProxyDown'.at = "read"
                      /\ SocketDown' = Append(SocketDown, Established)
                      /\ UNCHANGED <<SocketShut, ProviderShut>>
             fails == /\ SocketShut # {} /\ request' = "over"
                      /\ UNCHANGED <<ProxyUp, ProxyDown, SocketDown>>
                      /\ SocketShut' = SocketShut \cup {"far"}
                      /\ ProviderShut' = ProviderShut \cup {"near"}
  <1>2. /\ request = "dialed" /\ (opens \/ fails)
        /\ \E read \in 0..Len(SocketUp) : SocketUp' = SubSeq(SocketUp, read + 1, Len(SocketUp))
        /\ UNCHANGED <<ActorUp, ActorDown, ProviderUp, ProviderDown>>
        /\ UNCHANGED <<BridgeUp, BridgeDown, ActorShut, actor, provider>>
    BY HijackMoves DEF TunnelInv
  <1>3. /\ Received' = Received /\ ToActor' = ToActor /\ LastSent' = LastSent /\ Taken' = Taken
        /\ Passed' = Passed /\ ActorHas' = ActorHas /\ ProviderHas' = ProviderHas
    BY <1>2 DEF Received, ToActor, LastSent, Taken, Passed, ActorHas, ProviderHas
  <1>4. /\ Fresh /\ TunnelAsked /\ ProxyUp.at = "off" /\ ProxyDown.at = "off"
        /\ ProviderUp = << >> /\ provider.got = << >> /\ actor.reply # Established
        /\ Down(ProviderDown, 1) /\ Len(ProviderDown) = provider.sent
        /\ "near" \notin ProviderShut /\ "far" \notin SocketShut
    BY <1>2 DEF TunnelInv, RequestOK
  <1>5. Rising(SocketUp', Passed) /\ Data(SocketUp') /\ Len(SocketUp') <= Len(SocketUp)
    <2>1. PICK read \in 0..Len(SocketUp) :
            SocketUp' = SubSeq(SocketUp, read + 1, Len(SocketUp))
      BY <1>2
    <2>2. SocketUp \in Seq(Int) /\ Passed \in Int /\ Rising(SocketUp, Passed) /\ Data(SocketUp)
      BY <1>1, <1>4 DEF Sorts, Counts, TunnelInv, UpOK, TunnelAsked
    <2>3. /\ Len(SocketUp') = Len(SocketUp) - read /\ Rising(SocketUp', Passed)
          /\ Data(SocketUp')
      BY <2>1, <2>2, RisingRest
    <2> QED
      BY <1>1, <2>1, <2>3 DEF Counts
  <1>6. Passed >= 0 /\ TunnelAsked' /\ Len(SocketUp') <= Passed
    <2>1. Passed >= 0
      BY <1>4 DEF TunnelAsked
    <2> QED
      BY <1>1, <1>3, <1>5, <2>1, RisingCounts DEF Sorts, Counts, TunnelAsked
  <1>7. UpOK'
    BY <1>2, <1>3, <1>5 DEF TunnelInv, UpOK
  <1>8. CASE fails
    <2>1. ToProxy' = ToProxy /\ ToSocket' = ToSocket
      BY <1>2, <1>3, <1>8 DEF ToProxy, ToSocket
    <2>2. RoomOK'
      BY <1>1, <1>2, <1>5, <1>8 DEF Counts, TunnelConstants, TunnelInv, RoomOK
    <2>3. DownOK' /\ PatientOK'
      BY <1>2, <1>3, <1>4, <1>8, <2>1 DEF TunnelInv, DownOK, PatientOK, Copies
    <2>4. RequestOK'
      BY <1>2, <1>6, <1>8 DEF TunnelInv, RequestOK
    <2>5. ShutOK' /\ CauseOK' /\ WholeOK'
      BY <1>2, <1>8 DEF TunnelInv, ShutOK, CauseOK, WholeOK, Left
    <2> QED
      BY <1>7, <2>2, <2>3, <2>4, <2>5 DEF TunnelInv
  <1>9. CASE opens
    <2>1. /\ Received = 0 /\ ToActor = 0 /\ Holds(BridgeDown) = 0 /\ SocketDown = << >>
          /\ Down(SocketDown', 0) /\ Len(SocketDown') = 1
      BY <1>4, <1>9, ReplyIsFirst DEF TunnelInv
    <2>2. /\ Holds(ProxyUp') = 0 /\ Holds(ProxyDown') = 0 /\ Holds(BridgeDown') = 0
          /\ Holds(BridgeUp') = Holds(BridgeUp) /\ ProviderHas = 0 /\ Len(ProviderUp) = 0
      BY <1>2, <1>4, <1>9, <2>1 DEF Holds, ProviderHas
    <2>3. ToSocket' = 1
      BY <1>3, <2>1, <2>2 DEF ToSocket
    <2>4. ToProvider' = provider.sent + 1
      BY <1>1, <1>2, <1>4, <2>2, <2>3 DEF Counts, ToProvider
    <2>5. ToProxy' = 0
      BY <1>2, <1>3, <2>2 DEF ToProxy
    <2>6. RoomOK'
      BY <1>1, <1>2, <1>5, <2>1 DEF Counts, TunnelConstants, TunnelInv, RoomOK
    <2>7. DownOK'
      <3>1. Down(SocketDown', ToActor' + Holds(BridgeDown'))
        BY <1>3, <2>1, <2>2
      <3>2. Down(ProviderDown', ToSocket' + Holds(ProxyDown'))
        BY <1>2, <1>4, <2>2, <2>3
      <3> QED
        BY <1>2, <1>3, <1>4, <1>9, <2>1, <2>4, <3>1, <3>2
        DEF TunnelInv, DownOK, Copies, Fresh
    <2>8. PatientOK'
      <3>1. ASSUME actor.patient
            PROVE  Passed = 0 /\ Len(SocketUp') = 0
        <4>1. actor.sent = 0
          BY <1>4, <3>1 DEF TunnelInv, UpOK
        <4>2. LastSent <= 0
          BY <4>1 DEF LastSent
        <4>3. Passed <= 0
          BY <1>1, <4>2 DEF Counts, Taken, Passed
        <4> QED
          BY <1>1, <1>6, <4>3 DEF Counts, Sorts
      <3>2. ASSUME Len(SocketUp') = 0
            PROVE  Up(SocketUp', 0)
        BY <3>2 DEF Up
      <3>3. provider.got = Upto(ProviderHas) /\ Up(ProviderUp, ProviderHas)
        BY <1>4, <2>2 DEF Upto, Up
      <3> QED
        BY <1>2, <1>3, <1>9, <2>5, <3>1, <3>2, <3>3 DEF PatientOK, TunnelInv
    <2>9. RequestOK'
      BY <1>2, <1>6, <1>9 DEF TunnelInv, RequestOK
    <2>10. ShutOK'
      BY <1>2, <1>4, <1>9 DEF TunnelInv, ShutOK, Left
    <2>11. CauseOK'
      BY <1>2, <1>9 DEF TunnelInv, CauseOK, ShutOK, Ended, Left
    <2>12. WholeOK'
      <3>1. Remaining' <= actor.sent
        <4>1. Remaining' = Len(SocketUp') + Holds(BridgeUp) + Len(ActorUp)
          BY <1>1, <1>2, <2>2, <2>5 DEF Sorts, Counts, Remaining
        <4>2. Passed = LastSent - Len(ActorUp) - Holds(BridgeUp)
          BY DEF Passed, Taken
        <4>3. Len(SocketUp') \in Nat /\ LastSent \in Int
          BY <1>1 DEF Sorts, Counts
        <4>4. Remaining' <= LastSent /\ LastSent >= 0
          BY <1>1, <1>6, <4>1, <4>2, <4>3 DEF Counts
        <4>5. LastSent = actor.sent
          BY <4>4 DEF LastSent
        <4> QED
          BY <4>4, <4>5
      <3>2. ~actor.half /\ ("near" \notin ActorShut \/ actor.eof) => ~Left(BridgeUp) /\ ~Left(BridgeDown)
        BY <1>9 DEF TunnelInv, ShutOK, Left
      <3> QED
        BY <1>2, <1>9, <2>4, <3>1, <3>2 DEF WholeOK, Listens, Left
    <2> QED
      BY <1>7, <2>6, <2>7, <2>8, <2>9, <2>10, <2>11, <2>12 DEF TunnelInv
  <1> QED
    BY <1>2, <1>8, <1>9

-----------------------------------------------------------------------------
(* The invariant is kept: the two ends *)

LEMMA AskKeeps ==
  ASSUME TunnelConstants, TunnelInv, TunnelTypes', Ask
  PROVE  TunnelInv'
  <1>1. Sorts /\ Sorts' /\ Counts
    BY PartsHaveSorts, NextPartsHaveSorts, CountsAreNumbers DEF TunnelInv
  <1>2. /\ ~actor.asked /\ ActorShut = {} /\ Len(ActorUp) < LinkRoom
        /\ actor' = [actor EXCEPT !.asked = TRUE] /\ ActorUp' = Append(ActorUp, Established)
        /\ UNCHANGED <<ActorDown, SocketUp, SocketDown, ProviderUp, ProviderDown>>
        /\ UNCHANGED <<BridgeUp, BridgeDown, ProxyUp, ProxyDown>>
        /\ UNCHANGED <<ActorShut, SocketShut, ProviderShut, request, provider>>
    BY AskMoves DEF TunnelInv
  <1>3. /\ actor'.asked = TRUE /\ actor'.patient = actor.patient /\ actor'.reply = actor.reply
        /\ actor'.sent = actor.sent /\ actor'.got = actor.got /\ actor'.half = actor.half
        /\ actor'.eof = actor.eof
    BY <1>2 DEF TunnelInv, TunnelTypes
  <1>4. /\ Received' = Received /\ ToActor' = ToActor /\ ToSocket' = ToSocket
        /\ ToProvider' = ToProvider /\ ToProxy' = ToProxy
        /\ ActorHas' = ActorHas /\ ProviderHas' = ProviderHas
    BY <1>2, <1>3 DEF Received, ToActor, ToSocket, ToProvider, ToProxy, ActorHas, ProviderHas
  <1>5. actor.sent = 0 /\ LastSent = -1 /\ LastSent' = 0 /\ Len(ActorUp') = Len(ActorUp) + 1
    BY <1>1, <1>2, <1>3, QueueIn DEF Sorts, TunnelInv, UpOK, LastSent, Established
  <1>6. Taken' = Taken
    BY <1>1, <1>5 DEF Counts, Taken
  <1>7. Passed' = Passed
    BY <1>2, <1>6 DEF Passed
  <1>8. Up(ActorUp', Taken')
    <2>1. Taken + Len(ActorUp) + 1 = Established /\ Up(ActorUp, Taken)
      BY <1>1, <1>5 DEF Counts, Taken, TunnelInv, UpOK, Established
    <2>2. Up(Append(ActorUp, Taken + Len(ActorUp) + 1), Taken)
      BY <1>1, <2>1, UpIn DEF Sorts, Counts
    <2> QED
      BY <1>2, <1>6, <2>1, <2>2
  <1>9. request # "tunnel"
    <2>1. ~TunnelAsked
      BY <1>1, <1>5 DEF Counts, TunnelAsked, Taken, Passed
    <2> QED
      BY <2>1 DEF TunnelInv, RequestOK
  <1>10. RoomOK'
    <2>1. Len(ActorUp') = Len(ActorUp) + 1 /\ Len(ActorUp) < LinkRoom
      BY <1>2, <1>5
    <2>2. Len(ActorUp') <= LinkRoom
      BY <1>1, <2>1 DEF Counts, TunnelConstants
    <2> QED
      BY <1>2, <2>2 DEF TunnelInv, RoomOK
  <1>11. DownOK' /\ UpOK' /\ PatientOK'
    BY <1>2, <1>3, <1>4, <1>5, <1>6, <1>7, <1>8 DEF TunnelInv, DownOK, UpOK, PatientOK
  <1>12. RequestOK'
    BY <1>2, <1>3, <1>7 DEF TunnelInv, RequestOK, TunnelAsked, Fresh
  <1>13. ShutOK' /\ CauseOK' /\ WholeOK'
    BY <1>2, <1>3, <1>9 DEF TunnelInv, ShutOK, CauseOK, Ended, WholeOK
  <1> QED
    BY <1>10, <1>11, <1>12, <1>13 DEF TunnelInv

LEMMA ActorSendsKeeps ==
  ASSUME TunnelConstants, TunnelInv, TunnelTypes', ActorSends
  PROVE  TunnelInv'
  <1>1. Sorts /\ Sorts' /\ Counts
    BY PartsHaveSorts, NextPartsHaveSorts, CountsAreNumbers DEF TunnelInv
  <1>2. /\ actor.asked /\ (actor.patient => actor.reply = Established)
        /\ ActorShut = {} /\ Len(ActorUp) < LinkRoom
        /\ actor' = [actor EXCEPT !.sent = @ + 1] /\ ActorUp' = Append(ActorUp, actor.sent + 1)
        /\ UNCHANGED <<ActorDown, SocketUp, SocketDown, ProviderUp, ProviderDown>>
        /\ UNCHANGED <<BridgeUp, BridgeDown, ProxyUp, ProxyDown>>
        /\ UNCHANGED <<ActorShut, SocketShut, ProviderShut, request, provider>>
    BY ActorSendsMoves DEF TunnelInv
  <1>3. /\ actor'.asked = actor.asked /\ actor'.patient = actor.patient
        /\ actor'.reply = actor.reply /\ actor'.sent = actor.sent + 1 /\ actor'.got = actor.got
        /\ actor'.half = actor.half /\ actor'.eof = actor.eof
    BY <1>2 DEF TunnelInv, TunnelTypes
  <1>4. /\ Received' = Received /\ ToActor' = ToActor /\ ToSocket' = ToSocket
        /\ ToProvider' = ToProvider /\ ToProxy' = ToProxy
        /\ ActorHas' = ActorHas /\ ProviderHas' = ProviderHas
    BY <1>2, <1>3 DEF Received, ToActor, ToSocket, ToProvider, ToProxy, ActorHas, ProviderHas
  <1>5. /\ LastSent = actor.sent /\ LastSent' = LastSent + 1
        /\ actor.sent + 1 \in Int /\ Len(ActorUp') = Len(ActorUp) + 1
    <2>1. actor.sent + 1 \in Int
      BY <1>1 DEF Counts
    <2>2. Len(ActorUp') = Len(ActorUp) + 1
      BY <1>1, <1>2, <2>1, QueueIn DEF Sorts
    <2> QED
      BY <1>2, <1>3, <2>1, <2>2 DEF LastSent
  <1>6. Taken' = Taken
    <2>1. LastSent' = LastSent + 1 /\ Len(ActorUp') = Len(ActorUp) + 1
      BY <1>5
    <2> QED
      BY <1>1, <2>1 DEF Counts, Taken
  <1>7. Passed' = Passed
    BY <1>2, <1>6 DEF Passed
  <1>8. Up(ActorUp', Taken')
    <2>1. Taken + Len(ActorUp) + 1 = actor.sent + 1 /\ Up(ActorUp, Taken)
      BY <1>1, <1>5 DEF Counts, Taken, TunnelInv, UpOK
    <2>2. Up(Append(ActorUp, Taken + Len(ActorUp) + 1), Taken)
      BY <1>1, <2>1, UpIn DEF Sorts, Counts
    <2> QED
      BY <1>2, <1>6, <2>1, <2>2
  <1>9. Remaining' = Remaining + 1
    <2>1. /\ Holds(BridgeUp') = Holds(BridgeUp) /\ Len(SocketUp') = Len(SocketUp)
          /\ ToProxy' = ToProxy /\ Len(ActorUp') = Len(ActorUp) + 1
      BY <1>2, <1>4, <1>5
    <2>2. Remaining' = ToProxy + Len(SocketUp) + Holds(BridgeUp) + (Len(ActorUp) + 1)
      BY <2>1 DEF Remaining
    <2>3. Remaining = ToProxy + Len(SocketUp) + Holds(BridgeUp) + Len(ActorUp)
      BY DEF Remaining
    <2>4. /\ ToProxy \in Nat /\ Len(SocketUp) \in Nat /\ Holds(BridgeUp) \in {0, 1}
          /\ Len(ActorUp) \in Nat
      BY <1>1 DEF Counts
    <2> QED
      BY <2>2, <2>3, <2>4
  <1>10. RoomOK'
    <2>1. Len(ActorUp') = Len(ActorUp) + 1 /\ Len(ActorUp) < LinkRoom
      BY <1>2, <1>5
    <2>2. Len(ActorUp') <= LinkRoom
      BY <1>1, <2>1 DEF Counts, TunnelConstants
    <2> QED
      BY <1>2, <2>2 DEF TunnelInv, RoomOK
  <1>11. DownOK' /\ UpOK' /\ PatientOK'
    BY <1>2, <1>3, <1>4, <1>6, <1>7, <1>8 DEF TunnelInv, DownOK, UpOK, PatientOK
  <1>12. RequestOK'
    BY <1>2, <1>3, <1>7 DEF TunnelInv, RequestOK, TunnelAsked, Fresh
  <1>13. ShutOK' /\ CauseOK'
    BY <1>2, <1>3 DEF TunnelInv, ShutOK, CauseOK, Ended
  <1>14. WholeOK'
    <2>1. /\ Remaining <= actor.sent => Remaining' <= actor'.sent
          /\ Remaining' = actor'.sent => Remaining = actor.sent
      BY <1>1, <1>3, <1>9 DEF Counts
    <2> QED
      BY <1>2, <1>3, <1>4, <2>1 DEF TunnelInv, WholeOK, Listens
  <1> QED
    BY <1>10, <1>11, <1>12, <1>13, <1>14 DEF TunnelInv

LEMMA ActorReceivesKeeps ==
  ASSUME TunnelConstants, TunnelInv, TunnelTypes', ActorReceives
  PROVE  TunnelInv'
  <1>1. Sorts /\ Sorts' /\ Counts
    BY PartsHaveSorts, NextPartsHaveSorts, CountsAreNumbers DEF TunnelInv
  <1> DEFINE takes == /\ ActorDown # << >> /\ ActorDown' = Tail(ActorDown)
                      /\ actor' = IF actor.reply = Unasked
                                  THEN [actor EXCEPT !.reply = Head(ActorDown)]
                                  ELSE [actor EXCEPT !.got = Append(@, Head(ActorDown))]
             ends == /\ ActorDown = << >> /\ "far" \in ActorShut
                     /\ actor' = [actor EXCEPT !.eof = TRUE] /\ UNCHANGED ActorDown
  <1>2. /\ "near" \notin ActorShut /\ (takes \/ ends)
        /\ UNCHANGED <<ActorUp, SocketUp, SocketDown, ProviderUp, ProviderDown>>
        /\ UNCHANGED <<BridgeUp, BridgeDown, ProxyUp, ProxyDown>>
        /\ UNCHANGED <<ActorShut, SocketShut, ProviderShut, request, provider>>
    BY ActorReceivesMoves DEF TunnelInv
  <1>3. /\ actor'.asked = actor.asked /\ actor'.patient = actor.patient
        /\ actor'.sent = actor.sent /\ actor'.half = actor.half
    BY <1>2 DEF TunnelInv, TunnelTypes
  <1>4. /\ LastSent' = LastSent /\ Taken' = Taken /\ Passed' = Passed /\ ToProxy' = ToProxy
        /\ Remaining' = Remaining /\ ProviderHas' = ProviderHas
    BY <1>2, <1>3 DEF LastSent, Taken, Passed, ToProxy, Remaining, ProviderHas
  <1>5. CASE takes
    <2> DEFINE frame == Head(ActorDown)
    <2>1. IsDown(frame, Received + 1) /\ Down(ActorDown', Received + 1) /\ frame \in Int
      BY <1>1, <1>5, DownOut DEF Sorts, Counts, TunnelInv, DownOK
    <2>2. /\ Len(ActorDown') = Len(ActorDown) - 1 /\ Len(ActorDown) >= 1
      BY <1>1, <1>5, QueueOut DEF Sorts
    <2>3. actor'.eof = actor.eof /\ ~actor.eof
      BY <1>5, <2>2 DEF TunnelInv, TunnelTypes, ShutOK
    <2>4. actor.reply # Unasked => actor'.reply = actor.reply /\ actor'.got = Append(actor.got, frame)
      BY <1>5 DEF TunnelInv, TunnelTypes
    <2>5. actor.reply = Unasked => actor'.reply = frame /\ actor'.got = actor.got
      BY <1>5 DEF TunnelInv, TunnelTypes
    <2> HIDE DEF frame
    <2>6. /\ Received' = Received + 1
          /\ actor'.reply # Unasked /\ actor'.got = Upto(ActorHas')
          /\ actor'.reply = Established => actor.reply = Established \/ frame = Established
      <3>1. CASE actor.reply = Unasked
        <4>1. Received = 0 /\ ActorHas' = ActorHas /\ ActorHas = 0
          BY <2>5, <3>1 DEF Received, ActorHas, TunnelInv, DownOK
        <4>2. frame \in {Established, Forbidden, Unavailable}
          BY <2>1, <4>1 DEF IsDown
        <4>3. actor'.reply # Unasked
          BY <2>5, <3>1, <4>2 DEF Established, Forbidden, Unavailable, Unasked
        <4>4. Received' = 1
          BY <4>1, <4>3 DEF Received
        <4> QED
          BY <2>5, <3>1, <4>1, <4>3, <4>4 DEF TunnelInv, DownOK
      <3>2. CASE actor.reply # Unasked
        <4>1. Received = 1 + ActorHas /\ actor.got \in Seq(Int) /\ actor.got = Upto(ActorHas)
          BY <3>2 DEF Received, TunnelInv, TunnelTypes, DownOK
        <4>2. frame = ActorHas + 1
          BY <1>1, <2>1, <4>1 DEF Counts, IsDown
        <4>3. Append(actor.got, ActorHas + 1) = Upto(ActorHas + 1)
          BY <4>1, UptoIn DEF ActorHas
        <4>4. ActorHas' = ActorHas + 1
          BY <2>1, <2>4, <3>2, <4>1, QueueIn DEF ActorHas
        <4>5. Received' = 1 + ActorHas'
          BY <2>4, <3>2 DEF Received
        <4>6. actor'.got = Upto(ActorHas')
          BY <2>4, <3>2, <4>2, <4>3, <4>4
        <4>7. Received' = Received + 1
          BY <1>1, <4>1, <4>4, <4>5 DEF Counts
        <4> QED
          BY <2>4, <3>2, <4>6, <4>7
      <3> QED
        BY <3>1, <3>2
    <2>7. ToActor' = ToActor
      BY <1>1, <2>2, <2>6 DEF Counts, ToActor
    <2>8. ToSocket' = ToSocket /\ ToProvider' = ToProvider
      BY <1>2, <2>7 DEF ToSocket, ToProvider
    <2>9. RoomOK'
      <3>1. Len(ActorDown') <= LinkRoom
        BY <1>1, <2>2 DEF Counts, TunnelConstants, TunnelInv, RoomOK
      <3> QED
        BY <1>2, <3>1 DEF TunnelInv, RoomOK
    <2>10. DownOK'
      BY <1>2, <2>1, <2>6, <2>7, <2>8 DEF TunnelInv, DownOK
    <2>11. UpOK'
      <3>1. actor.patient /\ actor'.reply # Established => actor.sent = 0
        BY <2>4, <2>5 DEF TunnelInv, UpOK, Unasked, Established
      <3> QED
        BY <1>2, <1>3, <1>4, <3>1 DEF TunnelInv, UpOK
    <2>12. PatientOK'
      BY <1>2, <1>3, <1>4 DEF TunnelInv, PatientOK
    <2>13. RequestOK'
      <3>1. (TunnelAsked' <=> TunnelAsked) /\ ~Fresh
        BY <1>2, <1>4, <1>5 DEF TunnelAsked, Fresh
      <3>2. NotEstablished(ActorDown) => NotEstablished(ActorDown') /\ frame # Established
        BY <1>1, <1>5, NotEstablishedOut DEF Sorts, frame
      <3> QED
        BY <1>2, <1>4, <2>6, <3>1, <3>2 DEF TunnelInv, RequestOK
    <2>14. ShutOK' /\ CauseOK' /\ WholeOK'
      BY <1>2, <1>3, <1>4, <2>3, <2>8 DEF TunnelInv, ShutOK, CauseOK, Ended, WholeOK, Listens
    <2> QED
      BY <2>9, <2>10, <2>11, <2>12, <2>13, <2>14 DEF TunnelInv
  <1>6. CASE ends
    <2>1. actor'.eof = TRUE /\ actor'.reply = actor.reply /\ actor'.got = actor.got
      BY <1>6 DEF TunnelInv, TunnelTypes
    <2>2. Received' = Received /\ ActorHas' = ActorHas /\ ToActor' = ToActor
      BY <1>6, <2>1 DEF Received, ActorHas, ToActor
    <2>3. ToSocket' = ToSocket /\ ToProvider' = ToProvider
      BY <1>2, <2>2 DEF ToSocket, ToProvider
    <2>4. DownOK' /\ UpOK' /\ PatientOK'
      BY <1>2, <1>3, <1>4, <1>6, <2>1, <2>2, <2>3 DEF TunnelInv, DownOK, UpOK, PatientOK
    <2>5. RequestOK'
      BY <1>2, <1>4, <1>6, <2>1 DEF TunnelInv, RequestOK, TunnelAsked, Fresh
    <2>6. ShutOK' /\ CauseOK'
      BY <1>2, <1>3, <1>6, <2>1 DEF TunnelInv, ShutOK, CauseOK, Ended, Left
    <2>7. WholeOK'
      BY <1>2, <1>3, <1>4, <2>1, <2>3 DEF TunnelInv, WholeOK, Listens
    <2> QED
      BY <1>2, <1>6, <2>4, <2>5, <2>6, <2>7 DEF TunnelInv, RoomOK
  <1> QED
    BY <1>2, <1>5, <1>6

LEMMA ActorHalfClosesKeeps ==
  ASSUME TunnelInv, TunnelTypes', ActorHalfCloses
  PROVE  TunnelInv'
  <1>1. /\ "near" \notin ActorShut /\ actor' = [actor EXCEPT !.half = TRUE]
        /\ UNCHANGED <<ActorUp, ActorDown, SocketUp, SocketDown, ProviderUp, ProviderDown>>
        /\ UNCHANGED <<BridgeUp, BridgeDown, ProxyUp, ProxyDown>>
        /\ UNCHANGED <<ActorShut, SocketShut, ProviderShut, request, provider>>
    BY ActorHalfClosesMoves DEF TunnelInv
  <1>2. /\ actor'.asked = actor.asked /\ actor'.patient = actor.patient
        /\ actor'.reply = actor.reply /\ actor'.sent = actor.sent /\ actor'.got = actor.got
        /\ actor'.half = TRUE /\ actor'.eof = actor.eof
    BY <1>1 DEF TunnelInv, TunnelTypes
  <1>3. /\ Received' = Received /\ ToActor' = ToActor /\ ToSocket' = ToSocket
        /\ ToProvider' = ToProvider /\ LastSent' = LastSent /\ Taken' = Taken
        /\ Passed' = Passed /\ ToProxy' = ToProxy /\ Remaining' = Remaining
        /\ ActorHas' = ActorHas /\ ProviderHas' = ProviderHas
    BY <1>1, <1>2
    DEF Received, ToActor, ToSocket, ToProvider, LastSent, Taken, Passed, ToProxy, Remaining, ActorHas,
        ProviderHas
  <1>4. DownOK' /\ UpOK' /\ PatientOK'
    BY <1>1, <1>2, <1>3 DEF TunnelInv, DownOK, UpOK, PatientOK
  <1>5. RequestOK'
    BY <1>1, <1>2, <1>3 DEF TunnelInv, RequestOK, TunnelAsked, Fresh
  <1>6. ShutOK' /\ CauseOK' /\ WholeOK'
    BY <1>1, <1>2, <1>3 DEF TunnelInv, ShutOK, CauseOK, Ended, WholeOK, Listens
  <1> QED
    BY <1>1, <1>4, <1>5, <1>6 DEF TunnelInv, RoomOK

LEMMA ActorClosesKeeps ==
  ASSUME TunnelInv, TunnelTypes', ActorCloses
  PROVE  TunnelInv'
  <1>1. /\ ActorShut' = ActorShut \cup {"near"}
        /\ UNCHANGED <<ActorUp, ActorDown, SocketUp, SocketDown, ProviderUp, ProviderDown>>
        /\ UNCHANGED <<BridgeUp, BridgeDown, ProxyUp, ProxyDown>>
        /\ UNCHANGED <<SocketShut, ProviderShut, request, actor, provider>>
    BY ActorClosesMoves DEF TunnelInv
  <1>2. /\ Received' = Received /\ ToActor' = ToActor /\ ToSocket' = ToSocket
        /\ ToProvider' = ToProvider /\ LastSent' = LastSent /\ Taken' = Taken
        /\ Passed' = Passed /\ ToProxy' = ToProxy /\ Remaining' = Remaining
        /\ ActorHas' = ActorHas /\ ProviderHas' = ProviderHas
    BY <1>1
    DEF Received, ToActor, ToSocket, ToProvider, LastSent, Taken, Passed, ToProxy, Remaining, ActorHas,
        ProviderHas
  <1>3. DownOK' /\ UpOK' /\ PatientOK'
    BY <1>1, <1>2 DEF TunnelInv, DownOK, UpOK, PatientOK
  <1>4. RequestOK'
    BY <1>1, <1>2 DEF TunnelInv, RequestOK, TunnelAsked, Fresh
  <1>5. ShutOK' /\ CauseOK' /\ WholeOK'
    BY <1>1, <1>2 DEF TunnelInv, ShutOK, CauseOK, Ended, WholeOK, Listens
  <1> QED
    BY <1>1, <1>3, <1>4, <1>5 DEF TunnelInv, RoomOK

LEMMA ProviderReceivesKeeps ==
  ASSUME TunnelConstants, TunnelInv, TunnelTypes', ProviderReceives
  PROVE  TunnelInv'
  <1>1. Sorts /\ Sorts' /\ Counts
    BY PartsHaveSorts, NextPartsHaveSorts, CountsAreNumbers DEF TunnelInv
  <1>2. /\ request \in {"dialed", "tunnel"} /\ ProviderUp # << >> /\ ProviderUp' = Tail(ProviderUp)
        /\ provider' = [provider EXCEPT !.got = Append(@, Head(ProviderUp))]
        /\ UNCHANGED <<ActorUp, ActorDown, SocketUp, SocketDown, ProviderDown>>
        /\ UNCHANGED <<BridgeUp, BridgeDown, ProxyUp, ProxyDown>>
        /\ UNCHANGED <<ActorShut, SocketShut, ProviderShut, request, actor>>
    BY ProviderReceivesMoves DEF TunnelInv
  <1>3. request = "tunnel"
    BY <1>2 DEF TunnelInv, RequestOK
  <1>4. /\ Len(ProviderUp') = Len(ProviderUp) - 1 /\ Len(ProviderUp) >= 1
        /\ Head(ProviderUp) \in Int
    BY <1>1, <1>2, QueueOut DEF Sorts
  <1>5. /\ provider'.sent = provider.sent /\ provider'.got = Append(provider.got, Head(ProviderUp))
        /\ provider.got \in Seq(Int)
    BY <1>2 DEF TunnelInv, TunnelTypes
  <1>6. ProviderHas' = ProviderHas + 1
    BY <1>4, <1>5, QueueIn DEF ProviderHas
  <1>7. /\ Received' = Received /\ ToActor' = ToActor /\ ToSocket' = ToSocket
        /\ ToProvider' = ToProvider /\ LastSent' = LastSent /\ Taken' = Taken
        /\ Passed' = Passed /\ ActorHas' = ActorHas /\ Holds(ProxyUp') = Holds(ProxyUp)
    BY <1>2
    DEF Received, ToActor, ToSocket, ToProvider, LastSent, Taken, Passed, ActorHas
  <1>8. ToProxy' = ToProxy
    BY <1>1, <1>4, <1>6, <1>7 DEF Counts, ToProxy
  <1>9. Remaining' = Remaining
    BY <1>2, <1>8 DEF Remaining
  <1>10. RoomOK'
    <2>1. Len(ProviderUp') <= LinkRoom
      BY <1>1, <1>4 DEF Counts, TunnelConstants, TunnelInv, RoomOK
    <2> QED
      BY <1>2, <2>1 DEF TunnelInv, RoomOK
  <1>11. DownOK' /\ UpOK'
    BY <1>2, <1>5, <1>7 DEF TunnelInv, DownOK, UpOK
  <1>12. PatientOK'
    <2>1. ASSUME actor.patient
          PROVE  provider'.got = Upto(ProviderHas') /\ Up(ProviderUp', ProviderHas')
      <3>1. provider.got = Upto(ProviderHas) /\ Up(ProviderUp, ProviderHas)
        BY <2>1 DEF TunnelInv, PatientOK
      <3>2. Head(ProviderUp) = ProviderHas + 1 /\ Up(ProviderUp', ProviderHas + 1)
        <4>1. ProviderUp \in Seq(Int) /\ ProviderUp # << >> /\ ProviderHas \in Int
          BY <1>1, <1>2 DEF Sorts, Counts
        <4> QED
          BY <1>2, <3>1, <4>1, UpOut
      <3>3. Append(provider.got, ProviderHas + 1) = Upto(ProviderHas + 1)
        BY <1>5, <3>1, UptoIn DEF ProviderHas
      <3> QED
        BY <1>5, <1>6, <3>2, <3>3
    <2> QED
      BY <1>2, <1>7, <1>8, <2>1 DEF TunnelInv, PatientOK
  <1>13. RequestOK'
    BY <1>2, <1>3, <1>7 DEF TunnelInv, RequestOK, TunnelAsked, Fresh
  <1>14. ShutOK' /\ CauseOK' /\ WholeOK'
    BY <1>2, <1>5, <1>7, <1>9 DEF TunnelInv, ShutOK, CauseOK, Ended, WholeOK, Listens
  <1> QED
    BY <1>10, <1>11, <1>12, <1>13, <1>14 DEF TunnelInv

LEMMA ProviderSendsKeeps ==
  ASSUME TunnelConstants, TunnelInv, TunnelTypes', ProviderSends
  PROVE  TunnelInv'
  <1>1. Sorts /\ Sorts' /\ Counts
    BY PartsHaveSorts, NextPartsHaveSorts, CountsAreNumbers DEF TunnelInv
  <1>2. /\ request \in {"dialed", "tunnel"} /\ ProviderShut = {} /\ Len(ProviderDown) < LinkRoom
        /\ provider' = [provider EXCEPT !.sent = @ + 1]
        /\ ProviderDown' = Append(ProviderDown, provider.sent + 1)
        /\ UNCHANGED <<ActorUp, ActorDown, SocketUp, SocketDown, ProviderUp>>
        /\ UNCHANGED <<BridgeUp, BridgeDown, ProxyUp, ProxyDown>>
        /\ UNCHANGED <<ActorShut, SocketShut, ProviderShut, request, actor>>
    BY ProviderSendsMoves DEF TunnelInv
  <1>3. provider'.sent = provider.sent + 1 /\ provider'.got = provider.got /\ provider.sent + 1 \in Int
    BY <1>2 DEF TunnelInv, TunnelTypes
  <1>4. Len(ProviderDown') = Len(ProviderDown) + 1
    BY <1>1, <1>2, <1>3, QueueIn DEF Sorts
  <1>5. /\ Received' = Received /\ ToActor' = ToActor /\ ToSocket' = ToSocket
        /\ LastSent' = LastSent /\ Taken' = Taken /\ Passed' = Passed /\ ToProxy' = ToProxy
        /\ Remaining' = Remaining /\ ActorHas' = ActorHas /\ ProviderHas' = ProviderHas
        /\ Holds(ProxyDown') = Holds(ProxyDown)
    BY <1>2, <1>3
    DEF Received, ToActor, ToSocket, LastSent, Taken, Passed, ToProxy, Remaining, ActorHas, ProviderHas
  <1>6. ToProvider' = ToProvider + 1
    <2>1. ToProvider' = ToSocket + Holds(ProxyDown) + (Len(ProviderDown) + 1)
      BY <1>4, <1>5 DEF ToProvider
    <2>2. ToProvider = ToSocket + Holds(ProxyDown) + Len(ProviderDown)
      BY DEF ToProvider
    <2>3. ToSocket \in Nat /\ Holds(ProxyDown) \in {0, 1} /\ Len(ProviderDown) \in Nat
      BY <1>1 DEF Counts
    <2> QED
      BY <2>1, <2>2, <2>3
  <1>7. RoomOK'
    <2>1. Len(ProviderDown) < LinkRoom
      BY <1>2
    <2>2. Len(ProviderDown') <= LinkRoom
      BY <1>1, <1>4, <2>1 DEF Counts, TunnelConstants
    <2> QED
      BY <1>2, <2>2 DEF TunnelInv, RoomOK
  <1>8. \A n \in Nat : Down(ProviderDown, n) /\ n + Len(ProviderDown) = provider.sent + 1 =>
                         Down(ProviderDown', n)
    <2> SUFFICES ASSUME NEW n \in Nat, Down(ProviderDown, n),
                        n + Len(ProviderDown) = provider.sent + 1
                 PROVE  Down(ProviderDown', n)
      OBVIOUS
    <2>1. IsDown(provider.sent + 1, n + Len(ProviderDown) + 1)
      BY <1>1 DEF Counts, IsDown
    <2> QED
      BY <1>1, <1>2, <1>3, <2>1, DownIn DEF Sorts
  <1>9. DownOK'
    <2>1. ASSUME ToProvider = provider.sent + 1, Down(ProviderDown, ToSocket + Holds(ProxyDown))
          PROVE  /\ Down(ProviderDown', ToSocket + Holds(ProxyDown))
                 /\ ToProvider' = provider'.sent + 1
      <3>1. ToSocket + Holds(ProxyDown) \in Nat
        BY <1>1 DEF Counts
      <3>2. ToSocket + Holds(ProxyDown) + Len(ProviderDown) = provider.sent + 1
        BY <2>1 DEF ToProvider
      <3>3. Down(ProviderDown', ToSocket + Holds(ProxyDown))
        BY <1>8, <2>1, <3>1, <3>2
      <3> QED
        BY <1>3, <1>6, <2>1, <3>3
    <2> QED
      BY <1>2, <1>5, <2>1 DEF TunnelInv, DownOK
  <1>10. UpOK' /\ PatientOK'
    BY <1>2, <1>3, <1>5 DEF TunnelInv, UpOK, PatientOK
  <1>11. RequestOK'
    <2>1. ASSUME Down(ProviderDown, 1), Len(ProviderDown) = provider.sent
          PROVE  Down(ProviderDown', 1) /\ Len(ProviderDown') = provider'.sent
      <3>1. 1 + Len(ProviderDown) = provider.sent + 1
        BY <1>1, <2>1 DEF Counts
      <3> QED
        BY <1>3, <1>4, <1>8, <2>1, <3>1
    <2> QED
      BY <1>2, <1>3, <1>5, <2>1 DEF TunnelInv, RequestOK, TunnelAsked, Fresh
  <1>12. ShutOK' /\ CauseOK'
    BY <1>2 DEF TunnelInv, ShutOK, CauseOK, Ended
  <1>13. WholeOK'
    BY <1>2, <1>3, <1>5, <1>6 DEF TunnelInv, WholeOK, Listens
  <1> QED
    BY <1>7, <1>9, <1>10, <1>11, <1>12, <1>13 DEF TunnelInv

LEMMA ProviderClosesKeeps ==
  ASSUME TunnelInv, TunnelTypes', ProviderCloses
  PROVE  TunnelInv'
  <1>1. /\ request \in {"dialed", "tunnel"} /\ ProviderShut' = ProviderShut \cup {"far"}
        /\ UNCHANGED <<ActorUp, ActorDown, SocketUp, SocketDown, ProviderUp, ProviderDown>>
        /\ UNCHANGED <<BridgeUp, BridgeDown, ProxyUp, ProxyDown>>
        /\ UNCHANGED <<ActorShut, SocketShut, request, actor, provider>>
    BY ProviderClosesMoves DEF TunnelInv
  <1>2. /\ Received' = Received /\ ToActor' = ToActor /\ ToSocket' = ToSocket
        /\ ToProvider' = ToProvider /\ LastSent' = LastSent /\ Taken' = Taken
        /\ Passed' = Passed /\ ToProxy' = ToProxy /\ Remaining' = Remaining
        /\ ActorHas' = ActorHas /\ ProviderHas' = ProviderHas
    BY <1>1
    DEF Received, ToActor, ToSocket, ToProvider, LastSent, Taken, Passed, ToProxy, Remaining, ActorHas,
        ProviderHas
  <1>3. DownOK' /\ UpOK' /\ PatientOK'
    BY <1>1, <1>2 DEF TunnelInv, DownOK, UpOK, PatientOK
  <1>4. RequestOK'
    BY <1>1, <1>2 DEF TunnelInv, RequestOK, TunnelAsked, Fresh
  <1>5. ShutOK' /\ CauseOK' /\ WholeOK'
    BY <1>1, <1>2 DEF TunnelInv, ShutOK, CauseOK, Ended, WholeOK, Listens
  <1> QED
    BY <1>1, <1>3, <1>4, <1>5 DEF TunnelInv, RoomOK

-----------------------------------------------------------------------------
(* The invariant holds *)

LEMMA InitTunnelInv ==
  ASSUME TunnelConstants, TunnelInit
  PROVE  TunnelInv
  <1>1. TunnelTypes
    BY DEF TunnelInit, TunnelTypes, Ways, CopierRecord, Unasked
  <1>2. /\ ActorUp = << >> /\ ActorDown = << >> /\ SocketUp = << >> /\ SocketDown = << >>
        /\ ProviderUp = << >> /\ ProviderDown = << >>
        /\ ActorShut = {} /\ SocketShut = {} /\ ProviderShut = {}
    BY CopiersAre
    DEF TunnelInit, ActorUp, ActorDown, SocketUp, SocketDown, ProviderUp, ProviderDown,
        ActorShut, SocketShut, ProviderShut
  <1>3. BridgeUp.at = "off" /\ BridgeDown.at = "off" /\ ProxyUp.at = "off" /\ ProxyDown.at = "off"
    BY CopiersAre DEF TunnelInit, BridgeUp, BridgeDown, ProxyUp, ProxyDown
  <1>4. /\ request = "none" /\ ~actor.asked /\ actor.reply = Unasked /\ actor.sent = 0
        /\ actor.got = << >> /\ ~actor.half /\ ~actor.eof /\ provider.sent = 0
        /\ provider.got = << >>
    BY DEF TunnelInit
  <1>5. ActorHas = 0 /\ ProviderHas = 0 /\ Received = 0 /\ ToActor = 0 /\ Passed = -1 /\ Taken = -1
    BY <1>2, <1>3, <1>4 DEF ActorHas, ProviderHas, Received, ToActor, LastSent, Taken, Passed, Holds
  <1>6. /\ \A n \in Int : Down(<< >>, n) /\ Up(<< >>, n) /\ Rising(<< >>, n)
        /\ << >> = Upto(0) /\ NotEstablished(<< >>)
    BY DEF Down, Up, Rising, Upto, NotEstablished
  <1>7. RoomOK
    BY <1>2 DEF RoomOK, TunnelConstants
  <1>8. DownOK /\ UpOK /\ PatientOK
    BY <1>2, <1>3, <1>4, <1>5, <1>6 DEF DownOK, UpOK, PatientOK, Copies
  <1>9. RequestOK
    BY <1>2, <1>3, <1>4, <1>5, <1>6 DEF RequestOK, Fresh, TunnelAsked, Established, Unasked
  <1>10. ShutOK /\ CauseOK /\ WholeOK
    BY <1>2, <1>3, <1>4 DEF ShutOK, CauseOK, WholeOK, Left
  <1> QED
    BY <1>1, <1>7, <1>8, <1>9, <1>10 DEF TunnelInv

LEMMA NextTunnelInv ==
  ASSUME TunnelConstants, TunnelInv, [TunnelNext]_tunnelVars
  PROVE  TunnelInv'
  <1>1. TunnelTypes'
    BY TypesKept DEF TunnelInv
  <1>2. CASE BridgeDials
    BY <1>1, <1>2, BridgeDialsKeeps
  <1>3. ASSUME NEW c \in Copiers, Copier(c)
        PROVE  TunnelInv'
    <2>1. CASE c = <<"bridge", "up">>
      BY <1>1, <1>3, <2>1, BridgeUpKeeps
    <2>2. CASE c = <<"bridge", "down">>
      BY <1>1, <1>3, <2>2, BridgeDownKeeps
    <2>3. CASE c = <<"proxy", "up">>
      BY <1>1, <1>3, <2>3, ProxyUpKeeps
    <2>4. CASE c = <<"proxy", "down">>
      BY <1>1, <1>3, <2>4, ProxyDownKeeps
    <2> QED
      BY <2>1, <2>2, <2>3, <2>4, CopiersAre
  <1>4. CASE ProxyStep
    BY <1>1, <1>4, DropConnectionKeeps, TakeRequestKeeps, DialProviderKeeps, HijackKeeps
    DEF ProxyStep
  <1>5. CASE Ends
    BY <1>1, <1>5, AskKeeps, ActorSendsKeeps, ActorReceivesKeeps, ActorHalfClosesKeeps,
       ActorClosesKeeps, ProviderReceivesKeeps, ProviderSendsKeeps, ProviderClosesKeeps
    DEF Ends
  <1>6. CASE UNCHANGED tunnelVars
    <2>1. /\ UNCHANGED <<ActorUp, ActorDown, SocketUp, SocketDown, ProviderUp, ProviderDown>>
          /\ UNCHANGED <<BridgeUp, BridgeDown, ProxyUp, ProxyDown>>
          /\ UNCHANGED <<ActorShut, SocketShut, ProviderShut, request, actor, provider>>
      BY <1>6
      DEF tunnelVars, ActorUp, ActorDown, SocketUp, SocketDown, ProviderUp, ProviderDown, BridgeUp,
          BridgeDown, ProxyUp, ProxyDown, ActorShut, SocketShut, ProviderShut
    <2>2. /\ Received' = Received /\ ToActor' = ToActor /\ ToSocket' = ToSocket
          /\ ToProvider' = ToProvider /\ LastSent' = LastSent /\ Taken' = Taken
          /\ Passed' = Passed /\ ToProxy' = ToProxy /\ Remaining' = Remaining
          /\ ActorHas' = ActorHas /\ ProviderHas' = ProviderHas
      BY <2>1
      DEF Received, ToActor, ToSocket, ToProvider, LastSent, Taken, Passed, ToProxy, Remaining,
          ActorHas, ProviderHas
    <2>3. RoomOK' /\ DownOK' /\ UpOK' /\ PatientOK'
      BY <2>1, <2>2 DEF TunnelInv, RoomOK, DownOK, UpOK, PatientOK
    <2>4. RequestOK' /\ ShutOK' /\ CauseOK' /\ WholeOK'
      BY <2>1, <2>2
      DEF TunnelInv, RequestOK, TunnelAsked, Fresh, ShutOK, CauseOK, Ended, WholeOK, Listens
    <2> QED
      BY <1>1, <2>3, <2>4 DEF TunnelInv
  <1> QED
    BY <1>2, <1>3, <1>4, <1>5, <1>6 DEF TunnelNext, TunnelDone

\* What the invariant says of the two ends.
LEMMA TunnelInvSays ==
  ASSUME TunnelConstants, TunnelInv
  PROVE  TunnelTypeOK /\ NothingSkipped /\ AnswerIsWhole
  <1>1. Sorts /\ Counts
    BY PartsHaveSorts, CountsAreNumbers DEF TunnelInv
  <1>2. TunnelTypeOK
    <2>1. \A l \in Links : /\ shut[l] \subseteq {"near", "far"} /\ Len(wire[l].up) <= LinkRoom
                           /\ Len(wire[l].down) <= LinkRoom
      BY CopiersAre
      DEF TunnelInv, TunnelTypes, RoomOK, ActorUp, ActorDown, SocketUp, SocketDown, ProviderUp,
          ProviderDown
    <2>2. \A c \in Copiers : copier[c].at \in {"off", "read", "write", "close", "done"}
      BY DEF TunnelInv, TunnelTypes, CopierRecord
    <2> QED
      BY <2>1, <2>2 DEF TunnelTypeOK, TunnelInv, TunnelTypes
  <1>3. NothingSkipped
    BY DEF NothingSkipped, TunnelInv, DownOK, PatientOK, ActorHas, ProviderHas
  <1>4. ASSUME actor.eof, actor.reply = Established
        PROVE  /\ actor.half \/ "far" \in shut["provider"]
               /\ ~actor.half /\ Len(provider.got) = actor.sent => Len(actor.got) = provider.sent
    <2>1. request = "tunnel" /\ (actor.half \/ "far" \in ProviderShut)
      BY <1>4 DEF TunnelInv, RequestOK, CauseOK
    <2>2. ASSUME ~actor.half, ProviderHas = actor.sent
          PROVE  ActorHas = provider.sent
      <3>1. Remaining = actor.sent
        <4>1. Remaining <= actor.sent
          BY <2>1 DEF TunnelInv, WholeOK
        <4>2. ToProxy >= ProviderHas
          BY <1>1 DEF Counts, ToProxy
        <4>3. Remaining >= ToProxy
          BY <1>1 DEF Counts, Remaining
        <4> QED
          BY <1>1, <2>2, <4>1, <4>2, <4>3 DEF Counts
      <3>2. Listens
        BY <1>4, <2>2, <3>1 DEF Listens
      <3>3. BridgeDown.at = "done" /\ ActorDown = << >>
        BY <1>4, <2>1 DEF TunnelInv, ShutOK
      <3>4. SocketDown = << >> /\ ProxyDown.at = "done"
        BY <2>1, <3>2, <3>3 DEF TunnelInv, WholeOK, Left
      <3>5. ProviderDown = << >> /\ ToProvider = provider.sent + 1
        BY <2>1, <3>2, <3>4 DEF TunnelInv, WholeOK, Left
      <3>6. /\ Len(ActorDown) = 0 /\ Len(SocketDown) = 0 /\ Len(ProviderDown) = 0
            /\ Holds(BridgeDown) = 0 /\ Holds(ProxyDown) = 0
        BY <3>3, <3>4, <3>5 DEF Holds
      <3>7. Received = 1 + ActorHas
        BY <1>4 DEF Received, Established, Unasked
      <3>8. ToActor = Received
        BY <1>1, <3>6 DEF Counts, ToActor
      <3>9. ToSocket = ToActor
        BY <1>1, <3>6 DEF Counts, ToSocket
      <3>10. ToProvider = ToSocket
        BY <1>1, <3>6 DEF Counts, ToProvider
      <3> QED
        BY <1>1, <3>5, <3>7, <3>8, <3>9, <3>10 DEF Counts
    <2> QED
      BY <2>1, <2>2 DEF ProviderShut, ProviderHas, ActorHas
  <1> QED
    BY <1>2, <1>3, <1>4 DEF AnswerIsWhole

LEMMA TunnelInvariance ==
  ASSUME TunnelConstants
  PROVE  TunnelSpec => []TunnelInv
  <1>1. TunnelInit => TunnelInv
    BY InitTunnelInv
  <1>2. TunnelInv /\ [TunnelNext]_tunnelVars => TunnelInv'
    BY NextTunnelInv
  <1> QED
    BY <1>1, <1>2, PTL DEF TunnelSpec

\* No link ever holds more than it has room for, and every goroutine and the proxy's handler are
\* where the code can be, for links of any size and any number of frames.
THEOREM TunnelTypeCorrect ==
  ASSUME TunnelConstants
  PROVE  TunnelSpec => []TunnelTypeOK
  BY TunnelInvariance, TunnelInvSays, PTL

\* Each end gets the other one's frames in order and from the first one on: the two io.Copy
\* goroutines of a hop never let a frame pass another one or come twice, and what the proxy's
\* server had read ahead when the connection was hijacked costs nothing to an actor that waited
\* for the 200.
THEOREM NothingIsSkipped ==
  ASSUME TunnelConstants
  PROVE  TunnelSpec => []NothingSkipped
  BY TunnelInvariance, TunnelInvSays, PTL

\* An established connection ends, for the actor, only because it half-closed it itself or the
\* provider closed; and when the provider has read everything, with the whole answer: no
\* goroutine closes the connections under one that still has a frame to deliver.
THEOREM AnswerArrivesWhole ==
  ASSUME TunnelConstants
  PROVE  TunnelSpec => []AnswerIsWhole
  BY TunnelInvariance, TunnelInvSays, PTL
=============================================================================
