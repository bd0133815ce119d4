---------------------------- MODULE ProviderTunnel ----------------------------
(***************************************************************************)
(* How a sandboxed harness reaches its provider through the egress proxy:  *)
(* startTCPUnixBridge and bridgeConnection inside the sandbox,             *)
(* startRestrictedConnectProxy outside of it                               *)
(* (evals/tools/sandbox-broker/main.go).                                   *)
(*                                                                         *)
(* One connection of the actor, over three links: the actor's own, the     *)
(* broker's unix socket, and the provider's.  On each of the two hops one  *)
(* goroutine copies up and another one down, on the second hop once the    *)
(* proxy has taken the actor's CONNECT.  A link delivers in order, has     *)
(* room for LinkRoom frames each way, and what was written before its end  *)
(* was closed can still be read by the other.                              *)
(*                                                                         *)
(* Abstractions.  A frame is a number: 0 the CONNECT and its acceptance,   *)
(* n the n-th frame of data.  A host is allowed or not.  The 400 the       *)
(* server answers to bytes that are no request is left out.                *)
(***************************************************************************)
EXTENDS Integers, Sequences, SequencesExt

CONSTANTS
    MaxUp, MaxDown,  \* bound: frames of data each party sends
    LinkRoom             \* frames a link holds each way

TunnelConstants == MaxUp \in Nat /\ MaxDown \in Nat /\ LinkRoom \in Nat \ {0}

VARIABLES
    wire,     \* by link: the frames on their way up and down
    shut,     \* by link: the ends that are closed, "near" (to the actor) and "far"
    copier,   \* by hop and direction: where the goroutine is and what it holds
    request,  \* where the proxy is with the request
    actor, provider

tunnelVars == <<wire, shut, copier, request, actor, provider>>

Links == {"actor", "socket", "provider"}
Copiers == {"bridge", "proxy"} \X {"up", "down"}
ClientOf(hop) == IF hop = "bridge" THEN "actor" ELSE "socket"
Upstream(hop) == IF hop = "bridge" THEN "socket" ELSE "provider"

Unasked == 1
Established == 0
Forbidden == -1
Unavailable == -2

TunnelInit ==
    /\ wire = [l \in Links |-> [up |-> << >>, down |-> << >>]]
    /\ shut = [l \in Links |-> {}]
    /\ copier = [c \in Copiers |-> [at |-> "off", held |-> 0]]
    /\ request = "none"
    /\ \E allowed, patient \in BOOLEAN :
         actor = [allowed |-> allowed, patient |-> patient, asked |-> FALSE, reply |-> Unasked,
                  sent |-> 0, got |-> << >>, half |-> FALSE, eof |-> FALSE]
    /\ provider = [sent |-> 0, got |-> << >>]

-----------------------------------------------------------------------------
(* Links *)

Send(l, way, frame) == wire' = [wire EXCEPT ![l][way] = Append(@, frame)]
Receive(l, way) == wire' = [wire EXCEPT ![l][way] = Tail(@)]
HasRoom(l, way) == Len(wire[l][way]) < LinkRoom

\* Whoever reads what goes that way has read all there will be.
LinkDrained(l, way) ==
    /\ wire[l][way] = << >>
    /\ IF way = "up" THEN "near" \in shut[l] \/ (l = "actor" /\ actor.half)
       ELSE "far" \in shut[l]

Starts(hop) ==
    copier' = [c \in Copiers |-> IF c[1] = hop THEN [copier[c] EXCEPT !.at = "read"] ELSE copier[c]]

-----------------------------------------------------------------------------
(* The bridge accepts: tcpUnixBridge.serve, bridgeConnection *)

BridgeDials ==
    /\ copier[<<"bridge", "up">>].at = "off" /\ shut["actor"] \subseteq {"near"}
    /\ \/ Starts("bridge") /\ request' = "head" /\ UNCHANGED shut
       \/ /\ shut' = [shut EXCEPT !["actor"] = @ \cup {"far"}]
          /\ UNCHANGED <<copier, request>>
    /\ UNCHANGED <<wire, actor, provider>>

(* The copying goroutines of both hops: io.Copy, then Close *)

Goes(c, at) == copier' = [copier EXCEPT ![c].at = at]
Source(c) == IF c[2] = "up" THEN ClientOf(c[1]) ELSE Upstream(c[1])
Sink(c) == IF c[2] = "up" THEN Upstream(c[1]) ELSE ClientOf(c[1])

\* Where the frames leave a link: the copier's end of its source, the other end of its sink.
AheadEnd(c) == IF c[2] = "up" THEN "far" ELSE "near"

\* io.Copy reads: a frame, the end of the stream, or that its own end was closed.
CopierReads(c) ==
    /\ copier[c].at = "read"
    /\ \/ /\ AheadEnd(c) \notin shut[Source(c)] /\ wire[Source(c)][c[2]] # << >>
          /\ copier' = [copier EXCEPT ![c] = [at |-> "write", held |-> Head(wire[Source(c)][c[2]])]]
          /\ Receive(Source(c), c[2])
       \/ /\ AheadEnd(c) \in shut[Source(c)] \/ LinkDrained(Source(c), c[2])
          /\ Goes(c, "close") /\ UNCHANGED wire
    /\ UNCHANGED <<shut, request, actor, provider>>

\* Mutant: a frame the link has no room for is dropped.
CopierWritesOrDrops(c) ==
    /\ copier[c].at = "write" /\ Goes(c, IF shut[Sink(c)] = {} THEN "read" ELSE "close")
    /\ IF shut[Sink(c)] = {} /\ HasRoom(Sink(c), c[2])
       THEN Send(Sink(c), c[2], copier[c].held)
       ELSE UNCHANGED wire
    /\ UNCHANGED <<shut, request, actor, provider>>

\* It writes the frame; where the other end is gone that fails, or the kernel takes the frame
\* and drops it.
CopierWrites(c) ==
    /\ copier[c].at = "write"
    /\ \/ /\ shut[Sink(c)] = {} /\ HasRoom(Sink(c), c[2])
          /\ Send(Sink(c), c[2], copier[c].held) /\ Goes(c, "read")
       \/ shut[Sink(c)] # {} /\ Goes(c, "close") /\ UNCHANGED wire
       \/ shut[Sink(c)] = {AheadEnd(c)} /\ Goes(c, "read") /\ UNCHANGED wire
    /\ UNCHANGED <<shut, request, actor, provider>>

\* Mutant: the one that copies up leaves the upstream connection to the other one.
CopierLeavesUpstream(c) ==
    /\ copier[c].at = "close" /\ Goes(c, "done")
    /\ shut' = [shut EXCEPT ![ClientOf(c[1])] = IF c[2] = "down" THEN @ \cup {"far"} ELSE @,
                            ![Upstream(c[1])] = IF c[2] = "down" THEN @ \cup {"near"} ELSE @]
    /\ UNCHANGED <<wire, request, actor, provider>>

\* The one that copies up closes the upstream connection, the other one both.
CopierCloses(c) ==
    /\ copier[c].at = "close" /\ Goes(c, "done")
    /\ shut' = [shut EXCEPT ![ClientOf(c[1])] = IF c[2] = "down" THEN @ \cup {"far"} ELSE @,
                            ![Upstream(c[1])] = @ \cup {"near"}]
    /\ UNCHANGED <<wire, request, actor, provider>>

Copier(c) == CopierReads(c) \/ CopierWrites(c) \/ CopierCloses(c)

-----------------------------------------------------------------------------
(* The proxy's handler *)

\* Mutant: the idle timeout of the server also ends a tunnel.
DropIdleTunnel ==
    /\ request \in {"head", "tunnel"} /\ request' = "over"
    /\ shut' = [shut EXCEPT !["socket"] = @ \cup {"far"}]
    /\ UNCHANGED <<wire, copier, actor, provider>>

\* The server drops the connection: at the end of the stream, at bytes that are no request,
\* or when ReadHeaderTimeout or IdleTimeout is over.
DropConnection ==
    /\ request = "head" /\ request' = "over"
    /\ shut' = [shut EXCEPT !["socket"] = @ \cup {"far"}]
    /\ UNCHANGED <<wire, copier, actor, provider>>

\* The reply to a request that gets no tunnel; the connection stays.
Refuse(left, reply) ==
    /\ wire' = [wire EXCEPT !["socket"].up = left,
                            !["socket"].down = IF shut["socket"] = {} THEN Append(@, reply) ELSE @]
    /\ request' = "head"

TakeRequest ==
    /\ request = "head"
    /\ wire["socket"].up # << >> /\ Head(wire["socket"].up) = Established
    /\ IF actor.allowed
       THEN Receive("socket", "up") /\ request' = "dial"
       ELSE Refuse(Tail(wire["socket"].up), Forbidden)
    /\ UNCHANGED <<shut, copier, actor, provider>>

DialProvider ==
    /\ request = "dial"
    /\ \/ request' = "dialed" /\ UNCHANGED wire
       \/ Refuse(wire["socket"].up, Unavailable)
    /\ UNCHANGED <<shut, copier, actor, provider>>

\* Hijack, the 200 and the two copiers.  What the server had already read beyond the request
\* is in the buffer that the handler only writes through.
Hijack ==
    /\ request = "dialed"
    /\ \E read \in 0 .. Len(wire["socket"].up) :
         LET rest == [wire["socket"] EXCEPT !.up = SubSeq(@, read + 1, Len(@))] IN
         \/ /\ shut["socket"] = {}
            /\ wire' = [wire EXCEPT !["socket"] = [rest EXCEPT !.down = Append(@, Established)]]
            /\ request' = "tunnel" /\ Starts("proxy") /\ UNCHANGED shut
         \/ /\ shut["socket"] # {}
            /\ wire' = [wire EXCEPT !["socket"] = rest]
            /\ request' = "over" /\ UNCHANGED copier
            /\ shut' = [shut EXCEPT !["socket"] = @ \cup {"far"}, !["provider"] = @ \cup {"near"}]
    /\ UNCHANGED <<actor, provider>>

ProxyStep == DropConnection \/ TakeRequest \/ DialProvider \/ Hijack

-----------------------------------------------------------------------------
(* The two ends *)

Ask ==
    /\ ~actor.asked /\ ~actor.half /\ shut["actor"] = {} /\ HasRoom("actor", "up")
    /\ actor' = [actor EXCEPT !.asked = TRUE] /\ Send("actor", "up", Established)
    /\ UNCHANGED <<shut, copier, request, provider>>

ActorSends ==
    /\ actor.asked /\ (actor.patient => actor.reply = Established) /\ actor.sent < MaxUp
    /\ ~actor.half /\ shut["actor"] = {} /\ HasRoom("actor", "up")
    /\ actor' = [actor EXCEPT !.sent = @ + 1] /\ Send("actor", "up", actor.sent + 1)
    /\ UNCHANGED <<shut, copier, request, provider>>

ActorReceives ==
    /\ "near" \notin shut["actor"]
    /\ \/ /\ wire["actor"].down # << >> /\ Receive("actor", "down")
          /\ LET frame == Head(wire["actor"].down) IN
               actor' = IF actor.reply = Unasked THEN [actor EXCEPT !.reply = frame]
                        ELSE [actor EXCEPT !.got = Append(@, frame)]
       \/ /\ LinkDrained("actor", "down") /\ ~actor.eof
          /\ actor' = [actor EXCEPT !.eof = TRUE] /\ UNCHANGED wire
    /\ UNCHANGED <<shut, copier, request, provider>>

ActorHalfCloses ==
    /\ "near" \notin shut["actor"] /\ ~actor.half
    /\ actor' = [actor EXCEPT !.half = TRUE]
    /\ UNCHANGED <<wire, shut, copier, request, provider>>

ActorCloses ==
    /\ "near" \notin shut["actor"] /\ shut' = [shut EXCEPT !["actor"] = @ \cup {"near"}]
    /\ UNCHANGED <<wire, copier, request, actor, provider>>

Connected == request \in {"dialed", "tunnel"}

ProviderReceives ==
    /\ Connected /\ "far" \notin shut["provider"] /\ wire["provider"].up # << >>
    /\ provider' = [provider EXCEPT !.got = Append(@, Head(wire["provider"].up))]
    /\ Receive("provider", "up")
    /\ UNCHANGED <<shut, copier, request, actor>>

ProviderSends ==
    /\ Connected /\ shut["provider"] = {} /\ provider.sent < MaxDown /\ HasRoom("provider", "down")
    /\ provider' = [provider EXCEPT !.sent = @ + 1]
    /\ Send("provider", "down", provider.sent + 1)
    /\ UNCHANGED <<shut, copier, request, actor>>

ProviderCloses ==
    /\ Connected /\ "far" \notin shut["provider"]
    /\ shut' = [shut EXCEPT !["provider"] = @ \cup {"far"}]
    /\ UNCHANGED <<wire, copier, request, actor, provider>>

Ends ==
    \/ Ask \/ ActorSends \/ ActorReceives \/ ActorHalfCloses \/ ActorCloses
    \/ ProviderReceives \/ ProviderSends \/ ProviderCloses

TunnelOver ==
    /\ \A c \in Copiers : copier[c].at \in {"off", "done"}
    /\ "far" \in shut["actor"]
    /\ request # "none" => shut["socket"] = {"near", "far"}
    /\ copier[<<"proxy", "up">>].at = "done" => "near" \in shut["provider"]

TunnelDone == TunnelOver /\ UNCHANGED tunnelVars

TunnelNext == BridgeDials \/ (\E c \in Copiers : Copier(c)) \/ ProxyStep \/ Ends \/ TunnelDone

TunnelRuns ==
    \/ BridgeDials \/ (\E c \in Copiers : Copier(c)) \/ ProxyStep
    \/ ActorReceives \/ ProviderReceives

\* As long as a goroutine can run, or an end that is open has something to read, one of them
\* does: there is no loop in them, so that each of them gets its turn.
TunnelFairness == WF_tunnelVars(TunnelRuns)

TunnelSpec == TunnelInit /\ [][TunnelNext]_tunnelVars /\ TunnelFairness

-----------------------------------------------------------------------------
(* Properties *)

TunnelTypeOK ==
    /\ \A l \in Links : shut[l] \subseteq {"near", "far"} /\ Len(wire[l].up) <= LinkRoom
                          /\ Len(wire[l].down) <= LinkRoom
    /\ \A c \in Copiers : copier[c].at \in {"off", "read", "write", "close", "done"}
    /\ request \in {"none", "head", "dial", "dialed", "tunnel", "over"}

Upto(n) == [i \in 1 .. n |-> i]

\* Both ends get what the other one sent from its first frame on, the provider if the actor
\* waited for the proxy's answer before it sent (selftestRestrictedConnectProxy does).
NothingSkipped ==
    /\ actor.got = Upto(Len(actor.got))
    /\ actor.patient => provider.got = Upto(Len(provider.got))

\* An actor that sees its established connection end has shut it down itself or the provider
\* has; and if the provider ended it after it had read everything, the actor has the whole
\* answer, whatever the two hops still held when the end came.
AnswerIsWhole ==
    actor.eof /\ actor.reply = Established =>
      /\ actor.half \/ "far" \in shut["provider"]
      /\ ~actor.half /\ Len(provider.got) = actor.sent => Len(actor.got) = provider.sent

Released == "near" \in shut["actor"] \/ actor.half \/ "far" \in shut["provider"]

\* When one end is gone, or has only said that it will send no more, both hops let go of the
\* connection: no goroutine and no socket of it is left (bridgeConnection).
TunnelEnds == Released ~> TunnelOver
=============================================================================
