--------------------------- MODULE Subscriptions ---------------------------
(***************************************************************************)
(* Web clients that subscribe to one output of a processing node           *)
(* (src/networking/Middleware.cpp). Each request makes a JsonMsg node that *)
(* turns values into messages, connects the output to it, and it to a port *)
(* whose callback sends to the server the request came through, which is   *)
(* to all of its clients. Requests are handled on the server's thread, the *)
(* output is sent through on the main thread, and neither takes a lock, so *)
(* the catching up of a late listener (include/processing/Port.hpp, module *)
(* Port) and the loop over the listeners may overlap.                      *)
(*                                                                         *)
(* A value reaches all connected clients at once. A vector that grows while*)
(* it is looped over is not moved: the loop goes on to its old end.        *)
(***************************************************************************)
EXTENDS FiniteSets, FiniteSetsExt, Naturals, Sequences

CONSTANTS
    Client,             \* browsers
    Value,              \* what the output may send
    NoValue,            \* nothing was sent, or is shown
    MaxRequests         \* bound on the subscriptions (the code has none)

ASSUME SubscriptionsAssumption ==
    /\ NoValue \notin Value
    /\ MaxRequests \in Nat

VARIABLES
    current,    \* m_cachedData of the output
    nodes,      \* m_jsonNodes: what each has cached, its place in the chain
    stored,     \* m_subscriptions has an entry for this output
    sending,    \* main thread: the listeners send() has not come to
    request,    \* server's thread: how far the subscription is, and for whom
    open,       \* clients with a connection
    shown,      \* the last value each client was sent
    asked,      \* history: connected clients whose request is done
    overlap     \* history: the last send() and a request overlapped

vars == <<current, nodes, stored, sending, request, open, shown, asked,
          overlap>>

JsonNode == [cached : Value \union {NoValue}, listed : BOOLEAN, wired : BOOLEAN]
Stage == {"none", "list", "catch up", "wire"}
Idle == [stage |-> "none"]
Newest == Len(nodes)

Init ==
    /\ current = NoValue
    /\ nodes = <<>> /\ stored = FALSE
    /\ sending = {} /\ request = Idle
    /\ open = {} /\ asked = {}
    /\ shown = [c \in Client |-> NoValue]
    /\ overlap = FALSE

(* WebUISecureServer::sendMsg().                                           *)
SendMsg(v) == shown' = [c \in Client |-> IF c \in open THEN v ELSE shown[c]]

-----------------------------------------------------------------------------
(* The main thread: send() keeps the value, then goes through the listeners*)

Send(v) ==
    /\ sending = {}
    /\ current' = v
    /\ sending' = {i \in DOMAIN nodes : nodes[i].listed}
    /\ overlap' = (request # Idle)
    /\ UNCHANGED <<nodes, stored, request, open, shown, asked>>

DeliverToOne ==
    /\ sending # {}
    /\ LET i == Min(sending)
       IN  /\ nodes' = [nodes EXCEPT ![i].cached = current]
           /\ sending' = {}
           /\ UNCHANGED shown
    /\ UNCHANGED <<current, stored, request, open, asked, overlap>>

(* The next JsonMsg node keeps the message and passes it on.               *)
Deliver ==
    /\ sending # {}
    /\ LET i == Min(sending)
       IN  /\ nodes' = [nodes EXCEPT ![i].cached = current]
           /\ sending' = sending \ {i}
           /\ IF nodes[i].wired
                THEN SendMsg(current)
                ELSE UNCHANGED shown
    /\ UNCHANGED <<current, stored, request, open, asked, overlap>>

-----------------------------------------------------------------------------
(* The server's thread.                                                    *)

(* subscribeToProcNode(): another JsonMsg node, whoever asked before; the  *)
(* output hands it its value ...                                           *)
Subscribe(c) ==
    /\ request = Idle /\ c \in open /\ Len(nodes) < MaxRequests
    /\ nodes' = Append(nodes, [cached |-> current, listed |-> FALSE, wired |-> FALSE])
    /\ stored' = TRUE
    /\ request' = [stage |-> "list", by |-> c]
    /\ overlap' = (overlap \/ sending # {})
    /\ UNCHANGED <<current, sending, open, shown, asked>>

(* ... then lists it ...                                                   *)
List ==
    /\ request.stage = "list"
    /\ nodes' = [nodes EXCEPT ![Newest].listed = TRUE]
    /\ request' = [request EXCEPT !.stage = "catch up"]
    /\ UNCHANGED <<current, stored, sending, open, shown, asked, overlap>>

(* ... the node hands what it has to the port that sends ...               *)
NoCatchUp ==
    /\ request.stage = "catch up"
    /\ shown' = shown
    /\ request' = [request EXCEPT !.stage = "wire"]
    /\ UNCHANGED <<current, nodes, stored, sending, open, asked, overlap>>

CatchUp ==
    /\ request.stage = "catch up"
    /\ IF nodes[Newest].cached = NoValue THEN UNCHANGED shown
                                         ELSE SendMsg(nodes[Newest].cached)
    /\ request' = [request EXCEPT !.stage = "wire"]
    /\ UNCHANGED <<current, nodes, stored, sending, open, asked, overlap>>

(* ... and lists that port.                                                *)
Wire ==
    /\ request.stage = "wire"
    /\ nodes' = [nodes EXCEPT ![Newest].wired = TRUE]
    /\ asked' = asked \union {request.by}
    /\ request' = Idle
    /\ UNCHANGED <<current, stored, sending, open, shown, overlap>>

(* unsubscribeFromProcNode() disconnects the stored port, which sends to   *)
(* the clients, from the output, whose listener it never was: nothing      *)
(* happens but that the entry goes.                                        *)
Unsubscribe ==
    /\ request = Idle /\ open # {}
    /\ stored' = FALSE
    /\ UNCHANGED <<current, nodes, sending, request, open, shown, asked, overlap>>

(* on_open: the description has no values of outputs in it.                *)
Connect(c) ==
    /\ request = Idle /\ c \notin open
    /\ open' = open \union {c}
    /\ UNCHANGED <<current, nodes, stored, sending, request, shown, asked, overlap>>

DisconnectAnyTime(c) ==
    /\ c \in open
    /\ open' = open \ {c} /\ asked' = asked \ {c}
    /\ shown' = [shown EXCEPT ![c] = NoValue]
    /\ UNCHANGED <<current, nodes, stored, sending, request, overlap>>

(* on_close, in the same thread as the requests.                           *)
Disconnect(c) ==
    /\ request = Idle /\ c \in open
    /\ open' = open \ {c} /\ asked' = asked \ {c}
    /\ shown' = [shown EXCEPT ![c] = NoValue]
    /\ UNCHANGED <<current, nodes, stored, sending, request, overlap>>

Next ==
    \/ \E v \in Value : Send(v)
    \/ Deliver
    \/ \E c \in Client : Subscribe(c) \/ Connect(c) \/ Disconnect(c)
    \/ List \/ CatchUp \/ Wire \/ Unsubscribe

Spec == Init /\ [][Next]_vars

(* The loop of send() and a request that is being handled run to their end.*)
FairSpec ==
    /\ Spec
    /\ WF_vars(Deliver)
    /\ WF_vars(List) /\ WF_vars(CatchUp) /\ WF_vars(Wire)

-----------------------------------------------------------------------------
(* The chain is built from its front; only the newest node is incomplete.  *)
TypeOK ==
    /\ current \in Value \union {NoValue}
    /\ nodes \in Seq(JsonNode) /\ stored \in BOOLEAN
    /\ sending \subseteq DOMAIN nodes
    /\ request = Idle \/ request \in [stage : Stage \ {"none"}, by : open]
    /\ open \subseteq Client /\ asked \subseteq open
    /\ shown \in [Client -> Value \union {NoValue}]
    /\ overlap \in BOOLEAN
    /\ \A i \in DOMAIN nodes :
        (i < Newest \/ request = Idle) => nodes[i].listed /\ nodes[i].wired

Quiet == sending = {} /\ request = Idle

(* When nothing is under way, a client that subscribed shows the value the *)
(* output holds, whoever subscribed, left or unsubscribed since, and one   *)
(* that did not shows that value or none. Only a request that a send()     *)
(* overlapped can leave a client, even one that subscribed long before,    *)
(* with an old value, and only until the next send().                      *)
SubscriberUpToDate ==
    Quiet /\ ~overlap =>
        \A c \in open : shown[c] = current \/ (shown[c] = NoValue /\ c \notin asked)

(* What m_subscriptions, "uid -> valueName -> port" (Middleware.hpp:87),   *)
(* and the request to unsubscribe mean: when it names no port for the      *)
(* output and no request is under way, a send() has nobody to serve. The   *)
(* program breaks this, see Unsubscribe.                                   *)
UnsubscribedIsQuiet ==
    [][~stored /\ request = Idle /\ sending = {} => sending' = {}]_vars

(* Whatever the output sends comes to a subscriber, however often the list *)
(* of listeners grows meanwhile: unless a request overlaps the send().     *)
ValueArrives ==
    \A c \in Client :
        c \in asked /\ shown[c] # current
            ~> (shown[c] = current \/ c \notin asked \/ overlap)
=============================================================================
