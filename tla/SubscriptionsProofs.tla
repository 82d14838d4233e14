------------------------ MODULE SubscriptionsProofs ------------------------
(***************************************************************************)
(* The subscriptions with any number of clients, values and requests.      *)
(*                                                                         *)
(* The argument follows one send(): if no request is under way when it     *)
(* begins and none comes before it ends, its loop meets all nodes from the *)
(* first to the last, each complete, and tells everybody at each.          *)
(***************************************************************************)
EXTENDS Subscriptions, TLAPS, WellFoundedInduction

(* How much of the newest node's chain exists, by the place of its request.*)
Building ==
    /\ request # Idle => nodes # <<>>
    /\ request # Idle /\ request.stage \in {"catch up", "wire"} => nodes[Newest].listed

(* Without an overlap the loop has come past the first nodes, and the      *)
(* requests wait for its end.                                              *)
InLoop ==
    ~overlap /\ sending # {} =>
        /\ request = Idle
        /\ \E m \in DOMAIN nodes : sending = m..Len(nodes)

(* The nodes that the loop has passed, and those that came after it, have  *)
(* what the output has.                                                    *)
Cached == ~overlap => \A i \in DOMAIN nodes \ sending : nodes[i].cached = current

(* Who is told what: nobody before the first request, nobody who is not    *)
(* connected; between two loops nobody shows an older value, and when the  *)
(* newest chain is about to be closed everybody shows this one.            *)
Nothing == nodes = <<>> => asked = {} /\ \A c \in Client : shown[c] = NoValue

Closed == \A c \in Client \ open : shown[c] = NoValue

Between ==
    ~overlap /\ sending = {} =>
        \A c \in open : shown[c] = current \/ (shown[c] = NoValue /\ c \notin asked)

Closing == ~overlap /\ request.stage = "wire" => \A c \in open : shown[c] = current

Views == Nothing /\ Closed /\ Between /\ Closing

IInv == TypeOK /\ Building /\ InLoop /\ Cached /\ Views

LEMMA InitIInv == Init => IInv
<1> SUFFICES ASSUME Init
             PROVE  IInv
  OBVIOUS
<1>1. nodes = <<>> /\ nodes \in Seq(JsonNode) /\ Len(nodes) = 0 /\ DOMAIN nodes = {}
  BY DEF Init
<1>2. TypeOK
  BY <1>1 DEF Init, TypeOK
<1>3. Building
  BY DEF Init, Building
<1>4. InLoop
  BY <1>1 DEF Init, InLoop
<1>5. Cached /\ Views
  BY <1>1 DEF Init, Cached, Views, Nothing, Closed, Between, Closing, Idle
<1> QED
  BY <1>2, <1>3, <1>4, <1>5 DEF IInv

(* A request that is under way is at one of its places.                    *)
LEMMA UnderWay ==
    ASSUME TypeOK, request.stage # "none"
    PROVE  request # Idle /\ request \in [stage : Stage \ {"none"}, by : open]
<1>1. request # Idle
  BY DEF Idle
<1> QED
  BY <1>1 DEF TypeOK

(* The loop has a first listener to come to.                               *)
LEMMA FirstListener ==
    ASSUME TypeOK, sending # {}
    PROVE  Min(sending) \in sending
<1>1. sending \subseteq Nat
  BY DEF TypeOK
<1>2. PICK x \in sending : \A y \in sending : ~ (<<y, x>> \in OpToRel(<, Nat))
  BY <1>1, NatLessThanWellFounded, WFMin
<1>3. ASSUME NEW y \in sending
      PROVE  x =< y
  <2>1. <<y, x>> \in Nat \X Nat /\ <<y, x>>[1] = y /\ <<y, x>>[2] = x
    BY <1>1
  <2>2. ~ (y < x)
    BY <2>1, <1>2 DEF OpToRel
  <2> QED
    BY <1>1, <2>2
<1> QED
  BY <1>3 DEF Min

(* A node is replaced by another.                                          *)
LEMMA NodeReplaced ==
    ASSUME TypeOK, NEW i \in DOMAIN nodes, NEW n \in JsonNode,
           nodes' = [nodes EXCEPT ![i] = n]
    PROVE  /\ nodes' \in Seq(JsonNode)
           /\ Len(nodes') = Len(nodes) /\ DOMAIN nodes' = DOMAIN nodes
           /\ nodes'[i] = n
           /\ \A j \in DOMAIN nodes : j # i => nodes'[j] = nodes[j]
  BY DEF TypeOK

(* The first of the listeners that the loop has not come to.               *)
LEMMA FirstOfInterval ==
    ASSUME NEW m \in Nat, NEW n \in Nat, m <= n
    PROVE  Min(m..n) = m
<1>1. m \in m..n /\ \A y \in m..n : m =< y
  OBVIOUS
<1>2. \A x \in m..n : (\A y \in m..n : x =< y) => x = m
  OBVIOUS
<1> QED
  BY <1>1, <1>2 DEF Min

(* Only a subscription makes the chain longer.                             *)
LEMMA LengthKept ==
    ASSUME TypeOK, List \/ Wire \/ Deliver
    PROVE  Len(nodes') = Len(nodes) /\ DOMAIN nodes' = DOMAIN nodes
<1>1. DOMAIN nodes = 1..Len(nodes) /\ Len(nodes) \in Nat
  BY DEF TypeOK
<1>2. PICK i, n : nodes' = [nodes EXCEPT ![i] = n]
  <2>1. CASE List
    BY <2>1 DEF List
  <2>2. CASE Wire
    BY <2>2 DEF Wire
  <2>3. CASE Deliver
    BY <2>3 DEF Deliver
  <2> QED
    BY <2>1, <2>2, <2>3
<1> QED
  BY <1>1, <1>2

LEMMA TypeStep == TypeOK /\ Building /\ [Next]_vars => TypeOK' /\ Building'
<1> SUFFICES ASSUME TypeOK, Building, [Next]_vars
             PROVE  TypeOK' /\ Building'
  OBVIOUS
<1> USE SubscriptionsAssumption
<1>0. Len(nodes) \in Nat /\ DOMAIN nodes = 1..Len(nodes)
  BY DEF TypeOK
<1>1. ASSUME NEW v \in Value, Send(v)
      PROVE  TypeOK' /\ Building'
  BY <1>0, <1>1 DEF Send, TypeOK, Building, Newest
<1>2. CASE Deliver
  <2> DEFINE i == Min(sending)
             n == [nodes[i] EXCEPT !.cached = current]
  <2>a. i \in DOMAIN nodes
    BY <1>2, FirstListener DEF Deliver, TypeOK
  <2>b. nodes[i] \in JsonNode
    BY <2>a DEF TypeOK
  <2>c. n \in JsonNode /\ n.listed = nodes[i].listed /\ n.wired = nodes[i].wired
    BY <2>b DEF JsonNode, TypeOK
  <2>1. nodes' = [nodes EXCEPT ![i] = n]
    BY <1>2 DEF Deliver
  <2> HIDE DEF n, i
  <2>2. nodes' \in Seq(JsonNode) /\ DOMAIN nodes' = DOMAIN nodes /\ Len(nodes') = Len(nodes)
    BY <2>a, <2>c, <2>1, NodeReplaced
  <2>3. \A j \in DOMAIN nodes :
            nodes'[j].listed = nodes[j].listed /\ nodes'[j].wired = nodes[j].wired
    BY <2>a, <2>c, <2>1, NodeReplaced
  <2>4. shown' \in [Client -> Value \union {NoValue}]
    BY <1>2 DEF Deliver, SendMsg, TypeOK
  <2>5. sending' \subseteq DOMAIN nodes'
    BY <1>2, <2>2 DEF Deliver, TypeOK
  <2>6. TypeOK'
    BY <1>2, <1>0, <2>2, <2>3, <2>4, <2>5 DEF Deliver, TypeOK, Newest
  <2>7. Building'
    <3>1. request' = request
      BY <1>2 DEF Deliver
    <3>2. nodes # <<>> /\ nodes' # <<>> /\ Len(nodes) \in DOMAIN nodes
      BY <1>0, <2>2, <2>a
    <3>3. nodes[Len(nodes)].listed => request = Idle \/ nodes'[Len(nodes')].listed
      BY <3>2, <2>2, <2>3
    <3> QED
      BY <3>1, <3>2, <3>3 DEF Building, Newest
  <2> QED
    BY <2>6, <2>7
<1>3. ASSUME NEW c \in Client, Subscribe(c)
      PROVE  TypeOK' /\ Building'
  <2> DEFINE new == [cached |-> current, listed |-> FALSE, wired |-> FALSE]
  <2>1. new \in JsonNode
    BY DEF TypeOK, JsonNode
  <2>2. nodes' = Append(nodes, new) /\ request = Idle /\ c \in open
    BY <1>3 DEF Subscribe
  <2>3. /\ nodes' \in Seq(JsonNode) /\ Len(nodes') = Len(nodes) + 1
        /\ DOMAIN nodes' = 1..(Len(nodes) + 1)
        /\ \A j \in DOMAIN nodes : nodes'[j] = nodes[j]
    BY <2>1, <2>2, <1>0 DEF TypeOK
  <2>4. request' = [stage |-> "list", by |-> c]
    BY <1>3 DEF Subscribe
  <2>5. TypeOK'
    BY <1>3, <1>0, <2>2, <2>3, <2>4 DEF Subscribe, TypeOK, Newest, Stage, Idle
  <2>6. Building'
    <3>1. nodes' # <<>>
      BY <2>3, <1>0
    <3>2. request'.stage \notin {"catch up", "wire"}
      BY <2>4
    <3> QED
      BY <3>1, <3>2 DEF Building
  <2> QED
    BY <2>5, <2>6
<1>4. CASE List \/ CatchUp \/ Wire
  <2>1. request # Idle /\ request \in [stage : Stage \ {"none"}, by : open]
    BY <1>4, UnderWay DEF List, CatchUp, Wire, Stage
  <2>2. nodes # <<>> /\ Len(nodes) \in DOMAIN nodes
    <3>1. nodes # <<>>
      BY <2>1 DEF Building
    <3> QED
      BY <3>1, <1>0 DEF TypeOK
  <2>n. nodes[Len(nodes)] \in JsonNode
    BY <2>2 DEF TypeOK
  <2>3. CASE List
    <3> DEFINE n == [nodes[Len(nodes)] EXCEPT !.listed = TRUE]
    <3>a. n \in JsonNode /\ n.listed
      BY <2>n DEF JsonNode
    <3>b. nodes' = [nodes EXCEPT ![Len(nodes)] = n]
      BY <2>3 DEF List, Newest
    <3> HIDE DEF n
    <3>1. nodes' \in Seq(JsonNode) /\ Len(nodes') = Len(nodes) /\ DOMAIN nodes' = DOMAIN nodes
      BY <2>2, <3>a, <3>b, NodeReplaced
    <3>2. /\ \A j \in DOMAIN nodes : j < Len(nodes) => nodes'[j] = nodes[j]
          /\ nodes'[Len(nodes)].listed
      BY <1>0, <2>2, <3>a, <3>b, NodeReplaced
    <3>3. request' = [request EXCEPT !.stage = "catch up"] /\ request'.stage = "catch up"
      BY <2>3, <2>1 DEF List
    <3>4. request' \in [stage : Stage \ {"none"}, by : open] /\ request' # Idle
      BY <3>3, <2>1 DEF Stage, Idle
    <3>5. TypeOK'
      BY <2>3, <1>0, <3>1, <3>2, <3>4 DEF List, TypeOK, Newest
    <3>6. Building'
      <4>1. nodes' # <<>>
        BY <1>0, <2>2, <3>1
      <4> QED
        BY <4>1, <3>1, <3>2 DEF Building, Newest
    <3> QED
      BY <3>5, <3>6
  <2>4. CASE CatchUp
    <3>1. request' = [request EXCEPT !.stage = "wire"] /\ UNCHANGED nodes
      BY <2>4 DEF CatchUp
    <3>2. request' \in [stage : Stage \ {"none"}, by : open] /\ request' # Idle
      BY <3>1, <2>1 DEF Stage, Idle
    <3>3. shown' \in [Client -> Value \union {NoValue}]
      <4>1. nodes[Newest].cached \in Value \union {NoValue}
        BY <2>n DEF JsonNode, Newest
      <4> QED
        BY <2>4, <4>1 DEF CatchUp, SendMsg, TypeOK
    <3>4. TypeOK'
      BY <2>4, <1>0, <3>1, <3>2, <3>3, <2>1 DEF CatchUp, TypeOK, Newest
    <3>5. Building'
      BY <2>4, <2>1, <2>2, <3>1 DEF CatchUp, Building, Newest
    <3> QED
      BY <3>4, <3>5
  <2>5. CASE Wire
    <3> DEFINE n == [nodes[Len(nodes)] EXCEPT !.wired = TRUE]
    <3>2. nodes[Len(nodes)].listed
      BY <2>5, <2>1 DEF Wire, Building, Newest
    <3>a. n \in JsonNode /\ n.listed /\ n.wired
      BY <2>n, <3>2 DEF JsonNode
    <3>b. nodes' = [nodes EXCEPT ![Len(nodes)] = n]
      BY <2>5 DEF Wire, Newest
    <3> HIDE DEF n
    <3>1. nodes' \in Seq(JsonNode) /\ Len(nodes') = Len(nodes) /\ DOMAIN nodes' = DOMAIN nodes
      BY <2>2, <3>a, <3>b, NodeReplaced
    <3>3. /\ \A j \in DOMAIN nodes : j < Len(nodes) => nodes'[j] = nodes[j]
          /\ nodes'[Len(nodes)].listed /\ nodes'[Len(nodes)].wired
      BY <1>0, <2>2, <3>a, <3>b, NodeReplaced
    <3>4. asked' \subseteq open
      BY <2>5, <2>1 DEF Wire, TypeOK
    <3>5. TypeOK'
      BY <2>5, <1>0, <2>1, <3>1, <3>3, <3>4 DEF Wire, TypeOK, Newest
    <3>6. Building'
      BY <2>5 DEF Wire, Building
    <3> QED
      BY <3>5, <3>6
  <2> QED
    BY <1>4, <2>3, <2>4, <2>5
<1>5. CASE Unsubscribe
  BY <1>5 DEF Unsubscribe, TypeOK, Building, Newest
<1>6. ASSUME NEW c \in Client, Connect(c)
      PROVE  TypeOK' /\ Building'
  BY <1>6 DEF Connect, TypeOK, Building, Newest
<1>7. ASSUME NEW c \in Client, Disconnect(c)
      PROVE  TypeOK' /\ Building'
  BY <1>7 DEF Disconnect, TypeOK, Building, Newest
<1>8. CASE UNCHANGED vars
  BY <1>8 DEF vars, TypeOK, Building, Newest
<1> QED
  BY <1>1, <1>2, <1>3, <1>4, <1>5, <1>6, <1>7, <1>8 DEF Next

(* What Deliver does while nothing overlaps: the next node of the loop is  *)
(* complete, takes the value and tells everybody.                          *)
LEMMA DeliverNext ==
    ASSUME TypeOK, InLoop, ~overlap, Deliver
    PROVE  /\ request = Idle
           /\ \E m \in DOMAIN nodes :
                /\ sending = m..Len(nodes)
                /\ nodes' = [nodes EXCEPT ![m].cached = current]
                /\ sending' = (m + 1)..Len(nodes)
           /\ shown' = [c \in Client |-> IF c \in open THEN current ELSE shown[c]]
<1>0. Len(nodes) \in Nat /\ DOMAIN nodes = 1..Len(nodes)
  BY DEF TypeOK
<1>1. sending # {} /\ request = Idle
  BY DEF Deliver, InLoop
<1>2. PICK m \in DOMAIN nodes : sending = m..Len(nodes)
  BY <1>1 DEF InLoop
<1>3. Min(sending) = m
  BY <1>0, <1>2, FirstOfInterval
<1>4. nodes[m].wired
  BY <1>1, <1>2 DEF TypeOK
<1>5. sending' = (m + 1)..Len(nodes)
  BY <1>0, <1>2, <1>3 DEF Deliver
<1>6. nodes' = [nodes EXCEPT ![m].cached = current] /\ SendMsg(current)
  BY <1>3, <1>4 DEF Deliver
<1> QED
  BY <1>1, <1>2, <1>5, <1>6 DEF SendMsg

LEMMA InLoopStep == TypeOK /\ Building /\ InLoop /\ [Next]_vars => InLoop'
<1> SUFFICES ASSUME TypeOK, Building, InLoop, [Next]_vars, ~overlap', sending' # {}
             PROVE  /\ request' = Idle
                    /\ \E m \in DOMAIN nodes' : sending' = m..Len(nodes')
  BY DEF InLoop
<1>0. Len(nodes) \in Nat /\ DOMAIN nodes = 1..Len(nodes)
  BY DEF TypeOK
<1>1. ASSUME NEW v \in Value, Send(v)
      PROVE  /\ request' = Idle
             /\ \E m \in DOMAIN nodes' : sending' = m..Len(nodes')
  <2>1. request = Idle
    BY <1>1 DEF Send
  <2>2. \A i \in DOMAIN nodes : nodes[i].listed
    BY <2>1 DEF TypeOK
  <2>3. sending' = 1..Len(nodes) /\ nodes' = nodes /\ request' = request
    BY <1>0, <1>1, <2>2 DEF Send
  <2> QED
    BY <1>0, <2>1, <2>3
<1>2. CASE Deliver
  <2>1. ~overlap /\ request' = request
    BY <1>2 DEF Deliver
  <2>2. Len(nodes') = Len(nodes) /\ DOMAIN nodes' = DOMAIN nodes
    BY <1>2, LengthKept
  <2>3. PICK m \in DOMAIN nodes : sending' = (m + 1)..Len(nodes)
    BY <1>2, <2>1, DeliverNext
  <2>4. m + 1 \in DOMAIN nodes
    BY <1>0, <2>3
  <2> QED
    BY <1>2, <2>1, <2>2, <2>3, <2>4, DeliverNext
<1>3. ASSUME NEW c \in Client, Subscribe(c)
      PROVE  FALSE
  BY <1>3 DEF Subscribe
<1>4. CASE List \/ CatchUp \/ Wire
  <2>1. ~overlap /\ sending # {}
    <3>1. CASE List
      BY <3>1 DEF List
    <3>2. CASE CatchUp
      BY <3>2 DEF CatchUp
    <3>3. CASE Wire
      BY <3>3 DEF Wire
    <3> QED
      BY <1>4, <3>1, <3>2, <3>3
  <2>2. request # Idle
    BY <1>4, UnderWay DEF List, CatchUp, Wire, Stage
  <2> QED
    BY <2>1, <2>2 DEF InLoop
<1>5. CASE Unsubscribe \/ \E c \in Client : Connect(c) \/ Disconnect(c)
  <2>1. UNCHANGED <<nodes, sending, request, overlap>>
    BY <1>5 DEF Unsubscribe, Connect, Disconnect
  <2> QED
    BY <2>1 DEF InLoop
<1>6. CASE UNCHANGED vars
  BY <1>6 DEF vars, InLoop
<1> QED
  BY <1>1, <1>2, <1>3, <1>4, <1>5, <1>6 DEF Next

(* While nothing overlaps, the loop begins with all the nodes there are.   *)
LEMMA SendToAll ==
    ASSUME TypeOK, NEW v \in Value, Send(v), ~overlap'
    PROVE  request = Idle /\ sending' = DOMAIN nodes
  BY DEF TypeOK, Send

LEMMA CachedStep ==
    TypeOK /\ InLoop /\ Cached /\ [Next]_vars => Cached'
<1> SUFFICES ASSUME TypeOK, InLoop, Cached, [Next]_vars, ~overlap',
                    NEW i \in DOMAIN nodes', i \notin sending'
             PROVE  nodes'[i].cached = current'
  BY DEF Cached
<1>0. Len(nodes) \in Nat /\ DOMAIN nodes = 1..Len(nodes)
  BY DEF TypeOK
<1>1. ASSUME NEW v \in Value, Send(v)
      PROVE  nodes'[i].cached = current'
  BY <1>1, SendToAll DEF Send
<1>2. CASE Deliver
  <2>1. ~overlap /\ current' = current
    BY <1>2 DEF Deliver
  <2>2. PICK m \in DOMAIN nodes :
            /\ sending = m..Len(nodes)
            /\ nodes' = [nodes EXCEPT ![m].cached = current]
            /\ sending' = (m + 1)..Len(nodes)
    BY <1>2, <2>1, DeliverNext
  <2>3. i \in DOMAIN nodes
    BY <1>2, LengthKept
  <2>4. CASE i = m
    <3>1. nodes[i] \in JsonNode
      BY <2>3 DEF TypeOK
    <3> QED
      BY <2>1, <2>2, <2>3, <2>4, <3>1 DEF JsonNode
  <2>5. CASE i # m
    <3>1. i \notin sending
      BY <1>0, <2>2, <2>3, <2>5
    <3> QED
      BY <2>1, <2>2, <2>3, <2>5, <3>1 DEF Cached
  <2> QED
    BY <2>4, <2>5
<1>3. ASSUME NEW c \in Client, Subscribe(c)
      PROVE  nodes'[i].cached = current'
  <2> DEFINE new == [cached |-> current, listed |-> FALSE, wired |-> FALSE]
  <2>1. ~overlap /\ current' = current /\ sending' = sending /\ nodes' = Append(nodes, new)
    BY <1>3 DEF Subscribe
  <2>2. new.cached = current
    OBVIOUS
  <2> HIDE DEF new
  <2>3. i = Len(nodes) + 1 \/ i \in DOMAIN nodes
    BY <1>0, <2>1 DEF TypeOK
  <2>4. i \in DOMAIN nodes => nodes'[i] = nodes[i]
    BY <1>0, <2>1 DEF TypeOK
  <2>5. nodes'[Len(nodes) + 1] = new
    BY <1>0, <2>1 DEF TypeOK
  <2> QED
    BY <2>1, <2>2, <2>3, <2>4, <2>5 DEF Cached
<1>4. CASE List \/ Wire
  <2>1. /\ ~overlap /\ current' = current /\ sending' = sending
        /\ i \in DOMAIN nodes => nodes'[i].cached = nodes[i].cached
    <3>1. CASE List
      <4>1. nodes' = [nodes EXCEPT ![Newest].listed = TRUE]
        BY <3>1 DEF List
      <4>2. i \in DOMAIN nodes => nodes'[i].cached = nodes[i].cached
        BY <4>1
      <4> QED
        BY <3>1, <4>2 DEF List
    <3>2. CASE Wire
      BY <3>2 DEF Wire
    <3> QED
      BY <1>4, <3>1, <3>2
  <2>2. i \in DOMAIN nodes
    BY <1>4, LengthKept
  <2> QED
    BY <2>1, <2>2 DEF Cached
<1>5. CASE CatchUp \/ Unsubscribe \/ \E c \in Client : Connect(c) \/ Disconnect(c)
  <2>1. UNCHANGED <<nodes, current, sending, overlap>>
    BY <1>5 DEF CatchUp, Unsubscribe, Connect, Disconnect
  <2> QED
    BY <2>1 DEF Cached
<1>6. CASE UNCHANGED vars
  BY <1>6 DEF vars, Cached
<1> QED
  BY <1>1, <1>2, <1>3, <1>4, <1>5, <1>6 DEF Next

LEMMA ViewsStep == IInv /\ [Next]_vars => Views'
<1> SUFFICES ASSUME IInv, [Next]_vars
             PROVE  Nothing' /\ Closed' /\ Between' /\ Closing'
  BY DEF Views
<1> USE DEF IInv, Views
<1>0. Len(nodes) \in Nat /\ DOMAIN nodes = 1..Len(nodes) /\ open \subseteq Client
  BY DEF TypeOK
<1>1. ASSUME NEW v \in Value, Send(v)
      PROVE  Nothing' /\ Closed' /\ Between' /\ Closing'
  <2>1. Nothing' /\ Closed'
    BY <1>1 DEF Send, Nothing, Closed
  <2>2. ASSUME ~overlap', sending' = {}
        PROVE  \A c \in open' : shown'[c] = NoValue /\ c \notin asked'
    <3>1. nodes = <<>>
      BY <1>0, <1>1, <2>2, SendToAll DEF TypeOK
    <3> QED
      BY <1>0, <1>1, <3>1 DEF Send, Nothing
  <2>3. ~overlap' => request'.stage = "none"
    <3>1. request' = request
      BY <1>1 DEF Send
    <3> QED
      BY <1>1, <3>1, SendToAll DEF Idle
  <2> QED
    BY <2>1, <2>2, <2>3 DEF Between, Closing
<1>2. CASE Deliver
  <2>1. UNCHANGED <<open, asked, request, current, overlap>> /\ sending # {}
    BY <1>2 DEF Deliver
  <2>2. nodes # <<>> /\ nodes' # <<>>
    BY <1>0, <1>2, <2>1, LengthKept DEF TypeOK
  <2>3. \A c \in Client \ open : shown'[c] = shown[c]
    BY <1>2 DEF Deliver, SendMsg, TypeOK
  <2>4. ~overlap => request = Idle /\ \A c \in open : shown'[c] = current
    BY <1>0, <1>2, DeliverNext
  <2> QED
    BY <2>1, <2>2, <2>3, <2>4 DEF Nothing, Closed, Between, Closing, Idle
<1>3. ASSUME NEW c \in Client, Subscribe(c)
      PROVE  Nothing' /\ Closed' /\ Between' /\ Closing'
  <2>1. UNCHANGED <<open, asked, shown, current, sending>>
    BY <1>3 DEF Subscribe
  <2>2. ~overlap' => ~overlap
    BY <1>3 DEF Subscribe
  <2>3. nodes' # <<>>
    BY <1>0, <1>3 DEF Subscribe, TypeOK
  <2>4. request'.stage = "list"
    BY <1>3 DEF Subscribe
  <2> QED
    BY <2>1, <2>2, <2>3, <2>4 DEF Nothing, Closed, Between, Closing
<1>4. CASE List
  <2>1. UNCHANGED <<open, asked, shown, current, sending, overlap>>
    BY <1>4 DEF List
  <2>2. request \in [stage : Stage \ {"none"}, by : open] /\ nodes # <<>>
    BY <1>4, UnderWay DEF List, Building
  <2>3. request'.stage = "catch up"
    BY <1>4, <2>2 DEF List
  <2>4. nodes' # <<>>
    BY <1>0, <1>4, <2>2, LengthKept DEF TypeOK
  <2> QED
    BY <2>1, <2>3, <2>4 DEF Nothing, Closed, Between, Closing
<1>5. CASE CatchUp
  <2>1. UNCHANGED <<open, asked, nodes, current, sending, overlap>>
    BY <1>5 DEF CatchUp
  <2>2. request # Idle /\ nodes # <<>> /\ Newest \in DOMAIN nodes
    <3>1. request # Idle /\ nodes # <<>>
      BY <1>5, UnderWay DEF CatchUp, Building
    <3> QED
      BY <1>0, <3>1 DEF Newest, TypeOK
  <2>3. \A c \in Client \ open : shown'[c] = shown[c]
    BY <1>5 DEF CatchUp, SendMsg, TypeOK
  <2>4. ASSUME ~overlap
        PROVE  sending = {} /\ \A c \in open : shown'[c] = current
    <3>1. sending = {}
      BY <2>2, <2>4 DEF InLoop
    <3>2. nodes[Newest].cached = current
      BY <2>2, <2>4, <3>1 DEF Cached
    <3>3. CASE current = NoValue
      BY <1>5, <2>4, <3>1, <3>2, <3>3 DEF CatchUp, Between
    <3>4. CASE current # NoValue
      <4>1. shown' = [d \in Client |-> IF d \in open THEN current ELSE shown[d]]
        BY <1>5, <3>2, <3>4 DEF CatchUp, SendMsg
      <4> QED
        BY <1>0, <3>1, <4>1
    <3> QED
      BY <3>1, <3>3, <3>4
  <2> QED
    BY <2>1, <2>2, <2>3, <2>4 DEF Nothing, Closed, Between, Closing
<1>6. CASE Wire
  <2>1. UNCHANGED <<open, shown, current, sending, overlap>>
    BY <1>6 DEF Wire
  <2>2. request # Idle /\ nodes # <<>> /\ request.stage = "wire"
    BY <1>6, UnderWay DEF Wire, Building
  <2>3. nodes' # <<>>
    BY <1>0, <1>6, <2>2, LengthKept DEF TypeOK
  <2>4. request'.stage = "none"
    BY <1>6 DEF Wire, Idle
  <2>5. ~overlap => \A c \in open : shown[c] = current
    BY <2>2 DEF Closing
  <2> QED
    BY <2>1, <2>3, <2>4, <2>5 DEF Nothing, Closed, Between, Closing
<1>7. CASE Unsubscribe
  BY <1>7 DEF Unsubscribe, Nothing, Closed, Between, Closing
<1>8. ASSUME NEW c \in Client, Connect(c)
      PROVE  Nothing' /\ Closed' /\ Between' /\ Closing'
  <2>1. /\ UNCHANGED <<asked, shown, current, sending, overlap, nodes, request>>
        /\ request = Idle /\ c \notin open /\ open' = open \union {c}
    BY <1>8 DEF Connect
  <2>2. shown[c] = NoValue /\ c \notin asked
    BY <2>1 DEF Closed, TypeOK
  <2>3. Nothing' /\ Closed' /\ Closing'
    BY <2>1 DEF Nothing, Closed, Closing, Idle
  <2>4. Between'
    BY <2>1, <2>2 DEF Between
  <2> QED
    BY <2>3, <2>4
<1>9. ASSUME NEW c \in Client, Disconnect(c)
      PROVE  Nothing' /\ Closed' /\ Between' /\ Closing'
  <2>1. /\ UNCHANGED <<current, sending, overlap, nodes, request>>
        /\ request = Idle /\ open' = open \ {c} /\ asked' = asked \ {c}
    BY <1>9 DEF Disconnect
  <2>2. \A d \in Client : shown'[d] = IF d = c THEN NoValue ELSE shown[d]
    BY <1>9 DEF Disconnect, TypeOK
  <2>3. Nothing' /\ Closed' /\ Closing'
    BY <2>1, <2>2 DEF Nothing, Closed, Closing, Idle
  <2>4. Between'
    BY <1>0, <2>1, <2>2 DEF Between
  <2> QED
    BY <2>3, <2>4
<1>10. CASE UNCHANGED vars
  BY <1>10 DEF vars, Nothing, Closed, Between, Closing
<1> QED
  BY <1>1, <1>2, <1>3, <1>4, <1>5, <1>6, <1>7, <1>8, <1>9, <1>10 DEF Next

LEMMA Invariance == Spec => []IInv
<1>1. IInv /\ [Next]_vars => IInv'
  BY TypeStep, InLoopStep, CachedStep, ViewsStep DEF IInv
<1> QED
  BY <1>1, InitIInv, PTL DEF Spec

(* Every state has values of the declared kinds, and only the newest node  *)
(* of the chain, while its request is handled, is incomplete.              *)
THEOREM SubscriptionsTypeCorrect == Spec => []TypeOK
<1>1. IInv => TypeOK
  BY DEF IInv
<1> QED
  BY <1>1, Invariance, PTL

(* In a quiet moment that no request overlapped, subscribers show what the *)
(* output holds and nobody shows anything else.                            *)
THEOREM UpToDate == Spec => []SubscriberUpToDate
<1>1. IInv => SubscriberUpToDate
  BY DEF IInv, Views, Between, SubscriberUpToDate, Quiet
<1> QED
  BY <1>1, Invariance, PTL
=============================================================================
