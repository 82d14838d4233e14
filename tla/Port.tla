-------------------------------- MODULE Port --------------------------------
(***************************************************************************)
(* The typed ports of the processing graph (include/processing/Port.hpp)   *)
(* and the enabling of the nodes that own them (ProcNodeBase.hpp).         *)
(*                                                                         *)
(* An output port keeps a vector of listeners and the last value it sent.  *)
(* connect() does not look whether the port is listed already, so a        *)
(* listener can be held, and served, several times; disconnect() removes   *)
(* all of its entries. The vector is modelled as a bag: how often each     *)
(* input is in it.                                                         *)
(*                                                                         *)
(* No lock guards a port. The main thread sends, connects, disconnects and *)
(* switches nodes; the thread of the WebUI server connects too             *)
(* (Middleware.cpp:237 and :306). The server's connect() is three steps,   *)
(* between which the main thread makes calls: the cached value is copied;  *)
(* the input is handed the copy and listed; the listeners are counted. (A  *)
(* call that falls between the handing and the listing changes what it     *)
(* would change before both.) Every call of the main thread is one step:   *)
(* where the server finds a send() half done, the new value is cached      *)
(* already, so it copies that.                                             *)
(*                                                                         *)
(* Left out is what is undefined behaviour of the build: one thread        *)
(* pushing to the vector while the other walks it, and both sending        *)
(* through one output at once, as they may when a client sets the          *)
(* parameters of a processing node (Middleware.cpp:338).                   *)
(***************************************************************************)
EXTENDS Naturals

CONSTANTS
    Out,            \* output ports
    In,             \* input ports
    Value,          \* data a port can send
    NoValue,        \* m_hasCachedData is false
    Type,           \* port -> its PortType
    Node,           \* the nodes that own the input ports
    Owner,          \* input port -> its node
    Displayed,      \* the input ports in their node's m_inputPorts
    MaxListeners    \* bound on the entries of one listener (the code has none)

ASSUME PortAssumption ==
    /\ Out \cap In = {}
    /\ NoValue \notin Value
    /\ Owner \in [In -> Node]
    /\ Displayed \subseteq In
    /\ MaxListeners \in Nat

VARIABLES
    listeners,  \* m_ports: how often each input is listed at each output
    cached,     \* m_cachedData, NoValue while m_hasCachedData is false
    enabled,    \* m_isEnabled of the input ports
    running,    \* what the owner was told: connection CB on, disconnection CB off
    taken,      \* the pair the server is connecting, not yet listed, with
    copy,       \*   the cached value it copied (NoValue if there was none)
    listed,     \* the pair it has listed, before it counts the listeners
    got,        \* history: the last value each receive callback had of each output
    behind,     \* history: <<o, i>> for which a value was dropped since then
    passed,     \* history: a send came since the copy was made
    missed,     \* history: <<o, i>> listed with such a copy and not served since
    crossed     \* history: outputs connected to while the server was about to count

vars == <<listeners, cached, enabled, running, taken, copy, listed,
          got, behind, passed, missed, crossed>>

Pair == Out \X In

Init ==
    /\ listeners = [p \in Pair |-> 0]
    /\ cached = [o \in Out |-> NoValue]
    /\ enabled = [i \in In |-> TRUE]
    /\ running = [o \in Out |-> FALSE]
    /\ taken = {} /\ copy = NoValue /\ passed = FALSE
    /\ listed = {}
    /\ got = [p \in Pair |-> NoValue]
    /\ behind = {}
    /\ missed = {}
    /\ crossed = {}

(* listenerCount() = 0: no entry in the vector of o. listenerCount() = 1:  *)
(* one entry of one input.                                                 *)
Idle(ls, o) == \A i \in In : ls[<<o, i>>] = 0

Sole(ls, o) ==
    \E i \in In : /\ ls[<<o, i>>] = 1
                 /\ \A j \in In \ {i} : ls[<<o, j>>] = 0

Listening(ls, o) == {p \in Pair : p[1] = o /\ ls[p] > 0}

AddedListener(ls, p) == [ls EXCEPT ![p] = @ + 1]

(* std::remove takes out every entry of the port, not only the one that    *)
(* find_if found.                                                          *)
AllRemoved(ls, p) == [q \in Pair |-> IF q[1] = p[1] THEN 0 ELSE ls[q]]
RemovedListener(ls, p) == [ls EXCEPT ![p] = 0]

(* InputPort::recieve of every pair in P: a disabled port returns at once  *)
(* and keeps nothing.                                                      *)
Recieve(P, v) ==
    LET heard == {p \in P : enabled[p[2]]}
    IN  /\ got' = [p \in Pair |-> IF p \in heard THEN v ELSE got[p]]
        /\ behind' = (behind \ heard) \cup (P \ heard)

(* The type test of connect() and disconnect().                            *)
AnyType(o, i) == TRUE
Compatible(o, i) == Type[o] = Type[i]

(* addListener(), first part: a late joiner is handed the value that is    *)
(* cached, if there is one, before it is listed.                           *)
NoCatchUp(p, v) == UNCHANGED <<got, behind>>
CatchUp(p, v) ==
    IF v = NoValue THEN UNCHANGED <<got, behind>> ELSE Recieve({p}, v)

(* connect() of the main thread: hand-over, listing, and the connection    *)
(* callback if the list has one entry then.                                *)
Connect(o, i) ==
    /\ Compatible(o, i)
    /\ listeners[<<o, i>>] < MaxListeners
    /\ CatchUp(<<o, i>>, cached[o])
    /\ missed' = IF cached[o] = NoValue THEN missed ELSE missed \ {<<o, i>>}
    /\ listeners' = AddedListener(listeners, <<o, i>>)
    /\ running' = [running EXCEPT ![o] = @ \/ Sole(listeners', o)]
    /\ crossed' = IF \E p \in listed : p[1] = o THEN crossed \cup {o} ELSE crossed
    /\ UNCHANGED <<cached, enabled, taken, copy, listed, passed>>

(* connect() of the server's thread, in its three steps. The server has    *)
(* one thread: it starts a call when it is through with the last.          *)
ServerConnect(o, i) ==
    /\ taken = {} /\ listed = {}
    /\ Compatible(o, i)
    /\ listeners[<<o, i>>] < MaxListeners
    /\ taken' = {<<o, i>>}
    /\ copy' = cached[o]
    /\ passed' = FALSE
    /\ UNCHANGED <<listeners, cached, enabled, running, listed,
                   got, behind, missed, crossed>>

ServerList(p) ==
    /\ p \in taken
    /\ CatchUp(p, copy)
    /\ missed' = IF passed THEN missed \cup {p}
                 ELSE IF copy = NoValue THEN missed ELSE missed \ {p}
    /\ listeners' = AddedListener(listeners, p)
    /\ taken' = {}
    /\ listed' = {p}
    /\ UNCHANGED <<cached, enabled, running, copy, passed, crossed>>

ServerCount(p) ==
    /\ p \in listed
    /\ running' = [running EXCEPT ![p[1]] = @ \/ Sole(listeners, p[1])]
    /\ listed' = {}
    /\ UNCHANGED <<listeners, cached, enabled, taken, copy,
                   got, behind, passed, missed, crossed>>

(* disconnect() and removeListener(): the last listener to go fires the    *)
(* disconnection callback.                                                 *)
DisconnectCountedFirst(o, i) ==
    /\ Compatible(o, i)
    /\ listeners[<<o, i>>] > 0
    /\ listeners' = RemovedListener(listeners, <<o, i>>)
    /\ LET gone == listeners[<<o, i>>] = 1 /\ Idle(listeners', o)
       IN  /\ running' = [running EXCEPT ![o] = @ /\ ~gone]
           /\ crossed' = IF gone THEN crossed \ {o} ELSE crossed
    /\ UNCHANGED <<cached, enabled, taken, copy, listed, got, behind, passed, missed>>
Disconnect(o, i) ==
    /\ Compatible(o, i)
    /\ listeners[<<o, i>>] > 0
    /\ listeners' = RemovedListener(listeners, <<o, i>>)
    /\ running' = [running EXCEPT ![o] = @ /\ ~Idle(listeners', o)]
    /\ crossed' = IF Idle(listeners', o) THEN crossed \ {o} ELSE crossed
    /\ UNCHANGED <<cached, enabled, taken, copy, listed, got, behind, passed, missed>>

(* send(): the value is cached, then delivered entry by entry; to a        *)
(* listener with several entries it comes several times.                   *)
Send(o, v) ==
    /\ cached' = [cached EXCEPT ![o] = v]
    /\ Recieve(Listening(listeners, o), v)
    /\ passed' = (passed \/ \E p \in taken : p[1] = o)
    /\ missed' = missed \ Listening(listeners, o)
    /\ UNCHANGED <<listeners, enabled, running, taken, copy, listed, crossed>>

(* ProcNodeBase::enable() and disable() reach the ports in m_inputPorts:   *)
(* a disabled node still sends, misses what is sent to those, and hears    *)
(* what reaches an input it created with display = false.                  *)
InputsOf(n) == {i \in Displayed : Owner[i] = n}

SetEnabled(n, b) == enabled' = [i \in In |-> IF i \in InputsOf(n) THEN b ELSE enabled[i]]

EnableNode(n) ==
    /\ SetEnabled(n, TRUE)
    /\ UNCHANGED <<listeners, cached, running, taken, copy, listed,
                   got, behind, passed, missed, crossed>>

DisableNode(n) ==
    /\ SetEnabled(n, FALSE)
    /\ UNCHANGED <<listeners, cached, running, taken, copy, listed,
                   got, behind, passed, missed, crossed>>

Next ==
    \/ \E o \in Out, i \in In :
          Connect(o, i) \/ Disconnect(o, i) \/ ServerConnect(o, i)
    \/ \E p \in Pair : ServerList(p) \/ ServerCount(p)
    \/ \E o \in Out, v \in Value : Send(o, v)
    \/ \E n \in Node : EnableNode(n) \/ DisableNode(n)

Spec == Init /\ [][Next]_vars

-----------------------------------------------------------------------------

TypeOK ==
    /\ listeners \in [Pair -> Nat]
    /\ \A p \in Pair : listeners[p] > 0 => Type[p[1]] = Type[p[2]]
    /\ cached \in [Out -> Value \cup {NoValue}]
    /\ enabled \in [In -> BOOLEAN]
    /\ running \in [Out -> BOOLEAN]
    /\ taken \subseteq Pair /\ listed \subseteq Pair
    /\ \A p \in taken : Type[p[1]] = Type[p[2]]
    /\ \A p, q \in taken \cup listed : p = q
    /\ taken = {} \/ listed = {}
    /\ copy \in Value \cup {NoValue} /\ passed \in BOOLEAN
    /\ got \in [Pair -> Value \cup {NoValue}]
    /\ behind \subseteq Pair /\ missed \subseteq Pair /\ crossed \subseteq Out

(* However connects of both threads, sends and the switching of nodes      *)
(* interleave, a listener holds the value its output holds, with two       *)
(* exceptions: its node was off when a value came and none has come since, *)
(* or the server's thread connected it, the first time or once more, and a *)
(* send fell between the reading of the cached value (Port.hpp:157-158)    *)
(* and the push_back (:159): then the input misses the new value, or is    *)
(* told the old one after it. The next value repairs both; there is no     *)
(* third way.                                                              *)
LateJoinerUpToDate ==
    \A p \in Pair :
        listeners[p] > 0 /\ p \notin behind \cup missed => got[p] = cached[p[1]]

(* What the owner of an output (a Kinect that captures only while someone  *)
(* listens) is told: it is never told of a listener when there is none,    *)
(* also when one input was connected twice and removed once; and a         *)
(* listener goes untold only while the server's thread is between listing  *)
(* it and counting, or because a connect of the main thread came just then *)
(* and both counted two (Port.hpp:99-101), until the last listener leaves. *)
CallbacksMatchListeners ==
    \A o \in Out :
        /\ running[o] => ~Idle(listeners, o)
        /\ ~Idle(listeners, o) =>
              running[o] \/ o \in crossed \/ \E p \in listed : p[1] = o

-----------------------------------------------------------------------------
(* The listener bags implement plain wires between ports.                  *)
W == INSTANCE Wiring WITH
        wires <- {p \in Pair : listeners[p] > 0},
        told <- taken,
        note <- copy,
        current <- cached,
        seen <- got,
        muted <- {i \in In : ~enabled[i]}

(* Connecting, disconnecting and sending with duplicated entries look to   *)
(* the nodes like the plugging of a wire: Port.hpp's lists implement       *)
(* Wiring, whichever of the two threads connects.                          *)
ImplementsWiring == W!Spec
=============================================================================
