------------------------------- MODULE Wiring -------------------------------
(***************************************************************************)
(* What the ports of the processing graph promise to the nodes that use    *)
(* them, without saying how: an output port is wired to a set of input     *)
(* ports, every value it publishes reaches each of them that is not muted, *)
(* and an input that is plugged in late is told the current value first.   *)
(* Plugging is one step, or two: noting the value, then telling it and     *)
(* putting in the wire, whatever was published between them.               *)
(* Port.tla shows that the listener lists of include/processing/Port.hpp,  *)
(* which may hold one listener several times, implement this.              *)
(***************************************************************************)
CONSTANTS
    Out,        \* output ports
    In,         \* input ports
    Value,      \* what a port can publish
    NoValue     \* nothing has been published yet

VARIABLES
    wires,      \* which outputs are plugged into which inputs
    told,       \* the plug that is to be told a value and put in
    note,       \* that value
    current,    \* the last value each output has published
    seen,       \* the last value each input has been handed by each output
    muted,      \* inputs that drop what reaches them
    behind      \* wires on which a value was dropped since the last hand-over

wvars == <<wires, told, note, current, seen, muted, behind>>

Init ==
    /\ wires = {}
    /\ told = {}
    /\ note = NoValue
    /\ current = [o \in Out |-> NoValue]
    /\ seen = [w \in Out \X In |-> NoValue]
    /\ muted = {}
    /\ behind = {}

(* The wires of W that carry v to an input that listens, and those on      *)
(* which it is lost.                                                       *)
Heard(W) == {w \in W : w[2] \notin muted}

HandOver(W, v) ==
    /\ seen' = [w \in Out \X In |-> IF w \in Heard(W) THEN v ELSE seen[w]]
    /\ behind' = (behind \ Heard(W)) \cup (W \ Heard(W))

(* A late joiner is told the current value, if there is one.               *)
Tell(w, v) == IF v = NoValue THEN UNCHANGED <<seen, behind>> ELSE HandOver({w}, v)

Plug(o, i) ==
    /\ wires' = wires \cup {<<o, i>>}
    /\ Tell(<<o, i>>, current[o])
    /\ UNCHANGED <<told, note, current, muted>>

TakeNote(o, i) ==
    /\ told = {}
    /\ told' = {<<o, i>>}
    /\ note' = current[o]
    /\ UNCHANGED <<wires, current, seen, muted, behind>>

PutIn(w) ==
    /\ w \in told
    /\ wires' = wires \cup {w}
    /\ Tell(w, note)
    /\ told' = {}
    /\ UNCHANGED <<note, current, muted>>

Unplug(o, i) ==
    /\ wires' = wires \ {<<o, i>>}
    /\ UNCHANGED <<told, note, current, seen, muted, behind>>

Publish(o, v) ==
    /\ current' = [current EXCEPT ![o] = v]
    /\ HandOver({w \in wires : w[1] = o}, v)
    /\ UNCHANGED <<wires, told, note, muted>>

Mute(I) ==
    /\ muted' = muted \cup I
    /\ UNCHANGED <<wires, told, note, current, seen, behind>>

Unmute(I) ==
    /\ muted' = muted \ I
    /\ UNCHANGED <<wires, told, note, current, seen, behind>>

Next ==
    \/ \E o \in Out, i \in In : Plug(o, i) \/ TakeNote(o, i) \/ Unplug(o, i)
    \/ \E w \in Out \X In : PutIn(w)
    \/ \E o \in Out, v \in Value : Publish(o, v)
    \/ \E I \in SUBSET In : Mute(I) \/ Unmute(I)

Spec == Init /\ [][Next]_wvars
=============================================================================
