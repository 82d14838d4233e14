---------------------------- MODULE TriggerList ----------------------------
(***************************************************************************)
(* The cue list of a performance (src/processing/TriggerListProcNode.cpp): *)
(* one output per cue, the index of the next cue, and inputs that fire it, *)
(* step the index or reset it. Ports are synchronous (module Port), so a   *)
(* cue that is wired to an input of its own list comes back into the node  *)
(* in the middle of fireTrigger(); the calls that have not returned are the*)
(* stack. All calls are made by the main thread.                           *)
(*                                                                         *)
(* Indexes count from 0. What the code leaves undefined ends the behaviour:*)
(* firing with the index behind the list, moving the last cue down.        *)
(***************************************************************************)
EXTENDS Naturals, Sequences, SequencesExt

CONSTANTS
    Cue,        \* outputs
    MaxDepth,   \* bound on the calls of fireTrigger() inside each other
    MaxWires,   \* bound on the connections of cues to inputs of the list
    MaxStray    \* bound on steps behind the list (the code has none)

ASSUME TriggerListAssumption ==
    MaxDepth \in Nat \ {0} /\ MaxWires \in Nat /\ MaxStray \in Nat

VARIABLES
    list,       \* m_outputPorts
    next,       \* m_nextTrigger
    latch,      \* m_isTriggering
    held,       \* per output what it has cached: "none", "on" or "off"
    wires,      \* per output the listed inputs, each once per connect()
    plugging,   \* <<cue, input>> that connect() is about to list
    stack,      \* calls of fireTrigger() that have not returned
    strayed     \* history: how the index came to be behind the list

vars == <<list, next, latch, held, wires, plugging, stack, strayed>>

Input == {"fire", "up", "down", "reset"}
Size == Len(list)
Wired == MapThenSumSet(LAMBDA c : Len(wires[c]), Cue)

(* A call: the cue and its index, whether the fire input made it, what is  *)
(* being sent and how many of the cue's connections it has gone to.        *)
Call == [cue : Cue, at : Nat, byInput : BOOLEAN, value : {"on", "off"}, served : Nat]

Init ==
    /\ list = <<>> /\ next = 0 /\ latch = FALSE
    /\ held = [c \in Cue |-> "none"]
    /\ wires = [c \in Cue |-> <<>>] /\ plugging = {} /\ stack = <<>>
    /\ strayed = {}

-----------------------------------------------------------------------------
(* The index.                                                              *)

Up(n) == IF n = 0 THEN 0 ELSE n - 1

(* size() - 1 is unsigned: nothing bounds the index of an empty list.      *)
Down(n) == IF list = <<>> \/ n + 1 < Size THEN n + 1 ELSE Size - 1

Reset(n) == IF list = <<>> THEN n ELSE 0

Noted(n, why) == strayed' = IF n < Len(list') THEN {} ELSE strayed \union why

Goto(n, why) ==
    /\ n <= Size + MaxStray
    /\ next' = n
    /\ Noted(n, why)

(* fireTrigger() begins: the cue's output is sent true.                    *)
Began(byInput) ==
    [cue |-> list[next + 1], at |-> next, byInput |-> byInput, value |-> "on",
     served |-> 0]

Fire(byInput, calls) ==
    /\ next < Size /\ Len(calls) < MaxDepth
    /\ stack' = Append(calls, Began(byInput))
    /\ held' = [held EXCEPT ![list[next + 1]] = "on"]
    /\ UNCHANGED <<next, latch, strayed>>

(* What input i does with a value, while calls are still to be finished.   *)
Hear(i, value, calls) ==
    IF i = "fire" /\ value = "on" /\ ~latch THEN Fire(TRUE, calls)
    ELSE /\ stack' = calls
         /\ latch' = (latch /\ ~(i = "fire" /\ value = "off"))
         /\ IF i = "fire" \/ value = "off" THEN UNCHANGED <<next, strayed>>
            ELSE \/ i = "up" /\ Goto(Up(next), {})
                 \/ i = "down" /\ Goto(Down(next), {"stepped while empty"})
                 \/ i = "reset" /\ Goto(Reset(next), {})
         /\ UNCHANGED held

-----------------------------------------------------------------------------
(* The call on top of the stack.                                           *)

Top == Last(stack)
Below == Front(stack)

(* send() is in the middle of the listed inputs, or has gone to all.       *)
ToServe == stack # <<>> /\ Top.served < Len(wires[Top.cue])
Served == stack # <<>> /\ Top.served >= Len(wires[Top.cue])

ServeFromStart ==
    /\ UNCHANGED <<list, wires, plugging>>
    /\ ToServe
    /\ Hear(wires[Top.cue][Top.served + 1], Top.value, stack)

(* send() goes to the inputs in the order in which they were connected, to *)
(* one that was connected twice it goes twice.                             *)
Serve ==
    /\ UNCHANGED <<list, wires, plugging>>
    /\ ToServe
    /\ Hear(wires[Top.cue][Top.served + 1], Top.value,
            Append(Below, [Top EXCEPT !.served = @ + 1]))

(* The index, not the cue, is what fireTrigger() compares.                 *)
IsLast == next = Size - 1

(* Only now is it looked whether the cue is the last, and if so it is sent *)
(* false ...                                                               *)
Fall ==
    /\ Served /\ Top.value = "on" /\ IsLast
    /\ stack' = Append(Below, [Top EXCEPT !.value = "off", !.served = 0])
    /\ held' = [held EXCEPT ![Top.cue] = "off"]
    /\ UNCHANGED <<list, next, latch, wires, plugging, strayed>>

(* ... then the index steps down; the fire input's callback latches after. *)
ReturnFromIndex ==
    /\ UNCHANGED <<list, held, wires, plugging>>
    /\ Served /\ (Top.value = "on" => ~IsLast)
    /\ Goto(Down(Top.at), {})
    /\ latch' = (latch \/ Top.byInput)
    /\ stack' = Below

Return ==
    /\ UNCHANGED <<list, held, wires, plugging>>
    /\ Served /\ (Top.value = "on" => ~IsLast)
    /\ Goto(Down(next), {})
    /\ latch' = (latch \/ Top.byInput)
    /\ stack' = Below

-----------------------------------------------------------------------------
(* The user, and the nodes wired to the inputs from outside.               *)

Idle == stack = <<>> /\ plugging = {}

Button ==
    /\ UNCHANGED <<list, wires, plugging>>
    /\ Idle
    /\ Fire(FALSE, <<>>)

FromOutside ==
    /\ UNCHANGED <<list, wires, plugging>>
    /\ Idle
    /\ \E i \in Input, value \in {"on", "off"} : Hear(i, value, <<>>)

Arm ==
    /\ UNCHANGED <<list, latch, held, wires, plugging, stack>>
    /\ Idle
    /\ \E i \in 0..(Size - 1) : Goto(i, {})

AddAgain ==
    /\ Idle
    /\ \E c \in Cue, i \in 1..(Size + 1) : list' = InsertAt(list, i, c)
    /\ Noted(next, {})
    /\ UNCHANGED <<next, latch, held, wires, plugging, stack>>

(* addTrigger(): the index stays, whatever it points to now.               *)
AddTrigger ==
    /\ Idle
    /\ \E c \in Cue \ ToSet(list), i \in 1..(Size + 1) : list' = InsertAt(list, i, c)
    /\ Noted(next, {})
    /\ UNCHANGED <<next, latch, held, wires, plugging, stack>>

NotClamped ==
    /\ Idle
    /\ \E i \in 1..Size :
        /\ list' = RemoveAt(list, i)
        /\ next' = next
        /\ Noted(next', {"removed"})
        /\ held' = [held EXCEPT ![list[i]] = "none"]
        /\ wires' = [wires EXCEPT ![list[i]] = <<>>]
    /\ UNCHANGED <<latch, plugging, stack>>

(* removeTrigger() clamps the index to size(), one too far.                *)
RemoveTrigger ==
    /\ Idle
    /\ \E i \in 1..Size :
        /\ list' = RemoveAt(list, i)
        /\ next' = IF next > Len(list') THEN Len(list') ELSE next
        /\ Noted(next', {"removed"})
        /\ held' = [held EXCEPT ![list[i]] = "none"]
        /\ wires' = [wires EXCEPT ![list[i]] = <<>>]
    /\ UNCHANGED <<latch, plugging, stack>>

(* moveTriggerUp(), moveTriggerDown(): neighbours change places.           *)
MoveTrigger ==
    /\ Idle
    /\ \E i \in 1..(Size - 1) :
        list' = [list EXCEPT ![i] = list[i + 1], ![i + 1] = list[i]]
    /\ UNCHANGED <<next, latch, held, wires, plugging, stack, strayed>>

(* Port::connect() hands the input what the output has cached ...          *)
Plug ==
    /\ UNCHANGED <<list, wires>>
    /\ Idle /\ Wired < MaxWires
    /\ \E c \in ToSet(list), i \in Input :
        /\ plugging' = {<<c, i>>}
        /\ IF held[c] = "none" THEN UNCHANGED <<next, latch, held, stack, strayed>>
                               ELSE Hear(i, held[c], <<>>)

(* ... and lists it when all that came of this has returned, also if it is *)
(* listed already: the node editor makes a second link of the same ports.  *)
Plugged ==
    /\ stack = <<>>
    /\ \E p \in plugging : wires' = [wires EXCEPT ![p[1]] = Append(@, p[2])]
    /\ plugging' = {}
    /\ UNCHANGED <<list, next, latch, held, stack, strayed>>

(* The sequence s without any entry of i: erase(remove()).                 *)
Without(s, i) ==
    LET kept[k \in 0..Len(s)] ==
            IF k = 0 THEN <<>>
            ELSE IF s[k] = i THEN kept[k - 1] ELSE Append(kept[k - 1], s[k])
    IN kept[Len(s)]

Unplug ==
    /\ Idle
    /\ \E c \in Cue, i \in Input :
        /\ i \in ToSet(wires[c])
        /\ wires' = [wires EXCEPT ![c] = Without(@, i)]
    /\ UNCHANGED <<list, next, latch, held, plugging, stack, strayed>>

Next ==
    \/ Serve \/ Fall \/ Return
    \/ Button \/ FromOutside \/ Arm
    \/ AddTrigger \/ RemoveTrigger \/ MoveTrigger
    \/ Plug \/ Plugged \/ Unplug

Spec == Init /\ [][Next]_vars

(* A call runs on until it returns.                                        *)
FairSpec == Spec /\ WF_vars(Serve \/ Fall \/ Return)

-----------------------------------------------------------------------------
(* Cues are distinct; only listed cues have sent anything or are wired.    *)
TypeOK ==
    /\ list \in Seq(Cue) /\ IsInjective(list)
    /\ next \in Nat /\ latch \in BOOLEAN
    /\ held \in [Cue -> {"none", "on", "off"}]
    /\ stack \in Seq(Call)
    /\ wires \in [Cue -> Seq(Input)] /\ plugging \subseteq ToSet(list) \X Input
    /\ \A c \in Cue \ ToSet(list) : held[c] = "none" /\ wires[c] = <<>>
    /\ strayed \subseteq {"removed", "stepped while empty"}

(* The next cue exists, so that firing is defined, unless a cue was removed*)
(* while the last one was next (removeTrigger() clamps to one too far, and *)
(* no further) or the list was stepped through while it was empty: no order*)
(* of steps, fires, edits and wires comes to a third way.                  *)
NextCueExists ==
    \/ list = <<>>
    \/ next < Size
    \/ next = Size /\ strayed = {"removed"}
    \/ "stepped while empty" \in strayed

(* What a stepping input makes of an index, and where the index is when    *)
(* cue c, fired at an index, has been heard by its first k inputs.         *)
Steps(i, n) ==
    CASE i = "up" -> Up(n) [] i = "down" -> Down(n) [] i = "reset" -> Reset(n)
      [] OTHER -> n

Heard(c, at) ==
    LET index[k \in 0..Len(wires[c])] ==
            IF k = 0 THEN at ELSE Steps(wires[c][k], index[k - 1])
    IN index

(* The inputs are heard inside the call, in the order in which they were   *)
(* connected and as often, and the step of the call comes on top: a last   *)
(* cue that is wired to "reset" to start over arms the second cue, one     *)
(* that is wired to "step down" skips a cue, connected twice it skips two, *)
(* and one wired to "step up" repeats itself, except the first, which      *)
(* cannot. (A cue wired to "fire" has other calls in between.)             *)
StepsComeOnTop ==
    [][Return /\ "fire" \notin ToSet(wires[Top.cue]) =>
        next' = Down(Heard(Top.cue, Top.at)[Len(wires[Top.cue])])]_vars

(* Firing a cue comes to an end, whatever it steps on its way, unless some *)
(* cue is wired to "fire": the latch that would stop it is set too late.   *)
FiringReturns ==
    stack # <<>> ~> (stack = <<>> \/ \E c \in Cue : "fire" \in ToSet(wires[c]))
=============================================================================
