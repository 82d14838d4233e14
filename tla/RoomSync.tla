------------------------------ MODULE RoomSync ------------------------------
(***************************************************************************)
(* What the web clients show of the room, and what the room is: nodes are  *)
(* shared pointers that their manager lists and that the stage (selection),*)
(* the room module (mouse) and process nodes (the device they drive) may   *)
(* also hold; constructors, setters, echoes and destructors publish to     *)
(* every open connection of the secure WebUI server. Two threads do so     *)
(* without a lock: the main thread (GUI, load, save) and the server's      *)
(* thread (messages, connections).                                         *)
(*                                                                         *)
(* A handler changes the room and builds its messages in one step; sending *)
(* is a step of its own, for all clients at once. A message is a patch: the*)
(* nodes it is about and what a client then shows of them, their position; *)
(* what a constructor publishes (CREATE, then an update per setter) is one *)
(* patch. Nothing reads a client's view, so it is the view of a client that*)
(* has taken all it was sent.                                              *)
(***************************************************************************)
EXTENDS Functions, Sequences

CONSTANTS
    Object,     \* the node objects of one session; each is born once
    Chosen,     \* the UID clients give to the node they create
    Position,   \* positions
    Home,       \* the position a constructor takes by default
    Client,     \* browsers
    ProcNode,   \* process nodes that can hold a room node
    Absent,     \* shown: the node is not there
    Nobody      \* no node is selected, under the mouse or with a process node

ASSUME RoomSyncAssumption ==
    /\ Home \in Position
    /\ Absent \notin Position
    /\ Chosen \notin Object
    /\ Nobody \notin Object

VARIABLES
    born,       \* objects constructed so far
    uid,        \* UniqueIDBase: an object stands for its own random UID
    pos,        \* m_position
    fixed,      \* m_isFixed
    listed,     \* m_nodes of the managers
    selected,   \* Stage::m_selectedNode
    hovered,    \* RoomModule::m_node
    kept,       \* m_positionRoomNode, m_movingHead, ... of the process nodes
    open,       \* clients with a connection
    out,        \* per thread: messages built and not yet sent
    view,       \* per client and UID: what it shows
    suspect     \* history: UIDs of which a client may be wrong (see Tell)

holders == <<selected, hovered, kept>>
vars == <<born, uid, pos, fixed, listed, holders, open, out, view, suspect>>

Uid == Object \union {Chosen}
Thread == {"main", "server"}
Other(t) == IF t = "main" THEN "server" ELSE "main"
Shown == Position \union {Absent}

(* A node lives as long as somebody holds it.                              *)
Held == ({selected, hovered} \union Range(kept)) \ {Nobody}
Alive == listed \union Held

Twins == {uid[o] : o \in {p \in Alive : \E q \in Alive \ {p} : uid[q] = uid[p]}}

Listed(u) == {o \in listed : uid[o] = u}

(* A message about one node, and what is known with a message or the nodes *)
(* of a file before what was known.                                        *)
Only(u, v) == [w \in {u} |-> v]
Over(f, g) == [x \in DOMAIN g |-> IF x \in DOMAIN f THEN f[x] ELSE g[x]]

(* getFullDescription(): what the managers list; of twins a client keeps   *)
(* the one that comes last, whichever that is.                             *)
Snapshots ==
    {f \in [Uid -> Shown] : \A u \in Uid :
        f[u] \in IF Listed(u) = {} THEN {Absent} ELSE {pos[o] : o \in Listed(u)}}

NoDeletes == <<>>

(* ~RoomNodeBase() of those that nobody holds any more.                    *)
Deletes ==
    LET gone == {uid[o] : o \in Alive \ Alive'}
    IN  IF gone = {} THEN <<>> ELSE <<[u \in gone |-> Absent]>>

About(messages) == UNION {DOMAIN messages[i] : i \in DOMAIN messages}

(* The messages of a handler of thread t, and what they make suspect: a    *)
(* node that the other thread has a message about too (they may be sent in *)
(* either order), one whose UID two objects have, and those in extra.      *)
Tell(t, messages, extra) ==
    /\ out[t] = <<>>
    /\ out' = [out EXCEPT ![t] = messages]
    /\ suspect' = suspect \union extra \union Twins'
                    \union (About(messages) \cap About(out[Other(t)]))

(* A full description sets right whatever was wrong before.                *)
Describe ==
    /\ out["server"] = <<>>
    /\ \E f \in Snapshots : out' = [out EXCEPT !["server"] = <<f>>]
    /\ suspect' = Twins \union About(out["main"])

(* The nodes of a description: constructed under random UIDs at their      *)
(* places, then fromJson() renames them and echoes the description.        *)
Created(place, name) ==
    IF place = <<>> THEN <<>>
    ELSE <<place, [u \in Range(name) |-> place[AntiFunction(name)[u]]]>>

Init ==
    /\ born = {} /\ listed = {} /\ open = {} /\ suspect = {}
    /\ uid = [o \in Object |-> o]
    /\ pos = [o \in Object |-> Home]
    /\ fixed = [o \in Object |-> FALSE]
    /\ selected = Nobody /\ hovered = Nobody /\ kept = [n \in ProcNode |-> Nobody]
    /\ out = [t \in Thread |-> <<>>]
    /\ view = [c \in Client |-> [u \in Uid |-> Absent]]

-----------------------------------------------------------------------------
(* The main thread.                                                        *)

(* "add Device": the manager lists the new node, the stage selects it.     *)
AddDevice ==
    \E o \in Object \ born :
        /\ born' = born \union {o}
        /\ listed' = listed \union {o}
        /\ selected' = o
        /\ UNCHANGED <<uid, pos, fixed, hovered, kept, open, view>>
        /\ Tell("main", <<Only(o, Home)>> \o Deletes, {})

(* The mouse moves over a node that is listed, or over none.               *)
Hover ==
    /\ hovered' \in (listed \union {Nobody}) \ {hovered}
    /\ UNCHANGED <<born, uid, pos, fixed, listed, selected, kept, open, view>>
    /\ Tell("main", Deletes, {})

(* onMouseUp(): setSelectedNode() ignores a null pointer.                  *)
Select ==
    /\ hovered # Nobody /\ hovered # selected
    /\ selected' = hovered
    /\ UNCHANGED <<born, uid, pos, fixed, listed, hovered, kept, open, view>>
    /\ Tell("main", Deletes, {})

(* setPosition(): nothing happens to a fixed node.                         *)
SetPosition(o, p) ==
    /\ ~fixed[o]
    /\ pos' = [pos EXCEPT ![o] = p]
    /\ Tell("main", <<Only(uid[o], p)>>, {})

(* The slider of the settings has assigned m_position before setPosition() *)
(* sees that the node is fixed.                                            *)
SlideFixed(o, p) ==
    /\ fixed[o]
    /\ pos' = [pos EXCEPT ![o] = p]
    /\ Tell("main", <<>>, {uid[o]})

(* onMouseDrag() moves the node under the mouse, drawSettings() the        *)
(* selected one, the draw() of a process node (PositionProcNode) its own.  *)
Move ==
    /\ UNCHANGED <<born, uid, fixed, listed, holders, open, view>>
    /\ \E p \in Position :
        \/ hovered # Nobody /\ SetPosition(hovered, p)
        \/ selected # Nobody /\ (SetPosition(selected, p) \/ SlideFixed(selected, p))
        \/ \E n \in ProcNode : kept[n] # Nobody /\ SetPosition(kept[n], p)

(* The "fixed" checkbox: nothing is published.                             *)
ToggleFixed ==
    /\ selected # Nobody
    /\ fixed' = [fixed EXCEPT ![selected] = ~@]
    /\ UNCHANGED <<born, uid, pos, listed, holders, open, view>>
    /\ Tell("main", <<>>, {})

(* "remove": every node listed with the UID of the selected one.           *)
Remove ==
    /\ selected # Nobody
    /\ listed' = listed \ Listed(uid[selected])
    /\ selected' = Nobody /\ hovered' = Nobody
    /\ UNCHANGED <<born, uid, pos, fixed, kept, open, view>>
    /\ Tell("main", Deletes, {})

(* Stage::clear(): what the managers still list.                           *)
Cleared == {}

(* load(): the stage is cleared, but not the selection nor the mouse's     *)
(* node nor those of process nodes; each node of the file, which any       *)
(* session may have saved (with twins, if it had any), is constructed at   *)
(* its place and takes its UID from the file.                              *)
Load ==
    \E new \in SUBSET (Object \ born) :
    \E name \in [new -> born \union {Chosen}],
       place \in [new -> Position], flag \in [new -> BOOLEAN] :
        /\ born' = born \union new
        /\ listed' = Cleared \union new
        /\ uid' = Over(name, uid)
        /\ pos' = Over(place, pos)
        /\ fixed' = Over(flag, fixed)
        /\ UNCHANGED <<holders, open, view>>
        /\ Tell("main", Deletes \o Created(place, name), new)

-----------------------------------------------------------------------------
(* The process nodes, drawn by the main thread and created, set and deleted*)
(* at a client's request by the server's.                                  *)

Runs(t) == t = "server" => open # {}

(* A combo box or fromParams() chooses a listed node; the process node is  *)
(* deleted.                                                                *)
Hold(t, n) ==
    /\ Runs(t)
    /\ \E o \in (listed \union {Nobody}) \ {kept[n]} : kept' = [kept EXCEPT ![n] = o]
    /\ UNCHANGED <<born, uid, pos, fixed, listed, selected, hovered, open, view>>
    /\ Tell(t, Deletes, {})

(* PositionProcNode: fromParams() has the manager remove the node that     *)
(* there was and takes the listed one with the UID in the patch, or adds a *)
(* new one if there is none; setup() adds the first.                       *)
Renounced(n) == IF kept[n] = Nobody THEN {} ELSE Listed(uid[kept[n]])

TakePosition(t, n) ==
    /\ Runs(t) /\ kept[n] # Nobody
    /\ listed' = listed \ Renounced(n)
    /\ \E o \in listed' : kept' = [kept EXCEPT ![n] = o]
    /\ UNCHANGED <<born, uid, pos, fixed, selected, hovered, open, view>>
    /\ Tell(t, Deletes, {})

AddPosition(t, n) ==
    /\ Runs(t)
    /\ \E o \in Object \ born :
        /\ born' = born \union {o}
        /\ listed' = (listed \ Renounced(n)) \union {o}
        /\ kept' = [kept EXCEPT ![n] = o]
        /\ UNCHANGED <<uid, pos, fixed, selected, hovered, open, view>>
        /\ Tell(t, Deletes \o <<Only(o, Home)>>, {})

-----------------------------------------------------------------------------
(* The server's thread.                                                    *)

(* on_open: the description goes to every client, not to the new one only. *)
Connect ==
    /\ \E c \in Client \ open : open' = open \union {c}
    /\ UNCHANGED <<born, uid, pos, fixed, listed, holders, view>>
    /\ Describe

(* A client asks for the description.                                      *)
Request ==
    /\ open # {}
    /\ UNCHANGED <<born, uid, pos, fixed, listed, holders, open, view>>
    /\ Describe

Disconnect ==
    \E c \in open :
        /\ open' = open \ {c}
        /\ view' = [view EXCEPT ![c] = [u \in Uid |-> Absent]]
        /\ UNCHANGED <<born, uid, pos, fixed, listed, holders>>
        /\ Tell("server", <<>>, {})

(* Where a client's position takes a node: nowhere if it is fixed, to what *)
(* the filter makes of it if the message or the node says "isSmoothing".   *)
Taken(o, p, smoothing) ==
    IF fixed[o] THEN {pos[o]} ELSE IF smoothing THEN Position ELSE {p}

(* createRoomNode(): the manager constructs the node at Home, fromJson()   *)
(* gives it UID, position and flag, even a UID that is listed already; the *)
(* random UID nobody takes back. A message without a UID leaves the random *)
(* one: then the node is moved, and the echo does not say which it was.    *)
CreateRoomNode ==
    /\ open # {}
    /\ \E o \in Object \ born, p \in Position, f, s \in BOOLEAN :
       \E q \in Taken(o, p, s) :
        /\ born' = born \union {o}
        /\ listed' = listed \union {o}
        /\ pos' = [pos EXCEPT ![o] = q]
        /\ fixed' = [fixed EXCEPT ![o] = f]
        /\ UNCHANGED <<holders, open, view>>
        /\ \/ /\ uid' = [uid EXCEPT ![o] = Chosen]
              /\ Tell("server", <<Only(o, Home), Only(Chosen, p)>>,
                      {o} \union (IF q = p THEN {} ELSE {Chosen}))
           \/ /\ UNCHANGED uid
              /\ Tell("server", <<Only(o, Home)>>, IF q = Home THEN {} ELSE {o})

FixFirst(o, p, f, s) ==
    \E q \in IF f THEN {pos[o]} ELSE Taken(o, p, s) :
        /\ pos' = [pos EXCEPT ![o] = q]
        /\ fixed' = [fixed EXCEPT ![o] = f]
        /\ Tell("server", <<Only(uid[o], p)>>,
                IF \A r \in Taken(o, p, s) : r = p THEN {} ELSE {uid[o]})

(* fromJson() of an update: the flag is taken after the position; the echo *)
(* to all clients is the message as it came.                               *)
FromJson(o, p, f, s) ==
    \E q \in Taken(o, p, s) :
        /\ pos' = [pos EXCEPT ![o] = q]
        /\ fixed' = [fixed EXCEPT ![o] = f]
        /\ Tell("server", <<Only(uid[o], p)>>, IF q = p THEN {} ELSE {uid[o]})

(* An update of a UID that is not listed is answered to nobody.            *)
UpdateRoomNode ==
    /\ open # {}
    /\ UNCHANGED <<born, uid, listed, holders, open, view>>
    /\ \E o \in listed, p \in Position, f, s \in BOOLEAN : FromJson(o, p, f, s)

(* deleteRoomNode() takes the node from the managers only.                 *)
DeleteRoomNode ==
    /\ open # {}
    /\ \E o \in listed : listed' = listed \ Listed(uid[o])
    /\ UNCHANGED <<born, uid, pos, fixed, holders, open, view>>
    /\ Tell("server", Deletes, {})

-----------------------------------------------------------------------------
(* A message goes to those who are connected when it is sent.              *)
SendToAll(t) ==
    /\ out[t] # <<>>
    /\ view' = [c \in Client |-> Over(Head(out[t]), view[c])]
    /\ out' = [out EXCEPT ![t] = Tail(@)]
    /\ UNCHANGED <<born, uid, pos, fixed, listed, holders, open, suspect>>

Send(t) ==
    /\ out[t] # <<>>
    /\ view' = [c \in Client |-> IF c \in open THEN Over(Head(out[t]), view[c])
                                 ELSE view[c]]
    /\ out' = [out EXCEPT ![t] = Tail(@)]
    /\ UNCHANGED <<born, uid, pos, fixed, listed, holders, open, suspect>>

Next ==
    \/ AddDevice \/ Hover \/ Select \/ Move \/ ToggleFixed \/ Remove
    \/ Load
    \/ \E t \in Thread, n \in ProcNode : Hold(t, n) \/ TakePosition(t, n) \/ AddPosition(t, n)
    \/ Connect \/ Request \/ Disconnect
    \/ CreateRoomNode \/ UpdateRoomNode \/ DeleteRoomNode
    \/ \E t \in Thread : Send(t)

Spec == Init /\ [][Next]_vars

-----------------------------------------------------------------------------
Patch == UNION {[S -> Shown] : S \in SUBSET Uid}

(* A node is held only after it was constructed; a client without a        *)
(* connection shows nothing.                                               *)
TypeOK ==
    /\ born \subseteq Object /\ Alive \subseteq born
    /\ uid \in [Object -> Uid] /\ pos \in [Object -> Position]
    /\ fixed \in [Object -> BOOLEAN]
    /\ kept \in [ProcNode -> Object \union {Nobody}]
    /\ open \subseteq Client /\ suspect \subseteq Uid
    /\ \A t \in Thread : \A i \in DOMAIN out[t] : out[t][i] \in Patch
    /\ view \in [Client -> [Uid -> Shown]]
    /\ \A c \in Client \ open, u \in Uid : view[c][u] = Absent

Quiet == \A t \in Thread : out[t] = <<>>

(* Once nothing is left to send, every client shows every listed node where*)
(* it is, unless the node is suspect: slid while fixed, echoed at a place  *)
(* it did not take, created without a UID and moved, one of twins (a create*)
(* or a load gave a UID that was in use), or told about by both threads at *)
(* once. These five are wrong in the code and excused here; that the       *)
(* handlers have no sixth way, and that a description which no message of  *)
(* the main thread overlaps sets right all but twins, is the claim.        *)
ListedIsShown ==
    Quiet => \A c \in open, o \in listed :
        uid[o] \in suspect \/ view[c][uid[o]] = pos[o]

(* Once nothing is left to send, a node that a client shows and that is not*)
(* suspect is listed by a manager or held by selection, mouse or a process *)
(* node: whichever handler drops the last pointer, clients are told. (What *)
(* is held need not be listed: a node that a client had deleted is shown   *)
(* for as long as somebody holds it.) Suspect is here also the random UID  *)
(* under which a node was announced before fromJson() renamed it.          *)
ShownIsHeld ==
    Quiet => \A c \in open, u \in Uid \ suspect :
        view[c][u] # Absent => \E o \in Alive : uid[o] = u
=============================================================================
