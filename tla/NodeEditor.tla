----------------------------- MODULE NodeEditor -----------------------------
(***************************************************************************)
(* The editor of the processing graph: nodes and links are created, moved  *)
(* into a group and deleted in ContainerProcNode.cpp, the node pool of     *)
(* ProcessingModule.cpp and, by clients, Middleware.cpp.                   *)
(*                                                                         *)
(* A link is kept twice: as an entry of a container's m_links, which is    *)
(* what the editor draws and saves, and as a listener entry of the output  *)
(* port (Port.tla), which is what data follows. The module asks how far    *)
(* the two agree. Linker nodes and generic ports are left out.             *)
(***************************************************************************)
EXTENDS Naturals, Sequences, SequencesExt

CONSTANTS
    Node,       \* processing nodes
    Out, In,    \* their output and input ports
    Owner,      \* port -> the node it is a member of
    Root,       \* the root container
    Group,      \* the one group modelled, a child of the root
    Unborn,     \* where a node is before it is created ...
    Deleted,    \* ... and after its container let it go
    MaxLinks,   \* bound on the links ever created (the code has none)
    Clients     \* do clients of the server connect nodes, too?

ASSUME NodeEditorAssumption ==
    /\ Owner \in [Out \cup In -> Node]
    /\ Root # Group
    /\ Unborn \notin {Root, Group}
    /\ Deleted \notin {Root, Group, Unborn}
    /\ MaxLinks \in Nat
    /\ Clients \in BOOLEAN

VARIABLES
    home,       \* the container whose m_nodes holds the node
    group,      \* "none", then "inside" or "outside" of the root's m_nodes
    links,      \* m_links of the containers, by ports instead of runtime ids
    listeners,  \* entries of each input in m_ports of each output
    undefined,  \* a vector was used out of its range: nothing is claimed after
    made,       \* history: links created so far, for the bound
    lost,       \* history: pairs whose link was erased without a disconnect
    doubled     \* history: pairs that two links showed at the same time

vars == <<home, group, links, listeners, undefined, made, lost, doubled>>

Container == {Root, Group}
Pair == Out \X In

Init ==
    /\ home = [n \in Node |-> Unborn]
    /\ group = "none"
    /\ links = [c \in Container |-> <<>>]
    /\ listeners = [p \in Pair |-> 0]
    /\ undefined = FALSE
    /\ made = 0
    /\ lost = {}
    /\ doubled = {}

(* The containers the windows of which exist; only one of them has focus.  *)
AnyContainer == Container
Open == IF group = "none" THEN {Root} ELSE Container

(* findPortByRuntimeID() only looks at the container's own nodes.          *)
Within(c, p) == home[Owner[p[1]]] = c /\ home[Owner[p[2]]] = c

(* getOutputPortByRuntimeID() and the other recursive searches from root.  *)
Reachable(n) == home[n] = Root \/ (home[n] = Group /\ group = "inside")

Shown(ls) == UNION {Range(ls[c]) : c \in Container}

Twice(ls) ==
    {p \in Shown(ls) : \E c, d \in Container : \E j \in DOMAIN ls[c], k \in DOMAIN ls[d] :
        <<c, j>> # <<d, k>> /\ ls[c][j] = p /\ ls[d][k] = p}

(* removeListener() takes out every entry of the input.                    *)
Undisturbed(P) == listeners
AllOfOutput(P) ==
    [p \in Pair |-> IF \E q \in P : q[1] = p[1] THEN 0 ELSE listeners[p]]
Disconnected(P) == [p \in Pair |-> IF p \in P THEN 0 ELSE listeners[p]]

(* An output port dies with its node, and its listener entries with it; an *)
(* input port is kept alive by the outputs that list it.                   *)
WithoutOutputsOf(N, ls) == [p \in Pair |-> IF Owner[p[1]] \in N THEN 0 ELSE ls[p]]

-----------------------------------------------------------------------------
(* drawCreateButton(); createNodeByName(), for clients, adds to the root.  *)
CreateNode(c, n) ==
    /\ home[n] = Unborn
    /\ home' = [home EXCEPT ![n] = c]
    /\ UNCHANGED <<group, links, listeners, undefined, made, lost, doubled>>

(* connect(): the port's listener first, then the container's link.        *)
Connect(c, p) ==
    /\ made < MaxLinks
    /\ made' = made + 1
    /\ listeners' = [listeners EXCEPT ![p] = @ + 1]
    /\ links' = [links EXCEPT ![c] = Append(@, p)]
    /\ doubled' = doubled \cup Twice(links')
    /\ UNCHANGED <<home, group, undefined, lost>>

(* The end of drawEditor(). ImNodes offers pins of two different nodes of  *)
(* this editor that no link of it joins.                                   *)
CreateLink(c, p) ==
    /\ Within(c, p)
    /\ Owner[p[1]] # Owner[p[2]]
    /\ p \notin Range(links[c])
    /\ Connect(c, p)

(* Middleware::connectProcNodes() finds the nodes in any container and     *)
(* connects them through the root; nobody asks whether they are already.   *)
ConnectProcNodes(p) ==
    /\ Clients
    /\ Reachable(Owner[p[1]]) /\ Reachable(Owner[p[2]])
    /\ Connect(Root, p)

(* removeFocusedNode() with a link selected: the link is erased whether    *)
(* disconnectLink() finds its two ports or not.                            *)
KeepWire(c, p) == listeners
Unwire(c, p) == IF Within(c, p) THEN Disconnected({p}) ELSE listeners

RemoveLink(c, k) ==
    LET p == links[c][k]
    IN  /\ links' = [links EXCEPT ![c] = RemoveAt(@, k)]
        /\ listeners' = Unwire(c, p)
        /\ lost' = IF Within(c, p) THEN lost ELSE lost \cup {p}
        /\ UNCHANGED <<home, group, undefined, made, doubled>>

(* deleteNodeByUID(): a hit is the index of a link, in m_links, and the end*)
(* of it that is a port of n; a link of n with itself is hit twice. Each   *)
(* hit disconnects and erases what is at that index of the shrinking copy: *)
(* from the second hit on this is another link.                            *)
Hits(L, n) == {h \in (DOMAIN L) \X {1, 2} : Owner[L[h[1]][h[2]]] = n}

EraseAt(S, k) ==
    IF k > Len(S.left)
      THEN [S EXCEPT !.over = TRUE]
      ELSE [left |-> RemoveAt(S.left, k), gone |-> S.gone \cup {S.left[k]}, over |-> S.over]

Visited(S, k, p, n) ==
    LET first == IF Owner[p[1]] = n THEN EraseAt(S, k) ELSE S
    IN  IF Owner[p[2]] = n THEN EraseAt(first, k) ELSE first

Erased(L, n) ==
    LET after[k \in 0..Len(L)] ==
            IF k = 0 THEN [left |-> L, gone |-> {}, over |-> FALSE]
                     ELSE Visited(after[k - 1], k, L[k], n)
    IN  after[Len(L)]

DeleteNode(c, n) ==
    LET E == Erased(links[c], n)
        cut == {p \in E.gone : Within(c, p)}
    IN  /\ home[n] = c
        /\ home' = [home EXCEPT ![n] = Deleted]
        /\ undefined' = E.over
        /\ links' = [links EXCEPT ![c] = E.left]
        /\ listeners' = WithoutOutputsOf({n}, Disconnected(cut))
        /\ lost' = lost \cup (E.gone \ cut)
        /\ UNCHANGED <<group, made, doubled>>

(* createContainerByName() and addContainer() with the root in focus: the  *)
(* selected nodes and the selected links move into the new group.          *)
Picked(L, S) ==
    LET picked[k \in 0..Len(L)] ==
            IF k = 0 THEN <<>>
            ELSE IF k \in S THEN Append(picked[k - 1], L[k]) ELSE picked[k - 1]
    IN  picked[Len(L)]

AddContainer(N, S) ==
    /\ group = "none"
    /\ group' = "inside"
    /\ home' = [n \in Node |-> IF n \in N THEN Group ELSE home[n]]
    /\ links' = [links EXCEPT ![Group] = Picked(links[Root], S),
                              ![Root] = Picked(links[Root], DOMAIN links[Root] \ S)]
    /\ UNCHANGED <<listeners, undefined, made, lost, doubled>>

(* "clear editor": links and nodes are let go, nothing is disconnected.    *)
(* The group survives in m_containers when the root is cleared.            *)
Clear(c) ==
    LET gone == {n \in Node : home[n] = c}
    IN  /\ home' = [n \in Node |-> IF n \in gone THEN Deleted ELSE home[n]]
        /\ group' = IF c = Root /\ group = "inside" THEN "outside" ELSE group
        /\ links' = [links EXCEPT ![c] = <<>>]
        /\ listeners' = WithoutOutputsOf(gone, listeners)
        /\ lost' = lost \cup Range(links[c])
        /\ UNCHANGED <<undefined, made, doubled>>

(* The group is drawn as a node of the root and can be deleted there; it   *)
(* stays in m_containers, and the button of a group that the focused       *)
(* container does not hold adds it again.                                  *)
RemoveGroup ==
    /\ group = "inside"
    /\ group' = "outside"
    /\ UNCHANGED <<home, links, listeners, undefined, made, lost, doubled>>

AddGroup ==
    /\ group = "outside"
    /\ group' = "inside"
    /\ UNCHANGED <<home, links, listeners, undefined, made, lost, doubled>>

Next ==
    /\ ~undefined
    /\ \/ \E c \in Open :
            \/ \E n \in Node : CreateNode(c, n) \/ DeleteNode(c, n)
            \/ \E p \in Pair : CreateLink(c, p)
            \/ \E k \in DOMAIN links[c] : RemoveLink(c, k)
            \/ Clear(c)
       \/ \E p \in Pair : ConnectProcNodes(p)
       \/ \E N \in SUBSET {n \in Node : home[n] = Root}, S \in SUBSET DOMAIN links[Root] :
            AddContainer(N, S)
       \/ RemoveGroup \/ AddGroup

Spec == Init /\ [][Next]_vars

-----------------------------------------------------------------------------
Alive(n) == home[n] \in Container
LivePair(p) == Alive(Owner[p[1]]) /\ Alive(Owner[p[2]])

TypeOK ==
    /\ home \in [Node -> Container \cup {Unborn, Deleted}]
    /\ group \in {"none", "inside", "outside"}
    /\ group = "none" => links[Group] = <<>> /\ \A n \in Node : home[n] # Group
    /\ made \in 0..MaxLinks
    /\ Shown(links) \subseteq Pair
    /\ listeners \in [Pair -> Nat]
    /\ undefined \in BOOLEAN
    /\ lost \subseteq Pair
    /\ doubled \subseteq Pair

(* What the editor shows is wired: data follows every drawn link between   *)
(* two nodes that exist. Only a pair that once had two links may show one  *)
(* that is dead, because disconnect() takes out all entries.               *)
ShownIsWired ==
    \A p \in Shown(links) : LivePair(p) /\ p \notin doubled => listeners[p] > 0

(* What is wired is shown, so that the user can remove it: a wire the      *)
(* editor does not draw comes from a link that was erased while its ports  *)
(* were not both among the container's own nodes, or by "clear editor".    *)
WiredIsShown ==
    \A p \in Pair : ~undefined /\ listeners[p] > 0 /\ p \notin lost => p \in Shown(links)

(* A listener calls back into its node. Deleting a node that has one link, *)
(* in the container where both its ends are, leaves no listener behind (a  *)
(* node with several leaves one for each but the first, or worse).         *)
PairsOf(n) == {p \in Pair : n \in {Owner[p[1]], Owner[p[2]]}}

Single(c, n) ==
    /\ \A g, h \in Hits(links[c], n) : g = h
    /\ \A p \in PairsOf(n) \cap Range(links[c]) : Within(c, p)
    /\ \A d \in Container \ {c} : PairsOf(n) \cap Range(links[d]) = {}
    /\ PairsOf(n) \cap lost = {}

SingleLinkDeletedCleanly ==
    [][\A c \in Container, n \in Node :
          DeleteNode(c, n) /\ Single(c, n) =>
              \A p \in PairsOf(n) : listeners'[p] = 0 /\ p \notin Shown(links')]_vars

(* The comment on addContainer() says "delete old links and create new     *)
(* ones": the links of a container join nodes it holds.                    *)
LinksFollowNodes ==
    \A c \in Container : \A p \in Range(links[c]) : LivePair(p) => Within(c, p)
=============================================================================
