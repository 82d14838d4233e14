--------------------------- MODULE RoomSyncProofs ---------------------------
(***************************************************************************)
(* The room and its clients with any number of node objects, positions and *)
(* clients.                                                                *)
(*                                                                         *)
(* The argument looks at what a client is going to show of a UID when all  *)
(* messages are sent: what the last message about it says, or else what the*)
(* client shows. Only one thread has messages about it unless it is suspect*)
(* so it does not matter which thread is first.                            *)
(***************************************************************************)
EXTENDS RoomSync, TLAPS, SequenceTheorems

(* What may be shown of a UID.                                             *)
Right(u, v) ==
    /\ \A o \in listed : uid[o] = u => v = pos[o]
    /\ v # Absent => \E o \in Alive : uid[o] = u

(* Message i is the last of a thread's messages about the UID.             *)
LastWord(messages, i, u) ==
    /\ u \in DOMAIN messages[i]
    /\ \A j \in DOMAIN messages : i < j => u \notin DOMAIN messages[j]

Silent(u) == \A t \in Thread : u \notin About(out[t])

(* What clients are going to show is right.                                *)
Coming ==
    \A u \in Uid \ suspect :
        /\ \A t \in Thread : \A i \in DOMAIN out[t] :
               LastWord(out[t], i, u) => Right(u, out[t][i][u])
        /\ Silent(u) => \A c \in open : Right(u, view[c][u])

Apart == About(out["main"]) \cap About(out["server"]) \subseteq suspect

(* An object has its own UID until it is constructed, and then its own, one*)
(* of an object constructed earlier, or the client's.                      *)
Names ==
    /\ \A o \in Object \ born : uid[o] = o /\ pos[o] = Home
    /\ \A o \in born : uid[o] \in born \union {Chosen}

(* TypeOK but for the messages, and what is suspect.                       *)
RoomOK ==
    /\ born \subseteq Object /\ Alive \subseteq born
    /\ uid \in [Object -> Uid] /\ pos \in [Object -> Position]
    /\ fixed \in [Object -> BOOLEAN]
    /\ kept \in [ProcNode -> Object \union {Nobody}]
    /\ open \subseteq Client
    /\ view \in [Client -> [Uid -> Shown]]
    /\ \A c \in Client \ open, u \in Uid : view[c][u] = Absent
    /\ Names

MessagesOK == out \in [Thread -> Seq(Patch)] /\ suspect \subseteq Uid

IInv == RoomOK /\ MessagesOK /\ Apart /\ Twins \subseteq suspect /\ Coming

-----------------------------------------------------------------------------
(* Messages.                                                               *)

LEMMA PatchOf ==
    ASSUME NEW S \in SUBSET Uid, NEW f \in [S -> Shown]
    PROVE  f \in Patch /\ DOMAIN f = S
  BY DEF Patch

LEMMA InPatch ==
    ASSUME NEW f \in Patch
    PROVE  DOMAIN f \subseteq Uid /\ \A u \in DOMAIN f : f[u] \in Shown
  BY DEF Patch

LEMMA OnlyPatch ==
    ASSUME NEW u \in Uid, NEW v \in Shown
    PROVE  Only(u, v) \in Patch /\ DOMAIN Only(u, v) = {u} /\ Only(u, v)[u] = v
<1>1. Only(u, v) \in [{u} -> Shown] /\ {u} \in SUBSET Uid
  BY DEF Only
<1> QED
  BY <1>1, PatchOf DEF Only

LEMMA AboutPatches ==
    ASSUME NEW m \in Seq(Patch)
    PROVE  /\ About(m) \subseteq Uid
           /\ \A i \in DOMAIN m : m[i] \in Patch /\ DOMAIN m[i] \subseteq About(m)
<1>1. \A i \in DOMAIN m : m[i] \in Patch
  OBVIOUS
<1> QED
  BY <1>1, InPatch DEF About

LEMMA JoinedTwo ==
    ASSUME NEW S, NEW a \in S, NEW b \in S
    PROVE  <<a>> \o <<b>> = <<a, b>>
<1>1. /\ <<a>> \in Seq(S) /\ <<b>> \in Seq(S) /\ <<a, b>> \in Seq(S)
      /\ Len(<<a>>) = 1 /\ Len(<<b>>) = 1 /\ Len(<<a, b>>) = 2 /\ 1 + 1 = 2
  OBVIOUS
<1>2. /\ <<a>> \o <<b>> \in Seq(S) /\ Len(<<a>> \o <<b>>) = 2
      /\ \A i \in 1..2 : (<<a>> \o <<b>>)[i] = IF i <= 1 THEN <<a>>[i] ELSE <<b>>[i - 1]
  BY <1>1, ConcatProperties
<1>3. \A i \in 1..2 : (<<a>> \o <<b>>)[i] = <<a, b>>[i]
  BY <1>2
<1> QED
  BY <1>1, <1>2, <1>3, SeqEqual

LEMMA JoinedThree ==
    ASSUME NEW S, NEW a \in S, NEW b \in S, NEW c \in S
    PROVE  <<a>> \o <<b, c>> = <<a, b, c>>
<1>1. /\ <<a>> \in Seq(S) /\ <<b, c>> \in Seq(S) /\ <<a, b, c>> \in Seq(S)
      /\ Len(<<a>>) = 1 /\ Len(<<b, c>>) = 2 /\ Len(<<a, b, c>>) = 3 /\ 1 + 2 = 3
  OBVIOUS
<1>2. /\ <<a>> \o <<b, c>> \in Seq(S) /\ Len(<<a>> \o <<b, c>>) = 3
      /\ \A i \in 1..3 : (<<a>> \o <<b, c>>)[i] =
             IF i <= 1 THEN <<a>>[i] ELSE <<b, c>>[i - 1]
  BY <1>1, ConcatProperties
<1>3. \A i \in 1..3 : (<<a>> \o <<b, c>>)[i] = <<a, b, c>>[i]
  BY <1>2
<1> QED
  BY <1>1, <1>2, <1>3, SeqEqual

LEMMA Threads ==
    ASSUME NEW t \in Thread
    PROVE  Other(t) \in Thread /\ Other(t) # t /\ Thread = {t, Other(t)}
           /\ Other(Other(t)) = t
  BY DEF Thread, Other

(* UIDs of which the last holder has gone.                                 *)
Gone == {uid[o] : o \in Alive \ Alive'}

LEMMA DeletesIs ==
    ASSUME RoomOK
    PROVE  /\ Gone \subseteq Uid
           /\ Gone = {} => Deletes = <<>>
           /\ Gone # {} => Deletes = <<[u \in Gone |-> Absent]>>
           /\ [u \in Gone |-> Absent] \in Patch
           /\ Deletes \in Seq(Patch)
<1>1. Gone \subseteq Uid
  BY DEF Gone, RoomOK
<1>2. [u \in Gone |-> Absent] \in Patch
  <2>1. [u \in Gone |-> Absent] \in [Gone -> Shown]
    BY DEF Shown
  <2> QED
    BY <1>1, <2>1, PatchOf
<1>3. (Gone = {} => Deletes = <<>>) /\ (Gone # {} => Deletes = <<[u \in Gone |-> Absent]>>)
  BY DEF Gone, Deletes
<1>4. Deletes \in Seq(Patch)
  <2>1. CASE Gone = {}
    BY <1>3, <2>1
  <2>2. CASE Gone # {}
    <3>1. \A p \in Patch : <<p>> \in Seq(Patch)
      OBVIOUS
    <3> QED
      BY <1>2, <1>3, <2>2, <3>1
  <2> QED
    BY <2>1, <2>2
<1> QED
  BY <1>1, <1>2, <1>3, <1>4

-----------------------------------------------------------------------------
LEMMA InitIInv == Init => IInv
<1> SUFFICES ASSUME Init
             PROVE  IInv
  OBVIOUS
<1>1. out \in [Thread -> Seq(Patch)] /\ \A t \in Thread : DOMAIN out[t] = {}
  BY DEF Init
<1>2. Alive = {} /\ Twins = {}
  BY DEF Init, Alive, Held, Range, Twins
<1>3. RoomOK
  BY <1>2, RoomSyncAssumption DEF Init, RoomOK, Names, Uid, Shown
<1>4. MessagesOK /\ Apart /\ Twins \subseteq suspect
  BY <1>1, <1>2 DEF Init, MessagesOK, Apart, About, Thread
<1>5. Coming
  <2>1. \A u \in Uid : Right(u, Absent)
    BY DEF Init, Right
  <2> QED
    BY <1>1, <2>1 DEF Init, Coming
<1> QED
  BY <1>3, <1>4, <1>5 DEF IInv

(* A handler keeps what is coming right if its own last words are right and*)
(* what it does not mention stays as right as it was.                      *)
LEMMA Told ==
    ASSUME IInv, RoomOK',
           NEW t \in Thread, NEW messages \in Seq(Patch), NEW extra \in SUBSET Uid,
           Tell(t, messages, extra),
           \A c \in open' : c \in open /\ view'[c] = view[c],
           \A u \in Uid \ suspect' : \A i \in DOMAIN messages :
               LastWord(messages, i, u) => Right(u, messages[i][u])',
           \A u \in Uid \ suspect' : u \notin About(messages) =>
               \A v : Right(u, v) => Right(u, v)'
    PROVE  IInv'
<1>1. /\ out[t] = <<>> /\ out'[t] = messages /\ out'[Other(t)] = out[Other(t)]
      /\ out' \in [Thread -> Seq(Patch)]
      /\ suspect' = suspect \union extra \union Twins'
                      \union (About(messages) \cap About(out[Other(t)]))
  BY Threads DEF Tell, IInv, MessagesOK
<1>2. About(out[t]) = {}
  BY <1>1 DEF About
<1>3. Twins' \subseteq Uid
  BY DEF Twins, RoomOK
<1>4. MessagesOK'
  BY <1>1, <1>3, AboutPatches DEF MessagesOK, IInv
<1>5. Apart'
  <2>1. About(out'[t]) \cap About(out'[Other(t)]) \subseteq suspect'
    BY <1>1
  <2> QED
    BY <2>1 DEF Apart, Thread, Other, About
<1>6. Coming'
  <2> SUFFICES ASSUME NEW u \in Uid \ suspect'
               PROVE  /\ \A s \in Thread : \A i \in DOMAIN out'[s] :
                             LastWord(out[s], i, u)' => Right(u, out[s][i][u])'
                      /\ Silent(u)' => \A c \in open' : Right(u, view[c][u])'
    BY DEF Coming
  <2>1. u \in Uid \ suspect
    BY <1>1
  <2>2. u \in About(out[Other(t)]) => u \notin About(messages)
    BY <1>1
  <2>3. ASSUME NEW i \in DOMAIN out'[Other(t)], LastWord(out[Other(t)], i, u)
        PROVE  \A v : v = out[Other(t)][i][u] => Right(u, v)'
    <3>1. u \in About(out[Other(t)])
      BY <1>1, <2>3 DEF LastWord, About
    <3>2. Right(u, out[Other(t)][i][u])
      BY <1>1, <2>1, <2>3, Threads DEF IInv, Coming
    <3> QED
      BY <2>2, <3>1, <3>2
  <2>4. ASSUME NEW s \in Thread, NEW i \in DOMAIN out'[s], LastWord(out[s], i, u)'
        PROVE  Right(u, out[s][i][u])'
    <3>1. ASSUME NEW m, m = out'[s], \A v : v = m[i][u] => Right(u, v)'
          PROVE  Right(u, out[s][i][u])'
      BY <3>1 DEF Right
    <3>2. CASE s = t
      <4>1. LastWord(messages, i, u)
        BY <1>1, <2>4, <3>2 DEF LastWord
      <4>2. \A v : v = messages[i][u] => Right(u, v)'
        BY <1>1, <2>4, <3>2, <4>1
      <4> QED
        BY <1>1, <3>1, <3>2, <4>2
    <3>3. CASE s = Other(t)
      <4>1. LastWord(out[Other(t)], i, u)
        BY <1>1, <2>4, <3>3 DEF LastWord
      <4>2. \A v : v = out[Other(t)][i][u] => Right(u, v)'
        BY <2>3, <2>4, <3>3, <4>1
      <4> QED
        BY <1>1, <3>1, <3>3, <4>2
    <3> QED
      BY <3>2, <3>3, Threads
  <2>5. ASSUME Silent(u)', NEW c \in open'
        PROVE  Right(u, view[c][u])'
    <3>1. u \notin About(messages) /\ u \notin About(out[Other(t)])
      BY <1>1, <2>5, Threads DEF Silent, About
    <3>2. Silent(u)
      BY <1>2, <3>1, Threads DEF Silent
    <3>3. Right(u, view[c][u])
      BY <2>1, <3>2 DEF IInv, Coming
    <3>4. \A v : v = view[c][u] => Right(u, v)'
      BY <3>1, <3>3
    <3> QED
      BY <3>4 DEF Right
  <2> QED
    BY <2>4, <2>5
<1> QED
  BY <1>1, <1>4, <1>5, <1>6 DEF IInv

(* What is right stays right if nodes are only let go of, and announced.   *)
LEMMA Released ==
    ASSUME IInv, Alive' \subseteq Alive, listed' \subseteq listed, UNCHANGED <<uid, pos>>,
           NEW u \in Uid \ suspect
    PROVE  /\ u \in Gone => Right(u, Absent)'
           /\ u \notin Gone => \A v : Right(u, v) => Right(u, v)'
<1>1. ASSUME NEW x \in Alive \ Alive', u = uid[x], NEW o \in listed', uid[o] = u
      PROVE  FALSE
  <2>1. o \in Alive /\ o # x
    BY <1>1 DEF Alive, Held, holders
  <2>2. u \in Twins
    BY <1>1, <2>1 DEF Twins
  <2> QED
    BY <2>2 DEF IInv
<1>2. u \in Gone => Right(u, Absent)'
  BY <1>1 DEF Gone, Right
<1>3. u \notin Gone => \A o \in Alive : uid[o] = u => o \in Alive'
  BY DEF Gone
<1> QED
  BY <1>2, <1>3 DEF Right

LEMMA ReleaseStep ==
    ASSUME IInv, RoomOK', NEW t \in Thread, Tell(t, Deletes, {}),
           Alive' \subseteq Alive, listed' \subseteq listed, UNCHANGED <<uid, pos>>,
           \A c \in open' : c \in open /\ view'[c] = view[c]
    PROVE  IInv'
<1>0. RoomOK /\ suspect \subseteq suspect'
  BY DEF IInv, Tell
<1>1. ASSUME NEW m, m = Deletes
      PROVE  IInv'
  <2>1. m \in Seq(Patch) /\ Tell(t, m, {}) /\ (Gone = {} => m = <<>>)
        /\ (Gone # {} => m = <<[u \in Gone |-> Absent]>>)
    BY <1>0, <1>1, DeletesIs
  <2>2. About(m) = Gone /\ \A i \in DOMAIN m : m[i] = [u \in Gone |-> Absent]
    BY <2>1 DEF About
  <2>3. ASSUME NEW u \in Uid \ suspect'
        PROVE  /\ u \in Gone => Right(u, Absent)'
               /\ u \notin Gone => \A v : Right(u, v) => Right(u, v)'
    BY <1>0, <2>3, Released
  <2>4. ASSUME NEW u \in Uid \ suspect', NEW i \in DOMAIN m, LastWord(m, i, u)
        PROVE  Right(u, m[i][u])'
    <3>1. u \in Gone /\ m[i][u] = Absent
      BY <2>2, <2>4 DEF LastWord
    <3> QED
      BY <2>3, <3>1
  <2> QED
    BY <2>1, <2>2, <2>3, <2>4, Told
<1> QED
  BY <1>1

LEMMA QuietStep ==
    ASSUME IInv, RoomOK', NEW t \in Thread, NEW extra \in SUBSET Uid, Tell(t, <<>>, extra),
           \A u \in Uid \ extra : \A v : Right(u, v) => Right(u, v)',
           \A c \in open' : c \in open /\ view'[c] = view[c]
    PROVE  IInv'
<1>1. ASSUME NEW m, m = <<>>
      PROVE  IInv'
  <2>1. m \in Seq(Patch) /\ Tell(t, m, extra) /\ DOMAIN m = {} /\ extra \subseteq suspect'
    BY <1>1 DEF Tell
  <2> QED
    BY <2>1, Told
<1> QED
  BY <1>1

(* One message about one node, at its new place or else suspect.           *)
LEMMA PlaceStep ==
    ASSUME IInv, RoomOK', NEW t \in Thread, NEW o \in Alive, NEW p \in Position,
           NEW extra \in SUBSET Uid, Tell(t, <<Only(uid[o], p)>>, extra),
           UNCHANGED <<uid, listed, holders, open, view>>,
           \A x \in Object \ {o} : pos'[x] = pos[x],
           pos'[o] = p \/ uid[o] \in extra
    PROVE  IInv'
<1>1. o \in Object /\ uid[o] \in Uid /\ Alive' = Alive /\ p \in Shown
  BY DEF IInv, RoomOK, Alive, Held, holders, Shown
<1>2. PICK w : w = Only(uid[o], p)
  OBVIOUS
<1>3. w \in Patch /\ DOMAIN w = {uid[o]} /\ w[uid[o]] = p
  BY <1>1, <1>2, OnlyPatch
<1>4. ASSUME NEW m, m = <<w>>
      PROVE  IInv'
  <2>1. m \in Seq(Patch) /\ DOMAIN m = {1} /\ m[1] = w /\ Tell(t, m, extra)
    BY <1>2, <1>3, <1>4
  <2>2. About(m) = {uid[o]} /\ extra \subseteq suspect' /\ Twins' \subseteq suspect'
    BY <1>3, <2>1 DEF About, Tell
  <2>3. ASSUME NEW u \in Uid \ suspect', NEW i \in DOMAIN m, LastWord(m, i, u)
        PROVE  Right(u, m[i][u])'
    <3>1. u = uid[o] /\ m[i][u] = p
      BY <1>3, <2>1, <2>3 DEF LastWord
    <3>2. \A x \in listed : uid[x] = u => x = o
      <4>1. listed \subseteq Alive
        BY DEF Alive
      <4>2. \A x \in Alive : uid[x] = uid[o] /\ x # o => uid[o] \in Twins
        BY DEF Twins
      <4>3. Twins' = Twins
        BY <1>1 DEF Twins
      <4> QED
        BY <2>2, <2>3, <3>1, <4>1, <4>2, <4>3
    <3>3. pos'[o] = p
      BY <2>2, <2>3, <3>1
    <3> QED
      BY <1>1, <3>1, <3>2, <3>3 DEF Right
  <2>4. ASSUME NEW u \in Uid \ suspect', u \notin About(m), NEW v, Right(u, v)
        PROVE  Right(u, v)'
    <3>1. \A x \in listed : x \in Object /\ (uid[x] = u => pos'[x] = pos[x])
      BY <2>2, <2>4 DEF IInv, RoomOK, Alive
    <3> QED
      BY <1>1, <2>4, <3>1 DEF Right
  <2> QED
    BY <2>1, <2>3, <2>4, Told
<1> QED
  BY <1>4

-----------------------------------------------------------------------------
(* The main thread.                                                        *)

LEMMA HoldersStep ==
    ASSUME IInv, Hover \/ Select \/ Remove
    PROVE  IInv'
<1>1. RoomOK
  BY DEF IInv
<1>2. /\ UNCHANGED <<born, uid, pos, fixed, kept, open, view>> /\ Tell("main", Deletes, {})
      /\ listed' \subseteq listed /\ Alive' \subseteq Alive
  BY DEF Hover, Select, Remove, Alive, Held
<1>3. RoomOK'
  BY <1>1, <1>2 DEF RoomOK, Names
<1> QED
  BY <1>2, <1>3, ReleaseStep DEF Thread

(* What a process node holds instead.                                      *)
LEMMA Exchanged ==
    ASSUME RoomOK, NEW n \in ProcNode, NEW o \in Object \union {Nobody},
           kept' = [kept EXCEPT ![n] = o], UNCHANGED <<selected, hovered>>
    PROVE  /\ kept' \in [ProcNode -> Object \union {Nobody}]
           /\ Held' \subseteq Held \union ({o} \ {Nobody})
<1>1. Range(kept') \subseteq Range(kept) \union {o}
  BY DEF RoomOK, Range
<1> QED
  BY <1>1 DEF RoomOK, Held

LEMMA HoldStep ==
    ASSUME IInv, NEW t \in Thread, NEW n \in ProcNode, Hold(t, n) \/ TakePosition(t, n)
    PROVE  IInv'
<1>0. RoomOK
  BY DEF IInv
<1>1. /\ UNCHANGED <<born, uid, pos, fixed, selected, hovered, open, view>>
      /\ Tell(t, Deletes, {}) /\ listed' \subseteq listed
  BY DEF Hold, TakePosition
<1>2. PICK o \in listed' \union {Nobody} : kept' = [kept EXCEPT ![n] = o]
  BY DEF Hold, TakePosition
<1>3. o \in Object \union {Nobody}
  BY <1>0, <1>1, <1>2 DEF RoomOK, Alive
<1>4. /\ kept' \in [ProcNode -> Object \union {Nobody}]
      /\ Held' \subseteq Held \union ({o} \ {Nobody})
  BY <1>0, <1>1, <1>2, <1>3, Exchanged
<1>5. Alive' \subseteq Alive
  BY <1>1, <1>2, <1>4 DEF Alive
<1>6. RoomOK'
  BY <1>0, <1>1, <1>4, <1>5 DEF RoomOK, Names
<1> QED
  BY <1>1, <1>5, <1>6, ReleaseStep

LEMMA ToggleFixedStep == IInv /\ ToggleFixed => IInv'
<1> SUFFICES ASSUME IInv, ToggleFixed
             PROVE  IInv'
  OBVIOUS
<1>1. /\ UNCHANGED <<born, uid, pos, listed, holders, open, view>>
      /\ Tell("main", <<>>, {}) /\ fixed' = [fixed EXCEPT ![selected] = ~@]
  BY DEF ToggleFixed
<1>2. Alive' = Alive
  BY <1>1 DEF Alive, Held, holders
<1>3. selected \in Object
  BY DEF IInv, RoomOK, Alive, Held, ToggleFixed
<1>4. RoomOK'
  BY <1>1, <1>2, <1>3 DEF IInv, RoomOK, Names, holders
<1>5. \A u, v : Right(u, v) => Right(u, v)'
  BY <1>1, <1>2 DEF Right
<1> QED
  BY <1>1, <1>4, <1>5, QuietStep DEF Thread

LEMMA MoveStep == IInv /\ Move => IInv'
<1> SUFFICES ASSUME IInv, Move
             PROVE  IInv'
  OBVIOUS
<1>1. UNCHANGED <<born, uid, fixed, listed, holders, open, view>>
  BY DEF Move
<1>2. PICK o \in Alive, p \in Position : SetPosition(o, p) \/ SlideFixed(o, p)
  BY DEF Move, Alive, Held, Range, IInv, RoomOK
<1>3. Alive' = Alive /\ pos' = [pos EXCEPT ![o] = p]
  BY <1>1, <1>2 DEF Alive, Held, holders, SetPosition, SlideFixed
<1>4. o \in born /\ o \in Object /\ uid[o] \in Uid
  BY DEF IInv, RoomOK
<1>5. RoomOK'
  BY <1>1, <1>3, <1>4 DEF IInv, RoomOK, Names, holders
<1>6. \A x \in Object \ {o} : pos'[x] = pos[x]
  BY <1>3 DEF IInv, RoomOK
<1>7. CASE SetPosition(o, p)
  <2>1. pos'[o] = p
    BY <1>3, <1>4 DEF IInv, RoomOK
  <2>2. Tell("main", <<Only(uid[o], p)>>, {}) /\ "main" \in Thread /\ {} \in SUBSET Uid
    BY <1>7 DEF SetPosition, Thread
  <2> QED
    BY <1>1, <1>5, <1>6, <2>1, <2>2, PlaceStep
<1>8. CASE SlideFixed(o, p)
  <2>1. Tell("main", <<>>, {uid[o]}) /\ {uid[o]} \in SUBSET Uid
    BY <1>4, <1>8 DEF SlideFixed
  <2>2. ASSUME NEW u \in Uid \ {uid[o]}, NEW v, Right(u, v)
        PROVE  Right(u, v)'
    <3>1. \A x \in listed : x \in Object /\ (uid[x] = u => pos'[x] = pos[x])
      BY <1>6, <2>2 DEF IInv, RoomOK, Alive
    <3> QED
      BY <1>1, <1>3, <2>2, <3>1 DEF Right
  <2> QED
    BY <1>1, <1>5, <2>1, <2>2, QuietStep DEF Thread
<1> QED
  BY <1>2, <1>7, <1>8

(* A new node, whatever is let go of in the same step and in whatever order*)
(* the two are told: they are about different nodes.                       *)
LEMMA NewNodeStep ==
    ASSUME IInv, NEW t \in Thread, NEW o \in Object \ born,
           NEW m, m = <<Only(o, Home)>> \o Deletes \/ m = Deletes \o <<Only(o, Home)>>,
           Tell(t, m, {}), UNCHANGED <<uid, pos, fixed, open, view>>,
           born' = born \union {o}, o \in listed', listed' \subseteq listed \union {o},
           Alive' \subseteq Alive \union {o},
           kept' \in [ProcNode -> Object \union {Nobody}]
    PROVE  IInv'
<1>0. RoomOK
  BY DEF IInv
<1>2. /\ o \in Alive' /\ o \notin Alive
      /\ uid[o] = o /\ pos[o] = Home /\ o \in Uid /\ Home \in Shown
      /\ \A x \in born : uid[x] # o
  BY <1>0, RoomSyncAssumption DEF Alive, RoomOK, Names, Uid, Shown
<1>3. RoomOK'
  <2>1. Names'
    BY <1>0, <1>2 DEF RoomOK, Names
  <2>2. Alive' \subseteq born' /\ born' \subseteq Object
    BY <1>0 DEF RoomOK
  <2> QED
    BY <1>0, <2>1, <2>2 DEF RoomOK
<1>4. PICK w, g : w = Only(o, Home) /\ g = [u \in Gone |-> Absent]
  OBVIOUS
<1>5. w \in Patch /\ DOMAIN w = {o} /\ w[o] = Home
  BY <1>2, <1>4, OnlyPatch
<1>6. /\ g \in Patch /\ DOMAIN g = Gone /\ \A u \in Gone : g[u] = Absent
      /\ Deletes = IF Gone = {} THEN <<>> ELSE <<g>>
  BY <1>0, <1>4, DeletesIs
<1>7. o \notin Gone
  BY <1>0, <1>2 DEF Gone, RoomOK
<1>8. ASSUME NEW u \in Uid \ suspect', u # o
      PROVE  /\ u \in Gone => Right(u, Absent)'
             /\ u \notin Gone => \A v : Right(u, v) => Right(u, v)'
  <2>0. u \notin Twins
    BY <1>8 DEF Tell, IInv
  <2>1. ASSUME NEW x \in Alive \ Alive', u = uid[x], NEW y \in listed', uid[y] = u
        PROVE  FALSE
    <3>1. y # x
      BY <2>1 DEF Alive
    <3>2. y \in Alive
      BY <1>2, <1>8, <2>1 DEF Alive
    <3> QED
      BY <2>0, <2>1, <3>1, <3>2 DEF Twins
  <2>2. u \in Gone => Right(u, Absent)'
    BY <2>1 DEF Gone, Right
  <2>3. u \notin Gone => \A x \in Alive : uid[x] = u => x \in Alive'
    BY DEF Gone
  <2> QED
    BY <1>2, <1>8, <2>2, <2>3 DEF Right
<1>9. Right(o, Home)'
  BY <1>0, <1>2 DEF Right, RoomOK, Alive
<1>10. /\ m \in Seq(Patch) /\ \A i \in DOMAIN m : m[i] = w \/ m[i] = g
       /\ \E i \in DOMAIN m : m[i] = w
       /\ Gone # {} => \E i \in DOMAIN m : m[i] = g
  <2>1. m \in {<<w, g>>, <<g, w>>} \/ (Gone = {} /\ m = <<w>>)
    <3>1. CASE Gone = {}
      <4>1. <<w>> \in Seq(Patch)
        BY <1>5
      <4> QED
        BY <1>4, <1>6, <3>1, <4>1, ConcatEmptySeq
    <3>2. CASE Gone # {}
      <4>1. <<w>> \o <<g>> = <<w, g>> /\ <<g>> \o <<w>> = <<g, w>>
        BY <1>5, <1>6, JoinedTwo
      <4> QED
        BY <1>4, <1>6, <3>2, <4>1
    <3> QED
      BY <3>1, <3>2
  <2>2. CASE m = <<w, g>>
    BY <1>5, <1>6, <2>2
  <2>3. CASE m = <<g, w>>
    BY <1>5, <1>6, <2>3
  <2>4. CASE Gone = {} /\ m = <<w>>
    BY <1>5, <2>4
  <2> QED
    BY <2>1, <2>2, <2>3, <2>4
<1>11. About(m) = Gone \union {o}
  BY <1>5, <1>6, <1>10 DEF About
<1>12. ASSUME NEW u \in Uid \ suspect', NEW i \in DOMAIN m, LastWord(m, i, u)
       PROVE  Right(u, m[i][u])'
  <2>1. CASE m[i] = w
    BY <1>5, <1>9, <1>12, <2>1 DEF LastWord
  <2>2. CASE m[i] = g
    BY <1>6, <1>7, <1>8, <1>12, <2>2 DEF LastWord
  <2> QED
    BY <1>10, <2>1, <2>2
<1>13. ASSUME NEW u \in Uid \ suspect', u \notin About(m)
       PROVE  \A v : Right(u, v) => Right(u, v)'
  BY <1>8, <1>11, <1>13
<1> QED
  BY <1>3, <1>10, <1>12, <1>13, Told

LEMMA AddDeviceStep == IInv /\ AddDevice => IInv'
<1> SUFFICES ASSUME IInv, AddDevice
             PROVE  IInv'
  OBVIOUS
<1>1. PICK o \in Object \ born :
        /\ born' = born \union {o}
        /\ listed' = listed \union {o}
        /\ selected' = o
        /\ UNCHANGED <<uid, pos, fixed, hovered, kept, open, view>>
        /\ Tell("main", <<Only(o, Home)>> \o Deletes, {})
  BY DEF AddDevice
<1>2. Alive' \subseteq Alive \union {o} /\ kept' \in [ProcNode -> Object \union {Nobody}]
  BY <1>1 DEF IInv, RoomOK, Alive, Held
<1> QED
  BY <1>1, <1>2, NewNodeStep DEF Thread

LEMMA AddPositionStep ==
    ASSUME IInv, NEW t \in Thread, NEW n \in ProcNode, AddPosition(t, n)
    PROVE  IInv'
<1>1. PICK o \in Object \ born :
        /\ born' = born \union {o}
        /\ listed' = (listed \ Renounced(n)) \union {o}
        /\ kept' = [kept EXCEPT ![n] = o]
        /\ UNCHANGED <<uid, pos, fixed, selected, hovered, open, view>>
        /\ Tell(t, Deletes \o <<Only(o, Home)>>, {})
  BY DEF AddPosition
<1>2. /\ kept' \in [ProcNode -> Object \union {Nobody}]
      /\ Held' \subseteq Held \union ({o} \ {Nobody})
  BY <1>1, Exchanged DEF IInv
<1>3. listed' \subseteq listed \union {o} /\ Alive' \subseteq Alive \union {o}
  BY <1>1, <1>2 DEF Alive
<1> QED
  BY <1>1, <1>2, <1>3, NewNodeStep

(* The names of the nodes that a file brings are taken back to the nodes.  *)
LEMMA NamedBy ==
    ASSUME NEW S, NEW T, NEW f \in [S -> T]
    PROVE  /\ Range(f) \subseteq T
           /\ \A x \in S : f[x] \in Range(f)
           /\ \A u \in Range(f) : AntiFunction(f)[u] \in S /\ f[AntiFunction(f)[u]] = u
<1>1. DOMAIN f = S
  OBVIOUS
<1>2. ASSUME NEW u \in Range(f)
      PROVE  AntiFunction(f)[u] \in S /\ f[AntiFunction(f)[u]] = u
  <2>1. AntiFunction(f)[u] = CHOOSE s \in S : u \in Range(f) => f[s] = u
    BY <1>1 DEF AntiFunction, Inverse
  <2>2. \E s \in S : u \in Range(f) => f[s] = u
    BY <1>1 DEF Range
  <2> QED
    BY <2>1, <2>2
<1> QED
  BY <1>1, <1>2 DEF Range

LEMMA LoadStep == IInv /\ Load => IInv'
<1> SUFFICES ASSUME IInv, Load
             PROVE  IInv'
  OBVIOUS
<1>0. RoomOK
  BY DEF IInv
<1>1. PICK new \in SUBSET (Object \ born) :
      \E name \in [new -> born \union {Chosen}],
         place \in [new -> Position], flag \in [new -> BOOLEAN] :
        /\ born' = born \union new
        /\ listed' = Cleared \union new
        /\ uid' = Over(name, uid)
        /\ pos' = Over(place, pos)
        /\ fixed' = Over(flag, fixed)
        /\ UNCHANGED <<holders, open, view>>
        /\ Tell("main", Deletes \o Created(place, name), new)
  BY DEF Load
<1>2. PICK name \in [new -> born \union {Chosen}],
           place \in [new -> Position], flag \in [new -> BOOLEAN] :
        /\ born' = born \union new
        /\ listed' = Cleared \union new
        /\ uid' = Over(name, uid)
        /\ pos' = Over(place, pos)
        /\ fixed' = Over(flag, fixed)
        /\ UNCHANGED <<holders, open, view>>
        /\ Tell("main", Deletes \o Created(place, name), new)
  BY <1>1
<1>3. /\ name \in [new -> born \union {Chosen}] /\ Range(name) \subseteq born \union {Chosen}
      /\ \A x \in new : name[x] \in Range(name)
      /\ \A u \in Range(name) :
             AntiFunction(name)[u] \in new /\ name[AntiFunction(name)[u]] = u
  <2>1. PICK names : names = born \union {Chosen}
    OBVIOUS
  <2>2. name \in [new -> names]
    BY <2>1
  <2>3. /\ Range(name) \subseteq names
        /\ \A x \in new : name[x] \in Range(name)
        /\ \A u \in Range(name) :
               AntiFunction(name)[u] \in new /\ name[AntiFunction(name)[u]] = u
    BY <2>2, NamedBy, Zenon
  <2> QED
    BY <2>1, <2>3
<1>4. listed' = new /\ Alive' = new \union Held /\ UNCHANGED kept
  BY <1>2 DEF Cleared, Alive, Held, holders
<1>5. /\ uid' \in [Object -> Uid] /\ pos' \in [Object -> Position]
      /\ fixed' \in [Object -> BOOLEAN]
      /\ \A x \in new : uid'[x] = name[x] /\ pos'[x] = place[x]
      /\ \A x \in Object \ new : uid'[x] = uid[x] /\ pos'[x] = pos[x]
  <2>1. born \union {Chosen} \subseteq Uid /\ born \subseteq Object
    BY <1>0 DEF RoomOK, Uid
  <2>2. uid \in [Object -> Uid] /\ pos \in [Object -> Position] /\ fixed \in [Object -> BOOLEAN]
    BY <1>0 DEF RoomOK
  <2> QED
    BY <1>2, <1>3, <2>1, <2>2 DEF Over
<1>6. RoomOK'
  <2>1. Alive' \subseteq born' /\ born' \subseteq Object
    BY <1>0, <1>2, <1>4 DEF RoomOK, Alive
  <2>3. Names'
    BY <1>0, <1>2, <1>3, <1>5 DEF RoomOK, Names
  <2> QED
    BY <1>0, <1>2, <1>4, <1>5, <2>1, <2>3 DEF RoomOK
<1>7. PICK g, r : /\ g = [u \in Gone |-> Absent]
                  /\ r = [u \in Range(name) |-> place[AntiFunction(name)[u]]]
  OBVIOUS
<1>8. /\ g \in Patch /\ DOMAIN g = Gone /\ \A u \in Gone : g[u] = Absent
      /\ Deletes = IF Gone = {} THEN <<>> ELSE <<g>>
  BY <1>0, <1>7, DeletesIs
<1>9. place \in Patch /\ DOMAIN place = new /\ new \in SUBSET Uid
  <2>1. place \in [new -> Shown] /\ new \in SUBSET Uid
    BY DEF Shown, Uid
  <2> QED
    BY <2>1, PatchOf
<1>10. /\ r \in Patch /\ DOMAIN r = Range(name)
       /\ \A u \in Range(name) : r[u] = place[AntiFunction(name)[u]]
  <2>1. r \in [Range(name) -> Shown] /\ Range(name) \in SUBSET Uid
    BY <1>0, <1>3, <1>7 DEF Shown, Uid, RoomOK
  <2> QED
    BY <1>7, <2>1, PatchOf
<1>11. Created(place, name) = IF place = <<>> THEN <<>> ELSE <<place, r>>
  BY <1>7 DEF Created
<1>12. place = <<>> => new = {} /\ Range(name) = {}
  <2>1. place = <<>> => new = {}
    BY <1>9
  <2>2. new = {} => Range(name) = {}
    BY <1>3
  <2> QED
    BY <2>1, <2>2
<1>13. ASSUME NEW u \in Range(name), u \notin Twins'
       PROVE  Right(u, r[u])'
  <2>1. PICK y \in new : name[y] = u /\ r[u] = place[y]
    BY <1>3, <1>10, <1>13
  <2>2. \A o \in listed' : uid'[o] = u => o = y
    <3>1. \A o \in Alive' \ {y} : uid'[o] = u => u \in Twins'
      BY <1>4, <1>5, <2>1 DEF Twins
    <3> QED
      BY <1>4, <1>13, <3>1
  <2>3. y \in Alive' /\ uid'[y] = u
    BY <1>4, <1>5, <2>1
  <2> QED
    BY <1>5, <2>1, <2>2, <2>3 DEF Right
<1>14. ASSUME NEW u \in Uid, u \notin Range(name)
       PROVE  /\ Right(u, Absent)'
              /\ u \notin Gone => \A v : Right(u, v) => Right(u, v)'
  <2>1. \A o \in listed' : uid'[o] # u
    BY <1>3, <1>4, <1>5, <1>14
  <2>2. u \notin Gone => \A x \in Alive : uid[x] = u => x \in Alive'
    BY DEF Gone
  <2>3. \A x \in Alive : uid'[x] = uid[x]
    BY <1>0, <1>5 DEF RoomOK
  <2> QED
    BY <2>1, <2>2, <2>3 DEF Right
<1>15. ASSUME NEW m, m = Deletes \o Created(place, name)
       PROVE  IInv'
  <2>1. \/ m = <<>> /\ Gone = {} /\ place = <<>>
        \/ m = <<g>> /\ place = <<>>
        \/ m = <<place, r>> /\ Gone = {}
        \/ m = <<g, place, r>>
    <3>1. <<>> \in Seq(Patch) /\ <<g>> \in Seq(Patch) /\ <<place, r>> \in Seq(Patch)
      BY <1>8, <1>9, <1>10
    <3>2. CASE Gone = {}
      BY <1>8, <1>11, <1>15, <3>1, <3>2, ConcatEmptySeq
    <3>3. CASE Gone # {} /\ place = <<>>
      BY <1>8, <1>11, <1>15, <3>1, <3>3, ConcatEmptySeq
    <3>4. CASE Gone # {} /\ place # <<>>
      <4>1. <<g>> \o <<place, r>> = <<g, place, r>>
        <5>1. g \in Patch /\ place \in Patch /\ r \in Patch
          BY <1>8, <1>9, <1>10
        <5> QED
          BY <5>1, JoinedThree
      <4> QED
        BY <1>8, <1>11, <1>15, <3>4, <4>1
    <3> QED
      BY <3>2, <3>3, <3>4
  <2>2. /\ m \in Seq(Patch)
        /\ \A i \in DOMAIN m : m[i] \in {g, place, r}
        /\ Gone # {} => 1 \in DOMAIN m /\ m[1] = g
        /\ place # <<>> => \E n \in DOMAIN m :
               m[n] = r /\ \A i \in DOMAIN m : i = n \/ i < n
    <3>1. g \in Patch /\ place \in Patch /\ r \in Patch
      BY <1>8, <1>9, <1>10
    <3>2. CASE m = <<>> /\ Gone = {} /\ place = <<>>
      BY <3>1, <3>2
    <3>3. CASE m = <<g>> /\ place = <<>>
      BY <3>1, <3>3
    <3>4. CASE m = <<place, r>> /\ Gone = {}
      <4>1. DOMAIN m = 1..2 /\ m[2] = r /\ m[1] = place /\ m \in Seq(Patch)
        BY <3>1, <3>4
      <4> QED
        BY <3>4, <4>1
    <3>5. CASE m = <<g, place, r>>
      <4>1. /\ DOMAIN m = 1..3 /\ m[3] = r /\ m[2] = place /\ m[1] = g
            /\ m \in Seq(Patch)
        BY <3>1, <3>5
      <4> QED
        BY <4>1
    <3> QED
      BY <2>1, <3>2, <3>3, <3>4, <3>5
  <2>3. Gone \union Range(name) \subseteq About(m)
    BY <1>8, <1>10, <1>12, <2>2 DEF About
  <2>4. Tell("main", m, new) /\ "main" \in Thread /\ new \union Twins' \subseteq suspect'
    BY <1>2, <1>15 DEF Thread, Tell
  <2>5. ASSUME NEW u \in Uid \ suspect', NEW i \in DOMAIN m, LastWord(m, i, u)
        PROVE  Right(u, m[i][u])'
    <3>1. CASE u \in Range(name)
      <4>1. PICK n \in DOMAIN m : m[n] = r /\ \A j \in DOMAIN m : j = n \/ j < n
        BY <1>12, <2>2, <3>1
      <4>2. i = n
        BY <1>10, <2>5, <3>1, <4>1 DEF LastWord
      <4> QED
        BY <1>13, <2>4, <2>5, <3>1, <4>1, <4>2
    <3>2. CASE u \notin Range(name)
      <4>1. m[i] = g /\ u \in Gone
        BY <1>8, <1>9, <1>10, <2>2, <2>4, <2>5, <3>2 DEF LastWord
      <4> QED
        BY <1>8, <1>14, <3>2, <4>1
    <3> QED
      BY <3>1, <3>2
  <2>6. ASSUME NEW u \in Uid \ suspect', u \notin About(m)
        PROVE  \A v : Right(u, v) => Right(u, v)'
    BY <1>14, <2>3, <2>6
  <2> QED
    BY <1>2, <1>6, <1>9, <2>2, <2>4, <2>5, <2>6, Told
<1> QED
  BY <1>15

-----------------------------------------------------------------------------
(* The server's thread.                                                    *)

(* A description is right about every UID that only one holder has.        *)
LEMMA SnapshotRight ==
    ASSUME RoomOK, NEW f \in Snapshots
    PROVE  /\ f \in Patch /\ DOMAIN f = Uid
           /\ \A u \in Uid \ Twins : Right(u, f[u])
<1>1. f \in [Uid -> Shown]
  BY DEF Snapshots
<1>2. ASSUME NEW u \in Uid \ Twins
      PROVE  Right(u, f[u])
  <2>1. CASE Listed(u) = {}
    BY <2>1 DEF Snapshots, Right, Listed
  <2>2. CASE Listed(u) # {}
    <3>1. PICK o \in Listed(u) : f[u] = pos[o]
      BY <2>2 DEF Snapshots
    <3>2. o \in listed /\ uid[o] = u /\ o \in Alive
      BY <3>1 DEF Listed, Alive
    <3>3. \A x \in listed : uid[x] = u => x = o
      BY <3>2 DEF Alive, Twins
    <3> QED
      BY <3>1, <3>2, <3>3 DEF Right
  <2> QED
    BY <2>1, <2>2
<1> QED
  BY <1>1, <1>2, PatchOf

LEMMA DescribeStep ==
    ASSUME IInv, Describe, open' \subseteq Client, open \subseteq open',
           UNCHANGED <<born, uid, pos, fixed, listed, holders, view>>
    PROVE  IInv'
<1>0. RoomOK /\ Alive' = Alive /\ Twins' = Twins
  BY DEF IInv, Alive, Held, holders, Twins
<1>1. RoomOK'
  BY <1>0 DEF RoomOK, Names, holders
<1>2. PICK f \in Snapshots : out' = [out EXCEPT !["server"] = <<f>>]
  BY DEF Describe
<1>3. f \in Patch /\ DOMAIN f = Uid /\ \A u \in Uid \ Twins : Right(u, f[u])
  BY <1>0, SnapshotRight
<1>4. /\ out'["server"] = <<f>> /\ out'["main"] = out["main"]
      /\ out' \in [Thread -> Seq(Patch)]
      /\ suspect' = Twins \union About(out["main"])
  BY <1>2, <1>3 DEF Describe, IInv, MessagesOK, Thread
<1>5. MessagesOK'
  <2>1. Twins \subseteq Uid /\ out["main"] \in Seq(Patch)
    BY <1>0 DEF Twins, RoomOK, IInv, MessagesOK, Thread
  <2> QED
    BY <1>4, <2>1, AboutPatches DEF MessagesOK
<1>6. Apart'
  <2>1. About(out'["main"]) \subseteq suspect'
    BY <1>4
  <2> QED
    BY <2>1 DEF Apart, About
<1>7. Coming'
  <2> SUFFICES ASSUME NEW u \in Uid \ suspect'
               PROVE  /\ \A t \in Thread : \A i \in DOMAIN out'[t] :
                             LastWord(out[t], i, u)' => Right(u, out[t][i][u])'
                      /\ ~Silent(u)'
    BY DEF Coming
  <2>1. 1 \in DOMAIN out'["server"] /\ out'["server"][1] = f
        /\ \A i \in DOMAIN out'["server"] : out'["server"][i] = f
    BY <1>4
  <2>2. ~Silent(u)'
    BY <1>3, <2>1 DEF Silent, About, Thread
  <2>3. ASSUME NEW i \in DOMAIN out'["main"], LastWord(out["main"], i, u)'
        PROVE  FALSE
    BY <1>4, <2>3 DEF LastWord, About
  <2>4. ASSUME NEW i \in DOMAIN out'["server"]
        PROVE  Right(u, out["server"][i][u])'
    BY <1>0, <1>3, <1>4, <2>1, <2>4 DEF Right
  <2> QED
    BY <2>2, <2>3, <2>4 DEF Thread
<1> QED
  BY <1>0, <1>1, <1>4, <1>5, <1>6, <1>7 DEF IInv

LEMMA AnsweredStep == IInv /\ (Connect \/ Request) => IInv'
<1> SUFFICES ASSUME IInv, Connect \/ Request
             PROVE  IInv'
  OBVIOUS
<1>1. open \subseteq Client
  BY DEF IInv, RoomOK
<1> QED
  BY <1>1, DescribeStep DEF Connect, Request

LEMMA DisconnectStep == IInv /\ Disconnect => IInv'
<1> SUFFICES ASSUME IInv, Disconnect
             PROVE  IInv'
  OBVIOUS
<1>1. PICK c \in open :
        /\ open' = open \ {c}
        /\ view' = [view EXCEPT ![c] = [u \in Uid |-> Absent]]
        /\ UNCHANGED <<born, uid, pos, fixed, listed, holders>>
        /\ Tell("server", <<>>, {})
  BY DEF Disconnect
<1>2. Alive' = Alive
  BY <1>1 DEF Alive, Held, holders
<1>3. [u \in Uid |-> Absent] \in [Uid -> Shown]
  BY DEF Shown
<1>4. RoomOK'
  BY <1>1, <1>2, <1>3 DEF IInv, RoomOK, Names, holders
<1>5. \A d \in open' : d \in open /\ view'[d] = view[d]
  BY <1>1 DEF IInv, RoomOK
<1>6. \A u, v : Right(u, v) => Right(u, v)'
  BY <1>1, <1>2 DEF Right
<1> QED
  BY <1>1, <1>4, <1>5, <1>6, QuietStep DEF Thread

LEMMA UpdateRoomNodeStep == IInv /\ UpdateRoomNode => IInv'
<1> SUFFICES ASSUME IInv, UpdateRoomNode
             PROVE  IInv'
  OBVIOUS
<1>1. UNCHANGED <<born, uid, listed, holders, open, view>>
  BY DEF UpdateRoomNode
<1>2. PICK o \in listed, p \in Position, f \in BOOLEAN, s \in BOOLEAN : FromJson(o, p, f, s)
  BY DEF UpdateRoomNode
<1>3. PICK q \in Taken(o, p, s) :
        /\ pos' = [pos EXCEPT ![o] = q]
        /\ fixed' = [fixed EXCEPT ![o] = f]
        /\ Tell("server", <<Only(uid[o], p)>>, IF q = p THEN {} ELSE {uid[o]})
  BY <1>2 DEF FromJson
<1>4. /\ Alive' = Alive /\ o \in Alive /\ o \in born /\ o \in Object
      /\ uid[o] \in Uid /\ q \in Position
  BY <1>1, <1>3 DEF IInv, RoomOK, Alive, Held, holders, Taken
<1>5. RoomOK'
  BY <1>1, <1>3, <1>4 DEF IInv, RoomOK, Names, holders
<1>6. (\A x \in Object \ {o} : pos'[x] = pos[x]) /\ pos'[o] = q
  BY <1>3, <1>4 DEF IInv, RoomOK
<1>7. PICK extra \in SUBSET Uid : extra = IF q = p THEN {} ELSE {uid[o]}
  BY <1>4
<1>8. Tell("server", <<Only(uid[o], p)>>, extra) /\ (pos'[o] = p \/ uid[o] \in extra)
  BY <1>3, <1>6, <1>7
<1> QED
  BY <1>1, <1>4, <1>5, <1>6, <1>8, PlaceStep DEF Thread

LEMMA DeleteRoomNodeStep == IInv /\ DeleteRoomNode => IInv'
<1> SUFFICES ASSUME IInv, DeleteRoomNode
             PROVE  IInv'
  OBVIOUS
<1>1. /\ UNCHANGED <<born, uid, pos, fixed, holders, open, view>>
      /\ Tell("server", Deletes, {}) /\ listed' \subseteq listed
  BY DEF DeleteRoomNode
<1>2. Alive' \subseteq Alive
  BY <1>1 DEF Alive, Held, holders
<1>3. RoomOK'
  BY <1>1, <1>2 DEF IInv, RoomOK, Names, holders
<1> QED
  BY <1>1, <1>2, <1>3, ReleaseStep DEF Thread

(* What a new node under a new UID changes.                                *)
LEMMA NamedNode ==
    ASSUME IInv, NEW o \in Object \ born, NEW q \in Position, NEW f \in BOOLEAN,
           NEW name \in {o, Chosen},
           born' = born \union {o}, listed' = listed \union {o},
           uid' = [uid EXCEPT ![o] = name], pos' = [pos EXCEPT ![o] = q],
           fixed' = [fixed EXCEPT ![o] = f], UNCHANGED <<holders, open, view>>
    PROVE  /\ RoomOK'
           /\ name \notin Twins' => Right(name, q)'
           /\ \A u \in Uid \ {o, name} : \A v : Right(u, v) => Right(u, v)'
<1>0. RoomOK
  BY DEF IInv
<1>1. o \in Object /\ o \in Uid /\ name \in Uid /\ uid[o] = o
  BY <1>0 DEF Uid, RoomOK, Names
<1>2. Alive' = Alive \union {o} /\ UNCHANGED kept
  BY DEF Alive, Held, holders
<1>3. /\ \A x \in Object : uid'[x] = IF x = o THEN name ELSE uid[x]
      /\ \A x \in Object : pos'[x] = IF x = o THEN q ELSE pos[x]
      /\ uid' \in [Object -> Uid] /\ pos' \in [Object -> Position]
      /\ fixed' \in [Object -> BOOLEAN]
  BY <1>0, <1>1 DEF RoomOK
<1>4. RoomOK'
  <2>1. Alive' \subseteq born' /\ born' \subseteq Object
    BY <1>0, <1>2 DEF RoomOK
  <2>2. Names'
    BY <1>0, <1>3 DEF RoomOK, Names
  <2> QED
    BY <1>0, <1>2, <1>3, <2>1, <2>2 DEF RoomOK
<1>5. ASSUME name \notin Twins'
      PROVE  Right(name, q)'
  <2>1. o \in Alive' /\ uid'[o] = name /\ pos'[o] = q
    BY <1>1, <1>2, <1>3
  <2>2. \A x \in Alive' : uid'[x] = name => x = o
    BY <1>5, <2>1 DEF Twins
  <2>3. listed' \subseteq Alive'
    BY DEF Alive
  <2> QED
    BY <2>1, <2>2, <2>3 DEF Right
<1>6. ASSUME NEW u \in Uid \ {o, name}, NEW v, Right(u, v)
      PROVE  Right(u, v)'
  <2>1. \A x \in Alive : x \in Object /\ (uid[x] = u => uid'[x] = u)
    BY <1>0, <1>1, <1>3, <1>6 DEF RoomOK
  <2>2. \A x \in listed' : uid'[x] = u => x \in listed /\ uid[x] = u /\ pos'[x] = pos[x]
    <3>1. \A x \in listed' : x \in Object /\ (x = o \/ x \in listed)
      BY <1>0, <1>1 DEF RoomOK, Alive
    <3> QED
      BY <1>3, <1>6, <3>1
  <2> QED
    BY <1>2, <1>6, <2>1, <2>2 DEF Right
<1> QED
  BY <1>4, <1>5, <1>6

LEMMA CreateRoomNodeStep == IInv /\ CreateRoomNode => IInv'
<1> SUFFICES ASSUME IInv, CreateRoomNode
             PROVE  IInv'
  OBVIOUS
<1>0. RoomOK
  BY DEF IInv
<1>1. PICK o \in Object \ born, p \in Position, f \in BOOLEAN, s \in BOOLEAN :
      \E q \in Taken(o, p, s) :
        /\ born' = born \union {o}
        /\ listed' = listed \union {o}
        /\ pos' = [pos EXCEPT ![o] = q]
        /\ fixed' = [fixed EXCEPT ![o] = f]
        /\ UNCHANGED <<holders, open, view>>
        /\ \/ /\ uid' = [uid EXCEPT ![o] = Chosen]
              /\ Tell("server", <<Only(o, Home), Only(Chosen, p)>>,
                      {o} \union (IF q = p THEN {} ELSE {Chosen}))
           \/ /\ UNCHANGED uid
              /\ Tell("server", <<Only(o, Home)>>, IF q = Home THEN {} ELSE {o})
  BY DEF CreateRoomNode
<1>2. PICK q \in Taken(o, p, s) :
        /\ born' = born \union {o}
        /\ listed' = listed \union {o}
        /\ pos' = [pos EXCEPT ![o] = q]
        /\ fixed' = [fixed EXCEPT ![o] = f]
        /\ UNCHANGED <<holders, open, view>>
        /\ \/ /\ uid' = [uid EXCEPT ![o] = Chosen]
              /\ Tell("server", <<Only(o, Home), Only(Chosen, p)>>,
                      {o} \union (IF q = p THEN {} ELSE {Chosen}))
           \/ /\ UNCHANGED uid
              /\ Tell("server", <<Only(o, Home)>>, IF q = Home THEN {} ELSE {o})
  BY <1>1
<1>3. /\ q \in Position /\ Chosen \in Uid /\ o \in Uid /\ o # Chosen
      /\ Home \in Shown /\ p \in Shown /\ uid[o] = o
  BY <1>0, RoomSyncAssumption DEF Taken, RoomOK, Uid, Shown, Names
<1>4. PICK v, w : v = Only(o, Home) /\ w = Only(Chosen, p)
  OBVIOUS
<1>5. /\ v \in Patch /\ DOMAIN v = {o} /\ v[o] = Home
      /\ w \in Patch /\ DOMAIN w = {Chosen} /\ w[Chosen] = p
  BY <1>3, <1>4, OnlyPatch
<1>6. CASE /\ uid' = [uid EXCEPT ![o] = Chosen]
           /\ Tell("server", <<v, w>>, {o} \union (IF q = p THEN {} ELSE {Chosen}))
  <2>1. /\ RoomOK'
        /\ Chosen \notin Twins' => Right(Chosen, q)'
        /\ \A u \in Uid \ {o, Chosen} : \A k : Right(u, k) => Right(u, k)'
    BY <1>2, <1>3, <1>6, NamedNode
  <2>2. PICK extra \in SUBSET Uid :
            extra = {o} \union (IF q = p THEN {} ELSE {Chosen})
    BY <1>3
  <2>3. ASSUME NEW m, m = <<v, w>>
        PROVE  IInv'
    <3>1. m \in Seq(Patch) /\ DOMAIN m = {1, 2} /\ m[1] = v /\ m[2] = w
      BY <1>5, <2>3
    <3>2. /\ About(m) = {o, Chosen} /\ Tell("server", m, extra)
          /\ extra \union Twins' \subseteq suspect'
      BY <1>5, <1>6, <2>2, <2>3, <3>1 DEF About, Tell
    <3>3. ASSUME NEW u \in Uid \ suspect', NEW i \in DOMAIN m, LastWord(m, i, u)
          PROVE  Right(u, m[i][u])'
      <4>1. u = Chosen /\ m[i] = w /\ q = p
        BY <1>5, <2>2, <3>1, <3>2, <3>3 DEF LastWord
      <4> QED
        BY <1>5, <2>1, <3>2, <3>3, <4>1
    <3>4. ASSUME NEW u \in Uid \ suspect', u \notin About(m)
          PROVE  \A k : Right(u, k) => Right(u, k)'
      BY <2>1, <3>2, <3>4
    <3> QED
      BY <1>2, <2>1, <3>1, <3>2, <3>3, <3>4, Told DEF Thread
  <2> QED
    BY <2>3
<1>7. CASE UNCHANGED uid /\ Tell("server", <<v>>, IF q = Home THEN {} ELSE {o})
  <2>1. /\ RoomOK'
        /\ o \notin Twins' => Right(o, q)'
        /\ \A u \in Uid \ {o} : \A k : Right(u, k) => Right(u, k)'
    <3>1. uid' = [uid EXCEPT ![o] = o]
      BY <1>0, <1>3, <1>7 DEF RoomOK
    <3> QED
      BY <1>2, <1>3, <3>1, NamedNode
  <2>2. PICK extra \in SUBSET Uid : extra = IF q = Home THEN {} ELSE {o}
    BY <1>3
  <2>3. ASSUME NEW m, m = <<v>>
        PROVE  IInv'
    <3>1. m \in Seq(Patch) /\ DOMAIN m = {1} /\ m[1] = v
      BY <1>5, <2>3
    <3>2. /\ About(m) = {o} /\ Tell("server", m, extra)
          /\ extra \union Twins' \subseteq suspect'
      BY <1>5, <1>7, <2>2, <2>3, <3>1 DEF About, Tell
    <3>3. ASSUME NEW u \in Uid \ suspect', NEW i \in DOMAIN m, LastWord(m, i, u)
          PROVE  Right(u, m[i][u])'
      <4>1. u = o /\ m[i] = v /\ q = Home
        BY <1>5, <2>2, <3>1, <3>2, <3>3 DEF LastWord
      <4> QED
        BY <1>5, <2>1, <3>2, <3>3, <4>1
    <3>4. ASSUME NEW u \in Uid \ suspect', u \notin About(m)
          PROVE  \A k : Right(u, k) => Right(u, k)'
      BY <2>1, <3>2, <3>4
    <3> QED
      BY <1>2, <2>1, <3>1, <3>2, <3>3, <3>4, Told DEF Thread
  <2> QED
    BY <2>3
<1> QED
  BY <1>2, <1>4, <1>6, <1>7

-----------------------------------------------------------------------------
(* The messages of a thread and what the first of them says.               *)
LEMMA FirstAndRest ==
    ASSUME NEW m \in Seq(Patch), m # <<>>
    PROVE  /\ Head(m) = m[1] /\ 1 \in DOMAIN m /\ Head(m) \in Patch /\ Tail(m) \in Seq(Patch)
           /\ \A i \in DOMAIN Tail(m) : i + 1 \in DOMAIN m /\ Tail(m)[i] = m[i + 1] /\ i \in Nat
           /\ \A j \in DOMAIN m : j = 1 \/ (j - 1 \in DOMAIN Tail(m) /\ (j - 1) + 1 = j)
<1>1. Len(m) \in Nat \ {0} /\ DOMAIN m = 1..Len(m)
  BY EmptySeq
<1>2. /\ Head(m) \in Patch /\ Tail(m) \in Seq(Patch) /\ Len(Tail(m)) = Len(m) - 1
      /\ \A i \in 1..Len(Tail(m)) : Tail(m)[i] = m[i + 1]
  BY HeadTailProperties
<1>3. DOMAIN Tail(m) = 1..(Len(m) - 1)
  BY <1>2
<1> QED
  BY <1>1, <1>2, <1>3

LEMMA SendStep == ASSUME IInv, NEW t \in Thread, Send(t) PROVE IInv'
<1>0. RoomOK /\ MessagesOK
  BY DEF IInv
<1> DEFINE m == out[t]
<1>1. /\ m \in Seq(Patch) /\ m # <<>>
      /\ UNCHANGED <<born, uid, pos, fixed, listed, holders, open, suspect>>
      /\ out'[t] = Tail(m) /\ out'[Other(t)] = out[Other(t)]
      /\ out' = [out EXCEPT ![t] = Tail(m)]
      /\ view' = [c \in Client |-> IF c \in open THEN Over(Head(m), view[c]) ELSE view[c]]
  BY <1>0, Threads DEF MessagesOK, Send
<1>2. /\ Head(m) = m[1] /\ 1 \in DOMAIN m /\ Head(m) \in Patch /\ Tail(m) \in Seq(Patch)
      /\ \A i \in DOMAIN Tail(m) : i + 1 \in DOMAIN m /\ Tail(m)[i] = m[i + 1] /\ i \in Nat
      /\ \A j \in DOMAIN m : j = 1 \/ (j - 1 \in DOMAIN Tail(m) /\ (j - 1) + 1 = j)
  BY <1>1, FirstAndRest
<1>3. About(Tail(m)) \subseteq About(m)
  BY <1>2 DEF About
<1>4. Alive' = Alive /\ Twins' = Twins
  BY <1>1 DEF Alive, Held, holders, Twins
<1>5. \A c \in Client, u \in Uid : view'[c][u] =
          IF c \in open /\ u \in DOMAIN m[1] THEN m[1][u] ELSE view[c][u]
  BY <1>0, <1>1, <1>2 DEF RoomOK, Over
<1>6. view' \in [Client -> [Uid -> Shown]]
  <2>1. \A c \in Client : Over(Head(m), view[c]) \in [Uid -> Shown]
    BY <1>0, <1>2, InPatch DEF RoomOK, Over
  <2> QED
    BY <1>0, <1>1, <2>1 DEF RoomOK
<1>7. RoomOK' /\ MessagesOK'
  <2>1. RoomOK'
    BY <1>0, <1>1, <1>4, <1>6 DEF RoomOK, Names, holders
  <2>2. out' \in [Thread -> Seq(Patch)]
    BY <1>0, <1>1, <1>2 DEF MessagesOK
  <2> QED
    BY <1>0, <1>1, <2>1, <2>2 DEF MessagesOK
<1>8. Apart'
  <2>1. About(out[t]) \cap About(out[Other(t)]) \subseteq suspect
    BY DEF IInv, Apart, Thread, Other
  <2>2. About(out'[t]) \cap About(out'[Other(t)]) \subseteq suspect'
    BY <1>1, <1>3, <2>1
  <2> QED
    BY <2>2 DEF Apart, Thread, Other, About
<1>9. Coming'
  <2> SUFFICES ASSUME NEW u \in Uid \ suspect'
               PROVE  /\ \A s \in Thread : \A i \in DOMAIN out'[s] :
                             LastWord(out[s], i, u)' => Right(u, out[s][i][u])'
                      /\ Silent(u)' => \A c \in open' : Right(u, view[c][u])'
    BY DEF Coming
  <2>1. u \in Uid \ suspect
    BY <1>1
  <2>2. \A v : Right(u, v) => Right(u, v)'
    BY <1>1, <1>4 DEF Right
  <2>3. ASSUME NEW s \in Thread, NEW i \in DOMAIN out'[s], LastWord(out[s], i, u)'
        PROVE  Right(u, out[s][i][u])'
    <3>1. CASE s = t
      <4>1. i + 1 \in DOMAIN m /\ out'[s][i] = m[i + 1] /\ i \in Nat
        BY <1>1, <1>2, <2>3, <3>1
      <4>2. LastWord(m, i + 1, u)
        <5>1. ASSUME NEW j \in DOMAIN m, i + 1 < j
              PROVE  u \notin DOMAIN m[j]
          <6>1. j \in Nat /\ j # 1
            BY <1>1, <4>1, <5>1
          <6>2. j - 1 \in DOMAIN Tail(m) /\ Tail(m)[j - 1] = m[j] /\ i < j - 1
            BY <1>2, <4>1, <5>1, <6>1
          <6> QED
            BY <1>1, <2>3, <3>1, <6>2 DEF LastWord
        <5>2. u \in DOMAIN m[i + 1]
          BY <2>3, <3>1, <4>1 DEF LastWord
        <5> QED
          BY <5>1, <5>2 DEF LastWord
      <4>3. Right(u, m[i + 1][u])
        BY <2>1, <4>1, <4>2 DEF IInv, Coming
      <4>4. \A v : v = m[i + 1][u] => Right(u, v)'
        BY <2>2, <4>3
      <4> QED
        BY <4>1, <4>4 DEF Right
    <3>2. CASE s = Other(t)
      <4>1. LastWord(out[Other(t)], i, u) /\ i \in DOMAIN out[Other(t)]
        BY <1>1, <2>3, <3>2 DEF LastWord
      <4>2. Right(u, out[Other(t)][i][u])
        BY <2>1, <4>1, Threads DEF IInv, Coming
      <4>3. \A v : v = out[Other(t)][i][u] => Right(u, v)'
        BY <2>2, <4>2
      <4> QED
        BY <1>1, <3>2, <4>3 DEF Right
    <3> QED
      BY <3>1, <3>2, Threads
  <2>4. ASSUME Silent(u)', NEW c \in open'
        PROVE  Right(u, view[c][u])'
    <3>1. u \notin About(Tail(m)) /\ u \notin About(out[Other(t)])
      BY <1>1, <2>4, Threads DEF Silent, About
    <3>2. c \in open /\ c \in Client
      BY <1>0, <1>1 DEF RoomOK
    <3>3. CASE u \in DOMAIN m[1]
      <4>1. LastWord(m, 1, u)
        <5>1. ASSUME NEW j \in DOMAIN m, 1 < j
              PROVE  u \notin DOMAIN m[j]
          <6>1. j - 1 \in DOMAIN Tail(m) /\ Tail(m)[j - 1] = m[j]
            BY <1>1, <1>2, <5>1
          <6> QED
            BY <3>1, <6>1 DEF About
        <5> QED
          BY <3>3, <5>1 DEF LastWord
      <4>2. Right(u, m[1][u])
        BY <1>2, <2>1, <4>1 DEF IInv, Coming
      <4>3. \A v : v = m[1][u] => Right(u, v)'
        BY <2>2, <4>2
      <4> QED
        BY <1>5, <3>2, <3>3, <4>3 DEF Right
    <3>4. CASE u \notin DOMAIN m[1]
      <4>1. u \notin About(m)
        BY <1>2, <3>1, <3>4 DEF About
      <4>2. Silent(u)
        BY <3>1, <4>1, Threads DEF Silent
      <4>3. Right(u, view[c][u])
        BY <2>1, <3>2, <4>2 DEF IInv, Coming
      <4>4. \A v : v = view[c][u] => Right(u, v)'
        BY <2>2, <4>3
      <4> QED
        BY <1>5, <3>2, <3>4, <4>4 DEF Right
    <3> QED
      BY <3>3, <3>4
  <2> QED
    BY <2>3, <2>4
<1> QED
  BY <1>1, <1>4, <1>7, <1>8, <1>9 DEF IInv

LEMMA Inductive == IInv /\ [Next]_vars => IInv'
<1> SUFFICES ASSUME IInv, [Next]_vars
             PROVE  IInv'
  OBVIOUS
<1>1. CASE UNCHANGED vars
  <2>1. Alive' = Alive /\ UNCHANGED <<out, suspect, kept>>
    BY <1>1 DEF vars, Alive, Held, holders
  <2>2. RoomOK' /\ MessagesOK'
    BY <1>1, <2>1 DEF vars, IInv, RoomOK, Names, MessagesOK
  <2>3. Apart' /\ Twins' \subseteq suspect'
    BY <1>1, <2>1 DEF vars, IInv, Apart, About, Twins
  <2>4. Coming'
    <3>1. \A u, v : Right(u, v)' <=> Right(u, v)
      BY <1>1, <2>1 DEF vars, Right
    <3> QED
      BY <1>1, <2>1, <3>1 DEF vars, IInv, Coming, About, LastWord, Silent
  <2> QED
    BY <2>2, <2>3, <2>4 DEF IInv
<1> QED
  BY <1>1, HoldersStep, ToggleFixedStep, MoveStep, AddDeviceStep, LoadStep, AnsweredStep,
     DisconnectStep, UpdateRoomNodeStep, DeleteRoomNodeStep, CreateRoomNodeStep, SendStep,
     HoldStep, AddPositionStep DEF Next

LEMMA AlwaysIInv == Spec => []IInv
  BY InitIInv, Inductive, PTL DEF Spec

-----------------------------------------------------------------------------
(* The types, for every room and every sequence of handlers: what is held  *)
(* was constructed, and a client that has gone is told nothing more.       *)
THEOREM RoomSyncTypeCorrect == Spec => []TypeOK
<1>1. IInv => TypeOK
  <2> SUFFICES ASSUME IInv
               PROVE  TypeOK
    OBVIOUS
  <2>1. RoomOK /\ MessagesOK
    BY DEF IInv
  <2>2. \A t \in Thread : \A i \in DOMAIN out[t] : out[t][i] \in Patch
    BY <2>1, AboutPatches DEF MessagesOK
  <2> QED
    BY <2>1, <2>2 DEF RoomOK, MessagesOK, TypeOK
<1> QED
  BY <1>1, AlwaysIInv, PTL

(* When all is sent nothing is coming, so what is shown is right.          *)
LEMMA QuietIsRight ==
    ASSUME IInv, Quiet, NEW u \in Uid \ suspect, NEW c \in open
    PROVE  Right(u, view[c][u])
<1>1. Silent(u)
  BY DEF Quiet, Silent, About
<1> QED
  BY <1>1 DEF IInv, Coming

(* For any number of nodes and clients: once both threads have sent what   *)
(* they had to, every client shows every listed node where it is, but for  *)
(* those that fromJson(), setPosition(), load() or the other thread made   *)
(* suspect.                                                                *)
THEOREM ListedShown == Spec => []ListedIsShown
<1>1. IInv => ListedIsShown
  <2> SUFFICES ASSUME IInv, Quiet, NEW c \in open, NEW o \in listed, uid[o] \notin suspect
               PROVE  view[c][uid[o]] = pos[o]
    BY DEF ListedIsShown
  <2>1. uid[o] \in Uid \ suspect
    BY DEF IInv, RoomOK, Alive
  <2> QED
    BY <2>1, QuietIsRight DEF Right
<1> QED
  BY <1>1, AlwaysIInv, PTL

(* And no client shows a node that nobody holds any more: the destructor   *)
(* of ~RoomNodeBase() has told it, whichever handler let go last.          *)
THEOREM ShownHeld == Spec => []ShownIsHeld
<1>1. IInv => ShownIsHeld
  BY QuietIsRight DEF ShownIsHeld, Right
<1> QED
  BY <1>1, AlwaysIInv, PTL
=============================================================================
