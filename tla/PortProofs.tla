----------------------------- MODULE PortProofs -----------------------------
(***************************************************************************)
(* Theorems about the ports, for any ports, values, nodes and types.       *)
(***************************************************************************)
EXTENDS Port, TLAPS

(* One hand-over keeps the history well formed.                            *)
LEMMA RecieveTyped ==
    ASSUME TypeOK, NEW P \in SUBSET Pair, NEW v \in Value \cup {NoValue}, Recieve(P, v)
    PROVE  /\ got' \in [Pair -> Value \cup {NoValue}]
           /\ behind' \subseteq Pair
BY DEF Recieve, TypeOK

(* ... so does catching up a late joiner.                                  *)
LEMMA CatchUpTyped ==
    ASSUME TypeOK, NEW p \in Pair, NEW v \in Value \cup {NoValue}, CatchUp(p, v)
    PROVE  /\ got' \in [Pair -> Value \cup {NoValue}]
           /\ behind' \subseteq Pair
<1>1. CASE v = NoValue
  BY <1>1 DEF CatchUp, TypeOK
<1>2. CASE v # NoValue
  <2>1. Recieve({p}, v) /\ {p} \in SUBSET Pair
    BY <1>2 DEF CatchUp
  <2> QED BY <2>1, RecieveTyped
<1> QED BY <1>1, <1>2

(* Listing one more entry of a compatible input.                           *)
LEMMA AddedTyped ==
    ASSUME TypeOK, NEW q \in Pair, Type[q[1]] = Type[q[2]],
           listeners' = AddedListener(listeners, q)
    PROVE  /\ listeners' \in [Pair -> Nat]
           /\ \A p \in Pair : listeners'[p] > 0 => Type[p[1]] = Type[p[2]]
<1>1. listeners' \in [Pair -> Nat]
  BY DEF AddedListener, TypeOK
<1>2. ASSUME NEW p \in Pair, listeners'[p] > 0 PROVE Type[p[1]] = Type[p[2]]
  <2>1. CASE p = q
    BY <2>1
  <2>2. CASE p # q
    BY <1>2, <2>2 DEF AddedListener, TypeOK
  <2> QED BY <2>1, <2>2
<1> QED BY <1>1, <1>2

(* Every state has values of the declared kinds, an output lists only      *)
(* inputs of its own type, and the server's thread is in one call at most. *)
THEOREM PortTypeCorrect == Spec => []TypeOK
<1>1. Init => TypeOK
  <2> SUFFICES ASSUME Init PROVE TypeOK
    OBVIOUS
  <2>1. /\ listeners \in [Pair -> Nat] /\ \A p \in Pair : listeners[p] = 0
        /\ got \in [Pair -> Value \cup {NoValue}]
    BY DEF Init
  <2>2. /\ cached \in [Out -> Value \cup {NoValue}] /\ enabled \in [In -> BOOLEAN]
        /\ running \in [Out -> BOOLEAN]
    BY DEF Init
  <2>3. /\ taken = {} /\ listed = {} /\ copy = NoValue /\ passed = FALSE
        /\ behind = {} /\ missed = {} /\ crossed = {}
    BY DEF Init
  <2>4. \A p \in Pair : listeners[p] > 0 => Type[p[1]] = Type[p[2]]
    BY <2>1
  <2> HIDE DEF Pair
  <2> QED BY <2>1, <2>2, <2>3, <2>4 DEF TypeOK
<1>2. TypeOK /\ [Next]_vars => TypeOK'
  <2> SUFFICES ASSUME TypeOK, [Next]_vars PROVE TypeOK'
    OBVIOUS
  <2>1. ASSUME NEW o \in Out, NEW i \in In, Connect(o, i) PROVE TypeOK'
    <3>1. <<o, i>> \in Pair /\ Type[o] = Type[i]
      BY <2>1 DEF Pair, Connect, Compatible
    <3>2. got' \in [Pair -> Value \cup {NoValue}] /\ behind' \subseteq Pair
      <4>1. CatchUp(<<o, i>>, cached[o]) /\ cached[o] \in Value \cup {NoValue}
        BY <2>1 DEF Connect, TypeOK
      <4> QED BY <3>1, <4>1, CatchUpTyped
    <3>3. /\ listeners' \in [Pair -> Nat]
          /\ \A p \in Pair : listeners'[p] > 0 => Type[p[1]] = Type[p[2]]
      BY <2>1, <3>1, AddedTyped DEF Connect
    <3>4. running' \in [Out -> BOOLEAN]
      BY <2>1 DEF Connect, Sole, TypeOK
    <3>5. crossed' \subseteq Out /\ missed' \subseteq Pair
      BY <2>1 DEF Connect, TypeOK
    <3> QED BY <2>1, <3>2, <3>3, <3>4, <3>5 DEF Connect, TypeOK
  <2>2. ASSUME NEW o \in Out, NEW i \in In, Disconnect(o, i) PROVE TypeOK'
    <3>1. listeners' \in [Pair -> Nat]
      BY <2>2 DEF Disconnect, RemovedListener, TypeOK
    <3>2. \A p \in Pair : listeners'[p] > 0 => listeners[p] > 0
      BY <2>2 DEF Disconnect, RemovedListener, TypeOK
    <3>3. running' \in [Out -> BOOLEAN]
      BY <2>2 DEF Disconnect, Idle, TypeOK
    <3>4. crossed' \subseteq Out
      BY <2>2 DEF Disconnect, TypeOK
    <3> QED BY <2>2, <3>1, <3>2, <3>3, <3>4 DEF Disconnect, TypeOK
  <2>3. ASSUME NEW o \in Out, NEW i \in In, ServerConnect(o, i) PROVE TypeOK'
    <3>1. <<o, i>> \in Pair /\ Type[o] = Type[i]
      BY <2>3 DEF Pair, ServerConnect, Compatible
    <3>2. copy' \in Value \cup {NoValue} /\ passed' \in BOOLEAN
      BY <2>3 DEF ServerConnect, TypeOK
    <3>3. /\ taken' \subseteq Pair /\ listed' \subseteq Pair
          /\ \A p \in taken' : Type[p[1]] = Type[p[2]]
          /\ \A p, q \in taken' \cup listed' : p = q
          /\ taken' = {} \/ listed' = {}
      BY <2>3, <3>1 DEF ServerConnect
    <3>4. UNCHANGED <<listeners, cached, enabled, running, got, behind, missed, crossed>>
      BY <2>3 DEF ServerConnect
    <3> QED BY <3>2, <3>3, <3>4 DEF TypeOK
  <2>4. ASSUME NEW p \in Pair, ServerList(p) PROVE TypeOK'
    <3>1. Type[p[1]] = Type[p[2]]
      BY <2>4 DEF ServerList, TypeOK
    <3>2. /\ listeners' \in [Pair -> Nat]
          /\ \A q \in Pair : listeners'[q] > 0 => Type[q[1]] = Type[q[2]]
      BY <2>4, <3>1, AddedTyped DEF ServerList
    <3>3. got' \in [Pair -> Value \cup {NoValue}] /\ behind' \subseteq Pair
      <4>1. CatchUp(p, copy) /\ copy \in Value \cup {NoValue}
        BY <2>4 DEF ServerList, TypeOK
      <4> QED BY <4>1, CatchUpTyped
    <3>4. missed' \subseteq Pair
      BY <2>4 DEF ServerList, TypeOK
    <3> QED BY <2>4, <3>2, <3>3, <3>4 DEF ServerList, TypeOK
  <2>5. ASSUME NEW p \in Pair, ServerCount(p) PROVE TypeOK'
    <3>1. running' \in [Out -> BOOLEAN]
      BY <2>5 DEF ServerCount, Sole, TypeOK
    <3> QED BY <2>5, <3>1 DEF ServerCount, TypeOK
  <2>6. ASSUME NEW o \in Out, NEW v \in Value, Send(o, v) PROVE TypeOK'
    <3>1. Listening(listeners, o) \in SUBSET Pair
      BY DEF Listening
    <3>2. got' \in [Pair -> Value \cup {NoValue}] /\ behind' \subseteq Pair
      BY <2>6, <3>1, RecieveTyped DEF Send
    <3>3. missed' \subseteq Pair
      BY <2>6 DEF Send, TypeOK
    <3>4. cached' \in [Out -> Value \cup {NoValue}]
      BY <2>6 DEF Send, TypeOK
    <3> QED BY <2>6, <3>2, <3>3, <3>4 DEF Send, TypeOK
  <2>7. ASSUME NEW n \in Node, EnableNode(n) \/ DisableNode(n) PROVE TypeOK'
    <3>1. enabled' \in [In -> BOOLEAN]
      BY <2>7 DEF EnableNode, DisableNode, SetEnabled, TypeOK
    <3> QED BY <2>7, <3>1 DEF EnableNode, DisableNode, TypeOK
  <2>8. CASE UNCHANGED vars
    BY <2>8 DEF vars, TypeOK
  <2> QED BY <2>1, <2>2, <2>3, <2>4, <2>5, <2>6, <2>7, <2>8 DEF Next
<1> QED BY <1>1, <1>2, PTL DEF Spec

(* What a hand-over does to one pair: it is up to date, or behind, or      *)
(* untouched.                                                              *)
LEMMA RecieveOnPair ==
    ASSUME TypeOK, NEW P \in SUBSET Pair, NEW v \in Value, Recieve(P, v),
           NEW p \in Pair
    PROVE  /\ p \in P => got'[p] = v \/ p \in behind'
           /\ p \notin P => got'[p] = got[p] /\ (p \in behind' <=> p \in behind)
BY DEF Recieve, TypeOK

(* ... and catching up: the pair connected is up to date or behind, the    *)
(* others are untouched.                                                   *)
LEMMA CatchUpOnPair ==
    ASSUME TypeOK, NEW q \in Pair, NEW v \in Value, CatchUp(q, v), NEW p \in Pair
    PROVE  /\ p = q => got'[p] = v \/ p \in behind'
           /\ p # q => got'[p] = got[p] /\ (p \in behind' <=> p \in behind)
<1>1. {q} \in SUBSET Pair /\ Recieve({q}, v)
  BY PortAssumption DEF CatchUp
<1> QED BY <1>1, RecieveOnPair

(* The server's copy is the cached value until a send comes.               *)
CopyIsCached == \A p \in taken : passed \/ copy = cached[p[1]]

THEOREM Copied == Spec => []CopyIsCached
<1>1. Init => CopyIsCached
  BY DEF Init, CopyIsCached
<1>2. TypeOK /\ CopyIsCached /\ [Next]_vars => CopyIsCached'
  <2> SUFFICES ASSUME TypeOK, CopyIsCached, [Next]_vars, NEW p \in taken', ~passed'
               PROVE  copy' = cached'[p[1]]
    BY DEF CopyIsCached
  <2>1. ASSUME NEW o \in Out, NEW i \in In, ServerConnect(o, i)
        PROVE  copy' = cached'[p[1]]
    BY <2>1 DEF ServerConnect
  <2>2. ASSUME NEW o \in Out, NEW v \in Value, Send(o, v) PROVE copy' = cached'[p[1]]
    <3>1. p \in taken /\ p[1] # o /\ ~passed
      BY <2>2 DEF Send
    <3>2. p[1] \in Out
      BY <3>1 DEF TypeOK, Pair
    <3>3. cached'[p[1]] = cached[p[1]] /\ copy' = copy
      BY <2>2, <3>1, <3>2 DEF Send, TypeOK
    <3> QED BY <3>1, <3>3 DEF CopyIsCached
  <2>3. ASSUME NEW q \in Pair, ServerList(q) PROVE copy' = cached'[p[1]]
    BY <2>3 DEF ServerList
  <2>4. ASSUME UNCHANGED <<taken, passed, copy, cached>> PROVE copy' = cached'[p[1]]
    BY <2>4 DEF CopyIsCached
  <2> QED BY <2>1, <2>2, <2>3, <2>4
          DEF Next, Connect, Disconnect, ServerCount, EnableNode, DisableNode, vars
<1> QED BY <1>1, <1>2, PortTypeCorrect, PTL DEF Spec

(* Nobody has heard of an output that has not sent: the strengthening that *)
(* LateJoinerUpToDate needs when the first listener joins a silent output. *)
SilentUntilSent ==
    /\ \A p \in Pair : cached[p[1]] = NoValue => got[p] = NoValue
    /\ \A p \in taken : cached[p[1]] = NoValue => copy = NoValue

THEOREM Silence == Spec => []SilentUntilSent
<1>1. Init => SilentUntilSent
  BY DEF Init, SilentUntilSent
<1>2. TypeOK /\ SilentUntilSent /\ [Next]_vars => SilentUntilSent'
  <2> SUFFICES ASSUME TypeOK, SilentUntilSent, [Next]_vars PROVE SilentUntilSent'
    OBVIOUS
  <2>0. \A p \in Pair : p[1] \in Out
    BY DEF Pair
  <2>1. ASSUME NEW o \in Out, NEW i \in In, Connect(o, i) PROVE SilentUntilSent'
    <3>1. <<o, i>> \in Pair /\ CatchUp(<<o, i>>, cached[o])
      BY <2>1 DEF Connect, Pair
    <3>2. ASSUME NEW p \in Pair, cached[p[1]] = NoValue PROVE got'[p] = NoValue
      BY <3>1, <3>2 DEF CatchUp, Recieve, SilentUntilSent
    <3> QED BY <2>1, <3>2 DEF Connect, SilentUntilSent
  <2>2. ASSUME NEW o \in Out, NEW i \in In, ServerConnect(o, i) PROVE SilentUntilSent'
    BY <2>2 DEF ServerConnect, SilentUntilSent
  <2>3. ASSUME NEW q \in Pair, ServerList(q) PROVE SilentUntilSent'
    <3>1. ASSUME NEW p \in Pair, cached[p[1]] = NoValue PROVE got'[p] = NoValue
      BY <2>3, <3>1 DEF ServerList, CatchUp, Recieve, SilentUntilSent
    <3> QED BY <2>3, <3>1 DEF ServerList, SilentUntilSent
  <2>4. ASSUME NEW o \in Out, NEW v \in Value, Send(o, v) PROVE SilentUntilSent'
    <3>1. ASSUME NEW p \in Pair, cached'[p[1]] = NoValue
          PROVE  /\ got'[p] = NoValue
                 /\ p \in taken' => copy' = NoValue
      <4>1. p[1] # o
        BY <2>0, <2>4, <3>1, PortAssumption DEF Send, TypeOK
      <4>2. cached'[p[1]] = cached[p[1]]
        BY <2>0, <2>4, <4>1 DEF Send, TypeOK
      <4>3. got'[p] = got[p]
        BY <2>4, <4>1 DEF Send, Recieve, Listening
      <4> QED BY <2>4, <3>1, <4>2, <4>3 DEF Send, SilentUntilSent
    <3>2. taken' \subseteq Pair
      BY <2>4 DEF Send, TypeOK
    <3> QED BY <3>1, <3>2 DEF SilentUntilSent
  <2>5. ASSUME UNCHANGED <<cached, got, taken, copy>> PROVE SilentUntilSent'
    BY <2>5 DEF SilentUntilSent
  <2> QED BY <2>1, <2>2, <2>3, <2>4, <2>5
          DEF Next, Disconnect, ServerCount, EnableNode, DisableNode, vars
<1> QED BY <1>1, <1>2, PortTypeCorrect, PTL DEF Spec

Excused(p) == p \in behind \cup missed

(* No listener is late in a third way, whichever thread connected it, for  *)
(* any number of ports, values and duplicated connections.                 *)
THEOREM LateJoiner == Spec => []LateJoinerUpToDate
<1>1. Init => LateJoinerUpToDate
  BY DEF Init, LateJoinerUpToDate
<1>2. TypeOK /\ SilentUntilSent /\ CopyIsCached /\ LateJoinerUpToDate /\ [Next]_vars
        => LateJoinerUpToDate'
  <2> SUFFICES ASSUME TypeOK, SilentUntilSent, CopyIsCached, LateJoinerUpToDate,
                      [Next]_vars, NEW p \in Pair, listeners'[p] > 0, ~Excused(p)'
               PROVE  got'[p] = cached'[p[1]]
    BY DEF LateJoinerUpToDate, Excused
  <2> p[1] \in Out
    BY DEF Pair
  <2>0. ASSUME listeners[p] > 0, ~Excused(p) PROVE got[p] = cached[p[1]]
    BY <2>0 DEF LateJoinerUpToDate, Excused
  (* Both threads' listing of q, which is told what is cached.             *)
  <2>1. ASSUME NEW q \in Pair, CatchUp(q, cached[q[1]]), cached' = cached,
               listeners' = AddedListener(listeners, q),
               p # q => (p \in missed' <=> p \in missed)
        PROVE  got'[p] = cached'[p[1]]
    <3>0. q[1] \in Out
      BY DEF Pair
    <3>1. CASE cached[q[1]] = NoValue
      <4>1. got'[p] = got[p] /\ behind' = behind
        BY <2>1, <3>1 DEF CatchUp
      <4>2. CASE p = q
        BY <2>1, <3>1, <4>1, <4>2 DEF SilentUntilSent
      <4>3. CASE p # q
        <5>1. listeners[p] > 0
          BY <2>1, <4>3 DEF AddedListener, TypeOK
        <5> QED BY <2>0, <2>1, <4>1, <4>3, <5>1 DEF Excused
      <4> QED BY <4>2, <4>3
    <3>2. CASE cached[q[1]] # NoValue
      <4>0. cached[q[1]] \in Value
        BY <3>0, <3>2 DEF TypeOK
      <4>1. CASE p = q
        BY <2>1, <4>0, <4>1, CatchUpOnPair DEF Excused
      <4>2. CASE p # q
        <5>1. got'[p] = got[p] /\ (p \in behind' <=> p \in behind)
          BY <2>1, <4>0, <4>2, CatchUpOnPair
        <5>2. listeners[p] > 0
          BY <2>1, <4>2 DEF AddedListener, TypeOK
        <5> QED BY <2>0, <2>1, <4>2, <5>1, <5>2 DEF Excused
      <4> QED BY <4>1, <4>2
    <3> QED BY <3>1, <3>2
  <2>2. ASSUME NEW o \in Out, NEW i \in In, Connect(o, i) PROVE got'[p] = cached'[p[1]]
    <3>1. /\ <<o, i>> \in Pair /\ <<o, i>>[1] = o /\ cached' = cached
          /\ CatchUp(<<o, i>>, cached[o])
          /\ listeners' = AddedListener(listeners, <<o, i>>)
          /\ p # <<o, i>> => (p \in missed' <=> p \in missed)
      BY <2>2 DEF Connect, Pair
    <3> HIDE DEF Pair
    <3> QED BY <2>1, <3>1
  <2>3. ASSUME NEW q \in Pair, ServerList(q) PROVE got'[p] = cached'[p[1]]
    <3>1. /\ q \in taken /\ CatchUp(q, copy) /\ cached' = cached
          /\ listeners' = AddedListener(listeners, q)
          /\ p # q => (p \in missed' <=> p \in missed)
      BY <2>3 DEF ServerList
    <3>2. CASE passed
      <4>1. p # q
        BY <2>3, <3>2 DEF ServerList, Excused
      <4>2. got'[p] = got[p] /\ (p \in behind' <=> p \in behind)
        <5>1. CASE copy = NoValue
          BY <3>1, <5>1 DEF CatchUp
        <5>2. CASE copy # NoValue
          <6>1. copy \in Value
            BY <5>2 DEF TypeOK
          <6> QED BY <3>1, <4>1, <6>1, CatchUpOnPair
        <5> QED BY <5>1, <5>2
      <4>3. listeners[p] > 0
        BY <3>1, <4>1 DEF AddedListener, TypeOK
      <4> QED BY <2>0, <3>1, <4>1, <4>2, <4>3 DEF Excused
    <3>3. CASE ~passed
      <4>1. copy = cached[q[1]]
        BY <3>1, <3>3 DEF CopyIsCached
      <4> QED BY <2>1, <3>1, <4>1
    <3> QED BY <3>2, <3>3
  <2>4. ASSUME NEW o \in Out, NEW v \in Value, Send(o, v) PROVE got'[p] = cached'[p[1]]
    <3>0. Listening(listeners, o) \in SUBSET Pair
      BY DEF Listening
    <3>1. Recieve(Listening(listeners, o), v)
      BY <2>4 DEF Send
    <3>2. CASE p \in Listening(listeners, o)
      <4>1. got'[p] = v
        BY <3>0, <3>1, <3>2, RecieveOnPair DEF Excused
      <4> QED BY <4>1, <3>2, <2>4 DEF Send, TypeOK, Listening
    <3>3. CASE p \notin Listening(listeners, o)
      <4>1. got'[p] = got[p] /\ p \notin behind
        BY <3>0, <3>1, <3>3, RecieveOnPair DEF Excused
      <4>2. p \notin missed /\ listeners[p] > 0
        BY <2>4, <3>3 DEF Send, Excused
      <4>3. p[1] # o
        BY <3>3, <4>2 DEF Listening
      <4>4. cached'[p[1]] = cached[p[1]]
        BY <2>4, <4>3 DEF Send, TypeOK
      <4> QED BY <2>0, <4>1, <4>2, <4>4 DEF Excused
    <3> QED BY <3>2, <3>3
  <2>5. ASSUME UNCHANGED <<cached, got, behind, missed>>, listeners[p] > 0
        PROVE  got'[p] = cached'[p[1]]
    BY <2>0, <2>5 DEF Excused
  <2>6. ASSUME NEW o \in Out, NEW i \in In, Disconnect(o, i) PROVE got'[p] = cached'[p[1]]
    <3>1. listeners[p] > 0
      BY <2>6 DEF Disconnect, RemovedListener, TypeOK
    <3> QED BY <2>5, <2>6, <3>1 DEF Disconnect
  <2>7. ASSUME NEW o \in Out, NEW i \in In, ServerConnect(o, i)
        PROVE  got'[p] = cached'[p[1]]
    BY <2>5, <2>7 DEF ServerConnect
  <2>8. ASSUME NEW q \in Pair, ServerCount(q) PROVE got'[p] = cached'[p[1]]
    BY <2>5, <2>8 DEF ServerCount
  <2>9. ASSUME NEW n \in Node, EnableNode(n) \/ DisableNode(n)
        PROVE  got'[p] = cached'[p[1]]
    BY <2>5, <2>9 DEF EnableNode, DisableNode
  <2>10. CASE UNCHANGED vars
    BY <2>5, <2>10 DEF vars
  <2> QED BY <2>2, <2>3, <2>4, <2>6, <2>7, <2>8, <2>9, <2>10 DEF Next
<1> QED BY <1>1, <1>2, PortTypeCorrect, Silence, Copied, PTL DEF Spec

(* What listing an entry does to the count of an output.                   *)
LEMMA Counts ==
    ASSUME NEW ls \in [Pair -> Nat], NEW p \in Pair, NEW o \in Out
    PROVE  /\ p[1] = o => ~Idle(AddedListener(ls, p), o)
           /\ p[1] = o /\ Idle(ls, o) => Sole(AddedListener(ls, p), o)
           /\ p[1] # o => (Idle(AddedListener(ls, p), o) <=> Idle(ls, o))
           /\ p[1] # o => (Sole(AddedListener(ls, p), o) <=> Sole(ls, o))
           /\ p[1] # o => (Idle(RemovedListener(ls, p), o) <=> Idle(ls, o))
           /\ p[1] # o => (Sole(RemovedListener(ls, p), o) <=> Sole(ls, o))
           /\ Sole(ls, o) => ~Idle(ls, o)
<1> p = <<p[1], p[2]>> /\ p[1] \in Out /\ p[2] \in In
  BY DEF Pair
<1> \A i \in In : <<o, i>> \in Pair
  BY DEF Pair
<1> DEFINE add == AddedListener(ls, p)
           rem == RemovedListener(ls, p)
<1>1. \A q \in Pair : q # p => add[q] = ls[q] /\ rem[q] = ls[q]
  BY DEF AddedListener, RemovedListener
<1>2. add[p] = ls[p] + 1
  BY DEF AddedListener
<1> HIDE DEF add, rem
<1>3. p[1] = o => ~Idle(add, o)
  BY <1>2 DEF Idle
<1>4. ASSUME p[1] = o, Idle(ls, o) PROVE Sole(add, o)
  <2>1. add[<<o, p[2]>>] = 1
    BY <1>2, <1>4 DEF Idle
  <2>2. \A j \in In \ {p[2]} : add[<<o, j>>] = 0
    BY <1>1, <1>4 DEF Idle
  <2> QED BY <2>1, <2>2 DEF Sole
<1>5. ASSUME p[1] # o
      PROVE  \A i \in In : add[<<o, i>>] = ls[<<o, i>>] /\ rem[<<o, i>>] = ls[<<o, i>>]
  BY <1>1, <1>5
<1>6. ASSUME p[1] # o
      PROVE  (Idle(add, o) <=> Idle(ls, o)) /\ (Idle(rem, o) <=> Idle(ls, o))
  BY <1>5, <1>6 DEF Idle
<1>7. ASSUME p[1] # o
      PROVE  (Sole(add, o) <=> Sole(ls, o)) /\ (Sole(rem, o) <=> Sole(ls, o))
  BY <1>5, <1>7 DEF Sole
<1>8. Sole(ls, o) => ~Idle(ls, o)
  BY DEF Sole, Idle
<1> QED BY <1>3, <1>4, <1>6, <1>7, <1>8 DEF add, rem

(* Taking out the only listener empties the list.                          *)
LEMMA SoleRemoved ==
    ASSUME NEW ls \in [Pair -> Nat], NEW o \in Out, NEW i \in In,
           ls[<<o, i>>] > 0, Sole(ls, o)
    PROVE  Idle(RemovedListener(ls, <<o, i>>), o)
BY DEF Sole, Idle, RemovedListener, Pair

(* What makes CallbacksMatchListeners inductive: while the server's thread *)
(* is about to count and nothing has crossed it, the owner knows already   *)
(* or the count will be one.                                               *)
Counting ==
    \A p \in listed :
        running[p[1]] \/ p[1] \in crossed \/ Idle(listeners, p[1]) \/ Sole(listeners, p[1])

(* The owner of an output is told of its listeners as far as               *)
(* CallbacksMatchListeners says, for any number of ports and of duplicated *)
(* connections.                                                            *)
THEOREM Callbacks == Spec => []CallbacksMatchListeners
<1> DEFINE Inv == CallbacksMatchListeners /\ Counting
<1>1. Init => Inv
  BY DEF Init, CallbacksMatchListeners, Counting, Idle, Pair
<1>2. TypeOK /\ Inv /\ [Next]_vars => Inv'
  <2> SUFFICES ASSUME TypeOK, Inv, [Next]_vars PROVE Inv'
    OBVIOUS
  <2>0. /\ listeners \in [Pair -> Nat] /\ running \in [Out -> BOOLEAN]
        /\ listed \subseteq Pair
        /\ \A p \in Pair : p[1] \in Out
    BY DEF TypeOK, Pair
  <2>1. ASSUME NEW o \in Out, NEW i \in In, Connect(o, i) PROVE Inv'
    <3>1. <<o, i>> \in Pair /\ listeners' = AddedListener(listeners, <<o, i>>)
      BY <2>1 DEF Connect, Pair
    <3>2. ~Idle(listeners', o) /\ (Idle(listeners, o) => Sole(listeners', o))
      BY <2>0, <3>1, Counts
    <3>3. ASSUME NEW q \in Out, q # o
          PROVE  /\ Idle(listeners', q) <=> Idle(listeners, q)
                 /\ Sole(listeners', q) <=> Sole(listeners, q)
                 /\ running'[q] = running[q]
                 /\ q \in crossed' <=> q \in crossed
      BY <2>0, <2>1, <3>1, <3>3, Counts DEF Connect
    <3>4. /\ running'[o] <=> running[o] \/ Sole(listeners', o)
          /\ o \in crossed' <=> o \in crossed \/ \E p \in listed : p[1] = o
          /\ listed' = listed
      BY <2>0, <2>1 DEF Connect
    <3>5. CallbacksMatchListeners'
      BY <3>2, <3>3, <3>4 DEF CallbacksMatchListeners
    <3>6. Counting'
      BY <2>0, <3>3, <3>4 DEF Counting
    <3> QED BY <3>5, <3>6
  <2>2. ASSUME NEW o \in Out, NEW i \in In, Disconnect(o, i) PROVE Inv'
    <3>1. <<o, i>> \in Pair /\ listeners' = RemovedListener(listeners, <<o, i>>)
      BY <2>2 DEF Disconnect, Pair
    <3>2. ASSUME NEW q \in Out, q # o
          PROVE  /\ Idle(listeners', q) <=> Idle(listeners, q)
                 /\ Sole(listeners', q) <=> Sole(listeners, q)
                 /\ running'[q] = running[q]
                 /\ q \in crossed' <=> q \in crossed
      BY <2>0, <2>2, <3>1, <3>2, Counts DEF Disconnect
    <3>3. /\ running'[o] <=> running[o] /\ ~Idle(listeners', o)
          /\ ~Idle(listeners', o) => (o \in crossed' <=> o \in crossed)
          /\ listed' = listed
      BY <2>0, <2>2 DEF Disconnect
    <3>4. Sole(listeners, o) => Idle(listeners', o)
      BY <2>0, <2>2, <3>1, SoleRemoved DEF Disconnect
    <3>a. ~Idle(listeners, o)
      BY <2>0, <2>2, <3>1 DEF Disconnect, Idle
    <3>5. CallbacksMatchListeners'
      BY <3>2, <3>3, <3>a DEF CallbacksMatchListeners
    <3>6. Counting'
      BY <2>0, <3>2, <3>3, <3>4, <3>a DEF Counting
    <3> QED BY <3>5, <3>6
  <2>3. ASSUME NEW p \in Pair, ServerList(p) PROVE Inv'
    <3>1. /\ listeners' = AddedListener(listeners, p) /\ listed' = {p} /\ listed = {}
          /\ running' = running /\ crossed' = crossed
      BY <2>3 DEF ServerList, TypeOK
    <3>2. ~Idle(listeners', p[1]) /\ (Idle(listeners, p[1]) => Sole(listeners', p[1]))
      BY <2>0, <3>1, Counts
    <3>3. ASSUME NEW q \in Out, q # p[1]
          PROVE  Idle(listeners', q) <=> Idle(listeners, q)
      BY <2>0, <3>1, <3>3, Counts
    <3>4. CallbacksMatchListeners'
      BY <2>0, <3>1, <3>2, <3>3 DEF CallbacksMatchListeners
    <3>5. Counting'
      BY <2>0, <3>1, <3>2 DEF CallbacksMatchListeners, Counting
    <3> QED BY <3>4, <3>5
  <2>4. ASSUME NEW p \in Pair, ServerCount(p) PROVE Inv'
    <3>1. /\ p \in listed /\ listed' = {} /\ listeners' = listeners /\ crossed' = crossed
          /\ running'[p[1]] <=> running[p[1]] \/ Sole(listeners, p[1])
          /\ \A q \in Out \ {p[1]} : running'[q] = running[q]
      BY <2>0, <2>4 DEF ServerCount
    <3>2. \A q \in listed : q = p
      BY <3>1 DEF TypeOK
    <3>3. Sole(listeners, p[1]) => ~Idle(listeners, p[1])
      BY <2>0, Counts
    <3>4. CallbacksMatchListeners'
      <4> SUFFICES ASSUME NEW o \in Out
                   PROVE  /\ running'[o] => ~Idle(listeners', o)
                          /\ ~Idle(listeners', o) =>
                                running'[o] \/ o \in crossed' \/ \E q \in listed' : q[1] = o
        BY DEF CallbacksMatchListeners
      <4>1. CASE o = p[1]
        BY <2>0, <3>1, <3>3, <4>1 DEF CallbacksMatchListeners, Counting
      <4>2. CASE o # p[1]
        <5>1. ~\E q \in listed : q[1] = o
          BY <3>2, <4>2
        <5> QED BY <3>1, <4>2, <5>1 DEF CallbacksMatchListeners
      <4> QED BY <4>1, <4>2
    <3>5. Counting'
      BY <3>1 DEF Counting
    <3> QED BY <3>4, <3>5
  <2>5. ASSUME UNCHANGED <<listeners, running, listed, crossed>> PROVE Inv'
    <3>1. /\ \A o \in Out : Idle(listeners', o) <=> Idle(listeners, o)
          /\ \A o \in Out : Sole(listeners', o) <=> Sole(listeners, o)
      BY <2>5
    <3>2. CallbacksMatchListeners'
      BY <2>5, <3>1 DEF CallbacksMatchListeners
    <3>3. Counting'
      BY <2>0, <2>5, <3>1 DEF Counting
    <3> QED BY <3>2, <3>3
  <2> QED BY <2>1, <2>2, <2>3, <2>4, <2>5
          DEF Next, ServerConnect, Send, EnableNode, DisableNode, vars
<1> QED BY <1>1, <1>2, PortTypeCorrect, PTL DEF Spec

-----------------------------------------------------------------------------
(* The mapped variables, under shorter names.                              *)
Wires == {p \in Pair : listeners[p] > 0}
Muted == {i \in In : ~enabled[i]}

(* A hand-over to listed ports is a hand-over on wires.                    *)
LEMMA RecieveIsHandOver ==
    ASSUME TypeOK, NEW P \in SUBSET Pair, NEW v, Recieve(P, v)
    PROVE  W!HandOver(P, v)
<1>1. {p \in P : enabled[p[2]]} = W!Heard(P)
  BY DEF W!Heard, Pair
<1> QED BY <1>1 DEF Recieve, W!HandOver, Pair

(* Catching up a late joiner is telling it.                                *)
LEMMA CatchUpIsTell ==
    ASSUME TypeOK, NEW p \in Pair, NEW v, CatchUp(p, v)
    PROVE  W!Tell(p, v)
<1>1. {p} \in SUBSET Pair
  OBVIOUS
<1> QED BY <1>1, RecieveIsHandOver DEF CatchUp, W!Tell

(* Listing an entry puts in the wire.                                      *)
LEMMA AddedIsWired ==
    ASSUME TypeOK, NEW q \in Pair, listeners' = AddedListener(listeners, q)
    PROVE  Wires' = Wires \cup {q}
<1>1. \A p \in Pair : listeners'[p] > 0 <=> listeners[p] > 0 \/ p = q
  BY DEF AddedListener, TypeOK
<1> QED BY <1>1 DEF Wires

(* Port.hpp's listener lists, duplicates included, implement plain wires   *)
(* for every set of ports and values, whichever thread connects.           *)
THEOREM PortImplementsWiring == Spec => ImplementsWiring
<1>1. Init => W!Init
  BY DEF Init, W!Init, Pair
<1>2. TypeOK /\ [Next]_vars => [W!Next]_(W!wvars)
  <2> SUFFICES ASSUME TypeOK, [Next]_vars PROVE [W!Next]_(W!wvars)
    OBVIOUS
  <2>1. ASSUME NEW o \in Out, NEW i \in In, Connect(o, i) PROVE W!Plug(o, i)
    <3>1. Wires' = Wires \cup {<<o, i>>}
      BY <2>1, AddedIsWired DEF Connect, Pair
    <3>2. W!Tell(<<o, i>>, cached[o])
      <4>1. <<o, i>> \in Pair /\ CatchUp(<<o, i>>, cached[o])
        BY <2>1 DEF Connect, Pair
      <4> QED BY <4>1, CatchUpIsTell
    <3> QED BY <2>1, <3>1, <3>2 DEF W!Plug, Connect, Wires
  <2>2. ASSUME NEW o \in Out, NEW i \in In, ServerConnect(o, i) PROVE W!TakeNote(o, i)
    BY <2>2 DEF ServerConnect, W!TakeNote
  <2>3. ASSUME NEW p \in Pair, ServerList(p) PROVE W!PutIn(p)
    <3>1. Wires' = Wires \cup {p}
      BY <2>3, AddedIsWired DEF ServerList
    <3>2. W!Tell(p, copy)
      BY <2>3, CatchUpIsTell DEF ServerList
    <3> QED BY <2>3, <3>1, <3>2 DEF W!PutIn, ServerList, Wires
  <2>4. ASSUME NEW p \in Pair, ServerCount(p) PROVE UNCHANGED W!wvars
    BY <2>4 DEF ServerCount, W!wvars
  <2>5. ASSUME NEW o \in Out, NEW i \in In, Disconnect(o, i) PROVE W!Unplug(o, i)
    <3>1. Wires' = Wires \ {<<o, i>>}
      <4>1. \A p \in Pair : listeners'[p] > 0 <=> listeners[p] > 0 /\ p # <<o, i>>
        BY <2>5 DEF Disconnect, RemovedListener, TypeOK
      <4> QED BY <4>1 DEF Wires
    <3> QED BY <2>5, <3>1 DEF W!Unplug, Disconnect, Wires
  <2>6. ASSUME NEW o \in Out, NEW v \in Value, Send(o, v) PROVE W!Publish(o, v)
    <3>0. Listening(listeners, o) \in SUBSET Pair
      BY DEF Listening
    <3>1. Listening(listeners, o) = {w \in Wires : w[1] = o}
      BY DEF Listening, Wires
    <3>2. W!HandOver({w \in Wires : w[1] = o}, v)
      BY <2>6, <3>0, <3>1, RecieveIsHandOver DEF Send
    <3> QED BY <2>6, <3>2 DEF W!Publish, Send, Wires
  <2>7. ASSUME NEW n \in Node, EnableNode(n) PROVE W!Unmute(InputsOf(n))
    <3>1. Muted' = Muted \ InputsOf(n)
      BY <2>7 DEF EnableNode, SetEnabled, Muted
    <3> QED BY <2>7, <3>1 DEF W!Unmute, EnableNode, Muted
  <2>8. ASSUME NEW n \in Node, DisableNode(n) PROVE W!Mute(InputsOf(n))
    <3>1. InputsOf(n) \subseteq In
      BY PortAssumption DEF InputsOf
    <3>2. Muted' = Muted \cup InputsOf(n)
      BY <2>8, <3>1 DEF DisableNode, SetEnabled, Muted
    <3> QED BY <2>8, <3>2 DEF W!Mute, DisableNode, Muted
  <2>9. CASE UNCHANGED vars
    BY <2>9 DEF vars, W!wvars
  <2>10. \A n \in Node : InputsOf(n) \in SUBSET In
    BY PortAssumption DEF InputsOf
  <2> QED BY <2>1, <2>2, <2>3, <2>4, <2>5, <2>6, <2>7, <2>8, <2>9, <2>10
          DEF Next, W!Next, Pair
<1> QED BY <1>1, <1>2, PortTypeCorrect, PTL DEF Spec, ImplementsWiring, W!Spec
=============================================================================
