------------------------- MODULE TriggerListProofs -------------------------
(***************************************************************************)
(* The cue list with any number of cues, wires and calls inside each other.*)
(*                                                                         *)
(* The list and the wires stand still while a call runs. A call whose cue  *)
(* is wired to "fire" may have others inside it; one that is not is on top *)
(* until it returns, so the index is where the inputs that have heard it   *)
(* have put it, one after the other. That this is a function, and that     *)
(* removing an input leaves a sequence, are inductions over naturals, by   *)
(* well-foundedness (lemma Inductively, about a set of naturals).          *)
(***************************************************************************)
EXTENDS TriggerList, TLAPS, SequenceTheorems, WellFoundedInduction

(* The list is not empty while something is fired, calls began inside the  *)
(* list, and only a cue that is wired to "fire" has calls inside its own.  *)
Sound(call) ==
    /\ call.cue \in ToSet(list) /\ call.at < Size
    /\ call.served <= Len(wires[call.cue])

Passive(c) == "fire" \notin ToSet(wires[c])

Nested ==
    \A k \in DOMAIN stack :
        Sound(stack[k]) /\ (k < Len(stack) => ~Passive(stack[k].cue))

(* How many of the inputs have moved the index: the fall moves nothing.    *)
Moved(call) == IF call.value = "on" THEN call.served ELSE Len(wires[call.cue])

Progress ==
    stack # <<>> /\ Passive(Top.cue) => next = Heard(Top.cue, Top.at)[Moved(Top)]

(* Why the index may be behind the list. An empty list has its index at 0  *)
(* or has been stepped through.                                            *)
Strays ==
    /\ next < Size => strayed = {}
    /\ list = <<>> => next = 0 \/ "stepped while empty" \in strayed

IInv == TypeOK /\ Nested /\ Progress /\ Strays /\ NextCueExists

-----------------------------------------------------------------------------
(* Induction up to n, and that a function defined by it exists.            *)

LEMMA Inductively ==
    ASSUME NEW n \in Nat, NEW T, 0 \in T, \A k \in 0..(n - 1) : k \in T => k + 1 \in T
    PROVE  0..n \subseteq T
<1> DEFINE B == 0..n \ T
<1> SUFFICES ASSUME B # {}
             PROVE  FALSE
  OBVIOUS
<1>1. B \subseteq Nat
  OBVIOUS
<1>2. PICK x \in B : \A y \in B : ~ (<<y, x>> \in OpToRel(<, Nat))
  BY <1>1, NatLessThanWellFounded, WFMin
<1>3. x # 0 /\ x \in 0..n
  BY <1>2
<1>4. x - 1 \in 0..(n - 1) /\ (x - 1) + 1 = x /\ x - 1 < x
  BY <1>3
<1>5. x - 1 \in B
  <2>1. x - 1 \in T => x \in T
    BY <1>4
  <2>2. x \notin T
    BY <1>2
  <2>3. x - 1 \in 0..n
    BY <1>3
  <2> QED
    BY <2>1, <2>2, <2>3
<1>6. <<x - 1, x>> \in Nat \X Nat /\ <<x - 1, x>>[1] = x - 1 /\ <<x - 1, x>>[2] = x
  BY <1>3, <1>4
<1>7. <<x - 1, x>> \in OpToRel(<, Nat)
  BY <1>4, <1>6 DEF OpToRel
<1> QED
  BY <1>2, <1>5, <1>7

Grown(g, n, b, F) == g[0] = b /\ \A k \in 1..n : g[k] = F[<<g[k - 1], k>>]

LEMMA Recursively ==
    ASSUME NEW n \in Nat, NEW S, NEW b \in S, NEW F \in [S \X (1..n) -> S]
    PROVE  \E g \in [0..n -> S] : Grown(g, n, b, F)
<1> DEFINE T == {i \in 0..n : \E g \in [0..i -> S] : Grown(g, i, b, F)}
<1>1. 0 \in T
  <2> DEFINE g == [k \in 0..0 |-> b]
  <2>1. g \in [0..0 -> S] /\ Grown(g, 0, b, F)
    BY DEF Grown
  <2> QED
    BY <2>1
<1>2. ASSUME NEW i \in 0..(n - 1), i \in T
      PROVE  i + 1 \in T
  <2>1. PICK g \in [0..i -> S] : Grown(g, i, b, F)
    BY <1>2
  <2> DEFINE h == [k \in 0..(i + 1) |-> IF k = i + 1 THEN F[<<g[i], i + 1>>] ELSE g[k]]
  <2>2. i + 1 \in 1..n /\ i \in 0..i /\ g[i] \in S
    OBVIOUS
  <2>3. <<g[i], i + 1>> \in S \X (1..n)
    BY <2>2
  <2>4. F[<<g[i], i + 1>>] \in S
    BY <2>3
  <2>5. h \in [0..(i + 1) -> S]
    BY <2>4
  <2>6. \A k \in 0..i : h[k] = g[k]
    OBVIOUS
  <2>7. h[i + 1] = F[<<g[i], i + 1>>]
    OBVIOUS
  <2> HIDE DEF h
  <2>8. ASSUME NEW k \in 1..(i + 1)
        PROVE  h[k] = F[<<h[k - 1], k>>]
    <3>1. CASE k = i + 1
      <4>1. k - 1 = i
        BY <3>1
      <4> QED
        BY <2>2, <2>6, <2>7, <3>1, <4>1
    <3>2. CASE k # i + 1
      <4>1. k \in 1..i /\ k \in 0..i /\ k - 1 \in 0..i
        BY <3>2
      <4> QED
        BY <2>1, <2>6, <4>1 DEF Grown
    <3> QED
      BY <3>1, <3>2
  <2>9. Grown(h, i + 1, b, F)
    <3>1. 0 \in 0..i
      OBVIOUS
    <3> QED
      BY <2>1, <2>6, <2>8, <3>1 DEF Grown
  <2> QED
    BY <2>2, <2>5, <2>9
<1>3. n \in 0..n /\ 0..n \subseteq T
  <2> HIDE DEF T
  <2> QED
    BY <1>1, <1>2, Inductively
<1> QED
  BY <1>3

-----------------------------------------------------------------------------
(* Sequences: what is in them after the list or the stack was changed.     *)

LEMMA Inserted ==
    ASSUME NEW S, NEW s \in Seq(S), NEW i \in 1..(Len(s) + 1), NEW e \in S
    PROVE  /\ InsertAt(s, i, e) \in Seq(S)
           /\ Len(InsertAt(s, i, e)) = Len(s) + 1
           /\ \A j \in 1..(Len(s) + 1) : InsertAt(s, i, e)[j] =
                  IF j < i THEN s[j] ELSE IF j = i THEN e ELSE s[j - 1]
<1> DEFINE a == SubSeq(s, 1, i - 1)
           b == SubSeq(s, i, Len(s))
<1>1. Len(s) \in Nat /\ \A j \in 1..Len(s) : s[j] \in S
  OBVIOUS
<1>2. a \in Seq(S) /\ Len(a) = i - 1 /\ \A j \in 1..(i - 1) : a[j] = s[j]
  BY <1>1, SubSeqProperties
<1>3. /\ b \in Seq(S) /\ Len(b) = Len(s) - i + 1
      /\ \A j \in 1..(Len(s) - i + 1) : b[j] = s[i + j - 1]
  BY <1>1, SubSeqProperties
<1>4. <<e>> \in Seq(S) /\ Len(<<e>>) = 1 /\ <<e>>[1] = e
  OBVIOUS
<1> HIDE DEF a, b
<1>5. /\ a \o <<e>> \in Seq(S) /\ Len(a \o <<e>>) = i
      /\ \A j \in 1..i : (a \o <<e>>)[j] = IF j < i THEN s[j] ELSE e
  BY <1>2, <1>4, ConcatProperties
<1>6. /\ (a \o <<e>>) \o b \in Seq(S)
      /\ Len((a \o <<e>>) \o b) = Len(s) + 1
      /\ \A j \in 1..(Len(s) + 1) : ((a \o <<e>>) \o b)[j] =
             IF j <= i THEN (a \o <<e>>)[j] ELSE b[j - i]
  <2> DEFINE f == a \o <<e>>
  <2>1. f \in Seq(S) /\ Len(f) = i
    BY <1>5
  <2> HIDE DEF f
  <2>2. /\ f \o b \in Seq(S) /\ Len(f \o b) = Len(f) + Len(b)
        /\ \A j \in 1..(Len(f) + Len(b)) : (f \o b)[j] =
               IF j <= Len(f) THEN f[j] ELSE b[j - Len(f)]
    BY <2>1, <1>3, ConcatProperties
  <2>3. Len(f) + Len(b) = Len(s) + 1
    BY <1>1, <1>3, <2>1
  <2>4. /\ f \o b \in Seq(S) /\ Len(f \o b) = Len(s) + 1
        /\ \A j \in 1..(Len(s) + 1) : (f \o b)[j] = IF j <= i THEN f[j] ELSE b[j - i]
    BY <2>1, <2>2, <2>3
  <2> QED
    BY <2>4 DEF f
<1>7. InsertAt(s, i, e) = (a \o <<e>>) \o b
  BY DEF InsertAt, a, b
<1>8. ASSUME NEW j \in 1..(Len(s) + 1)
      PROVE  ((a \o <<e>>) \o b)[j] = IF j < i THEN s[j] ELSE IF j = i THEN e ELSE s[j - 1]
  <2>1. CASE j <= i
    <3>1. j \in 1..i /\ (j < i \/ j = i)
      BY <1>1, <2>1
    <3> QED
      BY <1>5, <1>6, <2>1, <3>1
  <2>2. CASE ~(j <= i)
    <3>1. j - i \in 1..(Len(s) - i + 1) /\ i + (j - i) - 1 = j - 1 /\ ~(j < i) /\ j # i
      BY <1>1, <2>2
    <3>2. b[j - i] = s[j - 1]
      BY <1>3, <3>1
    <3> QED
      BY <1>6, <2>2, <3>1, <3>2
  <2> QED
    BY <2>1, <2>2
<1> QED
  BY <1>6, <1>7, <1>8

LEMMA Removed ==
    ASSUME NEW S, NEW s \in Seq(S), NEW i \in 1..Len(s)
    PROVE  /\ RemoveAt(s, i) \in Seq(S)
           /\ Len(RemoveAt(s, i)) = Len(s) - 1
           /\ \A j \in 1..(Len(s) - 1) : RemoveAt(s, i)[j] =
                  IF j < i THEN s[j] ELSE s[j + 1]
<1> DEFINE a == SubSeq(s, 1, i - 1)
           b == SubSeq(s, i + 1, Len(s))
<1>1. Len(s) \in Nat /\ \A j \in 1..Len(s) : s[j] \in S
  OBVIOUS
<1>2. a \in Seq(S) /\ Len(a) = i - 1 /\ \A j \in 1..(i - 1) : a[j] = s[j]
  BY <1>1, SubSeqProperties
<1>3. /\ b \in Seq(S) /\ Len(b) = Len(s) - i
      /\ \A j \in 1..(Len(s) - i) : b[j] = s[i + j]
  BY <1>1, SubSeqProperties
<1> HIDE DEF a, b
<1>4. /\ a \o b \in Seq(S) /\ Len(a \o b) = Len(s) - 1
      /\ \A j \in 1..(Len(s) - 1) : (a \o b)[j] =
             IF j < i THEN a[j] ELSE b[j - i + 1]
  <2>1. /\ a \o b \in Seq(S) /\ Len(a \o b) = Len(a) + Len(b)
        /\ \A j \in 1..(Len(a) + Len(b)) : (a \o b)[j] =
               IF j <= Len(a) THEN a[j] ELSE b[j - Len(a)]
    BY <1>2, <1>3, ConcatProperties
  <2>2. Len(a) + Len(b) = Len(s) - 1 /\ \A j \in Int : j - Len(a) = j - i + 1
    BY <1>1, <1>2, <1>3
  <2>3. \A j \in Int : j <= Len(a) <=> j < i
    BY <1>2
  <2> QED
    BY <2>1, <2>2, <2>3
<1>5. RemoveAt(s, i) = a \o b
  BY DEF RemoveAt, a, b
<1>6. ASSUME NEW j \in 1..(Len(s) - 1)
      PROVE  (a \o b)[j] = IF j < i THEN s[j] ELSE s[j + 1]
  <2>1. CASE j < i
    BY <1>1, <1>2, <1>4, <2>1
  <2>2. CASE ~ (j < i)
    <3>1. j - i + 1 \in 1..(Len(s) - i) /\ i + (j - i + 1) = j + 1
      BY <1>1, <2>2
    <3> QED
      BY <1>3, <1>4, <2>2, <3>1
  <2> QED
    BY <2>1, <2>2
<1> QED
  BY <1>4, <1>5, <1>6

LEMMA FrontOf ==
    ASSUME NEW S, NEW s \in Seq(S), s # <<>>
    PROVE  /\ Front(s) \in Seq(S) /\ Last(s) \in S
           /\ Len(Front(s)) = Len(s) - 1
           /\ \A j \in 1..(Len(s) - 1) : Front(s)[j] = s[j]
<1>1. Len(s) \in Nat \ {0} /\ \A j \in 1..Len(s) : s[j] \in S
  BY EmptySeq
<1>2. /\ SubSeq(s, 1, Len(s) - 1) \in Seq(S)
      /\ Len(SubSeq(s, 1, Len(s) - 1)) = Len(s) - 1
      /\ \A j \in 1..(Len(s) - 1) : SubSeq(s, 1, Len(s) - 1)[j] = s[j]
  <2>1. PICK n \in Nat : n = Len(s) - 1
    BY <1>1
  <2>2. /\ SubSeq(s, 1, n) \in Seq(S)
        /\ Len(SubSeq(s, 1, n)) = n
        /\ \A j \in 1..n : SubSeq(s, 1, n)[j] = s[j]
    <3>1. 1 \in Int /\ n \in Int /\ \A j \in 1..n : s[j] \in S
      BY <1>1, <2>1
    <3>2. /\ SubSeq(s, 1, n) \in Seq(S)
          /\ Len(SubSeq(s, 1, n)) = IF 1 <= n THEN n - 1 + 1 ELSE 0
          /\ \A j \in 1..(n - 1 + 1) : SubSeq(s, 1, n)[j] = s[1 + j - 1]
      BY <3>1, SubSeqProperties
    <3>3. n - 1 + 1 = n /\ \A j \in 1..n : 1 + j - 1 = j
      OBVIOUS
    <3> QED
      BY <3>2, <3>3
  <2> QED
    BY <2>1, <2>2
<1> QED
  BY <1>1, <1>2 DEF Front, Last

LEMMA Appended ==
    ASSUME NEW S, NEW s \in Seq(S), NEW e \in S
    PROVE  /\ Append(s, e) \in Seq(S) /\ Append(s, e) # <<>>
           /\ Len(Append(s, e)) = Len(s) + 1
           /\ Last(Append(s, e)) = e
           /\ \A j \in 1..Len(s) : Append(s, e)[j] = s[j]
  BY DEF Last

-----------------------------------------------------------------------------
(* What is heard and what is fired.                                        *)

LEMMA SizeOf ==
    ASSUME TypeOK
    PROVE  /\ Size \in Nat /\ DOMAIN list = 1..Size
           /\ list # <<>> <=> Size > 0
           /\ \A k \in 1..Size : list[k] \in Cue
<1>1. list \in Seq(Cue)
  BY DEF TypeOK
<1> QED
  BY <1>1 DEF Size

LEMMA Stepped ==
    ASSUME TypeOK, NEW n \in Nat
    PROVE  /\ Up(n) \in Nat /\ Down(n) \in Nat /\ Reset(n) \in Nat
           /\ list # <<>> => Down(n) < Size /\ Reset(n) = 0
<1>1. Size \in Nat /\ (list # <<>> => Size > 0)
  BY SizeOf
<1>2. list = <<>> => Down(n) = n + 1
  BY DEF Down
<1>3. list # <<>> => Down(n) = IF n + 1 < Size THEN n + 1 ELSE Size - 1
  BY DEF Down
<1> QED
  BY <1>1, <1>2, <1>3 DEF Up, Reset

LEMMA Added ==
    ASSUME list \in Seq(Cue), NEW c \in Cue, NEW i \in 1..(Size + 1),
           list' = InsertAt(list, i, c)
    PROVE  /\ list' \in Seq(Cue) /\ Len(list') = Size + 1
           /\ \A j \in 1..(Size + 1) : list'[j] =
                  IF j < i THEN list[j] ELSE IF j = i THEN c ELSE list[j - 1]
<1>1. ASSUME NEW s \in Seq(Cue), NEW n, n = Len(s) + 1, NEW j \in 1..n, NEW r,
             r = InsertAt(s, j, c)
      PROVE  /\ r \in Seq(Cue) /\ Len(r) = n
             /\ \A k \in 1..n : r[k] =
                    IF k < j THEN s[k] ELSE IF k = j THEN c ELSE s[k - 1]
  <2>1. j \in 1..(Len(s) + 1)
    BY <1>1
  <2>2. /\ InsertAt(s, j, c) \in Seq(Cue) /\ Len(InsertAt(s, j, c)) = Len(s) + 1
        /\ \A k \in 1..(Len(s) + 1) : InsertAt(s, j, c)[k] =
               IF k < j THEN s[k] ELSE IF k = j THEN c ELSE s[k - 1]
    BY <2>1, Inserted
  <2> QED
    BY <1>1, <2>2, Zenon
<1>2. PICK n : n = Size + 1
  OBVIOUS
<1>3. i \in 1..n /\ n = Len(list) + 1
  BY <1>2 DEF Size
<1>4. /\ list' \in Seq(Cue) /\ Len(list') = n
      /\ \A k \in 1..n : list'[k] =
             IF k < i THEN list[k] ELSE IF k = i THEN c ELSE list[k - 1]
  BY <1>1, <1>3
<1> QED
  BY <1>2, <1>4

(* A cue that is fired is one of the list, and its call is well formed.    *)
LEMMA FireTyped ==
    ASSUME TypeOK, NEW b \in BOOLEAN, NEW calls \in Seq(Call), Fire(b, calls)
    PROVE  /\ next + 1 \in DOMAIN list /\ list[next + 1] \in Cue
           /\ Began(b) \in Call
           /\ stack' \in Seq(Call) /\ stack' = Append(calls, Began(b))
           /\ held' \in [Cue -> {"none", "on", "off"}]
           /\ \A c \in Cue : held'[c] = IF c = list[next + 1] THEN "on" ELSE held[c]
           /\ UNCHANGED <<next, latch, strayed>>
<1>1. next \in Nat /\ next < Size
  BY DEF Fire, TypeOK
<1>2. next + 1 \in DOMAIN list /\ list[next + 1] \in Cue
  BY <1>1, SizeOf
<1>3. Began(b) \in Call
  BY <1>1, <1>2 DEF Began, Call
<1>4. stack' = Append(calls, Began(b)) /\ stack' \in Seq(Call)
  BY <1>3 DEF Fire
<1> QED
  BY <1>2, <1>3, <1>4 DEF Fire, TypeOK

(* An input either fires, or moves the index and nothing else.             *)
LEMMA HearCases ==
    ASSUME NEW i \in Input, NEW v \in {"on", "off"}, NEW calls, Hear(i, v, calls)
    PROVE  \/ i = "fire" /\ v = "on" /\ Fire(TRUE, calls)
           \/ /\ stack' = calls /\ held' = held
              /\ latch' = (latch /\ ~(i = "fire" /\ v = "off"))
              /\ \/ (i = "fire" \/ v = "off") /\ UNCHANGED <<next, strayed>>
                 \/ i = "up" /\ v = "on" /\ Goto(Up(next), {})
                 \/ i = "down" /\ v = "on" /\ Goto(Down(next), {"stepped while empty"})
                 \/ i = "reset" /\ v = "on" /\ Goto(Reset(next), {})
<1>1. CASE i = "fire" /\ v = "on" /\ ~latch
  BY <1>1 DEF Hear
<1>2. CASE ~(i = "fire" /\ v = "on" /\ ~latch)
  <2>1. /\ stack' = calls /\ held' = held
        /\ latch' = (latch /\ ~(i = "fire" /\ v = "off"))
        /\ IF i = "fire" \/ v = "off" THEN UNCHANGED <<next, strayed>>
           ELSE \/ i = "up" /\ Goto(Up(next), {})
                \/ i = "down" /\ Goto(Down(next), {"stepped while empty"})
                \/ i = "reset" /\ Goto(Reset(next), {})
    BY <1>2 DEF Hear
  <2>2. CASE i = "fire" \/ v = "off"
    BY <2>1, <2>2
  <2>3. CASE ~(i = "fire" \/ v = "off")
    BY <2>1, <2>3
  <2> QED
    BY <2>2, <2>3
<1> QED
  BY <1>1, <1>2

LEMMA GotoTyped ==
    ASSUME TypeOK, NEW n \in Nat, NEW why \in SUBSET {"removed", "stepped while empty"},
           Goto(n, why)
    PROVE  next' = n /\ strayed' \subseteq {"removed", "stepped while empty"}
  BY DEF Goto, Noted, TypeOK

LEMMA HearTyped ==
    ASSUME TypeOK, NEW i \in Input, NEW v \in {"on", "off"}, NEW calls \in Seq(Call),
           Hear(i, v, calls), UNCHANGED list
    PROVE  /\ next' \in Nat /\ latch' \in BOOLEAN
           /\ held' \in [Cue -> {"none", "on", "off"}]
           /\ \A c \in Cue \ ToSet(list) : held'[c] = "none"
           /\ stack' \in Seq(Call)
           /\ strayed' \subseteq {"removed", "stepped while empty"}
<1>1. CASE Fire(TRUE, calls)
  <2>1. list[next + 1] \in ToSet(list)
    BY <1>1, FireTyped DEF ToSet
  <2> QED
    BY <1>1, <2>1, FireTyped DEF TypeOK
<1>2. CASE stack' = calls /\ held' = held
           /\ latch' = (latch /\ ~(i = "fire" /\ v = "off"))
  <2>1. next \in Nat /\ latch' \in BOOLEAN
    BY <1>2 DEF TypeOK
  <2>2. CASE UNCHANGED <<next, strayed>>
    BY <1>2, <2>1, <2>2 DEF TypeOK
  <2>3. CASE \/ Goto(Up(next), {})
             \/ Goto(Down(next), {"stepped while empty"})
             \/ Goto(Reset(next), {})
    BY <1>2, <2>1, <2>3, Stepped, GotoTyped DEF TypeOK
  <2>4. Fire(TRUE, calls) \/ UNCHANGED <<next, strayed>>
          \/ Goto(Up(next), {})
          \/ Goto(Down(next), {"stepped while empty"})
          \/ Goto(Reset(next), {})
    BY HearCases
  <2> QED
    BY <1>1, <2>2, <2>3, <2>4
<1> QED
  BY <1>1, <1>2, HearCases

-----------------------------------------------------------------------------
LEMMA InitIInv == Init => IInv
<1> SUFFICES ASSUME Init
             PROVE  IInv
  OBVIOUS
<1>1. list = <<>> /\ list \in Seq(Cue) /\ DOMAIN list = {} /\ ToSet(list) = {}
  BY DEF Init, ToSet
<1>2. stack = <<>> /\ stack \in Seq(Call) /\ DOMAIN stack = {}
  BY DEF Init
<1>3. TypeOK
  <2>1. <<>> \in Seq(Input)
    OBVIOUS
  <2> QED
    BY <1>1, <1>2, <2>1 DEF Init, TypeOK, IsInjective
<1>4. Nested /\ Progress /\ Strays /\ NextCueExists
  BY <1>1, <1>2 DEF Init, Nested, Progress, Strays, NextCueExists
<1> QED
  BY <1>3, <1>4 DEF IInv

(* The call on top is replaced.                                            *)
LEMMA TopReplaced ==
    ASSUME TypeOK, stack # <<>>
    PROVE  /\ Top \in Call /\ Below \in Seq(Call)
           /\ Len(stack) \in Nat \ {0} /\ DOMAIN stack = 1..Len(stack)
           /\ Top = stack[Len(stack)]
           /\ Len(Below) = Len(stack) - 1
           /\ \A k \in 1..(Len(stack) - 1) : Below[k] = stack[k]
           /\ \A t \in Call :
                /\ Append(Below, t) \in Seq(Call) /\ Append(Below, t) # <<>>
                /\ Len(Append(Below, t)) = Len(stack)
                /\ Last(Append(Below, t)) = t /\ Append(Below, t)[Len(stack)] = t
                /\ \A k \in 1..(Len(stack) - 1) : Append(Below, t)[k] = stack[k]
<1>1. stack \in Seq(Call)
  BY DEF TypeOK
<1>2. Len(stack) \in Nat \ {0} /\ DOMAIN stack = 1..Len(stack)
  BY <1>1, EmptySeq
<1>3. /\ Top \in Call /\ Below \in Seq(Call) /\ Len(Below) = Len(stack) - 1
      /\ \A k \in 1..(Len(stack) - 1) : Below[k] = stack[k]
  BY <1>1, FrontOf DEF Top, Below
<1>4. ASSUME NEW t \in Call
      PROVE  /\ Append(Below, t) \in Seq(Call) /\ Append(Below, t) # <<>>
             /\ Len(Append(Below, t)) = Len(stack)
             /\ Last(Append(Below, t)) = t /\ Append(Below, t)[Len(stack)] = t
             /\ \A k \in 1..(Len(stack) - 1) : Append(Below, t)[k] = stack[k]
  <2>1. /\ Append(Below, t) \in Seq(Call) /\ Append(Below, t) # <<>>
        /\ Len(Append(Below, t)) = Len(Below) + 1
        /\ Last(Append(Below, t)) = t
        /\ \A j \in 1..Len(Below) : Append(Below, t)[j] = Below[j]
    BY <1>3, Appended
  <2>2. Append(Below, t)[Len(stack)] = t
    BY <1>2, <1>3
  <2> QED
    BY <1>2, <1>3, <2>1, <2>2
<1> QED
  BY <1>2, <1>3, <1>4 DEF Top, Last

Advanced == [Top EXCEPT !.served = @ + 1]
Falling == [Top EXCEPT !.value = "off", !.served = 0]

LEMMA TopIsCall ==
    ASSUME TypeOK, stack # <<>>
    PROVE  /\ Top.cue \in Cue /\ Top.at \in Nat /\ Top.byInput \in BOOLEAN
           /\ Top.value \in {"on", "off"} /\ Top.served \in Nat
           /\ Advanced \in Call /\ Advanced.served = Top.served + 1
           /\ Advanced.cue = Top.cue /\ Advanced.at = Top.at
           /\ Advanced.value = Top.value
           /\ Falling \in Call /\ Falling.served = 0
           /\ Falling.cue = Top.cue /\ Falling.at = Top.at /\ Falling.value = "off"
<1>1. PICK t \in Call : t = Top
  BY TopReplaced
<1>2. /\ t.cue \in Cue /\ t.at \in Nat /\ t.byInput \in BOOLEAN
      /\ t.value \in {"on", "off"} /\ t.served \in Nat
  BY DEF Call
<1>3. PICK n \in Nat : n = t.served + 1
  BY <1>2
<1>4. LET a == [t EXCEPT !.served = n]
      IN  a \in Call /\ a.served = n /\ a.cue = t.cue /\ a.at = t.at /\ a.value = t.value
  BY DEF Call
<1>5. LET a == [t EXCEPT !.value = "off", !.served = 0]
      IN  /\ a \in Call /\ a.served = 0 /\ a.cue = t.cue /\ a.at = t.at
          /\ a.value = "off"
  BY DEF Call
<1>6. Advanced = [t EXCEPT !.served = n] /\ Falling = [t EXCEPT !.value = "off", !.served = 0]
  BY <1>1, <1>3 DEF Advanced, Falling
<1> HIDE DEF Advanced, Falling
<1> QED
  BY <1>1, <1>2, <1>3, <1>4, <1>5, <1>6

LEMMA ToBeServed ==
    ASSUME TypeOK, ToServe
    PROVE  /\ stack # <<>> /\ wires[Top.cue] \in Seq(Input)
           /\ Len(wires[Top.cue]) \in Nat
           /\ Top.served + 1 \in 1..Len(wires[Top.cue])
           /\ wires[Top.cue][Top.served + 1] \in Input
<1>1. stack # <<>> /\ Top.served < Len(wires[Top.cue])
  BY DEF ToServe
<1>2. Top.cue \in Cue /\ Top.served \in Nat
  BY <1>1, TopIsCall
<1>3. wires[Top.cue] \in Seq(Input)
  BY <1>2 DEF TypeOK
<1>4. PICK w \in Seq(Input) : w = wires[Top.cue]
  BY <1>3
<1>5. Len(w) \in Nat /\ Top.served + 1 \in 1..Len(w)
  BY <1>1, <1>2, <1>4
<1>6. w[Top.served + 1] \in Input
  BY <1>5
<1> QED
  BY <1>1, <1>4, <1>5, <1>6

(* What is left of the inputs when one is disconnected.                    *)
LEMMA WithoutTyped ==
    ASSUME NEW w \in Seq(Input), NEW i
    PROVE  Without(w, i) \in Seq(Input)
<1> DEFINE n == Len(w)
           S == Seq(Input)
           F == [q \in S \X (1..n) |-> IF w[q[2]] = i THEN q[1] ELSE Append(q[1], w[q[2]])]
           Keeping(f) == f = [k \in 0..n |-> IF k = 0 THEN <<>>
                               ELSE IF w[k] = i THEN f[k - 1] ELSE Append(f[k - 1], w[k])]
<1>1. n \in Nat /\ <<>> \in S /\ \A k \in 1..n : w[k] \in Input
  OBVIOUS
<1>2. \A t \in S, k \in 1..n :
          F[<<t, k>>] = IF w[k] = i THEN t ELSE Append(t, w[k])
  OBVIOUS
<1>3. F \in [S \X (1..n) -> S]
  <2> SUFFICES ASSUME NEW q \in S \X (1..n)
               PROVE  (IF w[q[2]] = i THEN q[1] ELSE Append(q[1], w[q[2]])) \in S
    OBVIOUS
  <2>1. q[1] \in Seq(Input) /\ w[q[2]] \in Input
    BY <1>1
  <2> QED
    BY <2>1
<1>4. PICK g \in [0..n -> S] : Grown(g, n, <<>>, F)
  <2> HIDE DEF F, S, n
  <2> QED
    BY <1>1, <1>3, Recursively
<1>5. Keeping(g)
  <2> DEFINE e(k) == IF k = 0 THEN <<>>
                     ELSE IF w[k] = i THEN g[k - 1] ELSE Append(g[k - 1], w[k])
  <2>1. ASSUME NEW k \in 0..n
        PROVE  g[k] = e(k)
    <3>1. CASE k = 0
      BY <1>4, <3>1 DEF Grown
    <3>2. CASE k # 0
      <4>1. k \in 1..n /\ k - 1 \in 0..n
        BY <3>2
      <4>2. g[k - 1] \in S /\ g[k] = F[<<g[k - 1], k>>]
        BY <1>4, <4>1 DEF Grown
      <4> HIDE DEF F, S, n
      <4>3. F[<<g[k - 1], k>>] = IF w[k] = i THEN g[k - 1] ELSE Append(g[k - 1], w[k])
        BY <1>2, <4>1, <4>2
      <4> QED
        BY <3>2, <4>2, <4>3
    <3> QED
      BY <3>1, <3>2
  <2> HIDE DEF e
  <2>2. g = [k \in 0..n |-> e(k)]
    BY <2>1
  <2> QED
    BY <2>2 DEF e
<1> DEFINE f == CHOOSE h : Keeping(h)
<1>6. Keeping(f)
  <2> HIDE DEF Keeping
  <2> QED
    BY <1>5
<1>7. Without(w, i) = f[n]
  BY DEF Without
<1> HIDE DEF f
<1> DEFINE T == {k \in 0..n : f[k] \in S}
<1>8. 0..n \subseteq T
  <2>1. 0 \in T
    BY <1>1, <1>6
  <2>2. ASSUME NEW k \in 0..(n - 1), k \in T
        PROVE  k + 1 \in T
    <3>1. k + 1 \in 0..n /\ k + 1 # 0 /\ (k + 1) - 1 = k /\ k + 1 \in 1..n
      BY <1>1
    <3>2. f[k + 1] = IF w[k + 1] = i THEN f[k] ELSE Append(f[k], w[k + 1])
      BY <1>6, <3>1
    <3>3. f[k] \in Seq(Input) /\ w[k + 1] \in Input
      BY <1>1, <2>2, <3>1
    <3>4. Append(f[k], w[k + 1]) \in Seq(Input)
      BY <3>3
    <3>5. f[k + 1] \in S
      BY <3>2, <3>3, <3>4
    <3> QED
      BY <3>1, <3>5
  <2> HIDE DEF T
  <2> QED
    BY <1>1, <2>1, <2>2, Inductively
<1>9. n \in 0..n
  BY <1>1
<1> QED
  BY <1>7, <1>8, <1>9

(* The index as the inputs of a cue move it, one after the other.          *)
LEMMA HeardIs ==
    ASSUME TypeOK, NEW c \in Cue, NEW at \in Nat
    PROVE  /\ Heard(c, at)[0] = at
           /\ \A k \in 1..Len(wires[c]) :
                 Heard(c, at)[k] = Steps(wires[c][k], Heard(c, at)[k - 1])
<1> DEFINE n == Len(wires[c])
           w == wires[c]
           F == [q \in Nat \X (1..n) |-> Steps(w[q[2]], q[1])]
           Hearing(f) == f = [k \in 0..n |-> IF k = 0 THEN at ELSE Steps(w[k], f[k - 1])]
<1>1. n \in Nat
  <2>1. wires[c] \in Seq(Input)
    BY DEF TypeOK
  <2> QED
    BY <2>1
<1>2. \A t \in Nat, k \in 1..n : F[<<t, k>>] = Steps(w[k], t)
  OBVIOUS
<1>3. F \in [Nat \X (1..n) -> Nat]
  <2> SUFFICES ASSUME NEW q \in Nat \X (1..n)
               PROVE  Steps(w[q[2]], q[1]) \in Nat
    OBVIOUS
  <2>1. q[1] \in Nat
    OBVIOUS
  <2> QED
    BY <2>1, Stepped DEF Steps
<1>4. PICK g \in [0..n -> Nat] : Grown(g, n, at, F)
  <2> HIDE DEF F, n
  <2> QED
    BY <1>1, <1>3, Recursively
<1>5. Hearing(g)
  <2> DEFINE e(k) == IF k = 0 THEN at ELSE Steps(w[k], g[k - 1])
  <2>1. ASSUME NEW k \in 0..n
        PROVE  g[k] = e(k)
    <3>1. CASE k = 0
      BY <1>4, <3>1 DEF Grown
    <3>2. CASE k # 0
      <4>1. k \in 1..n /\ k - 1 \in 0..n
        BY <1>1, <3>2
      <4>2. g[k - 1] \in Nat /\ g[k] = F[<<g[k - 1], k>>]
        BY <1>4, <4>1 DEF Grown
      <4> HIDE DEF F, n, w
      <4>3. F[<<g[k - 1], k>>] = Steps(w[k], g[k - 1])
        BY <1>2, <4>1, <4>2
      <4> QED
        BY <3>2, <4>2, <4>3
    <3> QED
      BY <3>1, <3>2
  <2> HIDE DEF e
  <2>2. g = [k \in 0..n |-> e(k)]
    BY <2>1
  <2> QED
    BY <2>2 DEF e
<1> DEFINE f == CHOOSE h : Hearing(h)
<1>6. Hearing(f)
  <2> HIDE DEF Hearing
  <2> QED
    BY <1>5
<1>7. Heard(c, at) = f
  BY DEF Heard
<1> HIDE DEF f
<1>8. f[0] = at /\ \A k \in 1..n : f[k] = Steps(w[k], f[k - 1])
  <2> DEFINE e(k) == IF k = 0 THEN at ELSE Steps(w[k], f[k - 1])
  <2>1. f = [k \in 0..n |-> e(k)]
    BY <1>6
  <2>2. 0 \in 0..n /\ \A k \in 1..n : k \in 0..n /\ k # 0
    BY <1>1
  <2> HIDE DEF e
  <2>3. f[0] = e(0) /\ \A k \in 1..n : f[k] = e(k)
    BY <2>1, <2>2
  <2> QED
    BY <2>2, <2>3 DEF e
<1> QED
  BY <1>7, <1>8

LEMMA TypeStep == TypeOK /\ Nested /\ [Next]_vars => TypeOK'
<1> SUFFICES ASSUME TypeOK, Nested, [Next]_vars
             PROVE  TypeOK'
  OBVIOUS
<1>0. /\ Size \in Nat /\ DOMAIN list = 1..Size /\ list \in Seq(Cue)
      /\ IsInjective(list) /\ next \in Nat
  BY SizeOf DEF TypeOK
<1>e. <<>> \in Seq(Call)
  OBVIOUS
<1>1. CASE Serve
  <2>1. ToServe /\ Hear(wires[Top.cue][Top.served + 1], Top.value, Append(Below, Advanced))
    BY <1>1 DEF Serve, Advanced
  <2>2. /\ wires[Top.cue][Top.served + 1] \in Input
        /\ Top.value \in {"on", "off"} /\ Append(Below, Advanced) \in Seq(Call)
    BY <2>1, ToBeServed, TopIsCall, TopReplaced
  <2>3. UNCHANGED <<list, wires, plugging>>
    BY <1>1 DEF Serve
  <2> QED
    BY <2>1, <2>2, <2>3, HearTyped DEF TypeOK
<1>2. CASE Fall
  <2>1. stack' = Append(Below, Falling) /\ held' = [held EXCEPT ![Top.cue] = "off"]
    BY <1>2 DEF Fall, Falling
  <2>2. stack' \in Seq(Call)
    BY <1>2, <2>1, TopIsCall, TopReplaced DEF Fall, Served
  <2>3. Top.cue \in ToSet(list)
    <3>1. Len(stack) \in DOMAIN stack /\ Top = stack[Len(stack)]
      <4>1. stack # <<>>
        BY <1>2 DEF Fall, Served
      <4>2. Len(stack) \in Nat \ {0} /\ DOMAIN stack = 1..Len(stack) /\ Top = stack[Len(stack)]
        BY <4>1, TopReplaced
      <4> QED
        BY <4>2
    <3> QED
      BY <3>1 DEF Nested, Sound
  <2>4. \A c \in Cue \ ToSet(list) : held'[c] = "none"
    BY <2>1, <2>3 DEF TypeOK
  <2> QED
    BY <1>2, <2>1, <2>2, <2>4 DEF Fall, TypeOK
<1>3. CASE Return
  <2>1. Below \in Seq(Call) /\ Top.byInput \in BOOLEAN
    BY <1>3, TopReplaced, TopIsCall DEF Return, Served
  <2>2. next' \in Nat /\ strayed' \subseteq {"removed", "stepped while empty"}
    BY <1>0, <1>3, Stepped, GotoTyped DEF Return
  <2> QED
    BY <1>3, <2>1, <2>2 DEF Return, TypeOK
<1>4. CASE Button
  <2>1. Fire(FALSE, <<>>) /\ UNCHANGED <<list, wires, plugging>>
    BY <1>4 DEF Button
  <2>2. list[next + 1] \in ToSet(list)
    BY <1>e, <2>1, FireTyped DEF ToSet
  <2> QED
    BY <1>e, <2>1, <2>2, FireTyped DEF TypeOK
<1>5. CASE FromOutside
  <2>1. PICK i \in Input, v \in {"on", "off"} : Hear(i, v, <<>>)
    BY <1>5 DEF FromOutside
  <2>2. UNCHANGED <<list, wires, plugging>>
    BY <1>5 DEF FromOutside
  <2> QED
    BY <1>e, <2>1, <2>2, HearTyped DEF TypeOK
<1>6. CASE Arm
  <2>1. PICK i \in 0..(Size - 1) : Goto(i, {})
    BY <1>6 DEF Arm
  <2>2. next' \in Nat /\ strayed' \subseteq {"removed", "stepped while empty"}
    <3>1. i \in Nat
      BY <1>0
    <3> QED
      BY <2>1, <3>1, GotoTyped
  <2> QED
    BY <1>6, <2>2 DEF Arm, TypeOK
<1>7. CASE AddTrigger
  <2>1. PICK c \in Cue \ ToSet(list), i \in 1..(Size + 1) : list' = InsertAt(list, i, c)
    BY <1>7 DEF AddTrigger
  <2>2. /\ list' \in Seq(Cue) /\ Len(list') = Size + 1
        /\ \A j \in 1..(Size + 1) : list'[j] =
               IF j < i THEN list[j] ELSE IF j = i THEN c ELSE list[j - 1]
    BY <1>0, <2>1, Added
  <2>3. DOMAIN list' = 1..(Size + 1) /\ \A j \in 1..Size : list[j] # c
    BY <1>0, <2>2 DEF ToSet
  <2>4. IsInjective(list')
    <3> SUFFICES ASSUME NEW j \in 1..(Size + 1), NEW k \in 1..(Size + 1),
                        list'[j] = list'[k], j # k
                 PROVE  FALSE
      BY <2>3 DEF IsInjective
    <3> DEFINE Was(m) == IF m < i THEN m ELSE m - 1
    <3>1. j # i => Was(j) \in 1..Size /\ list'[j] = list[Was(j)]
      BY <1>0, <2>2
    <3>2. k # i => Was(k) \in 1..Size /\ list'[k] = list[Was(k)]
      BY <1>0, <2>2
    <3>3. j = i \/ k = i => FALSE
      BY <2>2, <2>3, <3>1, <3>2
    <3>4. Was(j) # Was(k)
      BY <1>0, <3>3
    <3> QED
      BY <1>0, <3>1, <3>2, <3>3, <3>4 DEF IsInjective
  <2>5. ToSet(list) \subseteq ToSet(list')
    <3> SUFFICES ASSUME NEW j \in 1..Size
                 PROVE  \E k \in 1..(Size + 1) : list'[k] = list[j]
      BY <1>0, <2>3 DEF ToSet
    <3>1. CASE j < i
      BY <1>0, <2>2, <3>1
    <3>2. CASE ~(j < i)
      <4>1. j + 1 \in 1..(Size + 1) /\ ~(j + 1 < i) /\ j + 1 # i /\ (j + 1) - 1 = j
        BY <1>0, <3>2
      <4> QED
        BY <2>2, <4>1
    <3> QED
      BY <3>1, <3>2
  <2>6. strayed' \subseteq {"removed", "stepped while empty"}
    BY <1>7 DEF AddTrigger, Noted, TypeOK
  <2> QED
    BY <1>7, <2>2, <2>4, <2>5, <2>6 DEF AddTrigger, TypeOK
<1>8. CASE RemoveTrigger
  <2>1. PICK i \in 1..Size :
            /\ list' = RemoveAt(list, i)
            /\ next' = IF next > Len(list') THEN Len(list') ELSE next
            /\ Noted(next', {"removed"})
            /\ held' = [held EXCEPT ![list[i]] = "none"]
            /\ wires' = [wires EXCEPT ![list[i]] = <<>>]
    BY <1>8 DEF RemoveTrigger
  <2>2. /\ list' \in Seq(Cue) /\ Len(list') = Size - 1
        /\ \A j \in 1..(Size - 1) : list'[j] = IF j < i THEN list[j] ELSE list[j + 1]
    BY <1>0, <2>1, Removed DEF Size
  <2>3. DOMAIN list' = 1..(Size - 1) /\ Size - 1 \in Nat
    BY <1>0, <2>2
  <2> DEFINE Was(m) == IF m < i THEN m ELSE m + 1
  <2>4. \A m \in 1..(Size - 1) : Was(m) \in 1..Size /\ list'[m] = list[Was(m)]
    BY <1>0, <2>2
  <2>5. \A j, k \in 1..(Size - 1) : Was(j) = Was(k) => j = k
    BY <1>0
  <2>6. IsInjective(list')
    <3> SUFFICES ASSUME NEW j \in 1..(Size - 1), NEW k \in 1..(Size - 1),
                        list'[j] = list'[k]
                 PROVE  j = k
      BY <2>3 DEF IsInjective
    <3> HIDE DEF Was
    <3>1. Was(j) \in DOMAIN list /\ Was(k) \in DOMAIN list /\ list[Was(j)] = list[Was(k)]
      BY <1>0, <2>4
    <3>2. Was(j) = Was(k)
      BY <1>0, <3>1 DEF IsInjective
    <3> QED
      BY <2>5, <3>2
  <2>7. ToSet(list) \ {list[i]} \subseteq ToSet(list')
    <3> SUFFICES ASSUME NEW j \in 1..Size, list[j] # list[i]
                 PROVE  \E k \in 1..(Size - 1) : list'[k] = list[j]
      BY <1>0, <2>3 DEF ToSet
    <3>1. CASE j < i
      BY <1>0, <2>2, <3>1
    <3>2. CASE j > i
      <4>1. j - 1 \in 1..(Size - 1) /\ ~(j - 1 < i) /\ (j - 1) + 1 = j
        BY <1>0, <3>2
      <4> QED
        BY <2>2, <4>1
    <3> QED
      BY <1>0, <3>1, <3>2
  <2>8. held' \in [Cue -> {"none", "on", "off"}]
            /\ \A c \in Cue \ ToSet(list') : held'[c] = "none"
    <3>1. \A c \in Cue : c = list[i] => held'[c] = "none"
      BY <2>1 DEF TypeOK
    <3>2. \A c \in Cue : c # list[i] => held'[c] = held[c]
      BY <2>1 DEF TypeOK
    <3>3. \A c \in Cue \ ToSet(list') : c # list[i] => c \notin ToSet(list)
      BY <2>7
    <3> QED
      BY <2>1, <3>1, <3>2, <3>3 DEF TypeOK
  <2>9. wires' \in [Cue -> Seq(Input)] /\ plugging' = {}
            /\ \A c \in Cue \ ToSet(list') : wires'[c] = <<>>
    <3>0. <<>> \in Seq(Input) /\ plugging' = {}
      BY <1>8 DEF RemoveTrigger, Idle
    <3>1. \A c \in Cue : c = list[i] => wires'[c] = <<>>
      BY <2>1 DEF TypeOK
    <3>2. \A c \in Cue : c # list[i] => wires'[c] = wires[c]
      BY <2>1 DEF TypeOK
    <3>3. \A c \in Cue \ ToSet(list') : c # list[i] => c \notin ToSet(list)
      BY <2>7
    <3> QED
      BY <2>1, <3>0, <3>1, <3>2, <3>3 DEF TypeOK
  <2>10. next' \in Nat /\ strayed' \subseteq {"removed", "stepped while empty"}
    BY <1>0, <2>1, <2>2, <2>3 DEF Noted, TypeOK
  <2> QED
    BY <1>8, <2>2, <2>6, <2>8, <2>9, <2>10 DEF RemoveTrigger, TypeOK
<1>9. CASE MoveTrigger
  <2>1. PICK i \in 1..(Size - 1) :
            list' = [list EXCEPT ![i] = list[i + 1], ![i + 1] = list[i]]
    BY <1>9 DEF MoveTrigger
  <2>2. i \in 1..Size /\ i + 1 \in 1..Size /\ list[i] \in Cue /\ list[i + 1] \in Cue
    BY <1>0, SizeOf
  <2>3. list' \in Seq(Cue) /\ DOMAIN list' = 1..Size
    BY <1>0, <2>1, <2>2
  <2>4. \A j \in 1..Size : list'[j] = IF j = i THEN list[i + 1]
                                     ELSE IF j = i + 1 THEN list[i] ELSE list[j]
    BY <1>0, <2>1, <2>2
  <2>5. IsInjective(list')
    BY <1>0, <2>2, <2>3, <2>4 DEF IsInjective
  <2>6. ToSet(list') = ToSet(list)
    BY <1>0, <2>2, <2>3, <2>4 DEF ToSet
  <2> QED
    BY <1>9, <2>3, <2>5, <2>6 DEF MoveTrigger, TypeOK
<1>10. CASE Plug
  <2>1. PICK c \in ToSet(list), i \in Input :
            /\ plugging' = {<<c, i>>}
            /\ IF held[c] = "none" THEN UNCHANGED <<next, latch, held, stack, strayed>>
                                   ELSE Hear(i, held[c], <<>>)
    BY <1>10 DEF Plug
  <2>2. UNCHANGED <<list, wires>> /\ plugging' \subseteq ToSet(list) \X Input
    BY <1>10, <2>1 DEF Plug
  <2>3. CASE held[c] = "none"
    BY <2>1, <2>2, <2>3 DEF TypeOK
  <2>4. CASE held[c] # "none"
    <3>1. held[c] \in {"on", "off"}
      <4>1. c \in Cue
        BY <1>0 DEF ToSet
      <4>2. held[c] \in {"none", "on", "off"}
        BY <4>1 DEF TypeOK
      <4> QED
        BY <2>4, <4>2
    <3> QED
      BY <1>e, <2>1, <2>2, <2>4, <3>1, HearTyped DEF TypeOK
  <2> QED
    BY <2>3, <2>4
<1>11. CASE Plugged
  <2>1. PICK p \in plugging : wires' = [wires EXCEPT ![p[1]] = Append(@, p[2])]
    BY <1>11 DEF Plugged
  <2>2. p[1] \in ToSet(list) /\ p[1] \in Cue /\ p[2] \in Input
    <3>1. p \in ToSet(list) \X Input
      BY DEF TypeOK
    <3>2. ToSet(list) \subseteq Cue
      BY <1>0 DEF ToSet
    <3> QED
      BY <3>1, <3>2
  <2>3. wires[p[1]] \in Seq(Input) /\ Append(wires[p[1]], p[2]) \in Seq(Input)
    <3>1. wires[p[1]] \in Seq(Input)
      BY <2>2 DEF TypeOK
    <3> QED
      BY <2>2, <3>1
  <2>4. wires' \in [Cue -> Seq(Input)] /\ \A c \in Cue \ ToSet(list) : wires'[c] = wires[c]
    BY <2>1, <2>2, <2>3 DEF TypeOK
  <2> QED
    BY <1>11, <2>4 DEF Plugged, TypeOK
<1>13. CASE Unplug
  <2>1. PICK c \in Cue, i \in Input :
            /\ i \in ToSet(wires[c])
            /\ wires' = [wires EXCEPT ![c] = Without(@, i)]
    BY <1>13 DEF Unplug
  <2>2. wires[c] \in Seq(Input) /\ Without(wires[c], i) \in Seq(Input)
    BY WithoutTyped DEF TypeOK
  <2>3. c \in ToSet(list)
    <3>1. wires[c] # <<>>
      BY <2>1 DEF ToSet
    <3> QED
      BY <3>1 DEF TypeOK
  <2>4. wires' \in [Cue -> Seq(Input)] /\ \A d \in Cue \ ToSet(list) : wires'[d] = wires[d]
    BY <2>1, <2>2, <2>3 DEF TypeOK
  <2> QED
    BY <1>13, <2>4 DEF Unplug, TypeOK
<1>12. CASE UNCHANGED vars
  BY <1>12 DEF vars, TypeOK
<1> QED
  BY <1>1, <1>2, <1>3, <1>4, <1>5, <1>6, <1>7, <1>8, <1>9, <1>10, <1>11, <1>12, <1>13 DEF Next

(* Nothing a call depends on changes while calls run.                      *)
LEMMA StandStill ==
    ASSUME UNCHANGED <<list, wires>>
    PROVE  /\ Size' = Size
           /\ \A c : Passive(c)' = Passive(c)
           /\ \A c, n : Heard(c, n)' = Heard(c, n)
           /\ \A call : Sound(call)' = Sound(call) /\ Moved(call)' = Moved(call)
<1>1. /\ Size' = Size /\ \A c : Passive(c)' = Passive(c)
      /\ \A call : Sound(call)' = Sound(call) /\ Moved(call)' = Moved(call)
  BY DEF Size, Passive, Sound, Moved
<1>2. \A c, n : Heard(c, n)' = Heard(c, n)
  BY DEF Heard, Steps, Up, Down, Reset, Size
<1> QED
  BY <1>1, <1>2

-----------------------------------------------------------------------------
(* Nested and Progress of the next state, when its stack is known.         *)

LEMMA NestedIf ==
    ASSUME UNCHANGED <<list, wires>>, NEW s \in Seq(Call), stack' = s,
           \A k \in 1..Len(s) :
               Sound(s[k]) /\ (k < Len(s) => ~Passive(s[k].cue))
    PROVE  Nested'
<1>1. DOMAIN s = 1..Len(s)
  OBVIOUS
<1> QED
  BY <1>1 DEF Nested, Sound, Passive, Size

LEMMA ProgressIf ==
    ASSUME UNCHANGED <<list, wires>>, NEW c \in Call, Last(stack') = c,
           Passive(c.cue) => next' = Heard(c.cue, c.at)[Moved(c)]
    PROVE  Progress'
  BY StandStill DEF Progress, Top

(* What is in the middle of a fire, when another one begins inside it.     *)
LEMMA FireProgress ==
    ASSUME TypeOK, UNCHANGED <<list, wires>>,
           NEW b \in BOOLEAN, NEW calls \in Seq(Call), Fire(b, calls),
           \A k \in 1..Len(calls) : Sound(calls[k]) /\ ~Passive(calls[k].cue)
    PROVE  Nested' /\ Progress'
<1> DEFINE c == Began(b)
<1>1. /\ next + 1 \in DOMAIN list /\ list[next + 1] \in Cue /\ c \in Call
      /\ stack' = Append(calls, c) /\ next' = next
      /\ \A d \in Cue : held'[d] = IF d = list[next + 1] THEN "on" ELSE held[d]
  BY FireTyped
<1>2. /\ c.cue = list[next + 1] /\ c.at = next /\ c.value = "on"
      /\ c.served = 0 /\ c.cue \in Cue /\ c.at \in Nat
  BY <1>1, FireTyped DEF Began, TypeOK
<1>3. Sound(c)
  <2>1. next < Size /\ list[next + 1] \in ToSet(list)
    BY <1>1 DEF Fire, ToSet
  <2> QED
    <3>1. Len(wires[c.cue]) \in Nat
      <4>1. wires[c.cue] \in Seq(Input)
        BY <1>2 DEF TypeOK
      <4> QED
        BY <4>1
    <3> QED
      BY <1>2, <2>1, <3>1 DEF Sound
<1> HIDE DEF c
<1>4. /\ stack' \in Seq(Call) /\ Last(stack') = c /\ Len(stack') = Len(calls) + 1
      /\ \A k \in 1..Len(calls) : stack'[k] = calls[k]
      /\ stack'[Len(calls) + 1] = c
  BY <1>1, Appended
<1>5. Nested'
  <2>1. Len(calls) \in Nat
    OBVIOUS
  <2>2. ASSUME NEW s, s = stack'
        PROVE  Nested'
    <3>1. ASSUME NEW k \in 1..Len(s)
          PROVE  Sound(s[k]) /\ (k < Len(s) => ~Passive(s[k].cue))
      <4>1. CASE k = Len(calls) + 1
        BY <1>3, <1>4, <2>1, <2>2, <4>1
      <4>2. CASE k \in 1..Len(calls)
        BY <1>4, <2>2, <4>2
      <4> QED
        BY <1>4, <2>1, <2>2, <4>1, <4>2
    <3> QED
      BY <1>4, <2>2, <3>1, NestedIf
  <2> QED
    BY <2>2
<1>6. Progress'
  <2>1. Moved(c) = 0 /\ Heard(c.cue, c.at)[0] = c.at
    BY <1>2, HeardIs DEF Moved
  <2> QED
    BY <1>1, <1>2, <1>4, <2>1, ProgressIf
<1> QED
  BY <1>5, <1>6

(* The call on top goes on as another record of the same cue.              *)
LEMMA Replaced ==
    ASSUME TypeOK, Nested, stack # <<>>, UNCHANGED <<list, wires>>,
           NEW t \in Call, Sound(t), stack' = Append(Below, t)
    PROVE  Nested' /\ Last(stack') = t
<1>1. /\ Len(stack) \in Nat \ {0} /\ DOMAIN stack = 1..Len(stack)
      /\ Append(Below, t) \in Seq(Call) /\ Len(Append(Below, t)) = Len(stack)
      /\ Last(Append(Below, t)) = t /\ Append(Below, t)[Len(stack)] = t
      /\ \A k \in 1..(Len(stack) - 1) : Append(Below, t)[k] = stack[k]
  BY TopReplaced
<1>2. ASSUME NEW s, s = Append(Below, t)
      PROVE  Nested'
  <2>1. ASSUME NEW k \in 1..Len(s)
        PROVE  Sound(s[k]) /\ (k < Len(s) => ~Passive(s[k].cue))
    <3>1. CASE k = Len(stack)
      BY <1>1, <1>2, <3>1
    <3>2. CASE k \in 1..(Len(stack) - 1)
      BY <1>1, <1>2, <3>2 DEF Nested
    <3> QED
      BY <1>1, <1>2, <3>1, <3>2
  <2> QED
    BY <1>1, <1>2, <2>1, NestedIf
<1> QED
  BY <1>1, <1>2

LEMMA TopSound ==
    ASSUME TypeOK, Nested, stack # <<>>
    PROVE  Sound(Top)
<1>1. Len(stack) \in DOMAIN stack /\ Top = stack[Len(stack)]
  <2>1. Len(stack) \in Nat \ {0} /\ DOMAIN stack = 1..Len(stack) /\ Top = stack[Len(stack)]
    BY TopReplaced
  <2> QED
    BY <2>1
<1> QED
  BY <1>1 DEF Nested

LEMMA LastOrBelow ==
    ASSUME NEW n \in Nat \ {0}, NEW k \in 1..n
    PROVE  k = n \/ k \in 1..(n - 1)
OBVIOUS

LEMMA ServeStep == TypeOK /\ Nested /\ Progress /\ Serve => Nested' /\ Progress'
<1> SUFFICES ASSUME TypeOK, Nested, Progress, Serve
             PROVE  Nested' /\ Progress'
  OBVIOUS
<1> DEFINE i == wires[Top.cue][Top.served + 1]
           t == Advanced
           s == Append(Below, t)
<1>1. UNCHANGED <<list, wires>>
  BY DEF Serve
<1>2. Hear(i, Top.value, s)
  BY DEF Serve, Advanced
<1>3. /\ stack # <<>> /\ Len(wires[Top.cue]) \in Nat /\ i \in Input
      /\ wires[Top.cue] \in Seq(Input) /\ Top.served + 1 \in 1..Len(wires[Top.cue])
  BY ToBeServed DEF Serve
<1>4. /\ Top.cue \in Cue /\ Top.at \in Nat /\ Top.value \in {"on", "off"}
      /\ Top.served \in Nat
      /\ t \in Call /\ t.served = Top.served + 1
      /\ t.cue = Top.cue /\ t.at = Top.at /\ t.value = Top.value
  BY <1>3, TopIsCall
<1>5. Sound(Top)
  BY <1>3, TopSound
<1>6. Sound(t) /\ i \in ToSet(wires[Top.cue])
  <2>1. Sound(t)
    BY <1>3, <1>4, <1>5 DEF Sound
  <2>2. i \in ToSet(wires[Top.cue])
    BY <1>3 DEF ToSet
  <2> QED
    BY <2>1, <2>2
<1> HIDE DEF i, t
<1>7. /\ Len(stack) \in Nat \ {0} /\ DOMAIN stack = 1..Len(stack)
      /\ s \in Seq(Call) /\ Len(s) = Len(stack)
      /\ s[Len(stack)] = t
      /\ \A k \in 1..(Len(stack) - 1) : s[k] = stack[k]
  BY <1>3, <1>4, TopReplaced
<1>8. CASE i = "fire" /\ Fire(TRUE, s)
  <2>1. ASSUME NEW k \in 1..Len(s)
        PROVE  Sound(s[k]) /\ ~Passive(s[k].cue)
    <3>1. CASE k = Len(stack)
      BY <1>4, <1>6, <1>7, <1>8, <3>1 DEF Passive
    <3>2. CASE k \in 1..(Len(stack) - 1)
      BY <1>7, <3>2 DEF Nested
    <3> QED
      <4> HIDE DEF s
      <4>0. Len(stack) \in Nat \ {0} /\ k \in 1..Len(stack)
        BY <1>7
      <4>1. k = Len(stack) \/ k \in 1..(Len(stack) - 1)
        BY <4>0, LastOrBelow
      <4> QED
        BY <3>1, <3>2, <4>1
  <2> QED
    <3> HIDE DEF s
    <3> QED
      BY <1>1, <1>7, <1>8, <2>1, FireProgress
<1>9. CASE /\ stack' = s /\ held' = held
           /\ \/ (i = "fire" \/ Top.value = "off") /\ UNCHANGED <<next, strayed>>
              \/ i = "up" /\ Top.value = "on" /\ Goto(Up(next), {})
              \/ i = "down" /\ Top.value = "on" /\ Goto(Down(next), {"stepped while empty"})
              \/ i = "reset" /\ Top.value = "on" /\ Goto(Reset(next), {})
  <2>1. Nested' /\ Last(stack') = t
    BY <1>1, <1>3, <1>4, <1>6, <1>9, Replaced
  <2>2. ASSUME Passive(t.cue)
        PROVE  next' = Heard(t.cue, t.at)[Moved(t)]
    <3>1. i # "fire" /\ i \in {"up", "down", "reset"}
      BY <1>3, <1>4, <1>6, <2>2 DEF Passive, Input
    <3>2. next = Heard(Top.cue, Top.at)[Moved(Top)]
      BY <1>3, <1>4, <2>2 DEF Progress
    <3>3. CASE Top.value = "off"
      BY <1>4, <1>9, <3>2, <3>3 DEF Moved
    <3>4. CASE Top.value = "on"
      <4>1. next' = Steps(i, next)
        <5>1. CASE i = "up" /\ Goto(Up(next), {})
          BY <5>1 DEF Steps, Goto
        <5>2. CASE i = "down" /\ Goto(Down(next), {"stepped while empty"})
          BY <5>2 DEF Steps, Goto
        <5>3. CASE i = "reset" /\ Goto(Reset(next), {})
          BY <5>3 DEF Steps, Goto
        <5> QED
          BY <1>9, <3>1, <3>4, <5>1, <5>2, <5>3
      <4>2. Moved(Top) = Top.served /\ Moved(t) = Top.served + 1
        BY <1>4, <3>4 DEF Moved
      <4>3. Heard(Top.cue, Top.at)[Top.served + 1] = Steps(i, Heard(Top.cue, Top.at)[Top.served])
        <5>1. PICK k \in 1..Len(wires[Top.cue]) : k = Top.served + 1 /\ k - 1 = Top.served
          BY <1>3, <1>4
        <5> QED
          BY <1>4, <5>1, HeardIs DEF i
      <4> QED
        BY <1>4, <3>2, <4>1, <4>2, <4>3
    <3> QED
      BY <1>4, <3>3, <3>4
  <2>3. Progress'
    BY <1>1, <1>4, <2>1, <2>2, ProgressIf
  <2> QED
    BY <2>1, <2>3
<1> QED
  <2> HIDE DEF s
  <2>1. s \in Seq(Call) /\ Hear(i, Top.value, s)
    BY <1>2, <1>7 DEF s
  <2> QED
    BY <1>3, <1>4, <1>8, <1>9, <2>1, HearCases

LEMMA FallStep == TypeOK /\ Nested /\ Progress /\ Fall => Nested' /\ Progress'
<1> SUFFICES ASSUME TypeOK, Nested, Progress, Fall
             PROVE  Nested' /\ Progress'
  OBVIOUS
<1>1. /\ stack # <<>> /\ Top.served >= Len(wires[Top.cue]) /\ Top.value = "on"
      /\ stack' = Append(Below, Falling)
      /\ UNCHANGED <<list, wires, next>>
  BY DEF Fall, Falling, Served
<1>2. /\ Top.cue \in Cue /\ Top.served \in Nat /\ Falling \in Call /\ Falling.served = 0
      /\ Falling.cue = Top.cue /\ Falling.at = Top.at /\ Falling.value = "off"
  BY <1>1, TopIsCall
<1>3. Sound(Falling) /\ Top.served = Len(wires[Top.cue])
  <2>1. Sound(Top)
    BY <1>1, TopSound
  <2>2. Len(wires[Top.cue]) \in Nat
    <3>1. wires[Top.cue] \in Seq(Input)
      BY <1>2 DEF TypeOK
    <3> QED
      BY <3>1
  <2> QED
    BY <1>1, <1>2, <2>1, <2>2 DEF Sound
<1> HIDE DEF Falling
<1>4. Nested' /\ Last(stack') = Falling
  BY <1>1, <1>2, <1>3, Replaced
<1>5. Moved(Top) = Moved(Falling)
  BY <1>1, <1>2, <1>3 DEF Moved
<1>6. Passive(Top.cue) => next = Heard(Top.cue, Top.at)[Moved(Top)]
  BY <1>1 DEF Progress
<1>7. Progress'
  BY <1>1, <1>2, <1>4, <1>5, <1>6, ProgressIf
<1> QED
  BY <1>4, <1>7

(* Between calls there is nothing to be said.                              *)
LEMMA NothingCalled == stack' = <<>> => Nested' /\ Progress'
  BY DEF Nested, Progress

LEMMA ReturnStep == TypeOK /\ Nested /\ Return => Nested' /\ Progress'
<1> SUFFICES ASSUME TypeOK, Nested, Return
             PROVE  Nested' /\ Progress'
  OBVIOUS
<1>1. stack # <<>> /\ stack' = Below /\ UNCHANGED <<list, wires>>
  BY DEF Return, Served
<1>2. /\ Len(stack) \in Nat \ {0} /\ DOMAIN stack = 1..Len(stack)
      /\ Below \in Seq(Call) /\ Len(Below) = Len(stack) - 1
      /\ \A k \in 1..(Len(stack) - 1) : Below[k] = stack[k]
  BY <1>1, TopReplaced
<1>3. \A k \in 1..Len(Below) : Sound(Below[k]) /\ ~Passive(Below[k].cue)
  BY <1>2 DEF Nested
<1>4. Nested'
  <2>1. ASSUME NEW s, s = Below
        PROVE  Nested'
    BY <1>1, <1>2, <1>3, <2>1, NestedIf
  <2> QED
    BY <2>1
<1>5. CASE Below = <<>>
  BY <1>1, <1>5, NothingCalled
<1>6. CASE Below # <<>>
  <2>1. /\ Len(Below) \in Nat \ {0} /\ Last(Below) = Below[Len(Below)]
        /\ Last(Below) \in Call
    BY <1>2, <1>6, FrontOf, EmptySeq DEF Last
  <2>3. ~Passive(Last(Below).cue)
    BY <1>3, <2>1
  <2>4. Last(stack') = Last(Below)
    BY <1>1
  <2> QED
    <3>1. ASSUME NEW c, c = Last(Below)
          PROVE  Progress'
      BY <1>1, <2>1, <2>3, <2>4, <3>1, ProgressIf
    <3> QED
      BY <1>4, <3>1
<1> QED
  BY <1>4, <1>5, <1>6

LEMMA EmptyStack == <<>> \in Seq(Call) /\ \A k \in 1..Len(<<>>) : FALSE
  OBVIOUS

LEMMA FirstFire ==
    ASSUME TypeOK, UNCHANGED <<list, wires>>, NEW b \in BOOLEAN, Fire(b, <<>>)
    PROVE  Nested' /\ Progress'
<1>1. ASSUME NEW calls, calls = <<>>
      PROVE  Nested' /\ Progress'
  <2>1. calls \in Seq(Call) /\ Fire(b, calls)
    BY <1>1, EmptyStack
  <2>2. \A k \in 1..Len(calls) : FALSE
    BY <1>1, EmptyStack
  <2> QED
    BY <2>1, <2>2, FireProgress
<1> QED
  BY <1>1

LEMMA StartStep ==
    ASSUME TypeOK, UNCHANGED <<list, wires>>, NEW i \in Input, NEW v \in {"on", "off"},
           Hear(i, v, <<>>)
    PROVE  Nested' /\ Progress'
<1>2. CASE Fire(TRUE, <<>>)
  BY <1>2, FirstFire
<1>3. CASE stack' = <<>>
  BY <1>3, NothingCalled
<1> QED
  BY <1>2, <1>3, HearCases, EmptyStack

LEMMA CallsStep == TypeOK /\ Nested /\ Progress /\ [Next]_vars => Nested' /\ Progress'
<1> SUFFICES ASSUME TypeOK, Nested, Progress, [Next]_vars
             PROVE  Nested' /\ Progress'
  OBVIOUS
<1>1. CASE Serve
  BY <1>1, ServeStep
<1>2. CASE Fall
  BY <1>2, FallStep
<1>3. CASE Return
  BY <1>3, ReturnStep
<1>4. CASE Button
  <2>1. Fire(FALSE, <<>>) /\ UNCHANGED <<list, wires>>
    BY <1>4 DEF Button
  <2> QED
    BY <2>1, FirstFire
<1>5. CASE FromOutside
  BY <1>5, StartStep DEF FromOutside
<1>6. CASE Plug
  <2>1. PICK c \in ToSet(list), i \in Input :
            IF held[c] = "none" THEN UNCHANGED <<next, latch, held, stack, strayed>>
                                ELSE Hear(i, held[c], <<>>)
    BY <1>6 DEF Plug
  <2>2. UNCHANGED <<list, wires>> /\ stack = <<>>
    BY <1>6 DEF Plug, Idle
  <2>3. CASE held[c] = "none"
    BY <2>1, <2>2, <2>3, NothingCalled
  <2>4. CASE held[c] # "none"
    <3>1. c \in Cue
      BY SizeOf DEF ToSet
    <3>2. held[c] \in {"on", "off"}
      BY <2>4, <3>1 DEF TypeOK
    <3> QED
      BY <2>1, <2>2, <2>4, <3>2, StartStep
  <2> QED
    BY <2>3, <2>4
<1>7. CASE Arm \/ AddTrigger \/ RemoveTrigger \/ MoveTrigger \/ Plugged \/ Unplug
  <2>1. stack' = <<>>
    BY <1>7 DEF Arm, AddTrigger, RemoveTrigger, MoveTrigger, Plugged, Unplug, Idle
  <2> QED
    BY <2>1, NothingCalled
<1>8. CASE UNCHANGED vars
  <2>1. UNCHANGED <<list, wires, stack, next>>
    BY <1>8 DEF vars
  <2> QED
    BY <2>1, StandStill DEF Nested, Progress, Top
<1> QED
  BY <1>1, <1>2, <1>3, <1>4, <1>5, <1>6, <1>7, <1>8 DEF Next

-----------------------------------------------------------------------------
(* How the index may come to be behind the list.                           *)

Astray == Strays /\ NextCueExists

LEMMA StayedAstray ==
    ASSUME Astray, Size' = Size, UNCHANGED <<list, next, strayed>>
    PROVE  Astray'
  BY DEF Astray, Strays, NextCueExists, Size

LEMMA Inside ==
    ASSUME TypeOK', next' < Len(list'), strayed' = {}
    PROVE  Astray'
<1>1. list' # <<>>
  BY DEF TypeOK
<1> QED
  BY <1>1 DEF Astray, Strays, NextCueExists, Size

(* A step of the index puts it into the list, or notes that there is none. *)
LEMMA GotoAstray ==
    ASSUME TypeOK, TypeOK', Astray, UNCHANGED list, NEW n \in Nat, NEW why,
           Goto(n, why),
           list # <<>> => n < Size \/ "stepped while empty" \in strayed,
           list = <<>> => \/ n = next \/ n = 0
                          \/ "stepped while empty" \in strayed \union why
    PROVE  Astray'
<1>0. Size \in Nat /\ (list # <<>> <=> Size > 0) /\ Size' = Size
  BY SizeOf DEF Size
<1>1. CASE n < Size
  BY <1>1, Inside DEF Goto, Noted, Size
<1>2. CASE ~(n < Size)
  <2>1. next' = n /\ strayed' = strayed \union why
    BY <1>2 DEF Goto, Noted, Size
  <2>2. ~(next' < Size')
    BY <1>0, <1>2, <2>1
  <2>3. list' = <<>> => next' = 0 \/ "stepped while empty" \in strayed'
    BY <2>1 DEF Astray, Strays
  <2>4. list' = <<>> \/ "stepped while empty" \in strayed'
    BY <1>2, <2>1
  <2> QED
    BY <2>2, <2>3, <2>4 DEF Astray, Strays, NextCueExists
<1> QED
  BY <1>1, <1>2

LEMMA HearAstray ==
    ASSUME TypeOK, TypeOK', Astray, UNCHANGED list, NEW i \in Input, NEW v \in {"on", "off"},
           NEW calls \in Seq(Call), Hear(i, v, calls)
    PROVE  Astray'
<1>0. next \in Nat /\ Size \in Nat /\ (list # <<>> <=> Size > 0)
  BY SizeOf DEF TypeOK
<1>1. CASE UNCHANGED <<next, strayed>>
  BY <1>1, StayedAstray DEF Size
<1>2. CASE Goto(Up(next), {})
  <2>1. Up(next) \in Nat /\ (next = 0 => Up(next) = 0)
        /\ (next <= Size /\ Size > 0 => Up(next) < Size)
    BY <1>0 DEF Up
  <2>2. list # <<>> => Up(next) < Size \/ "stepped while empty" \in strayed
    <3>1. list = <<>> \/ next <= Size \/ "stepped while empty" \in strayed
      <4>1. next < Size \/ next = Size => next <= Size
        BY <1>0
      <4>2. NextCueExists
        BY DEF Astray
      <4> QED
        BY <4>1, <4>2 DEF NextCueExists
    <3> QED
      BY <1>0, <2>1, <3>1
  <2>3. list = <<>> => Up(next) = 0 \/ "stepped while empty" \in strayed
    BY <2>1 DEF Astray, Strays
  <2> QED
    BY <1>2, <2>1, <2>2, <2>3, GotoAstray
<1>3. CASE Goto(Down(next), {"stepped while empty"})
  BY <1>0, <1>3, Stepped, GotoAstray
<1>4. CASE Goto(Reset(next), {})
  BY <1>0, <1>4, Stepped, GotoAstray DEF Reset
<1>5. CASE Fire(TRUE, calls)
  BY <1>1, <1>5 DEF Fire
<1> QED
  BY <1>1, <1>2, <1>3, <1>4, <1>5, HearCases

LEMMA AstrayStep == TypeOK /\ TypeOK' /\ Nested /\ Astray /\ [Next]_vars => Astray'
<1> SUFFICES ASSUME TypeOK, TypeOK', Nested, Astray, [Next]_vars
             PROVE  Astray'
  OBVIOUS
<1>0. /\ next \in Nat /\ next' \in Nat /\ Size \in Nat /\ (list # <<>> <=> Size > 0)
      /\ list' \in Seq(Cue) /\ Len(list') \in Nat /\ (list' # <<>> <=> Len(list') > 0)
  <2>1. next \in Nat /\ next' \in Nat /\ list' \in Seq(Cue)
    BY DEF TypeOK
  <2>2. Len(list') \in Nat /\ (list' # <<>> <=> Len(list') > 0)
    BY <2>1
  <2> QED
    BY <2>1, <2>2, SizeOf
<1>1. CASE UNCHANGED <<list, next, strayed>>
  BY <1>1, StayedAstray DEF Size
<1>2. CASE Serve
  <2>1. ToServe /\ Hear(wires[Top.cue][Top.served + 1], Top.value, Append(Below, Advanced))
    BY <1>2 DEF Serve, Advanced
  <2>2. /\ wires[Top.cue][Top.served + 1] \in Input
        /\ Top.value \in {"on", "off"} /\ Append(Below, Advanced) \in Seq(Call)
    BY <2>1, ToBeServed, TopIsCall, TopReplaced
  <2>3. UNCHANGED list
    BY <1>2 DEF Serve
  <2> QED
    BY <2>1, <2>2, <2>3, HearAstray
<1>3. CASE Return
  <2>1. Sound(Top) /\ UNCHANGED list /\ Goto(Down(next), {})
    BY <1>3, TopSound DEF Return, Served
  <2>2. list # <<>>
    BY <2>1 DEF Sound, ToSet
  <2> QED
    BY <1>0, <2>1, <2>2, Stepped, GotoAstray
<1>4. CASE FromOutside
  <2>1. PICK i \in Input, v \in {"on", "off"} : Hear(i, v, <<>>)
    BY <1>4 DEF FromOutside
  <2>2. UNCHANGED list
    BY <1>4 DEF FromOutside
  <2> QED
    BY <2>1, <2>2, EmptyStack, HearAstray
<1>5. CASE Arm
  <2>1. PICK i \in 0..(Size - 1) : Goto(i, {})
    BY <1>5 DEF Arm
  <2>2. i \in Nat /\ i < Size /\ Size > 0 /\ UNCHANGED list
    BY <1>0, <1>5 DEF Arm
  <2> QED
    BY <1>0, <2>1, <2>2, GotoAstray
<1>6. CASE AddTrigger
  <2>1. PICK c \in Cue \ ToSet(list), i \in 1..(Size + 1) : list' = InsertAt(list, i, c)
    BY <1>6 DEF AddTrigger
  <2>2. Len(list') = Size + 1 /\ list' # <<>>
    <3>1. list \in Seq(Cue)
      BY DEF TypeOK
    <3>2. Len(list') = Size + 1
      BY <2>1, <3>1, Added
    <3> QED
      BY <1>0, <3>2
  <2>3. next' = next /\ strayed' = IF next < Len(list') THEN {} ELSE strayed
    BY <1>6 DEF AddTrigger, Noted
  <2>4. CASE next < Len(list')
    BY <2>3, <2>4, Inside
  (* Nothing but a step through the empty list leaves it further behind.   *)
  <2>5. CASE ~(next < Len(list'))
    <3>1. next # 0 /\ ~(next < Size) /\ next # Size
      BY <1>0, <2>2, <2>5
    <3>2. "stepped while empty" \in strayed
      BY <1>0, <3>1 DEF Astray, Strays, NextCueExists
    <3> QED
      BY <2>2, <2>3, <2>5, <3>2 DEF Astray, Strays, NextCueExists, Size
  <2> QED
    BY <2>4, <2>5
<1>7. CASE RemoveTrigger
  <2>1. PICK i \in 1..Size :
            /\ list' = RemoveAt(list, i)
            /\ next' = IF next > Len(list') THEN Len(list') ELSE next
            /\ Noted(next', {"removed"})
    BY <1>7 DEF RemoveTrigger
  <2>2. Len(list') = Size - 1
    <3>1. i \in 1..Len(list) /\ list \in Seq(Cue)
      BY DEF Size, TypeOK
    <3>2. Len(RemoveAt(list, i)) = Len(list) - 1
      BY <3>1, Removed
    <3> QED
      BY <2>1, <3>2 DEF Size
  <2>3. next' <= Len(list')
    BY <1>0, <2>1
  <2>4. CASE next' < Len(list')
    BY <2>1, <2>4, Inside DEF Noted
  <2>5. CASE ~(next' < Len(list'))
    <3>1. next' = Len(list')
      BY <1>0, <2>3, <2>5
    <3>2. strayed' = strayed \union {"removed"}
      BY <2>1, <2>5 DEF Noted
    <3>3. strayed' \subseteq {"removed", "stepped while empty"}
      BY DEF TypeOK
    <3>4. strayed' = {"removed"} \/ "stepped while empty" \in strayed'
      BY <3>2, <3>3
    <3>5. list' = <<>> => next' = 0
      BY <1>0, <3>1
    <3> QED
      BY <2>5, <3>1, <3>4, <3>5 DEF Astray, Strays, NextCueExists, Size
  <2> QED
    BY <2>4, <2>5
<1>8. CASE MoveTrigger
  <2>1. PICK i \in 1..(Size - 1) :
            list' = [list EXCEPT ![i] = list[i + 1], ![i + 1] = list[i]]
    BY <1>8 DEF MoveTrigger
  <2>2. Len(list') = Len(list)
    <3>1. list \in Seq(Cue) /\ i \in 1..Len(list) /\ i + 1 \in 1..Len(list)
      <4>1. list \in Seq(Cue)
        BY DEF TypeOK
      <4>2. i \in 1..Size /\ i + 1 \in 1..Size
        BY <1>0
      <4> QED
        BY <4>1, <4>2 DEF Size
    <3> QED
      BY <2>1, <3>1
  <2>3. (list' = <<>> <=> list = <<>>) /\ UNCHANGED <<next, strayed>>
    BY <1>0, <1>8, <2>2 DEF MoveTrigger, Size
  <2> QED
    BY <2>2, <2>3 DEF Astray, Strays, NextCueExists, Size
<1>9. CASE Plug
  <2>1. PICK c \in ToSet(list), i \in Input :
            IF held[c] = "none" THEN UNCHANGED <<next, latch, held, stack, strayed>>
                                ELSE Hear(i, held[c], <<>>)
    BY <1>9 DEF Plug
  <2>2. UNCHANGED list
    BY <1>9 DEF Plug
  <2>3. CASE held[c] = "none"
    BY <1>1, <2>1, <2>2, <2>3
  <2>4. CASE held[c] # "none"
    <3>1. c \in Cue
      BY SizeOf DEF ToSet
    <3>2. held[c] \in {"on", "off"}
      BY <2>4, <3>1 DEF TypeOK
    <3> QED
      BY <2>1, <2>2, <2>4, <3>2, EmptyStack, HearAstray
  <2> QED
    BY <2>3, <2>4
<1>10. CASE Fall \/ Button \/ Plugged \/ Unplug
  BY <1>1, <1>10 DEF Fall, Button, Fire, Plugged, Unplug
<1>11. CASE UNCHANGED vars
  BY <1>1, <1>11 DEF vars
<1> QED
  BY <1>2, <1>3, <1>4, <1>5, <1>6, <1>7, <1>8, <1>9, <1>10, <1>11 DEF Next

LEMMA Inductive == IInv /\ [Next]_vars => IInv'
<1> SUFFICES ASSUME IInv, [Next]_vars
             PROVE  IInv'
  OBVIOUS
<1>1. TypeOK /\ Nested /\ Progress /\ Astray
  BY DEF IInv, Astray
<1>2. TypeOK'
  BY <1>1, TypeStep
<1>3. Nested' /\ Progress'
  BY <1>1, CallsStep
<1>4. Astray'
  BY <1>1, <1>2, AstrayStep
<1> QED
  BY <1>2, <1>3, <1>4 DEF IInv, Astray

-----------------------------------------------------------------------------
LEMMA AlwaysIInv == Spec => []IInv
  BY InitIInv, Inductive, PTL DEF Spec

(* The types, for every list: cues are distinct, only listed ones have sent*)
(* anything or are wired (insert, erase and swap in the callbacks of       *)
(* addTrigger, removeTrigger, moveTriggerUp and moveTriggerDown).          *)
THEOREM TriggerListTypeCorrect == Spec => []TypeOK
<1>1. IInv => TypeOK
  BY DEF IInv
<1> QED
  BY <1>1, AlwaysIInv, PTL

(* Whatever is fired, stepped, edited and wired, the next cue exists except*)
(* after the two steps that removeTrigger and the "step down" input take   *)
(* behind the list.                                                        *)
THEOREM CueExists == Spec => []NextCueExists
<1>1. IInv => NextCueExists
  BY DEF IInv
<1> QED
  BY <1>1, AlwaysIInv, PTL

(* The index when fireTrigger() of a cue returns that is connected to any  *)
(* of the list's stepping inputs, in any order and as often as one likes.  *)
THEOREM StepsOnTop == Spec => StepsComeOnTop
<1>1. IInv /\ [Next]_vars =>
          [Return /\ "fire" \notin ToSet(wires[Top.cue]) =>
              next' = Down(Heard(Top.cue, Top.at)[Len(wires[Top.cue])])]_vars
  <2> SUFFICES ASSUME IInv, Return, "fire" \notin ToSet(wires[Top.cue])
               PROVE  next' = Down(Heard(Top.cue, Top.at)[Len(wires[Top.cue])])
    OBVIOUS
  <2>1. TypeOK /\ Nested /\ Progress
    BY DEF IInv
  <2>2. stack # <<>> /\ Top.served >= Len(wires[Top.cue]) /\ next' = Down(next)
    BY DEF Return, Served, Goto
  <2>3. next = Heard(Top.cue, Top.at)[Moved(Top)]
    BY <2>1, <2>2 DEF Progress, Passive
  <2>4. Moved(Top) = Len(wires[Top.cue])
    <3>1. Sound(Top) /\ Top.served \in Nat /\ Top.cue \in Cue
      BY <2>1, <2>2, TopSound, TopIsCall
    <3>2. Len(wires[Top.cue]) \in Nat
      <4>1. wires[Top.cue] \in Seq(Input)
        BY <2>1, <3>1 DEF TypeOK
      <4> QED
        BY <4>1
    <3> QED
      BY <2>2, <3>1, <3>2 DEF Moved, Sound
  <2> QED
    BY <2>2, <2>3, <2>4
<1> QED
  BY <1>1, AlwaysIInv, PTL DEF Spec, StepsComeOnTop
=============================================================================
