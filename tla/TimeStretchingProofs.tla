------------------------ MODULE TimeStretchingProofs ------------------------
(***************************************************************************)
(* The time stretching with any number of loads, blocks and places in the  *)
(* ring buffer: the variables are well typed, which includes that no block *)
(* beyond the end is read and the ring buffer is not overrun; the blocks   *)
(* of a track keep their order; and, when loads are far enough apart, no   *)
(* released track is used.                                                 *)
(*                                                                         *)
(* The last needs the state of the handshake: between RequestStop and      *)
(* the return to work, m_isIdle can only be seen set while the worker is   *)
(* in its waiting loop.                                                    *)
(***************************************************************************)
EXTENDS TimeStretching, TLAPS

(* Where the position may be beyond the last whole block, and where a      *)
(* place in the ring buffer is reserved.                                   *)
Bounds ==
    /\ position = Blocks + 1 => worker = "end" /\ finished
    /\ worker \in {"write", "advance"} /\ position = Blocks => finished
    /\ worker \in {"copy", "write"} => Len(ring) < Ring
    /\ caller = "load" => buffer < MaxLoads
    /\ caller = "await" => buffer < MaxLoads

Handshake ==
    /\ requesting <=> caller \in {"await", "load", "resume"}
    /\ idle => \/ worker \in {"wait", "setIdle"}
               \/ worker \in {"reload", "busy"} /\ caller \in {"free", "join"}
    /\ caller \in {"load", "resume"} => idle
    /\ worker = "setIdle" /\ ~idle => caller = "await"
    /\ fileData # buffer => idle /\ worker # "busy"

(* Where the block that comes next belongs: behind the last one in the     *)
(* ring buffer, if that is of the same track, or at the beginning, where a *)
(* rewinding, possibly followed by the advance of a block copied before    *)
(* it, has put the position. Tracks only go up.                            *)
Behind(pos) == pos = ring[Len(ring)].pos + 1 \/ pos <= 1

Order ==
    /\ fileData <= buffer
    /\ ring # <<>> => ring[Len(ring)].track <= fileData
    /\ worker \in {"write", "advance"} =>
          block.track = fileData /\ position \in {0, block.pos}
    /\ worker = "advance" /\ ring # <<>> => ring[Len(ring)] = block
    /\ worker = "write" /\ ring # <<>> /\ ring[Len(ring)].track = fileData =>
          Behind(block.pos)
    /\ worker \notin {"write", "advance"} /\ ring # <<>>
             /\ ring[Len(ring)].track = fileData =>
          Behind(position)

LEMMA InitInvariants == Init => TypeOK /\ Bounds /\ Handshake
<1> SUFFICES ASSUME Init
             PROVE  TypeOK /\ Bounds /\ Handshake
  OBVIOUS
<1>1. 0 \in Track /\ 0 \in 0..Blocks /\ 0 \in 0..(Blocks + 1)
  BY TimeStretchingAssumption DEF Track
<1>2. ring \in Seq(Block) /\ Len(ring) = 0
  BY DEF Init
<1>3. block \in Block
  BY <1>1 DEF Init, Block
<1>4. Len(ring) <= Ring
  BY <1>2, TimeStretchingAssumption
<1>5. TypeOK
  BY <1>1, <1>2, <1>3, <1>4 DEF Init, TypeOK
<1>6. Bounds
  BY TimeStretchingAssumption DEF Init, Bounds
<1>7. Handshake
  BY DEF Init, Handshake
<1> QED
  BY <1>5, <1>6, <1>7

(* Process takes the first block of a ring buffer that is not empty.       *)
LEMMA TailShorter ==
    ASSUME TypeOK, ring # <<>>
    PROVE  Tail(ring) \in Seq(Block) /\ Len(Tail(ring)) = Len(ring) - 1
  BY DEF TypeOK

(* EmptyRingBuffer drops some blocks at the front.                         *)
LEMMA SuffixShorter ==
    ASSUME TypeOK, NEW k \in 0..Len(ring)
    PROVE  LET rest == SubSeq(ring, k + 1, Len(ring))
           IN  /\ rest \in Seq(Block)
               /\ Len(rest) = Len(ring) - k
               /\ \A j \in 1..(Len(ring) - k) : rest[j] = ring[j + k]
<1>1. ring \in Seq(Block) /\ Len(ring) \in Nat
  BY DEF TypeOK
<1> QED
  BY <1>1

LEMMA TypeStep == TypeOK /\ Bounds /\ [Next]_vars => TypeOK'
<1> SUFFICES ASSUME TypeOK, Bounds, [Next]_vars
             PROVE  TypeOK'
  OBVIOUS
<1> USE TimeStretchingAssumption DEF TypeOK
<1>1. CASE PlayPause \/ RequestStop \/ Destroy
  BY <1>1 DEF PlayPause, RequestStop, Destroy
<1>2. CASE Loading
  <2>1. CASE AwaitIdle \/ Resume
    BY <2>1 DEF AwaitIdle, Resume
  <2>2. CASE Load
    BY <2>2 DEF Load, Bounds, Track
  <2> QED
    BY <1>2, <2>1, <2>2 DEF Loading
<1>3. CASE Process
  <2>1. CASE paused
    BY <1>3, <2>1 DEF Process
  <2>2. CASE ~paused
    BY <1>3, <2>2, TailShorter DEF Process
  <2> QED
    BY <2>1, <2>2
<1>4. CASE Timestretching
  <2>1. CASE Top \/ Wait
    BY <2>1 DEF Top, Wait
  <2>2. CASE SetIdle
    BY <2>2 DEF SetIdle
  <2>3. CASE Reload
    BY <2>3 DEF Reload, ReloadedData
  <2>4. CASE Busy
    BY <2>4 DEF Busy
  <2>5. CASE Copy
    <3>1. position \in 0..Blocks
      BY <2>5 DEF Copy, Bounds
    <3>2. block' \in Block
      BY <2>5, <3>1 DEF Copy, Block
    <3>3. finished' \in BOOLEAN
      BY <2>5 DEF Copy
    <3> QED
      BY <2>5, <3>2, <3>3 DEF Copy
  <2>6. CASE Write
    <3>1. ring' \in Seq(Block) /\ Len(ring') = Len(ring) + 1
      BY <2>6 DEF Write
    <3>2. Len(ring) < Ring
      BY <2>6 DEF Write, Bounds
    <3> QED
      BY <2>6, <3>1, <3>2 DEF Write
  <2>7. CASE Advance
    BY <2>7 DEF Advance, Bounds
  <2>8. CASE End
    <3>1. position' \in 0..(Blocks + 1)
      BY <2>8 DEF End, Rewound
    <3>2. finished' \in BOOLEAN
      BY <2>8 DEF End
    <3> QED
      BY <2>8, <3>1, <3>2 DEF End
  <2> QED
    BY <1>4, <2>1, <2>2, <2>3, <2>4, <2>5, <2>6, <2>7, <2>8 DEF Timestretching
<1>6. CASE EmptyRingBuffer
  BY <1>6, SuffixShorter DEF EmptyRingBuffer
<1>5. CASE UNCHANGED vars
  BY <1>5 DEF vars
<1> QED
  BY <1>1, <1>2, <1>3, <1>4, <1>5, <1>6 DEF Next

LEMMA BoundsStep == TypeOK /\ Bounds /\ [Next]_vars => Bounds'
<1> SUFFICES ASSUME TypeOK, Bounds, [Next]_vars
             PROVE  Bounds'
  OBVIOUS
<1> USE TimeStretchingAssumption DEF TypeOK, Bounds, Track
<1>1. CASE PlayPause \/ RequestStop \/ Destroy
  BY <1>1 DEF PlayPause, RequestStop, Destroy
<1>2. CASE Loading
  <2>1. CASE AwaitIdle
    BY <2>1 DEF AwaitIdle, Awaited
  <2>2. CASE Load
    BY <2>2 DEF Load
  <2>3. CASE Resume
    BY <2>3 DEF Resume
  <2> QED
    BY <1>2, <2>1, <2>2, <2>3 DEF Loading
<1>3. CASE Process
  <2>1. CASE paused
    BY <1>3, <2>1 DEF Process
  <2>2. CASE ~paused
    BY <1>3, <2>2, TailShorter DEF Process
  <2> QED
    BY <2>1, <2>2
<1>4. CASE Timestretching
  <2>1. CASE Top \/ Wait \/ SetIdle \/ Reload
    BY <2>1 DEF Top, Wait, SetIdle, Reload
  <2>2. CASE Busy
    BY <2>2 DEF Busy
  <2>3. CASE Copy
    <3>1. worker = "copy" /\ worker' = "write" /\ UNCHANGED <<position, ring, caller, buffer>>
      BY <2>3 DEF Copy
    <3>2. finished' = (position >= Blocks)
      BY <2>3 DEF Copy
    <3>3. ASSUME position = Blocks
          PROVE  finished'
      <4>1. position >= Blocks
        BY <3>3
      <4> QED
        BY <3>2, <4>1
    <3> QED
      BY <3>1, <3>3
  <2>4. CASE Write \/ Advance
    BY <2>4 DEF Write, Advance
  <2>5. CASE End
    BY <2>5 DEF End, Rewound
  <2> QED
    BY <1>4, <2>1, <2>2, <2>3, <2>4, <2>5 DEF Timestretching
<1>6. CASE EmptyRingBuffer
  BY <1>6, SuffixShorter DEF EmptyRingBuffer
<1>5. CASE UNCHANGED vars
  BY <1>5 DEF vars
<1> QED
  BY <1>1, <1>2, <1>3, <1>4, <1>5, <1>6 DEF Next

(* Patience matters in RequestStop only: a stop that is requested while    *)
(* m_isIdle is still set from the last one breaks the second conjunct.     *)
LEMMA HandshakeStep ==
    ASSUME Patient
    PROVE  TypeOK /\ Handshake /\ [Next]_vars => Handshake'
<1> SUFFICES ASSUME TypeOK, Handshake, [Next]_vars
             PROVE  Handshake'
  OBVIOUS
<1> USE DEF TypeOK, Handshake
<1>1. CASE PlayPause
  BY <1>1 DEF PlayPause
<1>2. CASE RequestStop
  BY <1>2 DEF RequestStop
<1>3. CASE Destroy
  BY <1>3 DEF Destroy
<1>4. CASE Loading
  <2>1. CASE AwaitIdle
    BY <2>1 DEF AwaitIdle, Awaited
  <2>2. CASE Load
    BY <2>2 DEF Load
  <2>3. CASE Resume
    BY <2>3 DEF Resume
  <2> QED
    BY <1>4, <2>1, <2>2, <2>3 DEF Loading
<1>5. CASE Process
  BY <1>5 DEF Process
<1>6. CASE Timestretching
  <2>1. CASE Top
    BY <2>1 DEF Top
  <2>2. CASE Wait
    BY <2>2 DEF Wait
  <2>3. CASE SetIdle
    BY <2>3 DEF SetIdle
  <2>4. CASE Reload
    BY <2>4 DEF Reload, ReloadedData
  <2>5. CASE Busy
    BY <2>5 DEF Busy
  <2>6. CASE Copy \/ Write \/ Advance \/ End
    BY <2>6 DEF Copy, Write, Advance, End
  <2> QED
    BY <1>6, <2>1, <2>2, <2>3, <2>4, <2>5, <2>6 DEF Timestretching
<1>8. CASE EmptyRingBuffer
  BY <1>8 DEF EmptyRingBuffer
<1>7. CASE UNCHANGED vars
  BY <1>7 DEF vars
<1> QED
  BY <1>1, <1>2, <1>3, <1>4, <1>5, <1>6, <1>7, <1>8 DEF Next

(* Blocks leave at the front, which keeps the last one and the pairs of    *)
(* neighbours.                                                             *)
LEMMA FrontLeaves ==
    ASSUME TypeOK, NoBlockSkipped, Order, NEW k \in 0..Len(ring),
           ring' = SubSeq(ring, k + 1, Len(ring)),
           UNCHANGED <<buffer, fileData, position, block, worker>>
    PROVE  NoBlockSkipped' /\ Order'
<1>1. /\ Len(ring) \in Nat
      /\ Len(ring') = Len(ring) - k
      /\ \A j \in 1..(Len(ring) - k) : ring'[j] = ring[j + k]
  BY SuffixShorter DEF TypeOK
<1>2. NoBlockSkipped'
  <2> SUFFICES ASSUME NEW j \in 1..(Len(ring') - 1),
                      ring'[j].track = ring'[j + 1].track
               PROVE  ring'[j + 1].pos = ring'[j].pos + 1 \/ ring'[j + 1].pos <= 1
    BY DEF NoBlockSkipped
  <2>1. j + k \in 1..(Len(ring) - 1)
    BY <1>1
  <2>2. ring'[j] = ring[j + k] /\ ring'[j + 1] = ring[(j + k) + 1]
    BY <1>1
  <2> QED
    BY <2>1, <2>2 DEF NoBlockSkipped
<1>3. ASSUME ring' # <<>>
      PROVE  ring # <<>> /\ ring'[Len(ring')] = ring[Len(ring)]
  <2>1. ring \in Seq(Block) /\ ring' \in Seq(Block)
    BY SuffixShorter DEF TypeOK
  <2>2. Len(ring') # 0
    BY <1>3, <2>1
  <2>3. Len(ring) # 0 /\ Len(ring') \in 1..(Len(ring) - k)
    <3>1. Len(ring) \in Nat /\ k \in 0..Len(ring) /\ Len(ring) - k # 0
      BY <1>1, <2>2
    <3>2. Len(ring) # 0 /\ Len(ring) - k \in 1..(Len(ring) - k)
      BY <3>1
    <3> QED
      BY <1>1, <3>2
  <2>4. ring'[Len(ring')] = ring[Len(ring') + k]
    BY <1>1, <2>3
  <2>5. Len(ring') + k = Len(ring)
    BY <1>1
  <2> QED
    BY <2>1, <2>3, <2>4, <2>5
<1>4. Order'
  BY <1>3 DEF Order, Behind
<1> QED
  BY <1>2, <1>4

LEMMA OrderStep ==
    TypeOK /\ NoBlockSkipped /\ Order /\ [Next]_vars => (NoBlockSkipped /\ Order)'
<1> SUFFICES ASSUME TypeOK, NoBlockSkipped, Order, [Next]_vars
             PROVE  NoBlockSkipped' /\ Order'
  OBVIOUS
<1>0. ring \in Seq(Block) /\ Len(ring) \in Nat /\ position \in Nat
  BY TimeStretchingAssumption DEF TypeOK
<1>1. ASSUME UNCHANGED ring
      PROVE  NoBlockSkipped'
  BY <1>1 DEF NoBlockSkipped
<1>2. CASE PlayPause \/ RequestStop \/ Destroy \/ AwaitIdle \/ Resume \/ Load
  <2>1. UNCHANGED <<ring, fileData, position, block, worker>> /\ buffer <= buffer'
    BY <1>2, TimeStretchingAssumption
    DEF PlayPause, RequestStop, Destroy, AwaitIdle, Resume, Load, TypeOK, Track
  <2>2. fileData <= buffer'
    BY <2>1, <1>2, TimeStretchingAssumption
    DEF Order, TypeOK, Track, PlayPause, RequestStop, Destroy, AwaitIdle, Resume, Load
  <2>3. Order'
    BY <2>1, <2>2 DEF Order, Behind
  <2> QED
    BY <1>1, <2>1, <2>3
<1>3. CASE EmptyRingBuffer
  BY <1>3, FrontLeaves DEF EmptyRingBuffer
<1>4. CASE Process
  <2>1. CASE paused
    <3>1. position' = 0 /\ UNCHANGED <<ring, buffer, fileData, block, worker>>
      BY <1>4, <2>1 DEF Process
    <3> QED
      BY <1>1, <3>1 DEF Order, Behind
  <2>2. CASE ~paused
    <3>1. /\ ring # <<>> /\ ring' = Tail(ring)
          /\ UNCHANGED <<buffer, fileData, position, block, worker>>
      BY <1>4, <2>2 DEF Process
    <3>2. Len(ring) # 0
      BY <1>0, <3>1
    <3>3. 1 \in 0..Len(ring) /\ ring' = SubSeq(ring, 1 + 1, Len(ring))
      BY <1>0, <3>1, <3>2
    <3> QED
      BY <3>1, <3>3, FrontLeaves
  <2> QED
    BY <2>1, <2>2
<1>5. CASE Timestretching
  <2>1. CASE Top \/ Wait \/ SetIdle \/ Busy
    <3>1. /\ UNCHANGED <<ring, buffer, fileData, block>>
          /\ position' \in {0, position}
          /\ worker \notin {"write", "advance"} /\ worker' \notin {"write", "advance"}
      BY <2>1 DEF Top, Wait, SetIdle, Busy
    <3> QED
      BY <1>0, <1>1, <3>1 DEF Order, Behind
  <2>2. CASE Reload
    <3>1. /\ UNCHANGED <<ring, buffer, position, block>>
          /\ fileData' \in {fileData, buffer}
          /\ worker = "reload" /\ worker' = "busy"
      BY <2>2 DEF Reload, ReloadedData
    <3>2. buffer \in Nat /\ fileData \in Nat
      BY TimeStretchingAssumption DEF TypeOK, Track
    <3>3. ring # <<>> => ring[Len(ring)].track \in Nat
      <4>1. ASSUME ring # <<>> PROVE ring[Len(ring)] \in Block
        BY <1>0, <4>1
      <4> QED
        BY <4>1, TimeStretchingAssumption DEF Block, Track
    <3>4. Order'
      BY <3>1, <3>2, <3>3 DEF Order, Behind
    <3> QED
      BY <1>1, <3>1, <3>4
  <2>3. CASE Copy
    <3>1. /\ UNCHANGED <<ring, buffer, fileData, position>>
          /\ block'.track = fileData /\ block'.pos = position
          /\ worker = "copy" /\ worker' = "write"
      BY <2>3 DEF Copy
    <3> QED
      BY <1>1, <3>1 DEF Order, Behind
  <2>4. CASE Write
    <3>1. /\ UNCHANGED <<buffer, fileData, position, block>>
          /\ worker = "write" /\ worker' = "advance"
          /\ ring' = Append(ring, block) /\ block \in Block
      BY <2>4 DEF Write, TypeOK
    <3>2. /\ Len(ring') = Len(ring) + 1 /\ ring'[Len(ring) + 1] = block
          /\ \A j \in 1..Len(ring) : ring'[j] = ring[j]
      BY <1>0, <3>1
    <3>3. fileData \in Nat /\ block.track = fileData
      BY <3>1, TimeStretchingAssumption DEF TypeOK, Track, Order
    <3>4. Order'
      BY <3>1, <3>2, <3>3 DEF Order, Behind
    <3>5. NoBlockSkipped'
      <4> SUFFICES ASSUME NEW j \in 1..(Len(ring') - 1),
                          ring'[j].track = ring'[j + 1].track
                   PROVE  ring'[j + 1].pos = ring'[j].pos + 1 \/ ring'[j + 1].pos <= 1
        BY DEF NoBlockSkipped
      <4>1. CASE j = Len(ring)
        <5>1. ring'[j] = ring[Len(ring)] /\ ring'[j + 1] = block /\ ring # <<>>
          BY <1>0, <3>2, <4>1
        <5> QED
          BY <3>1, <3>3, <5>1 DEF Order, Behind
      <4>2. CASE j # Len(ring)
        <5>1. j \in 1..(Len(ring) - 1)
          BY <1>0, <3>2, <4>2
        <5>2. ring'[j] = ring[j] /\ ring'[j + 1] = ring[j + 1]
          BY <1>0, <3>2, <5>1
        <5> QED
          BY <5>1, <5>2 DEF NoBlockSkipped
      <4> QED
        BY <4>1, <4>2
    <3> QED
      BY <3>4, <3>5
  <2>5. CASE Advance
    <3>1. /\ UNCHANGED <<ring, buffer, fileData, block>>
          /\ position' = position + 1
          /\ worker = "advance" /\ worker' = "end"
      BY <2>5 DEF Advance
    <3> QED
      BY <1>0, <1>1, <3>1 DEF Order, Behind
  <2>6. CASE End
    <3>1. /\ UNCHANGED <<ring, buffer, fileData, block>>
          /\ position' \in {0, position}
          /\ worker = "end" /\ worker' = "top"
      BY <2>6 DEF End, Rewound
    <3> QED
      BY <1>0, <1>1, <3>1 DEF Order, Behind
  <2> QED
    BY <1>5, <2>1, <2>2, <2>3, <2>4, <2>5, <2>6 DEF Timestretching
<1>6. CASE UNCHANGED vars
  BY <1>6 DEF vars, NoBlockSkipped, Order, Behind
<1> QED
  BY <1>2, <1>3, <1>4, <1>5, <1>6 DEF Next, Loading

(* The position stays within the track, the ring buffer within its size,   *)
(* whatever the three threads do and however fast loads follow.            *)
THEOREM TimeStretchingTypeCorrect == Spec => []TypeOK
<1>1. TypeOK /\ Bounds /\ [Next]_vars => (TypeOK /\ Bounds)'
  BY TypeStep, BoundsStep
<1> QED
  BY InitInvariants, <1>1, PTL DEF Spec

(* When the caller waits until the worker is at work again before it loads *)
(* the next track, the worker never touches a released one.                *)
THEOREM PatientLoadsSafe ==
    ASSUME Patient
    PROVE  Spec => []ReleasedNeverUsed
<1>1. TypeOK /\ Bounds /\ Handshake /\ [Next]_vars => (TypeOK /\ Bounds /\ Handshake)'
  BY TypeStep, BoundsStep, HandshakeStep
<1>2. Handshake => ReleasedNeverUsed
  BY DEF Handshake, ReleasedNeverUsed
<1> QED
  BY InitInvariants, <1>1, <1>2, PTL DEF Spec

(* However the three threads interleave and however fast loads follow, no  *)
(* block of a track is left out or put before its predecessor.             *)
THEOREM BlocksInOrder == Spec => []NoBlockSkipped
<1>1. Init => NoBlockSkipped /\ Order
  <2> SUFFICES ASSUME Init
               PROVE  NoBlockSkipped /\ Order
    OBVIOUS
  <2>1. Len(ring) = 0 /\ ring = <<>> /\ fileData <= buffer /\ worker = "top"
    BY DEF Init
  <2> QED
    BY <2>1 DEF NoBlockSkipped, Order
<1>2. TypeOK /\ Bounds /\ [Next]_vars => (TypeOK /\ Bounds)'
  BY TypeStep, BoundsStep
<1> QED
  BY InitInvariants, <1>1, <1>2, OrderStep, PTL DEF Spec
=============================================================================
