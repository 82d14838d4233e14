--------------------------- MODULE TimeStretching ---------------------------
(***************************************************************************)
(* The time stretching of a sound file (src/audio/TimeStretchingNode.cpp): *)
(* three threads and no lock. The worker (timestretching()) cuts the track *)
(* into blocks and writes them, stretched, to a ring buffer; the audio     *)
(* thread (process()) reads them; the caller pauses, plays, loads another  *)
(* track (setNewTrack()) and at last destroys the node. They share plain   *)
(* bools, so every access is a step of its own (the spinning loops have an *)
(* output in them that keeps the compiler from reading the bools once).    *)
(* m_currentPlayPosition is atomic.                                        *)
(*                                                                         *)
(* A track is the number of the load that brought it, a block one window   *)
(* of m_fftBufferSize frames. What the stretching computes is left out.    *)
(***************************************************************************)
EXTENDS Naturals, Sequences

CONSTANTS
    Blocks,     \* whole blocks in a track; after them the end is found
    Ring,       \* blocks the ring buffer has room for
    MaxLoads,   \* bound on the calls of setNewTrack() (the code has none)
    Patient     \* are they so far apart that the worker is at work between?

ASSUME TimeStretchingAssumption ==
    /\ Blocks \in Nat \ {0}
    /\ Ring \in Nat \ {0}
    /\ MaxLoads \in Nat
    /\ Patient \in BOOLEAN

VARIABLES
    buffer,     \* m_buffer: the track it holds; the one before is released
    requesting, \* m_isRequestingStop
    idle,       \* m_isIdle
    paused,     \* m_isPaused
    position,   \* m_currentPlayPosition, in blocks
    ring,       \* m_ringBuffer
    caller,     \* where the caller is
    worker,     \* where the worker is
    fileData,   \* the worker's pointer: the track whose samples it points to
    finished,   \* the worker's isFinished
    block       \* the block the worker has in FftData

vars == <<buffer, requesting, idle, paused, position, ring, caller, worker,
          fileData, finished, block>>

Track == 0..MaxLoads
Block == [track : Track, pos : 0..Blocks]

(* initialize() has run: the first track is loaded, the thread started.    *)
Init ==
    /\ buffer = 0
    /\ requesting = FALSE
    /\ idle = FALSE
    /\ paused = FALSE
    /\ position = 0
    /\ ring = <<>>
    /\ caller = "free"
    /\ worker = "top"
    /\ fileData = 0
    /\ finished = FALSE
    /\ block = [track |-> 0, pos |-> 0]

-----------------------------------------------------------------------------
(* The caller.                                                             *)

PlayPause ==
    /\ caller = "free"
    /\ paused' = ~paused
    /\ UNCHANGED <<buffer, requesting, idle, position, ring, caller, worker,
                   fileData, finished, block>>

(* setNewTrack(): ask the worker to stop ...                               *)
RequestStop ==
    /\ caller = "free" /\ buffer < MaxLoads
    /\ Patient => ~idle
    /\ requesting' = TRUE
    /\ caller' = "await"
    /\ UNCHANGED <<buffer, idle, paused, position, ring, worker, fileData,
                   finished, block>>

(* ... wait until it is idle ...                                           *)
NoWait == caller = "await"
Awaited == caller = "await" /\ idle

AwaitIdle ==
    /\ Awaited
    /\ caller' = "load"
    /\ UNCHANGED <<buffer, requesting, idle, paused, position, ring, worker,
                   fileData, finished, block>>

(* ... put in the new buffer, which releases the old one, and let it go on.*)
Load ==
    /\ caller = "load"
    /\ buffer' = buffer + 1
    /\ caller' = "resume"
    /\ UNCHANGED <<requesting, idle, paused, position, ring, worker, fileData,
                   finished, block>>

Resume ==
    /\ caller = "resume"
    /\ requesting' = FALSE
    /\ caller' = "free"
    /\ UNCHANGED <<buffer, idle, paused, position, ring, worker, fileData,
                   finished, block>>

(* emptyRingBuffer() reads as much as there was when it asked: the audio   *)
(* thread may have taken of it (the read then fails), the worker may have  *)
(* added to it.                                                            *)
EmptyRingBuffer ==
    /\ caller = "free"
    /\ \E k \in 0..Len(ring) : ring' = SubSeq(ring, k + 1, Len(ring))
    /\ UNCHANGED <<buffer, requesting, idle, paused, position, caller, worker,
                   fileData, finished, block>>

(* The destructor joins the worker, that is, it waits for the end of a     *)
(* function that has none: no step of the caller follows. (loadFile() of   *)
(* SoundFileRoomNode drops the node of the file before.)                   *)
Destroy ==
    /\ caller = "free"
    /\ caller' = "join"
    /\ UNCHANGED <<buffer, requesting, idle, paused, position, ring, worker,
                   fileData, finished, block>>

-----------------------------------------------------------------------------
(* The audio thread: process() takes a block, or silence, or rewinds.      *)
Process ==
    /\ IF paused
         THEN position' = 0 /\ UNCHANGED ring
         ELSE ring # <<>> /\ ring' = Tail(ring) /\ UNCHANGED position
    /\ UNCHANGED <<buffer, requesting, idle, paused, caller, worker, fileData,
                   finished, block>>

-----------------------------------------------------------------------------
(* The worker: while (true) { ... }                                        *)

(* A stop rewinds - when it is seen here and not only in the wait below.   *)
Top ==
    /\ worker = "top"
    /\ position' = IF requesting THEN 0 ELSE position
    /\ worker' = "wait"
    /\ UNCHANGED <<buffer, requesting, idle, paused, ring, caller, fileData,
                   finished, block>>

Wait ==
    /\ worker = "wait"
    /\ worker' = IF requesting THEN "setIdle" ELSE "reload"
    /\ UNCHANGED <<buffer, requesting, idle, paused, position, ring, caller,
                   fileData, finished, block>>

SetIdle ==
    /\ worker = "setIdle"
    /\ idle' = TRUE
    /\ worker' = "wait"
    /\ UNCHANGED <<buffer, requesting, paused, position, ring, caller, fileData,
                   finished, block>>

KeptData == fileData
ReloadedData == IF idle THEN buffer ELSE fileData

Reload ==
    /\ worker = "reload"
    /\ fileData' = ReloadedData
    /\ worker' = "busy"
    /\ UNCHANGED <<buffer, requesting, idle, paused, position, ring, caller,
                   finished, block>>

BusyUntilRoom ==
    /\ worker = "busy"
    /\ Len(ring) < Ring
    /\ idle' = FALSE
    /\ worker' = "copy"
    /\ UNCHANGED <<buffer, requesting, paused, position, ring, caller, fileData,
                   finished, block>>
BusyAdvancing ==
    /\ worker = "busy"
    /\ idle' = FALSE
    /\ worker' = IF Len(ring) < Ring THEN "copy" ELSE "advance"
    /\ UNCHANGED <<buffer, requesting, paused, position, ring, caller, fileData,
                   finished, block>>
Busy ==
    /\ worker = "busy"
    /\ idle' = FALSE
    /\ worker' = IF Len(ring) < Ring THEN "copy" ELSE "end"
    /\ UNCHANGED <<buffer, requesting, paused, position, ring, caller, fileData,
                   finished, block>>

(* The samples of the block at the position are copied; beyond the end of  *)
(* the track they stay what they were. (A block during which a pause       *)
(* rewinds is a mixture, and counts as the one it began as.)               *)
Copy ==
    /\ worker = "copy"
    /\ block' = [track |-> fileData, pos |-> position]
    /\ finished' = (position >= Blocks)
    /\ worker' = "write"
    /\ UNCHANGED <<buffer, requesting, idle, paused, position, ring, caller,
                   fileData>>

Write ==
    /\ worker = "write"
    /\ ring' = Append(ring, block)
    /\ worker' = "advance"
    /\ UNCHANGED <<buffer, requesting, idle, paused, position, caller, fileData,
                   finished, block>>

Advance ==
    /\ worker = "advance"
    /\ position' = position + 1
    /\ worker' = "end"
    /\ UNCHANGED <<buffer, requesting, idle, paused, ring, caller, fileData,
                   finished, block>>

(* At the end of the track it starts over.                                 *)
KeptPosition == position
Rewound == IF finished THEN 0 ELSE position

End ==
    /\ worker = "end"
    /\ position' = Rewound
    /\ finished' = FALSE
    /\ worker' = "top"
    /\ UNCHANGED <<buffer, requesting, idle, paused, ring, caller, fileData,
                   block>>

-----------------------------------------------------------------------------
Loading == AwaitIdle \/ Load \/ Resume

Timestretching ==
    \/ Top \/ Wait \/ SetIdle \/ Reload \/ Busy \/ Copy \/ Write \/ Advance \/ End

Next ==
    \/ PlayPause \/ RequestStop \/ EmptyRingBuffer \/ Destroy
    \/ Loading
    \/ Process
    \/ Timestretching

Spec == Init /\ [][Next]_vars

(* The two threads that spin are scheduled. The audio thread need not be:  *)
(* a node that is not connected to the output is not processed.            *)
FairSpec ==
    /\ Spec
    /\ WF_vars(Loading)
    /\ WF_vars(Timestretching)

-----------------------------------------------------------------------------
TypeOK ==
    /\ buffer \in Track
    /\ requesting \in BOOLEAN
    /\ idle \in BOOLEAN
    /\ paused \in BOOLEAN
    /\ position \in 0..(Blocks + 1)
    /\ ring \in Seq(Block) /\ Len(ring) <= Ring
    /\ caller \in {"free", "await", "load", "resume", "join"}
    /\ worker \in {"top", "wait", "setIdle", "reload", "busy", "copy", "write",
                   "advance", "end"}
    /\ fileData \in Track
    /\ finished \in BOOLEAN
    /\ block \in Block

(* The comment at setNewTrack() says "Wait until node is idle before       *)
(* loading new track": the samples of a track are not touched after the    *)
(* buffer was replaced and with it the track released. The worker reads    *)
(* them when it copies and writes the first when it sees a stop request.   *)
ReleasedNeverUsed ==
    worker = "copy" \/ (worker = "top" /\ requesting) => fileData = buffer

(* Blocks of a track are heard in the order of the file, none left out,    *)
(* but for the rewinding by a stop, a pause or the end of the track. (A    *)
(* pause that falls between copying and advancing rewinds to the second.)  *)
NoBlockSkipped ==
    \A k \in 1..(Len(ring) - 1) :
        ring[k].track = ring[k + 1].track =>
            ring[k + 1].pos = ring[k].pos + 1 \/ ring[k + 1].pos <= 1

(* setNewTrack() spins until the worker is idle. It comes back, also when  *)
(* the node is paused and the ring buffer full, so that the worker has     *)
(* nothing it could do.                                                    *)
LoadReturns == caller = "await" ~> caller = "free"

(* The worker goes over to the track that was loaded.                      *)
NewTrackTaken ==
    \A t \in Track : buffer = t ~> fileData = t \/ buffer > t
=============================================================================
