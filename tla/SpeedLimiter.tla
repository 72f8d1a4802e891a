---------------------------- MODULE SpeedLimiter ----------------------------
(***************************************************************************)
(* SpeedLimitUploadHandler: the chunks of one upload as they arrive, the   *)
(* sliding window the handler keeps of them and the moment it cuts the     *)
(* connection.  Time passes between chunks; the handler looks at the clock *)
(* only when a chunk arrives.                                              *)
(***************************************************************************)
EXTENDS Integers, Sequences, FiniteSetsExt, Functions

CONSTANTS UPLOAD_MAX_TIME, UPLOAD_MIN_SPEED, SPEED_WINDOW,
          ChunkSizes,   \* sizes a chunk may have
          MaxGap,       \* bound: the longest silence between two chunks
          MaxTotal      \* bound: bytes of one upload

ASSUME SpeedAssumption ==
    /\ UPLOAD_MAX_TIME \in Nat /\ UPLOAD_MIN_SPEED \in Nat /\ SPEED_WINDOW \in Nat \ {0}
    /\ ChunkSizes \subseteq Nat /\ MaxGap \in Nat /\ MaxTotal \in Nat

VARIABLE upload
speedVars == <<upload>>

\* `start`, `chunks` and `total` are the handler's; `last` is the time of the
\* last chunk.  `steady` and `fast` are history: no silence was longer than the
\* window; every chunk paid for the silence before it.
Idle == [state |-> "idle", start |-> 0, chunks |-> <<>>, total |-> 0,
         last |-> 0, steady |-> TRUE, fast |-> TRUE]

SpeedInit == upload = Idle

NewFile ==
    /\ upload.state = "idle"
    /\ upload' = [Idle EXCEPT !.state = "open"]

Since(chunks, i) == SubSeq(chunks, i, Len(chunks))

\* Mutants of Evict: nothing goes; an entry exactly as old as the window goes.
EvictNothing(chunks, now) == chunks
EvictAtCutoff(chunks, now) ==
    Since(chunks, Min({i \in DOMAIN chunks : chunks[i].at > now - SPEED_WINDOW}))

\* Entries older than the window go, from the left up to the first that is not;
\* one exactly as old as the window stays.
Evict(chunks, now) ==
    Since(chunks, Min({i \in DOMAIN chunks : chunks[i].at >= now - SPEED_WINDOW}))

WindowBytes(chunks) == SumFunction([i \in DOMAIN chunks |-> chunks[i].size])

\* Mutant of TooSlow: the chunk that has just come is not counted.
TooSlowBeforeChunk(chunks, elapsed, now) ==
    /\ elapsed >= SPEED_WINDOW
    /\ WindowBytes(SubSeq(chunks, 1, Len(chunks) - 1)) < UPLOAD_MIN_SPEED * (now - chunks[1].at)

\* The speed is measured from the oldest chunk of the window, and not at all
\* when that chunk is the only moment in it.
TooSlow(chunks, elapsed, now) ==
    LET duration == now - chunks[1].at
    IN  /\ elapsed >= SPEED_WINDOW
        /\ duration > 0
        /\ WindowBytes(chunks) < UPLOAD_MIN_SPEED * duration

ReceiveDataChunk(now, size) ==
    LET elapsed == now - upload.start
        kept == Evict(Append(upload.chunks, [at |-> now, size |-> size]), now)
        heard == [upload EXCEPT
                    !.chunks = kept, !.total = @ + size, !.last = now,
                    !.steady = @ /\ now - upload.last <= SPEED_WINDOW,
                    !.fast = @ /\ size >= UPLOAD_MIN_SPEED * (now - upload.last)]
    IN  /\ upload.state = "open"
        /\ upload' =
             IF elapsed > UPLOAD_MAX_TIME THEN [upload EXCEPT !.state = "late"]
             ELSE IF TooSlow(kept, elapsed, now)
                  THEN [heard EXCEPT !.state = "slow"] ELSE heard

\* The parser calls file_complete after the last chunk.
FileComplete ==
    /\ upload.state = "open"
    /\ upload' = [upload EXCEPT !.state = "complete"]

\* A handler lives for one request.
RequestEnds ==
    /\ upload.state \in {"late", "slow", "complete"}
    /\ upload' = Idle

SpeedNext ==
    \/ NewFile
    \/ \E gap \in 0..MaxGap, size \in ChunkSizes :
          /\ upload.total + size <= MaxTotal
          /\ ReceiveDataChunk(upload.last + gap, size)
    \/ FileComplete
    \/ RequestEnds

SpeedSpec == SpeedInit /\ [][SpeedNext]_speedVars

-----------------------------------------------------------------------------
Chunk == [at : Nat, size : ChunkSizes]

\* Past the last eviction nothing in the window is older than the window.
SpeedTypeOK ==
    /\ upload \in [state : {"idle", "open", "late", "slow", "complete"}, start : {0},
                   chunks : Seq(Chunk), total : 0..MaxTotal, last : Nat,
                   steady : BOOLEAN, fast : BOOLEAN]
    /\ \A i \in DOMAIN upload.chunks :
          upload.chunks[i].at \in (upload.last - SPEED_WINDOW)..upload.last

\* A client that pays for each of its silences with the next chunk is never cut
\* for its speed, wherever the window happens to begin.
FastUploadsFinish == upload.state = "slow" => ~upload.fast

\* A client that never falls silent for longer than the window cannot drip:
\* past the first window it has sent at least half of the minimum (the chunk at
\* which one window ends and another begins counts in both).
SteadyUploadsPay ==
    upload.state \in {"open", "complete"} /\ upload.steady
        => 2 * upload.total >= UPLOAD_MIN_SPEED * (upload.last - upload.start - SPEED_WINDOW)
=============================================================================
