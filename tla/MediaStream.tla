----------------------------- MODULE MediaStream -----------------------------
(***************************************************************************)
(* The audio of one call: the media WebSockets FreeSWITCH opens for it, the *)
(* FreeSwitchMediaProvider that hands one of them to the call's task, and   *)
(* the agent's audio on its way out.                                        *)
(*                                                                          *)
(* uuid_audio_stream has been answered when the task attaches; the          *)
(* connection it causes arrives when it does, or twice, or after the call.  *)
(* Frames are numbered in the order in which the engine produced them.      *)
(***************************************************************************)
EXTENDS Naturals, Sequences

CONSTANTS
  Sockets,    \* connections to the listener that carry this call's ticket
  MaxFrames,  \* bound: AudioOut frames
  ChunkSize   \* frames that fill _MIN_CHUNK_SECONDS

ASSUME MediaAssumption == MaxFrames \in Nat /\ ChunkSize \in Nat \ {0}

VARIABLES
  wire,       \* [Sockets -> the state of the connection]
  registered, \* FreeSwitchMediaProvider._sockets[call_ref]
  attached,   \* _streams[call_ref]: the socket of the stream, which stays with the task
  mediaTask,  \* what run_call_task does about the media, and its stream
  buffer,     \* _FreeSwitchMediaStream._buffer
  flushing,   \* the chunk _flush() paces and sends, by a pump or by close()
  produced,   \* frames given to send() so far
  heard,      \* frames sent on the wire
  dropped,    \* history: frames of a chunk whose flush failed or was cancelled
  late        \* history: connections registered once the call had let go of its socket

mediaVars == <<wire, registered, attached, mediaTask, buffer, flushing, produced, heard,
               dropped, late>>

NoSocket == "none"
Frames == 1..MaxFrames

MediaTypeOK ==
  /\ wire \in [Sockets -> {"none", "open", "gone", "closed"}]
  /\ registered \in Sockets \cup {NoSocket}
  /\ attached \in Sockets \cup {NoSocket}
  /\ mediaTask \in [at : {"starting", "running", "stopping", "closing", "over", "cut"},
                    socket : Sockets \cup {NoSocket}]
  /\ buffer \in Seq(Frames) /\ flushing \in Seq(Frames) /\ heard \in Seq(Frames)
  /\ produced \in 0..MaxFrames
  /\ dropped \subseteq Frames
  /\ late \subseteq Sockets

MediaInit ==
  /\ wire = [k \in Sockets |-> "none"]
  /\ registered = NoSocket /\ attached = NoSocket
  /\ mediaTask = [at |-> "starting", socket |-> NoSocket]
  /\ buffer = <<>> /\ flushing = <<>> /\ heard = <<>>
  /\ produced = 0 /\ dropped = {} /\ late = {}

Elements(s) == {s[i] : i \in DOMAIN s}
audioVars == <<buffer, flushing, produced, heard, dropped>>

-----------------------------------------------------------------------------
(* FreeSwitchMediaListener.handle_connection, and the other side           *)

\* A ticket can be used again while it is valid: the last connection counts.
RegisterSocket(k) ==
  /\ wire[k] = "none"
  /\ wire' = [wire EXCEPT ![k] = "open"]
  /\ registered' = k
  /\ late' = IF mediaTask.at \in {"closing", "over", "cut"} THEN late \cup {k} ELSE late
  /\ UNCHANGED <<attached, mediaTask, audioVars>>

\* A ticket that has expired, or is not one, is not registered for any call.
RejectTicket(k) ==
  /\ wire[k] = "none"
  /\ wire' = [wire EXCEPT ![k] = "closed"]
  /\ UNCHANGED <<registered, attached, mediaTask, audioVars, late>>

\* FreeSWITCH hangs up, or the listener is closed: nothing forgets the socket.
ConnectionEnds(k) ==
  /\ wire[k] = "open"
  /\ wire' = [wire EXCEPT ![k] = "gone"]
  /\ UNCHANGED <<registered, attached, mediaTask, audioVars, late>>

-----------------------------------------------------------------------------
(* run_call_task: attach, the pumps, detach                                *)

\* Without a socket attach() raises, and a task without a stream detaches nothing.
Attach ==
  /\ mediaTask.at = "starting"
  /\ attached' = registered
  /\ mediaTask' = [at     |-> IF registered = NoSocket THEN "over" ELSE "running",
                   socket |-> registered]
  /\ UNCHANGED <<wire, registered, audioVars, late>>

\* pump_engine_events: send() coalesces frames, and awaits the flush of a full chunk.
SendFrame ==
  /\ mediaTask.at = "running" /\ flushing = <<>> /\ produced < MaxFrames
  /\ produced' = produced + 1
  /\ LET filled == Append(buffer, produced') IN
       IF Len(filled) >= ChunkSize
         THEN buffer' = <<>> /\ flushing' = filled
         ELSE buffer' = filled /\ flushing' = <<>>
  /\ UNCHANGED <<wire, registered, attached, mediaTask, heard, dropped, late>>

\* Paced, then sent; the TransportError of a closed connection ends the pumps, and is
\* suppressed in close().
FlushChunk ==
  /\ flushing # <<>>
  /\ flushing' = <<>>
  /\ IF wire[mediaTask.socket] = "open"
       THEN /\ heard' = heard \o flushing
            /\ UNCHANGED <<mediaTask, dropped>>
       ELSE /\ dropped' = dropped \cup Elements(flushing)
            /\ mediaTask' = IF mediaTask.at = "running"
                              THEN [mediaTask EXCEPT !.at = "stopping"] ELSE mediaTask
            /\ UNCHANGED heard
  /\ UNCHANGED <<wire, registered, attached, buffer, produced, late>>

\* A hangup, an error or a shutdown cancels the pumps, and with them a flush.
StopPumps ==
  /\ mediaTask.at = "running"
  /\ mediaTask' = [mediaTask EXCEPT !.at = "stopping"]
  /\ flushing' = <<>>
  /\ dropped' = dropped \cup Elements(flushing)
  /\ UNCHANGED <<wire, registered, attached, buffer, produced, heard, late>>

\* Mutation: close() does not flush what send() has buffered.
NothingLeft == <<>>
LeftToFlush == buffer

\* detach() up to the await of stream.close().
Detach ==
  /\ mediaTask.at = "stopping"
  /\ mediaTask' = [mediaTask EXCEPT !.at = "closing"]
  /\ attached' = NoSocket
  /\ registered' = NoSocket
  /\ flushing' = LeftToFlush
  /\ buffer' = <<>>
  /\ UNCHANGED <<wire, produced, heard, dropped, late>>

CloseSocket ==
  /\ mediaTask.at = "closing" /\ flushing = <<>>
  /\ mediaTask' = [mediaTask EXCEPT !.at = "over"]
  /\ wire' = [wire EXCEPT ![mediaTask.socket] = "closed"]
  /\ UNCHANGED <<registered, attached, audioVars, late>>

\* wait_for() gives up on a close() that takes too long, and cancels it where it is.
DetachTimesOut ==
  /\ mediaTask.at = "closing"
  /\ mediaTask' = [mediaTask EXCEPT !.at = "over"]
  /\ flushing' = <<>>
  /\ dropped' = dropped \cup Elements(flushing)
  /\ UNCHANGED <<wire, registered, attached, buffer, produced, heard, late>>

\* A cancellation that reaches the finally block earlier: detach() is never called.
CutShort ==
  /\ mediaTask.at = "stopping"
  /\ mediaTask' = [mediaTask EXCEPT !.at = "cut"]
  /\ UNCHANGED <<wire, registered, attached, audioVars, late>>

-----------------------------------------------------------------------------
MediaNext ==
  \/ \E k \in Sockets : RegisterSocket(k) \/ RejectTicket(k) \/ ConnectionEnds(k)
  \/ Attach \/ SendFrame \/ FlushChunk \/ StopPumps
  \/ Detach \/ CloseSocket \/ DetachTimesOut \/ CutShort

MediaSpec == MediaInit /\ [][MediaNext]_mediaVars

-----------------------------------------------------------------------------
(* Properties                                                              *)

\* Part of MediaIsSettled.  media.py:294, Phase 2.32: once a call's task has ended, by
\* whichever way out of close(), the provider keeps nothing of the call.  What it does keep
\* are connections that came too late, after the call had failed to attach or had detached.
SocketsAreReleased ==
  mediaTask.at = "over" =>
    /\ attached = NoSocket
    /\ registered \in late \cup {NoSocket}

\* Part of MediaIsSettled.  media.py:194-200, "no caller-provided audio is ever silently
\* dropped": what the engine produced is heard in order and once, or was in a chunk whose
\* flush was cut off, or waits in the buffer of a call that is not over.
AudioIsKept ==
  /\ \A i, j \in DOMAIN heard : i < j => heard[i] < heard[j]
  /\ 1..produced = Elements(heard) \cup dropped \cup Elements(flushing) \cup Elements(buffer)
  /\ mediaTask.at = "over" => buffer = <<>>

\* A call lets go of its media, and of nothing it still has to say.
MediaIsSettled == SocketsAreReleased /\ AudioIsKept
=============================================================================
