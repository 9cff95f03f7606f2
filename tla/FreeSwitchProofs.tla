--------------------------- MODULE FreeSwitchProofs ---------------------------
(***************************************************************************)
(* What a call does with its media: the provider keeps none of its         *)
(* sockets, and its audio is heard in order, once, or known to be cut off. *)
(* What the link to FreeSWITCH does with commands and events: a reply goes *)
(* to its own command, and events keep their order over all connections.   *)
(***************************************************************************)
EXTENDS MediaStream, ControlLink, TLAPS

\* The values of a sequence of frames.
LEMMA ElementsOfEmpty == Elements(<<>>) = {}
  BY DEF Elements

LEMMA ElementsOfAppend ==
  ASSUME NEW s \in Seq(Nat), NEW n \in Nat
  PROVE  Elements(Append(s, n)) = Elements(s) \cup {n}
  <1> DEFINE t == Append(s, n)
  <1>1. /\ DOMAIN s = 1..Len(s) /\ Len(s) \in Nat
        /\ DOMAIN t = 1..(Len(s) + 1) /\ t[Len(s) + 1] = n
        /\ \A i \in 1..Len(s) : t[i] = s[i]
    OBVIOUS
  <1> HIDE DEF t
  <1>2. {t[i] : i \in DOMAIN t} = {s[i] : i \in DOMAIN s} \cup {n}
    BY <1>1
  <1> QED
    BY <1>2 DEF Elements, t

LEMMA ElementsOfConcat ==
  ASSUME NEW s \in Seq(Nat), NEW t \in Seq(Nat)
  PROVE  Elements(s \o t) = Elements(s) \cup Elements(t)
  <1> DEFINE u == s \o t
  <1>1. /\ DOMAIN s = 1..Len(s) /\ Len(s) \in Nat
        /\ DOMAIN t = 1..Len(t) /\ Len(t) \in Nat
        /\ DOMAIN u = 1..(Len(s) + Len(t))
        /\ \A i \in 1..Len(s) : u[i] = s[i]
        /\ \A i \in 1..Len(t) : u[Len(s) + i] = t[i]
    OBVIOUS
  <1> HIDE DEF u
  <1>2. ASSUME NEW i \in DOMAIN u
        PROVE  u[i] \in {s[j] : j \in DOMAIN s} \cup {t[j] : j \in DOMAIN t}
    <2>1. CASE i <= Len(s)
      BY <1>1, <2>1
    <2>2. CASE i > Len(s)
      <3>1. i - Len(s) \in 1..Len(t) /\ u[i] = t[i - Len(s)]
        BY <1>1, <2>2
      <3> QED
        BY <1>1, <3>1
    <2> QED
      BY <1>1, <2>1, <2>2
  <1>3. ASSUME NEW i \in DOMAIN s
        PROVE  s[i] \in {u[j] : j \in DOMAIN u}
    <2>1. i \in DOMAIN u /\ u[i] = s[i]
      BY <1>1
    <2> QED
      BY <2>1
  <1>4. ASSUME NEW i \in DOMAIN t
        PROVE  t[i] \in {u[j] : j \in DOMAIN u}
    <2>1. Len(s) + i \in DOMAIN u /\ u[Len(s) + i] = t[i]
      BY <1>1
    <2> QED
      BY <2>1
  <1>5. {u[i] : i \in DOMAIN u} = {s[i] : i \in DOMAIN s} \cup {t[i] : i \in DOMAIN t}
    BY <1>2, <1>3, <1>4
  <1> QED
    BY <1>5 DEF Elements, u

\* Frames in the order in which they were produced, and all of one before all of another.
Growing(s) == \A i, j \in DOMAIN s : i < j => s[i] < s[j]
Before(s, t) == \A i \in DOMAIN s, j \in DOMAIN t : s[i] < t[j]

LEMMA GrowingAppend ==
  ASSUME NEW s \in Seq(Nat), NEW n \in Nat, Growing(s), \A i \in DOMAIN s : s[i] < n
  PROVE  Growing(Append(s, n))
  <1> DEFINE t == Append(s, n)
  <1>1. /\ DOMAIN s = 1..Len(s) /\ Len(s) \in Nat
        /\ DOMAIN t = 1..(Len(s) + 1) /\ t[Len(s) + 1] = n
        /\ \A i \in 1..Len(s) : t[i] = s[i]
    OBVIOUS
  <1> HIDE DEF t
  <1>2. ASSUME NEW i \in DOMAIN t, NEW j \in DOMAIN t, i < j
        PROVE  t[i] < t[j]
    <2>1. i \in DOMAIN s /\ t[i] = s[i]
      BY <1>1, <1>2
    <2>2. CASE j = Len(s) + 1
      BY <1>1, <2>1, <2>2
    <2>3. CASE j \in DOMAIN s
      BY <1>1, <1>2, <2>1, <2>3 DEF Growing
    <2> QED
      BY <1>1, <2>2, <2>3
  <1> QED
    BY <1>2 DEF Growing, t

LEMMA GrowingConcat ==
  ASSUME NEW s \in Seq(Nat), NEW t \in Seq(Nat), Growing(s), Growing(t), Before(s, t)
  PROVE  Growing(s \o t)
  <1> DEFINE u == s \o t
  <1>1. /\ DOMAIN s = 1..Len(s) /\ Len(s) \in Nat
        /\ DOMAIN t = 1..Len(t) /\ Len(t) \in Nat
        /\ DOMAIN u = 1..(Len(s) + Len(t))
        /\ \A i \in 1..Len(s) : u[i] = s[i]
        /\ \A i \in 1..Len(t) : u[Len(s) + i] = t[i]
    OBVIOUS
  <1> HIDE DEF u
  <1>a. \A i \in DOMAIN u : i <= Len(s) => i \in DOMAIN s /\ u[i] = s[i]
    BY <1>1
  <1>b. ASSUME NEW i \in DOMAIN u, i > Len(s)
        PROVE  i - Len(s) \in DOMAIN t /\ u[i] = t[i - Len(s)]
    <2>1. i \in Nat /\ i <= Len(s) + Len(t)
      BY <1>1
    <2>2. /\ Len(s) \in Nat /\ Len(t) \in Nat
          /\ \A k \in 1..Len(t) : k \in DOMAIN t /\ u[Len(s) + k] = t[k]
      BY <1>1
    <2>3. i - Len(s) \in 1..Len(t) /\ Len(s) + (i - Len(s)) = i
      BY <1>b, <2>1, <2>2
    <2> QED
      BY <2>2, <2>3
  <1>2. ASSUME NEW i \in DOMAIN u, NEW j \in DOMAIN u, i < j
        PROVE  u[i] < u[j]
    <2>0. i \in Nat /\ j \in Nat
      BY <1>1
    <2>1. CASE j <= Len(s)
      <3>1. i <= Len(s)
        BY <1>1, <1>2, <2>0, <2>1
      <3> QED
        BY <1>a, <1>2, <2>1, <3>1 DEF Growing
    <2>2. CASE i <= Len(s) /\ j > Len(s)
      BY <1>a, <1>b, <2>2 DEF Before
    <2>3. CASE i > Len(s)
      <3>1. j > Len(s) /\ i - Len(s) < j - Len(s)
        BY <1>1, <1>2, <2>0, <2>3
      <3> QED
        BY <1>b, <2>3, <3>1 DEF Growing
    <2> QED
      BY <1>1, <2>0, <2>1, <2>2, <2>3
  <1> QED
    BY <1>2 DEF Growing, u

-----------------------------------------------------------------------------
(* Types                                                                   *)

LEMMA FramesAreNumbers ==
  ASSUME NEW s \in Seq(Frames)
  PROVE  s \in Seq(Nat)
  <1>1. /\ Len(s) \in Nat /\ DOMAIN s = 1..Len(s)
        /\ s = [i \in 1..Len(s) |-> s[i]] /\ \A i \in 1..Len(s) : s[i] \in Frames
    OBVIOUS
  <1>2. \A i \in 1..Len(s) : s[i] \in Nat
    BY <1>1 DEF Frames
  <1>3. s \in [1..Len(s) -> Nat]
    BY <1>1, <1>2
  <1> QED
    BY <1>1, <1>3

LEMMA MediaTypesStep ==
  ASSUME MediaTypeOK, MediaNext
  PROVE  MediaTypeOK'
  <1> USE DEF MediaTypeOK, audioVars, NoSocket
  <1>1. ASSUME NEW k \in Sockets, RegisterSocket(k) \/ RejectTicket(k) \/ ConnectionEnds(k)
        PROVE  MediaTypeOK'
    BY <1>1 DEF RegisterSocket, RejectTicket, ConnectionEnds
  <1>2. CASE Attach
    BY <1>2 DEF Attach
  <1>3. CASE SendFrame
    <2>0. produced' = produced + 1 /\ produced < MaxFrames
      BY <1>3 DEF SendFrame
    <2>1. produced' \in 0..MaxFrames /\ produced' \in Frames
      BY <2>0, MediaAssumption DEF Frames
    <2>2. Append(buffer, produced') \in Seq(Frames) /\ <<>> \in Seq(Frames)
      BY <2>1
    <2>3. \/ buffer' = <<>> /\ flushing' = Append(buffer, produced')
          \/ buffer' = Append(buffer, produced') /\ flushing' = <<>>
      BY <1>3 DEF SendFrame
    <2> QED
      BY <1>3, <2>1, <2>2, <2>3 DEF SendFrame
  <1>4. ASSUME NEW s \in Seq(Frames)
        PROVE  Elements(s) \subseteq Frames
    BY DEF Elements
  <1>5. CASE FlushChunk
    <2>0. Elements(flushing) \subseteq Frames /\ heard \o flushing \in Seq(Frames)
      BY <1>4
    <2>1. heard' \in Seq(Frames) /\ dropped' \subseteq Frames
      BY <1>5, <2>0 DEF FlushChunk
    <2>2. mediaTask' \in [at : {"starting", "running", "stopping", "closing", "over", "cut"},
                          socket : Sockets \cup {NoSocket}]
      BY <1>5 DEF FlushChunk
    <2> QED
      BY <1>5, <2>1, <2>2 DEF FlushChunk
  <1>6. CASE StopPumps \/ DetachTimesOut
    <2>0. Elements(flushing) \subseteq Frames /\ <<>> \in Seq(Frames)
      BY <1>4
    <2>1. dropped' \subseteq Frames /\ flushing' \in Seq(Frames)
      BY <1>6, <2>0 DEF StopPumps, DetachTimesOut
    <2> QED
      BY <1>6, <2>1 DEF StopPumps, DetachTimesOut
  <1>7. CASE Detach
    <2>1. buffer' = <<>> /\ flushing' = buffer /\ <<>> \in Seq(Frames)
      BY <1>7 DEF Detach, LeftToFlush
    <2> QED
      BY <1>7, <2>1 DEF Detach
  <1>8. CASE CloseSocket \/ CutShort
    BY <1>8 DEF CloseSocket, CutShort
  <1> QED
    BY <1>1, <1>2, <1>3, <1>5, <1>6, <1>7, <1>8 DEF MediaNext

\* Every variable of the media stream keeps its type.
THEOREM MediaTypeCorrect == MediaSpec => []MediaTypeOK
  <1>1. MediaInit => MediaTypeOK
    BY MediaAssumption DEF MediaInit, MediaTypeOK
  <1>2. MediaTypeOK /\ [MediaNext]_mediaVars => MediaTypeOK'
    BY MediaTypesStep DEF mediaVars, MediaTypeOK
  <1> QED
    BY <1>1, <1>2, PTL DEF MediaSpec

-----------------------------------------------------------------------------
(* Sockets                                                                 *)

\* From the moment detach() has popped them.
LetGoInvariant ==
  mediaTask.at \in {"closing", "over"} =>
    attached = NoSocket /\ registered \in late \cup {NoSocket}

LEMMA LetGoStep ==
  ASSUME MediaTypeOK, LetGoInvariant, MediaNext
  PROVE  LetGoInvariant'
  <1> USE DEF MediaTypeOK, LetGoInvariant
  <1>1. ASSUME NEW k \in Sockets, RegisterSocket(k)
        PROVE  LetGoInvariant'
    BY <1>1 DEF RegisterSocket
  <1>2. CASE \/ \E k \in Sockets : RejectTicket(k) \/ ConnectionEnds(k)
             \/ SendFrame \/ StopPumps \/ CutShort
    BY <1>2 DEF RejectTicket, ConnectionEnds, SendFrame, StopPumps, CutShort
  <1>3. CASE Attach \/ Detach
    BY <1>3 DEF Attach, Detach
  <1>4. CASE FlushChunk \/ CloseSocket \/ DetachTimesOut
    BY <1>4 DEF FlushChunk, CloseSocket, DetachTimesOut, audioVars
  <1> QED
    BY <1>1, <1>2, <1>3, <1>4 DEF MediaNext

-----------------------------------------------------------------------------
(* Audio                                                                   *)

\* What was sent, what is being sent and what waits to be, in this order.
QueuesInvariant ==
  /\ Growing(heard) /\ Growing(flushing) /\ Growing(buffer)
  /\ Before(heard, flushing) /\ Before(heard, buffer) /\ Before(flushing, buffer)
  /\ 1..produced = Elements(heard) \cup dropped \cup Elements(flushing) \cup Elements(buffer)
  /\ mediaTask.at \in {"starting", "closing", "over"} => buffer = <<>>
  /\ mediaTask.at \in {"starting", "stopping", "over"} => flushing = <<>>

\* A value of a sequence that has been produced comes before the next one.
LEMMA ProducedBefore ==
  ASSUME NEW s \in Seq(Nat), Elements(s) \subseteq 1..produced, produced \in Nat
  PROVE  \A i \in DOMAIN s : s[i] < produced + 1
  <1> SUFFICES ASSUME NEW i \in DOMAIN s
               PROVE  s[i] < produced + 1
    OBVIOUS
  <1>1. s[i] \in 1..produced
    BY DEF Elements
  <1> QED
    BY <1>1

LEMMA QueuesStep ==
  ASSUME MediaTypeOK, QueuesInvariant, MediaNext
  PROVE  QueuesInvariant'
  <1> USE DEF QueuesInvariant
  <1>0. /\ heard \in Seq(Nat) /\ flushing \in Seq(Nat) /\ buffer \in Seq(Nat)
        /\ produced \in Nat
    <2>1. heard \in Seq(Frames) /\ flushing \in Seq(Frames) /\ buffer \in Seq(Frames)
      BY DEF MediaTypeOK
    <2>2. produced \in Nat
      BY MediaAssumption DEF MediaTypeOK
    <2> QED
      BY <2>1, <2>2, FramesAreNumbers
  <1>e. /\ Growing(<<>>) /\ Elements(<<>>) = {}
        /\ \A s : Before(s, <<>>) /\ Before(<<>>, s)
    BY ElementsOfEmpty DEF Growing, Before
  <1>1. CASE \E k \in Sockets : RegisterSocket(k) \/ RejectTicket(k) \/ ConnectionEnds(k)
    BY <1>1 DEF RegisterSocket, RejectTicket, ConnectionEnds, audioVars
  <1>2. CASE Attach
    BY <1>2 DEF Attach, audioVars, MediaTypeOK
  <1>3. CASE SendFrame
    <2> DEFINE n == produced + 1
               filled == Append(buffer, n)
    <2>1. /\ produced' = n /\ heard' = heard /\ dropped' = dropped /\ mediaTask' = mediaTask
          /\ mediaTask.at = "running" /\ flushing = <<>>
          /\ \/ buffer' = <<>> /\ flushing' = filled
             \/ buffer' = filled /\ flushing' = <<>>
      BY <1>3 DEF SendFrame
    <2>2. /\ \A i \in DOMAIN heard : heard[i] < n
          /\ \A i \in DOMAIN buffer : buffer[i] < n
      BY <1>0, ProducedBefore
    <2>3. Growing(filled) /\ Elements(filled) = Elements(buffer) \cup {n}
      BY <1>0, <2>2, GrowingAppend, ElementsOfAppend
    <2>4. Before(heard, filled)
      BY <1>0, <2>2 DEF Before
    <2>5. 1..n = 1..produced \cup {n}
      BY <1>0
    <2> HIDE DEF n, filled
    <2> QED
      BY <1>e, <2>1, <2>3, <2>4, <2>5
  <1>4. CASE FlushChunk
    <2>1. /\ flushing # <<>> /\ flushing' = <<>> /\ buffer' = buffer /\ produced' = produced
          /\ mediaTask'.at \in {mediaTask.at, "stopping"} /\ mediaTask.at # "stopping"
          /\ mediaTask.at \notin {"starting", "over"}
      BY <1>4 DEF FlushChunk, MediaTypeOK
    <2>2. CASE heard' = heard \o flushing /\ dropped' = dropped
      <3>1. Growing(heard') /\ Elements(heard') = Elements(heard) \cup Elements(flushing)
        BY <1>0, <2>2, GrowingConcat, ElementsOfConcat
      <3>2. Before(heard', buffer')
        <4>1. \A i \in DOMAIN heard' : \/ \E k \in DOMAIN heard : heard'[i] = heard[k]
                                      \/ \E k \in DOMAIN flushing : heard'[i] = flushing[k]
          BY <3>1 DEF Elements
        <4> QED
          BY <2>1, <4>1 DEF Before
      <3>3. mediaTask'.at = "stopping" => mediaTask.at = "stopping"
        BY <1>4, <2>2 DEF FlushChunk
      <3> QED
        BY <1>e, <2>1, <2>2, <3>1, <3>2
    <2>3. CASE heard' = heard /\ dropped' = dropped \cup Elements(flushing)
      BY <1>e, <2>1, <2>3
    <2> QED
      BY <1>4, <2>2, <2>3 DEF FlushChunk
  <1>5. CASE StopPumps \/ DetachTimesOut
    BY <1>e, <1>5 DEF StopPumps, DetachTimesOut, MediaTypeOK
  <1>6. CASE Detach
    <2>1. flushing = <<>> /\ flushing' = buffer /\ buffer' = <<>> /\ mediaTask'.at = "closing"
      BY <1>6 DEF Detach, LeftToFlush, MediaTypeOK
    <2> QED
      BY <1>e, <1>6, <2>1 DEF Detach
  <1>7. CASE CloseSocket \/ CutShort
    BY <1>7 DEF CloseSocket, CutShort, audioVars, MediaTypeOK
  <1> QED
    BY <1>1, <1>2, <1>3, <1>4, <1>5, <1>6, <1>7 DEF MediaNext

-----------------------------------------------------------------------------
\* A call lets go of its media, and of nothing it still has to say.
THEOREM MediaIsSettledHolds == MediaSpec => []MediaIsSettled
  <1>1. MediaInit => LetGoInvariant /\ QueuesInvariant
    BY ElementsOfEmpty
       DEF MediaInit, LetGoInvariant, QueuesInvariant, Growing, Before
  <1>2. MediaTypeOK /\ LetGoInvariant /\ QueuesInvariant /\ [MediaNext]_mediaVars
          => LetGoInvariant' /\ QueuesInvariant'
    <2>1. CASE UNCHANGED mediaVars
      BY <2>1 DEF mediaVars, LetGoInvariant, QueuesInvariant
    <2> QED
      BY <2>1, LetGoStep, QueuesStep
  <1>3. LetGoInvariant /\ QueuesInvariant => MediaIsSettled
    BY DEF LetGoInvariant, QueuesInvariant, MediaIsSettled, SocketsAreReleased, AudioIsKept,
           Growing
  <1> QED
    BY <1>1, <1>2, <1>3, MediaTypeCorrect, PTL DEF MediaSpec
-----------------------------------------------------------------------------
(* Types of the control link                                               *)

\* A connection whose reader stops.
LEMMA ReaderStopsFacts ==
  ASSUME NEW e \in EslTcpConnection, NEW how \in {"ended", "cancelled"}
  PROVE  /\ ReaderStops(e, how) \in EslTcpConnection
         /\ ReaderStops(e, how).lock = e.lock
         /\ ReaderStops(e, how).sent = e.sent
         /\ ReaderStops(e, how).events = e.events
         /\ e.reader = "reading"
              => /\ ReaderStops(e, how).reader = how
                 /\ ReaderStops(e, how).control = Append(e.control, ClosedError)
         /\ e.reader # "reading" => ReaderStops(e, how) = e
  <1>1. Append(e.control, ClosedError) \in Seq(Replies)
    BY DEF EslTcpConnection, Replies
  <1> QED
    BY <1>1 DEF ReaderStops, EslTcpConnection

LEMMA TearDownFacts ==
  ASSUME NEW e \in EslTcpConnection
  PROVE  /\ TearDown(e) \in EslTcpConnection
         /\ TearDown(e).lock = e.lock /\ TearDown(e).events = e.events
         /\ TearDown(e).reader \in {e.reader, "cancelled"}
         /\ TearDown(e).reader # "reading"
         /\ TearDown(e).control \in {e.control, Append(e.control, ClosedError)}
         /\ e.reader # "reading" => TearDown(e).control = e.control
  <1> DEFINE r == ReaderStops(e, "cancelled")
  <1>1. /\ r \in EslTcpConnection
        /\ r.lock = e.lock /\ r.events = e.events
        /\ e.reader = "reading" => /\ r.reader = "cancelled"
                                   /\ r.control = Append(e.control, ClosedError)
        /\ e.reader # "reading" => r = e
    BY ReaderStopsFacts
  <1>2. TearDown(e) = r
    BY DEF TearDown
  <1> HIDE DEF r
  <1> QED
    BY <1>1, <1>2

\* What the steps do to one connection.
LEMMA ConnectionTypes ==
  ASSUME NEW e \in EslTcpConnection
  PROVE  /\ \A c \in Commands :
              [e EXCEPT !.lock = c, !.sent = Append(@, c)] \in EslTcpConnection
         /\ [e EXCEPT !.lock = Nobody] \in EslTcpConnection
         /\ [e EXCEPT !.reader = "reading"] \in EslTcpConnection
         /\ e.sent # <<>> =>
              [e EXCEPT !.sent = Tail(@), !.control = Append(@, Head(e.sent))]
                \in EslTcpConnection
         /\ e.control # <<>> =>
              [e EXCEPT !.lock = Nobody, !.control = Tail(@)] \in EslTcpConnection
         /\ e.events # <<>> =>
              /\ [e EXCEPT !.events = Tail(@)] \in EslTcpConnection
              /\ Head(e.events) \in EventNumbers
         /\ \A i \in EventNumbers : [e EXCEPT !.events = WithRoom(@, i)] \in EslTcpConnection
  <1>1. ASSUME NEW c \in Commands
        PROVE  [e EXCEPT !.lock = c, !.sent = Append(@, c)] \in EslTcpConnection
    <2>1. Append(e.sent, c) \in Seq(Commands)
      BY DEF EslTcpConnection
    <2> QED
      BY <2>1 DEF EslTcpConnection
  <1>2. /\ [e EXCEPT !.lock = Nobody] \in EslTcpConnection
        /\ [e EXCEPT !.reader = "reading"] \in EslTcpConnection
    BY DEF EslTcpConnection
  <1>3. ASSUME e.sent # <<>>
        PROVE  [e EXCEPT !.sent = Tail(@), !.control = Append(@, Head(e.sent))]
                 \in EslTcpConnection
    <2>1. Head(e.sent) \in Commands /\ Tail(e.sent) \in Seq(Commands)
      BY <1>3 DEF EslTcpConnection
    <2>2. Append(e.control, Head(e.sent)) \in Seq(Replies)
      BY <2>1 DEF EslTcpConnection, Replies
    <2> QED
      BY <2>1, <2>2 DEF EslTcpConnection
  <1>4. ASSUME e.control # <<>>
        PROVE  [e EXCEPT !.lock = Nobody, !.control = Tail(@)] \in EslTcpConnection
    <2>1. Tail(e.control) \in Seq(Replies)
      BY <1>4 DEF EslTcpConnection
    <2> QED
      BY <2>1 DEF EslTcpConnection
  <1>5. ASSUME e.events # <<>>
        PROVE  /\ [e EXCEPT !.events = Tail(@)] \in EslTcpConnection
               /\ Head(e.events) \in EventNumbers
    <2>1. Tail(e.events) \in Seq(EventNumbers) /\ Head(e.events) \in EventNumbers
      BY <1>5 DEF EslTcpConnection
    <2> QED
      BY <2>1 DEF EslTcpConnection
  <1>6. ASSUME NEW i \in EventNumbers
        PROVE  [e EXCEPT !.events = WithRoom(@, i)] \in EslTcpConnection
    <2>1. WithRoom(e.events, i) \in Seq(EventNumbers)
      BY DEF EslTcpConnection, WithRoom
    <2> QED
      BY <2>1 DEF EslTcpConnection
  <1> QED
    BY <1>1, <1>2, <1>3, <1>4, <1>5, <1>6

\* The connections opened so far are used one after the other.
LinksInv ==
  /\ \A n \in Links : n < links => esl[n].reader \in {"ended", "cancelled"}
  /\ \A n \in Links : n > links => esl[n] = Unopened
  /\ esl[links].reader # "none"
  /\ supervisor \in {"connecting", "sleeping"} => ~ Up
  /\ forwarding \subseteq {links}
  /\ \A c \in Commands :
       command[c].at \in {"queued", "awaiting"}
         => command[c].link \in Links /\ command[c].link <= links

LEMMA LinkTypesInit ==
  ASSUME LinkInit
  PROVE  LinkTypeOK /\ LinksInv
  <1>1. /\ Unopened \in EslTcpConnection
        /\ [Unopened EXCEPT !.reader = "reading"] \in EslTcpConnection
        /\ [Unopened EXCEPT !.reader = "reading"].reader = "reading"
    <2>1. <<>> \in Seq(Commands) /\ <<>> \in Seq(Replies) /\ <<>> \in Seq(EventNumbers)
      OBVIOUS
    <2>2. Unopened \in EslTcpConnection
      BY <2>1 DEF Unopened, EslTcpConnection
    <2>3. /\ [Unopened EXCEPT !.reader = "reading"] \in EslTcpConnection
          /\ [Unopened EXCEPT !.reader = "reading"].reader = "reading"
      BY <2>2 DEF EslTcpConnection
    <2> QED
      BY <2>2, <2>3
  <1>2. /\ 1 \in Links /\ 0 \in 0..MaxLinks /\ 0 \in 0..MaxEvents /\ 0 \in 0..MaxRefusals
        /\ \A n \in Links : n \in Nat /\ n >= 1
    BY LinkAssumption DEF Links
  <1>3. esl \in [Links -> EslTcpConnection]
    BY <1>1 DEF LinkInit
  <1>4. /\ command \in [Commands -> SendCall]
        /\ \A c \in Commands : command[c].at = "idle"
    BY <1>2 DEF LinkInit, SendCall
  <1>5. LinkTypeOK
    BY <1>2, <1>3, <1>4 DEF LinkInit, LinkTypeOK
  <1>6. links = 1 /\ esl[1].reader = "reading"
    BY <1>1, <1>2 DEF LinkInit
  <1>7. \A n \in Links : n > links => esl[n] = Unopened
    BY <1>2, <1>6 DEF LinkInit
  <1>8. LinksInv
    BY <1>2, <1>4, <1>6, <1>7 DEF LinkInit, LinksInv
  <1> QED
    BY <1>5, <1>8

LEMMA SendTypes ==
  ASSUME LinkTypeOK, NEW c \in Commands, Sends(c)
  PROVE  /\ command' \in [Commands -> SendCall]
         /\ command[c].at = "idle"
         /\ command'[c].link = links /\ command'[c].answer = command[c].answer
         /\ command'[c].at = IF Up THEN "queued" ELSE "failed"
         /\ \A d \in Commands \ {c} : command'[d] = command[d]
  <1>1. links \in 0..MaxLinks
    BY LinkAssumption DEF LinkTypeOK, Links
  <1> QED
    BY <1>1 DEF Sends, LinkTypeOK, SendCall

\* What a step of a command does to the command and to its connection.
LEMMA CommandStepFacts ==
  ASSUME LinkTypeOK, LinksInv, NEW c \in Commands, CommandStep(c)
  PROVE  LET n == command[c].link IN
         /\ UNCHANGED <<links, supervisor, forwarding, refusals, managed, pump, arrived,
                        delivered>>
         /\ command' \in [Commands -> SendCall]
         /\ \A d \in Commands \ {c} : command'[d] = command[d]
         /\ command'[c].link = n
         /\ n \in Links /\ n <= links
         /\ esl' \in [Links -> EslTcpConnection]
         /\ \A m \in Links \ {n} : esl'[m] = esl[m]
         /\ esl'[n].events = esl[n].events
         /\ esl'[n].reader \in {esl[n].reader, "cancelled"}
         /\ esl'[n].reader # "reading" \/ esl'[n].reader = esl[n].reader
         /\ excused \subseteq excused' /\ excused' \subseteq Commands
  <1> DEFINE n == command[c].link
  <1> USE DEF LinkTypeOK, supervisorVars
  <1>1. n \in Links /\ n <= links /\ esl[n] \in EslTcpConnection
    BY DEF CommandStep, WriteCommand, TakeReply, CommandTimesOut, LinksInv
  <1>2. CASE WriteCommand(c)
    <2>1. /\ command' \in [Commands -> SendCall]
          /\ \A d \in Commands \ {c} : command'[d] = command[d]
          /\ command'[c].link = n
      BY <1>2 DEF WriteCommand, SendCall
    <2>2. esl' = [esl EXCEPT ![n] = [esl[n] EXCEPT !.lock = c, !.sent = Append(@, c)]]
      BY <1>2 DEF WriteCommand
    <2>3. esl' \in [Links -> EslTcpConnection]
      <3> DEFINE changed == [esl[n] EXCEPT !.lock = c, !.sent = Append(@, c)]
      <3>1. changed \in EslTcpConnection
        BY <1>1, ConnectionTypes
      <3>2. esl' = [esl EXCEPT ![n] = changed]
        BY <1>1, <2>2
      <3> HIDE DEF changed
      <3> QED
        BY <1>1, <3>1, <3>2
    <2>4. esl'[n].events = esl[n].events /\ esl'[n].reader = esl[n].reader
      BY <1>1, <2>2 DEF EslTcpConnection
    <2> QED
      BY <1>1, <1>2, <2>1, <2>2, <2>3, <2>4 DEF WriteCommand
  <1>3. CASE TakeReply(c)
    <2> DEFINE reply == Head(esl[n].control)
               taken == [esl[n] EXCEPT !.lock = Nobody, !.control = Tail(@)]
    <2>1. /\ taken \in EslTcpConnection /\ taken.events = esl[n].events
          /\ taken.reader = esl[n].reader
          /\ reply \in Replies
      <3>1. esl[n].control # <<>> /\ esl[n].control \in Seq(Replies)
        BY <1>1, <1>3 DEF TakeReply, EslTcpConnection
      <3>2. taken \in EslTcpConnection
        BY <1>1, <3>1, ConnectionTypes
      <3>3. taken.events = esl[n].events /\ taken.reader = esl[n].reader
        BY <1>1 DEF EslTcpConnection
      <3>4. reply \in Replies
        BY <3>1
      <3> QED
        BY <3>2, <3>3, <3>4
    <2>2. \/ /\ command' = [command EXCEPT ![c].at = "failed"]
             /\ esl' = [esl EXCEPT ![n] = TearDown(taken)]
          \/ /\ command' = [command EXCEPT ![c].at = "replied", ![c].answer = reply]
             /\ reply \in Commands
             /\ esl' = [esl EXCEPT ![n] = taken]
      BY <1>3, <2>1 DEF TakeReply, Replies
    <2>3. /\ TearDown(taken) \in EslTcpConnection
          /\ TearDown(taken).events = esl[n].events
          /\ TearDown(taken).reader \in {esl[n].reader, "cancelled"}
          /\ TearDown(taken).reader # "reading"
      BY <2>1, TearDownFacts
    <2> HIDE DEF taken, reply
    <2>4. /\ command' \in [Commands -> SendCall]
          /\ \A d \in Commands \ {c} : command'[d] = command[d]
          /\ command'[c].link = n
      <3>1. CASE command' = [command EXCEPT ![c].at = "failed"]
        BY <3>1 DEF SendCall
      <3>2. CASE reply \in Commands
                 /\ command' = [command EXCEPT ![c].at = "replied", ![c].answer = reply]
        <4>1. [command[c] EXCEPT !.at = "replied", !.answer = reply] \in SendCall
          BY <3>2 DEF SendCall
        <4>2. command' = [command EXCEPT ![c] =
                            [command[c] EXCEPT !.at = "replied", !.answer = reply]]
          BY <3>2
        <4> QED
          BY <4>1, <4>2 DEF SendCall
      <3> QED
        BY <2>2, <3>1, <3>2
    <2>5. /\ esl' \in [Links -> EslTcpConnection]
          /\ \A m \in Links \ {n} : esl'[m] = esl[m]
          /\ esl'[n] \in {taken, TearDown(taken)}
      BY <1>1, <2>1, <2>2, <2>3
    <2> QED
      BY <1>1, <1>3, <2>1, <2>3, <2>4, <2>5 DEF TakeReply
  <1>4. CASE CommandTimesOut(c)
    <2> DEFINE free == [esl[n] EXCEPT !.lock = Nobody]
    <2>1. /\ free \in EslTcpConnection
          /\ free.events = esl[n].events /\ free.reader = esl[n].reader
      BY <1>1, ConnectionTypes DEF EslTcpConnection
    <2>2. /\ TearDown(free) \in EslTcpConnection
          /\ TearDown(free).events = esl[n].events
          /\ TearDown(free).reader \in {esl[n].reader, "cancelled"}
          /\ TearDown(free).reader # "reading"
      BY <2>1, TearDownFacts
    <2>3. /\ command' \in [Commands -> SendCall]
          /\ \A d \in Commands \ {c} : command'[d] = command[d]
          /\ command'[c].link = n
      BY <1>4 DEF CommandTimesOut, SendCall
    <2>4. esl' = esl \/ esl' = [esl EXCEPT ![n] = TearDown(free)]
      BY <1>4 DEF CommandTimesOut
    <2>5. excused \subseteq excused' /\ excused' \subseteq Commands
      BY <1>4 DEF CommandTimesOut, Waiting
    <2> HIDE DEF free
    <2> QED
      BY <1>1, <1>4, <2>2, <2>3, <2>4, <2>5 DEF CommandTimesOut
  <1> QED
    BY <1>2, <1>3, <1>4 DEF CommandStep

LEMMA LinkTypesStep ==
  ASSUME LinkTypeOK, LinksInv, LinkNext
  PROVE  LinkTypeOK' /\ LinksInv'
  <1> USE DEF LinkTypeOK, supervisorVars, eventVars
  <1>0. /\ \A n \in Links : esl[n] \in EslTcpConnection /\ n \in Nat
        /\ links \in Nat
    BY DEF Links
  <1>1. ASSUME NEW c \in Commands, SendCommand(c) \/ PlayEvent(c)
        PROVE  LinkTypeOK' /\ LinksInv'
    <2>1. Sends(c) /\ UNCHANGED <<links, esl, supervisor, forwarding, refusals>>
      BY <1>1 DEF SendCommand, PlayEvent
    <2>2. managed' \in Seq(EventNumbers) /\ pump' \in Commands \cup {Nobody}
      BY <1>1 DEF SendCommand, PlayEvent
    <2>3. LinkTypeOK'
      BY <1>1, <2>1, <2>2, SendTypes DEF SendCommand, PlayEvent
    <2>4. LinksInv'
      BY <1>0, <2>1, SendTypes DEF LinksInv, Up
    <2> QED
      BY <2>3, <2>4
  <1>2. ASSUME NEW c \in Commands, CommandStep(c)
        PROVE  LinkTypeOK' /\ LinksInv'
    <2> DEFINE n == command[c].link
    <2>1. LinkTypeOK'
      BY <1>2, CommandStepFacts
    <2>2. /\ UNCHANGED <<links, supervisor, forwarding>>
          /\ n \in Links /\ n <= links
          /\ \A m \in Links \ {n} : esl'[m] = esl[m]
          /\ esl'[n].reader \in {esl[n].reader, "cancelled"}
      BY <1>2, CommandStepFacts
    <2>3. /\ \A m \in Links : m < links => esl'[m].reader \in {"ended", "cancelled"}
          /\ \A m \in Links : m > links => esl'[m] = Unopened
          /\ esl'[links].reader # "none"
          /\ supervisor \in {"connecting", "sleeping"} => ~ Up'
      <3>1. links \in Links /\ esl'[links].reader \in {esl[links].reader, "cancelled"}
        BY <2>2
      <3>2. /\ esl'[links].reader # "none"
            /\ supervisor \in {"connecting", "sleeping"} => ~ Up'
        BY <2>2, <3>1 DEF LinksInv, Up
      <3>3. \A m \in Links : m < links => esl'[m].reader \in {"ended", "cancelled"}
        BY <1>0, <2>2 DEF LinksInv
      <3>4. \A m \in Links : m > links => esl'[m] = Unopened
        BY <1>0, <2>2 DEF LinksInv
      <3> QED
        BY <3>2, <3>3, <3>4
    <2>4. \A d \in Commands :
            /\ command'[d].link = command[d].link
            /\ command'[d].at \in {"queued", "awaiting"}
                 => command[d].at \in {"queued", "awaiting"}
      BY <1>2, CommandStepFacts
         DEF CommandStep, WriteCommand, TakeReply, CommandTimesOut, SendCall
    <2> QED
      BY <2>1, <2>2, <2>3, <2>4 DEF LinksInv
  <1>3. ASSUME NEW n \in Links, ReplyArrives(n)
        PROVE  LinkTypeOK' /\ LinksInv'
    <2>1. /\ esl' \in [Links -> EslTcpConnection]
          /\ \A m \in Links : esl'[m].reader = esl[m].reader
          /\ \A m \in Links \ {n} : esl'[m] = esl[m]
      <3>1. esl[n].sent # <<>>
            /\ esl' = [esl EXCEPT ![n] = [esl[n] EXCEPT !.sent = Tail(@),
                                          !.control = Append(@, Head(esl[n].sent))]]
        BY <1>3 DEF ReplyArrives
      <3>2. \A m \in Links : esl'[m].reader = esl[m].reader
        BY <1>0, <3>1 DEF EslTcpConnection
      <3> DEFINE changed == [esl[n] EXCEPT !.sent = Tail(@),
                                           !.control = Append(@, Head(esl[n].sent))]
      <3>3. changed \in EslTcpConnection
        BY <1>0, <3>1, ConnectionTypes
      <3>4. esl' = [esl EXCEPT ![n] = changed]
        BY <3>1
      <3> HIDE DEF changed
      <3> QED
        BY <1>0, <3>2, <3>3, <3>4
    <2>2. esl[n].reader = "reading"
      BY <1>3 DEF ReplyArrives
    <2>3. n <= links
      BY <1>0, <2>2 DEF LinksInv, Unopened
    <2> QED
      BY <1>0, <1>3, <2>1, <2>3 DEF ReplyArrives, LinksInv, Up
  <1>4. ASSUME PeerCloses \/ CloseLink
        PROVE  LinkTypeOK' /\ LinksInv'
    <2>1. PICK how \in {"ended", "cancelled"} :
            esl' = [esl EXCEPT ![links] = ReaderStops(@, how)]
      BY <1>4 DEF PeerCloses, CloseLink, TearDown
    <2>2. /\ esl' \in [Links -> EslTcpConnection]
          /\ \A m \in Links \ {links} : esl'[m] = esl[m]
          /\ esl'[links].reader \in {esl[links].reader, how} /\ esl'[links].reader # "reading"
      BY <1>0, <2>1, ReaderStopsFacts
    <2>3. /\ UNCHANGED <<links, command, managed, pump, arrived, delivered, refusals>>
          /\ supervisor' \in {supervisor, "stopped"}
          /\ forwarding' \subseteq forwarding
          /\ excused' \subseteq Commands
      BY <1>4 DEF PeerCloses, CloseLink, Waiting
    <2>4. LinkTypeOK'
      BY <2>2, <2>3
    <2> QED
      BY <1>0, <2>2, <2>3, <2>4 DEF LinksInv, Up
  <1>5. ASSUME NoticeDisconnect \/ ConnectFails \/ BackoffEnds
        PROVE  LinkTypeOK' /\ LinksInv'
    <2>1. /\ UNCHANGED <<links, esl, command, pump, eventVars, excused>>
          /\ supervisor' \in {"connecting", "gone", "sleeping"}
          /\ ~ Up
      BY <1>5 DEF NoticeDisconnect, ConnectFails, BackoffEnds, LinksInv
    <2>2. refusals' \in 0..MaxRefusals
      BY <1>5, LinkAssumption DEF NoticeDisconnect, ConnectFails, BackoffEnds
    <2> QED
      BY <2>1, <2>2 DEF LinksInv, Up
  <1>6. CASE ConnectOnce
    <2>1. /\ links' = links + 1 /\ links' \in Links
          /\ esl' = [esl EXCEPT ![links'] = [esl[links'] EXCEPT !.reader = "reading"]]
          /\ forwarding' = {links'} /\ supervisor' = "watching"
          /\ UNCHANGED <<command, managed, pump, arrived, delivered, refusals, excused>>
      BY <1>0, <1>6, LinkAssumption DEF ConnectOnce, OnlyForward, Links
    <2>2. ~ Up
      BY <1>6 DEF ConnectOnce, LinksInv
    <2>3. esl' \in [Links -> EslTcpConnection]
      BY <1>0, <2>1, ConnectionTypes
    <2>4. /\ esl'[links'].reader = "reading"
          /\ \A m \in Links \ {links'} : esl'[m] = esl[m]
      BY <1>0, <2>1 DEF EslTcpConnection
    <2>5. LinkTypeOK'
      BY <2>1, <2>3
    <2>6. \A m \in Links : m < links' => esl'[m].reader \in {"ended", "cancelled"}
      <3>1. esl[links].reader \in {"ended", "cancelled"}
        BY <1>0, <2>2 DEF LinksInv, Up, EslTcpConnection
      <3> QED
        BY <1>0, <2>1, <2>4, <3>1 DEF LinksInv
    <2>7. \A m \in Links : m > links' => esl'[m] = Unopened
      BY <1>0, <2>1, <2>4 DEF LinksInv
    <2>8. \A c \in Commands : command'[c].at \in {"queued", "awaiting"}
             => command'[c].link \in Links /\ command'[c].link <= links'
      BY <1>0, <2>1 DEF LinksInv
    <2> QED
      BY <2>1, <2>4, <2>5, <2>6, <2>7, <2>8 DEF LinksInv, Up
  <1>7. CASE EventArrives
    <2>1. /\ arrived' = arrived + 1 /\ arrived' \in EventNumbers /\ arrived' \in 0..MaxEvents
          /\ esl' = [esl EXCEPT ![links] = [esl[links] EXCEPT !.events = WithRoom(@, arrived')]]
          /\ UNCHANGED <<links, supervisor, forwarding, refusals, command, managed, pump,
                         delivered, excused>>
      BY <1>7, LinkAssumption DEF EventArrives, EventNumbers
    <2>2. esl' \in [Links -> EslTcpConnection]
      <3> DEFINE changed == [esl[links] EXCEPT !.events = WithRoom(@, arrived')]
      <3>1. changed \in EslTcpConnection
        BY <1>0, <2>1, ConnectionTypes
      <3>2. esl' = [esl EXCEPT ![links] = changed]
        BY <2>1
      <3> HIDE DEF changed
      <3> QED
        BY <1>0, <3>1, <3>2
    <2>3. /\ \A m \in Links : esl'[m].reader = esl[m].reader
          /\ \A m \in Links : m # links => esl'[m] = esl[m]
      BY <1>0, <2>1 DEF EslTcpConnection
    <2>4. LinkTypeOK'
      BY <2>1, <2>2
    <2> QED
      BY <1>0, <2>1, <2>3, <2>4 DEF LinksInv, Up
  <1>8. ASSUME NEW n \in Links, ForwardEvent(n)
        PROVE  LinkTypeOK' /\ LinksInv'
    <2>0. n = links
      BY <1>8 DEF ForwardEvent, LinksInv
    <2>1. /\ managed' = WithRoom(managed, Head(esl[n].events))
          /\ esl[n].events # <<>>
          /\ esl' = [esl EXCEPT ![n] = [esl[n] EXCEPT !.events = Tail(@)]]
          /\ UNCHANGED <<links, supervisor, forwarding, refusals, command, pump, arrived,
                         delivered, excused>>
      BY <1>8 DEF ForwardEvent
    <2>2. esl' \in [Links -> EslTcpConnection] /\ Head(esl[n].events) \in EventNumbers
      <3> DEFINE changed == [esl[n] EXCEPT !.events = Tail(@)]
      <3>1. changed \in EslTcpConnection
        BY <1>0, <2>1, ConnectionTypes
      <3>2. esl' = [esl EXCEPT ![n] = changed]
        BY <2>1
      <3> HIDE DEF changed
      <3> QED
        BY <1>0, <2>1, <3>1, <3>2, ConnectionTypes
    <2>3. managed' \in Seq(EventNumbers)
      BY <2>1, <2>2 DEF WithRoom
    <2>4. /\ \A m \in Links : esl'[m].reader = esl[m].reader
          /\ \A m \in Links : m # links => esl'[m] = esl[m]
      BY <1>0, <2>0, <2>1 DEF EslTcpConnection
    <2>5. LinkTypeOK'
      BY <2>1, <2>2, <2>3
    <2> QED
      BY <1>0, <2>1, <2>4, <2>5 DEF LinksInv, Up
  <1>9. CASE PumpStep
    <2>1. /\ UNCHANGED <<links, esl, supervisor, forwarding, refusals, command, arrived,
                         excused>>
          /\ pump' \in Commands \cup {Nobody}
      BY <1>9 DEF PumpStep, YieldEvent, PlayEnds
    <2>2. managed' \in Seq(EventNumbers) /\ delivered' \in Seq(EventNumbers)
      <3>1. CASE YieldEvent
        <4>1. Head(managed) \in EventNumbers /\ Tail(managed) \in Seq(EventNumbers)
          BY <3>1 DEF YieldEvent
        <4>2. Append(delivered, Head(managed)) \in Seq(EventNumbers)
          BY <4>1
        <4> QED
          BY <3>1, <4>1, <4>2 DEF YieldEvent
      <3>2. CASE PlayEnds
        BY <3>2 DEF PlayEnds
      <3> QED
        BY <1>9, <3>1, <3>2 DEF PumpStep
    <2> QED
      BY <2>1, <2>2 DEF LinksInv, Up
  <1> QED
    BY <1>1, <1>2, <1>3, <1>4, <1>5, <1>6, <1>7, <1>8, <1>9 DEF LinkNext, SupervisorStep

\* Every variable of the link keeps its type.
THEOREM LinkTypeCorrect == LinkSpec => [](LinkTypeOK /\ LinksInv)
  <1>1. LinkInit => LinkTypeOK /\ LinksInv
    BY LinkTypesInit
  <1>2. LinkTypeOK /\ LinksInv /\ [LinkNext]_linkVars => LinkTypeOK' /\ LinksInv'
    BY LinkTypesStep DEF linkVars, LinkTypeOK, LinksInv, Up
  <1> QED
    BY <1>1, <1>2, PTL DEF LinkSpec

-----------------------------------------------------------------------------
(* Events                                                                  *)

UpTo(s, n) == \A i \in DOMAIN s : s[i] <= n

\* What was yielded, what waits to be, and what the connection still holds, in the order
\* in which the last of n events was sent.
InOrder(d, m, e, n) ==
  /\ Growing(d) /\ Growing(m) /\ Growing(e)
  /\ Before(d, m) /\ Before(d, e) /\ Before(m, e)
  /\ UpTo(d, n) /\ UpTo(m, n) /\ UpTo(e, n)

OrderInv == InOrder(delivered, managed, esl[links].events, arrived)

LEMMA AppendIn ==
  ASSUME NEW s \in Seq(Nat), NEW x \in Nat
  PROVE  /\ Append(s, x) \in Seq(Nat)
         /\ DOMAIN Append(s, x) = DOMAIN s \cup {Len(s) + 1}
         /\ \A i \in DOMAIN s : Append(s, x)[i] = s[i]
         /\ Append(s, x)[Len(s) + 1] = x
  OBVIOUS

LEMMA TailIn ==
  ASSUME NEW s \in Seq(Nat), s # <<>>
  PROVE  /\ Tail(s) \in Seq(Nat)
         /\ 1 \in DOMAIN s /\ Head(s) = s[1] /\ Head(s) \in Nat
         /\ \A i \in DOMAIN Tail(s) :
              i \in Nat /\ i + 1 \in DOMAIN s /\ 1 < i + 1 /\ Tail(s)[i] = s[i + 1]
  OBVIOUS

LEMMA GrowingTail ==
  ASSUME NEW s \in Seq(Nat), s # <<>>, Growing(s)
  PROVE  /\ Growing(Tail(s))
         /\ \A i \in DOMAIN Tail(s) : Head(s) < Tail(s)[i]
  <1>1. ASSUME NEW i \in DOMAIN Tail(s), NEW j \in DOMAIN Tail(s), i < j
        PROVE  Tail(s)[i] < Tail(s)[j]
    <2>1. /\ i + 1 \in DOMAIN s /\ j + 1 \in DOMAIN s /\ i + 1 < j + 1
          /\ Tail(s)[i] = s[i + 1] /\ Tail(s)[j] = s[j + 1]
      BY <1>1, TailIn
    <2> QED
      BY <2>1 DEF Growing
  <1>2. \A i \in DOMAIN Tail(s) : Head(s) < Tail(s)[i]
    BY TailIn DEF Growing
  <1> QED
    BY <1>1, <1>2 DEF Growing

\* An event arrives, and finds room or not.
LEMMA ArrivalInOrder ==
  ASSUME NEW d \in Seq(Nat), NEW m \in Seq(Nat), NEW e \in Seq(Nat), NEW n \in Nat,
         InOrder(d, m, e, n)
  PROVE  InOrder(d, m, e, n + 1) /\ InOrder(d, m, Append(e, n + 1), n + 1)
  <1>1. ASSUME NEW s \in Seq(Nat), UpTo(s, n)
        PROVE  UpTo(s, n + 1) /\ \A i \in DOMAIN s : s[i] < n + 1
    <2>1. \A i \in DOMAIN s : s[i] \in Nat /\ s[i] <= n
      BY <1>1 DEF UpTo
    <2> QED
      BY <2>1 DEF UpTo
  <1>2. InOrder(d, m, e, n + 1)
    BY <1>1 DEF InOrder
  <1> DEFINE t == Append(e, n + 1)
  <1>3. /\ t \in Seq(Nat) /\ DOMAIN t = DOMAIN e \cup {Len(e) + 1}
        /\ \A i \in DOMAIN e : t[i] = e[i]
        /\ t[Len(e) + 1] = n + 1
    BY AppendIn
  <1>4. Growing(t)
    BY <1>1, GrowingAppend DEF InOrder
  <1> HIDE DEF t
  <1>5. ASSUME NEW s \in Seq(Nat), UpTo(s, n), Before(s, e)
        PROVE  Before(s, t)
    BY <1>1, <1>3, <1>5 DEF Before
  <1>6. UpTo(t, n + 1)
    BY <1>2, <1>3 DEF InOrder, UpTo
  <1>7. InOrder(d, m, t, n + 1)
    BY <1>2, <1>4, <1>5, <1>6 DEF InOrder
  <1> QED
    BY <1>2, <1>7 DEF t

\* The first event of a queue goes to the end of the queue before it, or is dropped.
LEMMA MoveKeepsOrder ==
  ASSUME NEW s \in Seq(Nat), NEW t \in Seq(Nat), NEW n \in Nat, t # <<>>,
         Growing(s), Growing(t), Before(s, t), UpTo(s, n), UpTo(t, n)
  PROVE  /\ Growing(Tail(t)) /\ Before(s, Tail(t)) /\ UpTo(Tail(t), n)
         /\ Growing(Append(s, Head(t))) /\ Before(Append(s, Head(t)), Tail(t))
         /\ UpTo(Append(s, Head(t)), n)
  <1>1. /\ Growing(Tail(t))
        /\ \A i \in DOMAIN Tail(t) : Head(t) < Tail(t)[i]
    BY GrowingTail
  <1>2. Before(s, Tail(t)) /\ UpTo(Tail(t), n)
    BY TailIn DEF Before, UpTo
  <1>3. /\ Head(t) \in Nat /\ Head(t) <= n
        /\ \A i \in DOMAIN s : s[i] < Head(t)
    BY TailIn DEF Before, UpTo
  <1>4. Growing(Append(s, Head(t)))
    BY <1>3, GrowingAppend
  <1> DEFINE x == Head(t)
             u == Append(s, x)
  <1>5. /\ DOMAIN u = DOMAIN s \cup {Len(s) + 1}
        /\ \A i \in DOMAIN s : u[i] = s[i]
        /\ u[Len(s) + 1] = x
    BY <1>3, AppendIn
  <1> HIDE DEF u
  <1>6. Before(u, Tail(t))
    BY <1>1, <1>2, <1>5 DEF Before
  <1>7. UpTo(u, n)
    BY <1>3, <1>5 DEF UpTo
  <1> QED
    BY <1>1, <1>2, <1>4, <1>6, <1>7 DEF u

\* What comes before a queue, or after it, still does when its first event was moved.
LEMMA OthersKeepOrder ==
  ASSUME NEW s \in Seq(Nat), NEW t \in Seq(Nat), NEW o \in Seq(Nat), t # <<>>
  PROVE  /\ Before(o, s) /\ Before(o, t)
              => Before(o, Append(s, Head(t))) /\ Before(o, Tail(t))
         /\ Before(s, o) /\ Before(t, o)
              => Before(Append(s, Head(t)), o) /\ Before(Tail(t), o)
  <1>1. /\ 1 \in DOMAIN t /\ Head(t) = t[1] /\ Head(t) \in Nat
        /\ \A i \in DOMAIN Tail(t) : i + 1 \in DOMAIN t /\ Tail(t)[i] = t[i + 1]
    BY TailIn
  <1> DEFINE u == Append(s, Head(t))
  <1>2. /\ DOMAIN u = DOMAIN s \cup {Len(s) + 1}
        /\ \A i \in DOMAIN s : u[i] = s[i]
        /\ u[Len(s) + 1] = Head(t)
    BY <1>1, AppendIn
  <1> HIDE DEF u
  <1>3. Before(o, s) /\ Before(o, t) => Before(o, u) /\ Before(o, Tail(t))
    BY <1>1, <1>2 DEF Before
  <1>4. Before(s, o) /\ Before(t, o) => Before(u, o) /\ Before(Tail(t), o)
    BY <1>1, <1>2 DEF Before
  <1> QED
    BY <1>3, <1>4 DEF u

LEMMA EventsAreNumbers ==
  ASSUME NEW s \in Seq(EventNumbers)
  PROVE  s \in Seq(Nat)
  <1>1. /\ Len(s) \in Nat /\ DOMAIN s = 1..Len(s)
        /\ s = [i \in 1..Len(s) |-> s[i]] /\ \A i \in 1..Len(s) : s[i] \in EventNumbers
    OBVIOUS
  <1>2. \A i \in 1..Len(s) : s[i] \in Nat
    BY <1>1 DEF EventNumbers
  <1>3. s \in [1..Len(s) -> Nat]
    BY <1>1, <1>2
  <1> QED
    BY <1>1, <1>3

LEMMA OrderStep ==
  ASSUME LinkTypeOK, LinksInv, OrderInv, LinkNext
  PROVE  OrderInv'
  <1> DEFINE e == esl[links].events
  <1> USE DEF supervisorVars, eventVars
  <1>0. /\ links \in Links /\ esl[links] \in EslTcpConnection /\ arrived \in Nat
        /\ e \in Seq(Nat) /\ managed \in Seq(Nat) /\ delivered \in Seq(Nat)
    <2>1. esl[links] \in EslTcpConnection /\ e \in Seq(EventNumbers)
      BY DEF LinkTypeOK, EslTcpConnection
    <2> QED
      BY <2>1, EventsAreNumbers DEF LinkTypeOK
  <1>1. CASE UNCHANGED <<managed, delivered, arrived, links>> /\ esl'[links].events = e
    BY <1>1 DEF OrderInv
  <1>2. CASE EventArrives
    <2>1. /\ arrived' = arrived + 1
          /\ esl' = [esl EXCEPT ![links] = [esl[links] EXCEPT !.events = WithRoom(@, arrived')]]
          /\ UNCHANGED <<links, managed, delivered>>
      BY <1>2 DEF EventArrives
    <2>2. esl'[links].events = WithRoom(e, arrived + 1)
      BY <1>0, <2>1 DEF LinkTypeOK, EslTcpConnection
    <2>3. esl'[links].events \in {e, Append(e, arrived + 1)}
      BY <2>2 DEF WithRoom
    <2> QED
      BY <1>0, <2>1, <2>3, ArrivalInOrder DEF OrderInv
  <1>3. ASSUME NEW n \in Links, ForwardEvent(n)
        PROVE  OrderInv'
    <2>1. n = links
      BY <1>3 DEF ForwardEvent, LinksInv
    <2>2. /\ e # <<>> /\ managed' \in {managed, Append(managed, Head(e))}
          /\ esl' = [esl EXCEPT ![links] = [esl[links] EXCEPT !.events = Tail(@)]]
          /\ UNCHANGED <<links, arrived, delivered>>
      BY <1>3, <2>1 DEF ForwardEvent, WithRoom
    <2>3. esl'[links].events = Tail(e)
      BY <1>0, <2>2 DEF LinkTypeOK, EslTcpConnection
    <2>4. /\ InOrder(delivered, managed, Tail(e), arrived)
          /\ InOrder(delivered, Append(managed, Head(e)), Tail(e), arrived)
      BY <1>0, <2>2, MoveKeepsOrder, OthersKeepOrder DEF OrderInv, InOrder
    <2> QED
      BY <2>2, <2>3, <2>4 DEF OrderInv
  <1>4. ASSUME managed # <<>>, managed' = Tail(managed),
               delivered' \in {Append(delivered, Head(managed)), delivered},
               UNCHANGED <<links, esl, arrived>>
        PROVE  OrderInv'
    <2>1. /\ InOrder(delivered, Tail(managed), e, arrived)
          /\ InOrder(Append(delivered, Head(managed)), Tail(managed), e, arrived)
      BY <1>0, <1>4, MoveKeepsOrder, OthersKeepOrder DEF OrderInv, InOrder
    <2> QED
      BY <1>4, <2>1 DEF OrderInv
  <1>5. CASE ConnectOnce
    <2>1. /\ links' = links + 1 /\ links' \in Links /\ links' > links
          /\ esl' = [esl EXCEPT ![links'] = [esl[links'] EXCEPT !.reader = "reading"]]
          /\ UNCHANGED <<managed, delivered, arrived>>
      BY <1>0, <1>5, LinkAssumption DEF ConnectOnce, Links
    <2>2. esl[links'] = Unopened /\ esl[links'] \in EslTcpConnection
      BY <2>1 DEF LinksInv, LinkTypeOK
    <2>3. esl'[links'].events = <<>>
      BY <2>1, <2>2 DEF LinkTypeOK, EslTcpConnection, Unopened
    <2>4. InOrder(delivered, managed, <<>>, arrived)
      BY DEF OrderInv, InOrder, Growing, Before, UpTo
    <2> QED
      BY <2>1, <2>3, <2>4 DEF OrderInv
  <1>6. ASSUME NEW c \in Commands, CommandStep(c)
        PROVE  OrderInv'
    <2>1. UNCHANGED <<links, managed, arrived, delivered>>
      BY <1>6, CommandStepFacts
    <2>2. esl'[links].events = e
      BY <1>0, <1>6, CommandStepFacts
    <2> QED
      BY <1>1, <2>1, <2>2
  <1>7. CASE PeerCloses \/ CloseLink
    <2>1. PICK how \in {"ended", "cancelled"} :
            esl' = [esl EXCEPT ![links] = ReaderStops(@, how)]
      BY <1>7 DEF PeerCloses, CloseLink, TearDown
    <2>2. esl'[links].events = e
      BY <1>0, <2>1, ReaderStopsFacts DEF LinkTypeOK
    <2> QED
      BY <1>1, <1>7, <2>2 DEF PeerCloses, CloseLink
  <1>8. ASSUME NEW n \in Links, ReplyArrives(n)
        PROVE  OrderInv'
    <2>1. esl'[links].events = e
      BY <1>0, <1>8 DEF ReplyArrives, LinkTypeOK, EslTcpConnection
    <2> QED
      BY <1>1, <1>8, <2>1 DEF ReplyArrives
  <1>9. ASSUME NEW c \in Commands, SendCommand(c) \/ PlayEvent(c)
        PROVE  OrderInv'
    BY <1>1, <1>4, <1>9 DEF SendCommand, PlayEvent
  <1>10. CASE PumpStep \/ NoticeDisconnect \/ ConnectFails \/ BackoffEnds
    BY <1>1, <1>4, <1>10 DEF PumpStep, YieldEvent, PlayEnds, NoticeDisconnect, ConnectFails,
                             BackoffEnds
  <1> QED
    BY <1>2, <1>3, <1>5, <1>6, <1>7, <1>8, <1>9, <1>10 DEF LinkNext, SupervisorStep

\* EventsKeepOrder: _supervise cancels the forwarding of a connection before it opens the
\* next one, so no event of an old connection comes after one of a new one.
THEOREM EventsKeepOrderHolds == LinkSpec => []EventsKeepOrder
  <1>1. LinkInit => OrderInv
    <2>1. ASSUME LinkInit
          PROVE  /\ delivered = <<>> /\ managed = <<>>
                 /\ esl[links].events = <<>>
      BY <2>1, LinkAssumption DEF LinkInit, Unopened, Links
    <2> QED
      BY <2>1 DEF OrderInv, InOrder, Growing, Before, UpTo
  <1>2. LinkTypeOK /\ LinksInv /\ OrderInv /\ [LinkNext]_linkVars => OrderInv'
    BY OrderStep DEF linkVars, OrderInv
  <1>3. OrderInv => EventsKeepOrder
    BY DEF OrderInv, InOrder, Growing, EventsKeepOrder
  <1> QED
    BY <1>1, <1>2, <1>3, LinkTypeCorrect, PTL DEF LinkSpec

-----------------------------------------------------------------------------
(* Replies                                                                 *)

\* What is on its way to the command that holds the lock is its own reply, or the end of
\* the connection; nothing is on its way to the next one.
IsClean(link) ==
  /\ link.reader = "reading" =>
       \/ link.lock = Nobody /\ link.sent = <<>> /\ link.control = <<>>
       \/ link.lock # Nobody /\ link.sent = <<link.lock>> /\ link.control = <<>>
       \/ link.lock # Nobody /\ link.sent = <<>> /\ link.control = <<link.lock>>
  /\ link.reader # "reading" =>
       \/ link.control \in {<<>>, <<ClosedError>>}
       \/ link.lock # Nobody /\ link.control = <<link.lock, ClosedError>>

Uses(call, n) == call.link = n /\ call.at \in {"queued", "awaiting"}

RepliesInv ==
  /\ \A n \in Links : esl[n].reader = "reading" => IsClean(esl[n])
  /\ \A c \in Commands, n \in Links :
       /\ esl[n].lock = c <=> command[c].at = "awaiting" /\ command[c].link = n
       /\ Uses(command[c], n) /\ ~ IsClean(esl[n]) => c \in excused
  /\ ReplyIsItsOwn

LEMMA ShortSequences ==
  ASSUME NEW x, NEW y
  PROVE  /\ Append(<<>>, x) = <<x>> /\ Append(<<x>>, y) = <<x, y>>
         /\ Head(<<x>>) = x /\ Tail(<<x>>) = <<>>
         /\ Head(<<x, y>>) = x /\ Tail(<<x, y>>) = <<y>>
  <1>1. <<>> \in Seq({x, y}) /\ <<x>> \in Seq({x, y}) /\ <<y>> \in Seq({x, y})
        /\ <<x, y>> \in Seq({x, y})
    OBVIOUS
  <1>2. Append(<<>>, x) = <<x>> /\ Append(<<x>>, y) = <<x, y>>
    <2> DEFINE s == Append(<<>>, x)
               t == Append(<<x>>, y)
    <2>1. Len(s) = 1 /\ s[1] = x /\ s = [i \in 1..1 |-> s[i]]
      OBVIOUS
    <2>2. Len(t) = 2 /\ t[1] = x /\ t[2] = y /\ t = [i \in 1..2 |-> t[i]]
      OBVIOUS
    <2>3. <<x>> = [i \in 1..1 |-> <<x>>[i]] /\ <<x>>[1] = x
      OBVIOUS
    <2>4. <<x, y>> = [i \in 1..2 |-> <<x, y>>[i]] /\ <<x, y>>[1] = x /\ <<x, y>>[2] = y
      OBVIOUS
    <2> HIDE DEF s, t
    <2>5. s = <<x>>
      BY <2>1, <2>3
    <2>6. \A i \in 1..2 : t[i] = <<x, y>>[i]
      BY <2>2, <2>4
    <2>7. t = <<x, y>>
      BY <2>2, <2>4, <2>6
    <2> QED
      BY <2>5, <2>7 DEF s, t
  <1>3. Head(<<x>>) = x /\ Tail(<<x>>) = <<>>
    OBVIOUS
  <1>4. Head(<<x, y>>) = x
    OBVIOUS
  <1>5. Tail(<<x, y>>) = <<y>>
    OBVIOUS
  <1> QED
    BY <1>2, <1>3, <1>4, <1>5

\* The end of the reader keeps a connection clean.
LEMMA StopIsClean ==
  ASSUME NEW e \in EslTcpConnection, IsClean(e), NEW how \in {"ended", "cancelled"}
  PROVE  IsClean(ReaderStops(e, how))
  <1> DEFINE r == ReaderStops(e, how)
  <1>1. /\ r.lock = e.lock
        /\ e.reader = "reading" => /\ r.reader = how
                                   /\ r.control = Append(e.control, ClosedError)
        /\ e.reader # "reading" => r = e
    BY ReaderStopsFacts
  <1> SUFFICES IsClean(r)
    OBVIOUS
  <1> HIDE DEF r
  <1>2. CASE e.reader = "reading"
    <2>1. r.reader # "reading" /\ r.control = Append(e.control, ClosedError)
      BY <1>1, <1>2
    <2>2. \/ e.control = <<>>
          \/ e.lock # Nobody /\ e.control = <<e.lock>>
      BY <1>2 DEF IsClean
    <2>3. \/ r.control = <<ClosedError>>
          \/ r.lock # Nobody /\ r.control = <<r.lock, ClosedError>>
      <3>1. CASE e.control = <<>>
        <4>1. Append(<<>>, ClosedError) = <<ClosedError>>
          BY ShortSequences
        <4> QED
          BY <2>1, <3>1, <4>1
      <3>2. CASE e.lock # Nobody /\ e.control = <<e.lock>>
        <4>1. Append(<<e.lock>>, ClosedError) = <<e.lock, ClosedError>>
          BY ShortSequences
        <4> QED
          BY <1>1, <2>1, <3>2, <4>1
      <3> QED
        BY <2>2, <3>1, <3>2
    <2> QED
      BY <2>1, <2>3 DEF IsClean
  <1>3. CASE e.reader # "reading"
    BY <1>1, <1>3
  <1> QED
    BY <1>2, <1>3

\* The reply to the holder of the lock arrives.
LEMMA ArrivalIsClean ==
  ASSUME NEW e \in EslTcpConnection, IsClean(e), e.reader = "reading", e.sent # <<>>,
         NEW r \in EslTcpConnection, r.reader = e.reader, r.lock = e.lock,
         r.sent = Tail(e.sent), r.control = Append(e.control, Head(e.sent))
  PROVE  IsClean(r)
  <1>1. e.lock # Nobody /\ e.sent = <<e.lock>> /\ e.control = <<>>
    BY DEF IsClean
  <1>2. r.sent = <<>> /\ r.control = <<e.lock>>
    BY <1>1, ShortSequences
  <1> QED
    BY <1>1, <1>2 DEF IsClean

\* The holder of the lock takes the oldest reply, and lets go of the lock.
LEMMA TakingIsClean ==
  ASSUME NEW e \in EslTcpConnection, IsClean(e), e.lock # Nobody, e.lock # ClosedError,
         e.control # <<>>,
         NEW r \in EslTcpConnection, r.reader = e.reader, r.lock = Nobody,
         r.sent = e.sent, r.control = Tail(e.control)
  PROVE  /\ IsClean(r)
         /\ Head(e.control) \in {e.lock, ClosedError}
         /\ e.reader = "reading" => Head(e.control) = e.lock
  <1>1. CASE e.reader = "reading"
    <2>1. e.sent = <<>> /\ e.control = <<e.lock>>
      BY <1>1 DEF IsClean
    <2>2. Head(e.control) = e.lock /\ r.control = <<>> /\ r.sent = <<>>
      BY <2>1, ShortSequences
    <2> QED
      BY <1>1, <2>2 DEF IsClean
  <1>2. CASE e.reader # "reading"
    <2>1. \/ e.control = <<ClosedError>>
          \/ e.control = <<e.lock, ClosedError>>
      BY <1>2 DEF IsClean
    <2>2. \/ Head(e.control) = ClosedError /\ r.control = <<>>
          \/ Head(e.control) = e.lock /\ r.control = <<ClosedError>>
      <3>1. CASE e.control = <<ClosedError>>
        <4>1. Head(<<ClosedError>>) = ClosedError /\ Tail(<<ClosedError>>) = <<>>
          BY ShortSequences
        <4> QED
          BY <3>1, <4>1
      <3>2. CASE e.control = <<e.lock, ClosedError>>
        <4>1. /\ Head(<<e.lock, ClosedError>>) = e.lock
              /\ Tail(<<e.lock, ClosedError>>) = <<ClosedError>>
          BY ShortSequences
        <4> QED
          BY <3>2, <4>1
      <3> QED
        BY <2>1, <3>1, <3>2
    <2> QED
      BY <1>2, <2>2 DEF IsClean
  <1> QED
    BY <1>1, <1>2

\* A command takes the lock and is written.
LEMMA WritingIsClean ==
  ASSUME NEW e \in EslTcpConnection, IsClean(e), e.lock = Nobody, NEW c \in Commands,
         NEW r \in EslTcpConnection, r.reader = e.reader, r.lock = c,
         r.sent = Append(e.sent, c), r.control = e.control
  PROVE  IsClean(r)
  <1>1. c # Nobody
    BY LinkAssumption
  <1>2. CASE e.reader = "reading"
    <2>1. r.sent = <<c>> /\ r.control = <<>>
      BY <1>2, ShortSequences DEF IsClean
    <2> QED
      BY <1>1, <1>2, <2>1 DEF IsClean
  <1>3. CASE e.reader # "reading"
    BY <1>3 DEF IsClean
  <1> QED
    BY <1>2, <1>3

\* Steps that change one connection and no command.
LEMMA RepliesFrame ==
  ASSUME LinkTypeOK, RepliesInv, NEW n \in Links, UNCHANGED command, excused \subseteq excused',
         \A m \in Links \ {n} : esl'[m] = esl[m],
         esl'[n].lock = esl[n].lock,
         esl'[n].reader = "reading" => IsClean(esl'[n]),
         ~ IsClean(esl'[n])
           => \/ ~ IsClean(esl[n])
              \/ \A c \in Commands : Uses(command[c], n) => c \in excused'
  PROVE  RepliesInv'
  <1>1. \A m \in Links : esl'[m].reader = "reading" => IsClean(esl'[m])
    BY DEF RepliesInv
  <1>2. ASSUME NEW c \in Commands, NEW m \in Links
        PROVE  /\ esl'[m].lock = c <=> command'[c].at = "awaiting" /\ command'[c].link = m
               /\ Uses(command'[c], m) /\ ~ IsClean(esl'[m]) => c \in excused'
    BY DEF RepliesInv
  <1>3. ReplyIsItsOwn'
    BY DEF RepliesInv, ReplyIsItsOwn
  <1> QED
    BY <1>1, <1>2, <1>3 DEF RepliesInv

LEMMA RepliesStep ==
  ASSUME LinkTypeOK, LinksInv, RepliesInv, LinkNext
  PROVE  RepliesInv'
  <1> USE DEF supervisorVars, eventVars
  <1>0. /\ \A n \in Links : esl[n] \in EslTcpConnection /\ n \in Nat
        /\ links \in Links /\ links \in Nat
        /\ \A c \in Commands : command[c] \in SendCall
    BY DEF LinkTypeOK, Links
  <1>1. ASSUME NEW c \in Commands, SendCommand(c) \/ PlayEvent(c)
        PROVE  RepliesInv'
    <2>1. Sends(c) /\ UNCHANGED <<esl, excused>>
      BY <1>1 DEF SendCommand, PlayEvent
    <2>2. /\ command[c].at = "idle"
          /\ command'[c].link = links
          /\ command'[c].at = IF Up THEN "queued" ELSE "failed"
          /\ \A d \in Commands \ {c} : command'[d] = command[d]
      BY <2>1, SendTypes
    <2>3. ASSUME NEW n \in Links, Uses(command'[c], n)
          PROVE  IsClean(esl[n])
      <3>1. n = links /\ Up
        BY <2>2, <2>3 DEF Uses
      <3> QED
        BY <3>1 DEF Up, RepliesInv
    <2>4. ASSUME NEW d \in Commands, NEW m \in Links
          PROVE  /\ esl[m].lock = d <=> command'[d].at = "awaiting" /\ command'[d].link = m
                 /\ Uses(command'[d], m) /\ ~ IsClean(esl[m]) => d \in excused
      <3>1. CASE d = c
        <4>1. esl[m].lock # c /\ command'[c].at # "awaiting"
          BY <2>2 DEF RepliesInv
        <4> QED
          BY <2>3, <3>1, <4>1
      <3>2. CASE d # c
        BY <2>2, <3>2 DEF RepliesInv
      <3> QED
        BY <3>1, <3>2
    <2>5. ReplyIsItsOwn'
      BY <2>1, <2>2 DEF RepliesInv, ReplyIsItsOwn
    <2> QED
      BY <2>1, <2>4, <2>5 DEF RepliesInv
  <1>2. ASSUME NEW n \in Links, ReplyArrives(n)
        PROVE  RepliesInv'
    <2> DEFINE e == esl[n]
               r == esl'[n]
    <2>1. /\ e.reader = "reading" /\ e.sent # <<>>
          /\ esl' = [esl EXCEPT ![n] = [esl[n] EXCEPT !.sent = Tail(@),
                                        !.control = Append(@, Head(esl[n].sent))]]
          /\ UNCHANGED <<command, excused>>
      BY <1>2 DEF ReplyArrives
    <2>2. /\ r \in EslTcpConnection
          /\ r.reader = e.reader /\ r.lock = e.lock
          /\ r.sent = Tail(e.sent) /\ r.control = Append(e.control, Head(e.sent))
          /\ \A m \in Links \ {n} : esl'[m] = esl[m]
      <3>1. LinkTypeOK'
        BY LinkTypesStep
      <3>2. r \in EslTcpConnection
        BY <3>1 DEF LinkTypeOK
      <3> QED
        BY <1>0, <2>1, <3>2 DEF LinkTypeOK, EslTcpConnection
    <2>3. IsClean(e)
      BY <2>1 DEF RepliesInv
    <2> HIDE DEF e, r
    <2>4. IsClean(r)
      BY <1>0, <2>1, <2>2, <2>3, ArrivalIsClean DEF e
    <2> QED
      BY <2>1, <2>2, <2>4, RepliesFrame DEF e, r
  <1>3. CASE PeerCloses \/ CloseLink
    <2>1. PICK how \in {"ended", "cancelled"} :
            esl' = [esl EXCEPT ![links] = ReaderStops(@, how)]
      BY <1>3 DEF PeerCloses, CloseLink, TearDown
    <2>2. UNCHANGED command /\ excused \subseteq excused'
      BY <1>3 DEF PeerCloses, CloseLink
    <2>3. /\ esl'[links] = ReaderStops(esl[links], how)
          /\ \A m \in Links \ {links} : esl'[m] = esl[m]
      BY <1>0, <2>1 DEF LinkTypeOK
    <2>4. esl'[links].lock = esl[links].lock /\ esl'[links].reader # "reading"
      BY <1>0, <2>3, ReaderStopsFacts
    <2>5. IsClean(esl[links]) => IsClean(esl'[links])
      BY <1>0, <2>3, StopIsClean
    <2> QED
      BY <1>0, <2>2, <2>3, <2>4, <2>5, RepliesFrame
  <1>4. CASE ConnectOnce
    <2>1. /\ links' = links + 1 /\ links' \in Links /\ links' > links
          /\ esl' = [esl EXCEPT ![links'] = [esl[links'] EXCEPT !.reader = "reading"]]
          /\ UNCHANGED <<command, excused>>
      BY <1>0, <1>4, LinkAssumption DEF ConnectOnce, Links
    <2>2. esl[links'] = Unopened /\ esl[links'] \in EslTcpConnection
      BY <1>0, <2>1 DEF LinksInv
    <2>3. /\ esl'[links'].lock = Nobody /\ esl'[links'].sent = <<>>
          /\ esl'[links'].control = <<>> /\ esl'[links'].reader = "reading"
          /\ \A m \in Links \ {links'} : esl'[m] = esl[m]
      BY <2>1, <2>2 DEF LinkTypeOK, EslTcpConnection, Unopened
    <2>4. IsClean(esl'[links']) /\ esl'[links'].lock = esl[links'].lock
      BY <2>2, <2>3 DEF IsClean, Unopened
    <2> QED
      BY <2>1, <2>3, <2>4, RepliesFrame
  <1>5. CASE EventArrives \/ \E n \in Links : ForwardEvent(n)
    <2>1. PICK n \in Links :
            /\ \E q \in Seq(EventNumbers) :
                 esl' = [esl EXCEPT ![n] = [esl[n] EXCEPT !.events = q]]
            /\ UNCHANGED <<command, excused>>
      <3>1. CASE EventArrives
        <4>1. arrived' \in EventNumbers
          BY <3>1, LinkAssumption DEF EventArrives, LinkTypeOK, EventNumbers
        <4>2. WithRoom(esl[links].events, arrived') \in Seq(EventNumbers)
          BY <1>0, <4>1 DEF WithRoom, EslTcpConnection
        <4> QED
          BY <1>0, <3>1, <4>2 DEF EventArrives
      <3>2. ASSUME NEW n \in Links, ForwardEvent(n)
            PROVE  /\ esl' = [esl EXCEPT ![n] = [esl[n] EXCEPT !.events = Tail(esl[n].events)]]
                   /\ Tail(esl[n].events) \in Seq(EventNumbers)
                   /\ UNCHANGED <<command, excused>>
        BY <1>0, <3>2 DEF ForwardEvent, EslTcpConnection
      <3> QED
        BY <1>5, <3>1, <3>2
    <2>2. /\ esl'[n].lock = esl[n].lock /\ esl'[n].reader = esl[n].reader
          /\ esl'[n].sent = esl[n].sent /\ esl'[n].control = esl[n].control
          /\ \A m \in Links \ {n} : esl'[m] = esl[m]
      BY <1>0, <2>1 DEF LinkTypeOK, EslTcpConnection
    <2>3. IsClean(esl'[n]) <=> IsClean(esl[n])
      BY <2>2 DEF IsClean
    <2>4. esl[n].reader = "reading" => IsClean(esl[n])
      BY DEF RepliesInv
    <2> QED
      BY <2>1, <2>2, <2>3, <2>4, RepliesFrame
  <1>6. CASE PumpStep \/ NoticeDisconnect \/ ConnectFails \/ BackoffEnds
    BY <1>6 DEF PumpStep, YieldEvent, PlayEnds, NoticeDisconnect, ConnectFails, BackoffEnds,
                RepliesInv, ReplyIsItsOwn
  <1>7. ASSUME NEW c \in Commands, CommandStep(c)
        PROVE  RepliesInv'
    <2> DEFINE n == command[c].link
               e == esl[n]
               r == esl'[n]
    <2>1. /\ n \in Links
          /\ \A d \in Commands \ {c} : command'[d] = command[d]
          /\ command'[c].link = n
          /\ \A m \in Links \ {n} : esl'[m] = esl[m]
          /\ excused \subseteq excused'
          /\ r \in EslTcpConnection
      BY <1>7, CommandStepFacts
    <2>2. Uses(command[c], n) /\ e \in EslTcpConnection /\ c # Nobody /\ c # ClosedError
      BY <1>0, <1>7, <2>1, LinkAssumption
         DEF CommandStep, WriteCommand, TakeReply, CommandTimesOut, Uses
    <2>3. ASSUME r.reader = "reading" => IsClean(r),
                 ~ IsClean(r) => \A d \in Commands : Uses(command'[d], n) => d \in excused',
                 \A d \in Commands : r.lock = d <=> command'[d].at = "awaiting"
                                                     /\ command'[d].link = n,
                 command'[c].at = "replied" /\ command'[c].answer # c => c \in excused'
          PROVE  RepliesInv'
      <3>1. \A m \in Links : esl'[m].reader = "reading" => IsClean(esl'[m])
        BY <2>1, <2>3 DEF RepliesInv
      <3>2. ASSUME NEW d \in Commands, NEW m \in Links
            PROVE  /\ esl'[m].lock = d <=> command'[d].at = "awaiting" /\ command'[d].link = m
                   /\ Uses(command'[d], m) /\ ~ IsClean(esl'[m]) => d \in excused'
        <4>1. CASE m = n
          BY <2>3, <4>1
        <4>2. CASE m # n /\ d = c
          <5>1. ~ Uses(command'[c], m) /\ esl'[m] = esl[m] /\ command'[c].link # m
            BY <2>1, <4>2 DEF Uses
          <5>2. esl[m].lock # c
            BY <4>2 DEF RepliesInv
          <5> QED
            BY <4>2, <5>1, <5>2
        <4>3. CASE m # n /\ d # c
          <5>1. esl'[m] = esl[m] /\ command'[d] = command[d]
            BY <2>1, <4>3
          <5> QED
            BY <2>1, <5>1 DEF RepliesInv
        <4> QED
          BY <4>1, <4>2, <4>3
      <3>3. ReplyIsItsOwn'
        BY <2>1, <2>3 DEF RepliesInv, ReplyIsItsOwn
      <3> QED
        BY <3>1, <3>2, <3>3 DEF RepliesInv
    <2>4. CASE WriteCommand(c)
      <3>1. /\ e.lock = Nobody /\ command[c].at = "queued"
            /\ command' = [command EXCEPT ![c].at = "awaiting"]
            /\ esl' = [esl EXCEPT ![n] = [esl[n] EXCEPT !.lock = c, !.sent = Append(@, c)]]
        BY <2>4 DEF WriteCommand
      <3>2. command'[c].at = "awaiting"
        BY <3>1 DEF LinkTypeOK, SendCall
      <3>3. /\ r.lock = c /\ r.reader = e.reader /\ r.control = e.control
            /\ r.sent = Append(e.sent, c)
        BY <2>1, <2>2, <3>1 DEF LinkTypeOK, EslTcpConnection
      <3> HIDE DEF e, r
      <3>4. IsClean(e) => IsClean(r)
        BY <2>1, <2>2, <3>1, <3>3, WritingIsClean
      <3>5. /\ e.reader = "reading" => IsClean(e)
            /\ ~ IsClean(e) => \A d \in Commands : Uses(command[d], n) => d \in excused
            /\ \A d \in Commands : ~ (command[d].at = "awaiting" /\ command[d].link = n)
        BY <2>1, <3>1, LinkAssumption DEF RepliesInv, e
      <3>6. \A d \in Commands : r.lock = d <=> command'[d].at = "awaiting"
                                                 /\ command'[d].link = n
        BY <2>1, <3>2, <3>3, <3>5
      <3>7. ~ IsClean(r) => \A d \in Commands : Uses(command'[d], n) => d \in excused'
        BY <2>1, <2>2, <3>4, <3>5
      <3> QED
        BY <2>3, <3>2, <3>3, <3>4, <3>5, <3>6, <3>7
    <2>5. ASSUME e.lock = c, r.lock = Nobody, command[c].at = "awaiting",
                 command'[c].at \in {"failed", "replied"}
          PROVE  /\ \A d \in Commands : r.lock = d <=> command'[d].at = "awaiting"
                                                         /\ command'[d].link = n
                 /\ \A d \in Commands : Uses(command'[d], n)
                      => command[d].at = "queued" /\ Uses(command[d], n)
      <3>1. \A d \in Commands : command[d].at = "awaiting" /\ command[d].link = n => d = c
        BY <2>1, <2>5 DEF RepliesInv
      <3> QED
        BY <2>1, <2>5, <3>1, LinkAssumption DEF Uses
    <2>6. CASE TakeReply(c)
      <3> DEFINE taken == [esl[n] EXCEPT !.lock = Nobody, !.control = Tail(@)]
                 reply == Head(esl[n].control)
      <3>1. /\ command[c].at = "awaiting" /\ e.control # <<>>
            /\ \/ /\ reply = ClosedError
                  /\ command' = [command EXCEPT ![c].at = "failed"]
                  /\ esl' = [esl EXCEPT ![n] = TearDown(taken)]
               \/ /\ reply # ClosedError
                  /\ command' = [command EXCEPT ![c].at = "replied", ![c].answer = reply]
                  /\ esl' = [esl EXCEPT ![n] = taken]
            /\ excused' = excused
        BY <2>6 DEF TakeReply
      <3>2. /\ taken \in EslTcpConnection /\ taken.reader = e.reader /\ taken.lock = Nobody
            /\ taken.sent = e.sent /\ taken.control = Tail(e.control)
        <4>1. taken \in EslTcpConnection
          BY <2>2, <3>1, ConnectionTypes
        <4> QED
          BY <2>2, <4>1 DEF EslTcpConnection
      <3> HIDE DEF taken
      <3>3. \/ reply = ClosedError /\ r = TearDown(taken) /\ command'[c].at = "failed"
            \/ /\ reply # ClosedError /\ r = taken
               /\ command'[c].at = "replied" /\ command'[c].answer = reply
        BY <2>1, <3>1 DEF LinkTypeOK, SendCall
      <3>4. e.lock = c
        BY <2>1, <3>1 DEF RepliesInv
      <3> HIDE DEF e, r, reply
      <3>5. r.lock = Nobody
        BY <3>2, <3>3, TearDownFacts
      <3>6. IsClean(e) => IsClean(taken) /\ reply \in {c, ClosedError}
        BY <2>2, <3>1, <3>2, <3>4, TakingIsClean DEF e, reply
      <3>7. IsClean(taken) => IsClean(r)
        BY <3>2, <3>3, StopIsClean DEF TearDown
      <3>8. /\ e.reader = "reading" => IsClean(e)
            /\ ~ IsClean(e) => \A d \in Commands : Uses(command[d], n) => d \in excused
        BY <2>1 DEF RepliesInv, e
      <3>9. r.reader = "reading" => e.reader = "reading"
        BY <3>2, <3>3, TearDownFacts
      <3>10. ~ IsClean(r) => \A d \in Commands : Uses(command'[d], n) => d \in excused'
        BY <2>1, <2>5, <3>1, <3>3, <3>4, <3>5, <3>6, <3>7, <3>8
      <3>11. command'[c].at = "replied" /\ command'[c].answer # c => c \in excused'
        BY <2>1, <2>2, <3>3, <3>6, <3>8
      <3> QED
        BY <2>3, <2>5, <3>1, <3>3, <3>4, <3>5, <3>6, <3>7, <3>8, <3>9, <3>10, <3>11
    <2>7. CASE CommandTimesOut(c)
      <3> DEFINE free == [esl[n] EXCEPT !.lock = Nobody]
      <3>1. command'[c].at = "failed"
        BY <2>7 DEF CommandTimesOut, LinkTypeOK, SendCall
      <3>2. CASE command[c].at = "queued" /\ UNCHANGED <<esl, excused>>
        <4>1. \A d \in Commands : /\ command'[d].link = command[d].link
                                  /\ command'[d].at = "awaiting" <=> command[d].at = "awaiting"
                                  /\ Uses(command'[d], n) => Uses(command[d], n)
          BY <2>1, <3>1, <3>2 DEF Uses
        <4> QED
          BY <2>1, <2>3, <3>1, <3>2, <4>1 DEF RepliesInv
      <3>3. CASE /\ command[c].at = "awaiting"
                 /\ esl' = [esl EXCEPT ![n] = TearDown(free)]
                 /\ excused' = excused \cup Waiting(n)
        <4>1. free \in EslTcpConnection /\ free.lock = Nobody
          BY <2>2, ConnectionTypes DEF EslTcpConnection
        <4> HIDE DEF free
        <4>2. r = TearDown(free)
          BY <2>1, <3>3 DEF LinkTypeOK
        <4>3. r.lock = Nobody /\ r.reader # "reading"
          BY <4>1, <4>2, TearDownFacts
        <4>4. e.lock = c
          BY <2>1, <3>3 DEF RepliesInv
        <4>5. \A d \in Commands : Uses(command'[d], n) => d \in excused'
          BY <2>5, <3>1, <3>3, <4>3, <4>4 DEF Waiting, Uses
        <4> QED
          BY <2>3, <2>5, <3>1, <3>3, <4>3, <4>4, <4>5
      <3> QED
        BY <2>7, <3>2, <3>3 DEF CommandTimesOut
    <2> QED
      BY <1>7, <2>4, <2>6, <2>7 DEF CommandStep
  <1> QED
    BY <1>1, <1>2, <1>3, <1>4, <1>5, <1>6, <1>7 DEF LinkNext, SupervisorStep

\* ReplyIsItsOwn: _send_lock lets one command at a time wait for a reply, and one that gives
\* up tears the connection down, so that only a command that was queued behind it, and is
\* named in excused, can meet what was meant for it.
THEOREM ReplyIsItsOwnHolds == LinkSpec => []ReplyIsItsOwn
  <1>1. LinkInit => RepliesInv
    <2>1. ASSUME LinkInit, NEW n \in Links
          PROVE  esl[n].lock = Nobody /\ esl[n].sent = <<>> /\ esl[n].control = <<>>
      BY <2>1 DEF LinkInit, Unopened
    <2>2. ASSUME LinkInit, NEW c \in Commands
          PROVE  command[c].at = "idle" /\ c # Nobody
      BY <2>2, LinkAssumption DEF LinkInit
    <2> QED
      BY <2>1, <2>2 DEF RepliesInv, IsClean, Uses, ReplyIsItsOwn
  <1>2. LinkTypeOK /\ LinksInv /\ RepliesInv /\ [LinkNext]_linkVars => RepliesInv'
    BY RepliesStep DEF linkVars, RepliesInv, ReplyIsItsOwn
  <1>3. RepliesInv => ReplyIsItsOwn
    BY DEF RepliesInv
  <1> QED
    BY <1>1, <1>2, <1>3, LinkTypeCorrect, PTL DEF LinkSpec
===============================================================================
