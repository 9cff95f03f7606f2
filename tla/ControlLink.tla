----------------------------- MODULE ControlLink -----------------------------
(***************************************************************************)
(* The ESL link of one call-runtime process: ManagedEslConnection over the *)
(* EslTcpConnections it opens one after the other, the commands of         *)
(* FreeSwitchTelephonyProvider and its stream of events.                   *)
(*                                                                         *)
(* A reply names no command: it belongs to the oldest command that has     *)
(* none, which is why _send_lock lets one command at a time onto a         *)
(* connection, and why a command that gives up tears its connection down.  *)
(*                                                                         *)
(* The other side (`sent` and what becomes of it) is FreeSWITCH; it may    *)
(* answer late or never, or close the connection.                          *)
(***************************************************************************)
EXTENDS Naturals, Sequences

CONSTANTS
  Commands,     \* calls of _command()
  MaxLinks,     \* bound: connections opened
  MaxRefusals,  \* bound: attempts to reconnect that fail
  MaxEvents,    \* bound: events FreeSWITCH sends
  EventRoom     \* _QUEUE_MAXSIZE

Nobody == "nobody"
ClosedError == "connection closed"

ASSUME LinkAssumption ==
  /\ Nobody \notin Commands /\ ClosedError \notin Commands
  /\ MaxLinks \in Nat \ {0} /\ EventRoom \in Nat \ {0}
  /\ MaxRefusals \in Nat /\ MaxEvents \in Nat

VARIABLES
  links,       \* connections opened so far; the last one is _connection
  esl,         \* [Links -> EslTcpConnection]
  command,     \* [Commands -> the call of send() it makes]
  supervisor,  \* the _supervise() task
  forwarding,  \* links whose _forward_events() task runs
  managed,     \* _event_queue of ManagedEslConnection
  pump,        \* the reader of events(): the command it waits for, if any
  arrived,     \* events sent so far
  delivered,   \* history: events the provider has yielded
  refusals,    \* attempts that failed so far
  excused      \* history: commands that waited for the lock of a link torn down

linkVars == <<links, esl, command, supervisor, forwarding, managed, pump, arrived,
              delivered, refusals, excused>>

Links == 1..MaxLinks
EventNumbers == 1..MaxEvents
Replies == Commands \cup {ClosedError}

\* _read_loop() runs, has ended by itself, or was cancelled; _closed is set in the last two.
EslTcpConnection ==
  [reader  : {"none", "reading", "ended", "cancelled"},
   lock    : Commands \cup {Nobody},
   sent    : Seq(Commands),   \* written, and not answered
   control : Seq(Replies),    \* _control_queue
   events  : Seq(EventNumbers)]

Unopened == [reader |-> "none", lock |-> Nobody, sent |-> <<>>, control |-> <<>>,
             events |-> <<>>]

SendCall ==
  [at     : {"idle", "queued", "awaiting", "replied", "failed"},
   link   : 0..MaxLinks,
   answer : Commands \cup {Nobody}]

LinkTypeOK ==
  /\ links \in Links
  /\ esl \in [Links -> EslTcpConnection]
  /\ command \in [Commands -> SendCall]
  /\ supervisor \in {"watching", "connecting", "sleeping", "gone", "stopped"}
  /\ forwarding \subseteq Links
  /\ managed \in Seq(EventNumbers)
  /\ pump \in Commands \cup {Nobody}
  /\ arrived \in 0..MaxEvents
  /\ delivered \in Seq(EventNumbers)
  /\ refusals \in 0..MaxRefusals
  /\ excused \subseteq Commands

\* start() has returned: it raises unless the first connection succeeds.
LinkInit ==
  /\ links = 1
  /\ esl = [n \in Links |-> IF n = 1 THEN [Unopened EXCEPT !.reader = "reading"] ELSE Unopened]
  /\ command = [c \in Commands |-> [at |-> "idle", link |-> 0, answer |-> Nobody]]
  /\ supervisor = "watching"
  /\ forwarding = {1}
  /\ managed = <<>> /\ pump = Nobody
  /\ arrived = 0 /\ delivered = <<>>
  /\ refusals = 0 /\ excused = {}

Up == esl[links].reader = "reading"

eventVars == <<forwarding, managed, arrived, delivered>>
supervisorVars == <<links, supervisor, forwarding, refusals>>

-----------------------------------------------------------------------------
(* EslTcpConnection: _read_loop, send                                      *)

\* The finally of _read_loop: whoever waits for a reply, or waits next, is told once.
ReaderStops(connection, how) ==
  IF connection.reader = "reading"
    THEN [connection EXCEPT !.reader = how, !.control = Append(@, ClosedError)]
    ELSE connection

\* Mutation: a command that gives up leaves the connection as it is.
KeepOpen(connection) == connection
TearDown(connection) == ReaderStops(connection, "cancelled")

Waiting(n) == {c \in Commands : command[c].at = "queued" /\ command[c].link = n}

ReplyArrives(n) ==
  /\ esl[n].reader = "reading" /\ esl[n].sent # <<>>
  /\ esl' = [esl EXCEPT ![n] = [esl[n] EXCEPT !.sent = Tail(@),
                                         !.control = Append(@, Head(esl[n].sent))]]
  /\ UNCHANGED <<links, command, supervisor, forwarding, managed, pump, arrived, delivered,
                 refusals, excused>>

\* A notice, an end of file or an error ends the loop.
PeerCloses ==
  /\ Up /\ links < MaxLinks
  /\ esl' = [esl EXCEPT ![links] = ReaderStops(@, "ended")]
  /\ UNCHANGED <<links, command, supervisor, forwarding, managed, pump, arrived, delivered,
                 refusals, excused>>

\* send() refuses a connection that is known to be closed, and queues for the lock.
Sends(c) ==
  /\ command[c].at = "idle"
  /\ command' = [command EXCEPT ![c].at = IF Up THEN "queued" ELSE "failed", ![c].link = links]

SendCommand(c) ==
  /\ Sends(c)
  /\ UNCHANGED <<esl, supervisorVars, managed, pump, arrived, delivered, excused>>

\* The lock is free; whether the connection was torn down meanwhile is not asked again.
WriteCommand(c) ==
  LET n == command[c].link IN
  /\ command[c].at = "queued" /\ esl[n].lock = Nobody
  /\ command' = [command EXCEPT ![c].at = "awaiting"]
  /\ esl' = [esl EXCEPT ![n] = [esl[n] EXCEPT !.lock = c, !.sent = Append(@, c)]]
  /\ UNCHANGED <<supervisorVars, managed, pump, arrived, delivered, excused>>

\* The oldest item of _control_queue, whatever command it answers.
TakeReply(c) ==
  LET n == command[c].link
      reply == Head(esl[n].control)
      taken == [esl[n] EXCEPT !.lock = Nobody, !.control = Tail(@)] IN
  /\ command[c].at = "awaiting" /\ esl[n].control # <<>>
  /\ IF reply = ClosedError
       THEN /\ command' = [command EXCEPT ![c].at = "failed"]
            /\ esl' = [esl EXCEPT ![n] = TearDown(taken)]
       ELSE /\ command' = [command EXCEPT ![c].at = "replied", ![c].answer = reply]
            /\ esl' = [esl EXCEPT ![n] = taken]
  /\ UNCHANGED <<supervisorVars, managed, pump, arrived, delivered, excused>>

\* wait_for() of _command() cancels the wait: harmless while it waits for the lock, the
\* end of the connection once it has written.
CommandTimesOut(c) ==
  LET n == command[c].link IN
  /\ command' = [command EXCEPT ![c].at = "failed"]
  /\ \/ /\ command[c].at = "queued"
        /\ UNCHANGED <<esl, excused>>
     \/ /\ command[c].at = "awaiting"
        /\ esl' = [esl EXCEPT ![n] = TearDown([esl[n] EXCEPT !.lock = Nobody])]
        /\ excused' = excused \cup Waiting(n)
  /\ UNCHANGED <<supervisorVars, managed, pump, arrived, delivered>>

-----------------------------------------------------------------------------
(* ManagedEslConnection: _supervise, close                                 *)

\* wait_closed(): the end of the read loop is a disconnect; its cancellation is raised
\* into the supervisor, whose task ends with it.
NoticeDisconnect ==
  /\ supervisor = "watching" /\ ~ Up
  /\ supervisor' = IF esl[links].reader = "ended" THEN "connecting" ELSE "gone"
  /\ UNCHANGED <<links, esl, command, pump, eventVars, refusals, excused>>

\* Mutation: the forwarding task of the connection before is not cancelled.
AllForward(n) == forwarding \cup {n}
OnlyForward(n) == {n}

ConnectOnce ==
  /\ supervisor = "connecting" /\ links < MaxLinks
  /\ links' = links + 1
  /\ esl' = [esl EXCEPT ![links'] = [esl[links'] EXCEPT !.reader = "reading"]]
  /\ forwarding' = OnlyForward(links')
  /\ supervisor' = "watching"
  /\ UNCHANGED <<command, managed, pump, arrived, delivered, refusals, excused>>

\* A TransportError is slept over; a TimeoutError of the handshake, an error of the
\* write or of the password provider is not caught.
ConnectFails ==
  /\ supervisor = "connecting" /\ refusals < MaxRefusals
  /\ refusals' = refusals + 1
  /\ supervisor' \in {"sleeping", "gone"}
  /\ UNCHANGED <<links, esl, command, pump, eventVars, excused>>

BackoffEnds ==
  /\ supervisor = "sleeping"
  /\ supervisor' = "connecting"
  /\ UNCHANGED <<links, esl, command, pump, eventVars, refusals, excused>>

\* The shutdown of the runtime.  (The None that ends events() is left out.)
CloseLink ==
  /\ supervisor # "stopped"
  /\ supervisor' = "stopped"
  /\ forwarding' = {}
  /\ esl' = [esl EXCEPT ![links] = TearDown(@)]
  /\ excused' = excused \cup Waiting(links)
  /\ UNCHANGED <<links, command, managed, pump, arrived, delivered, refusals>>

-----------------------------------------------------------------------------
(* Events: _push_event, _forward_events, FreeSwitchTelephonyProvider.events *)

WithRoom(queue, e) == IF Len(queue) < EventRoom THEN Append(queue, e) ELSE queue

EventArrives ==
  /\ Up /\ arrived < MaxEvents
  /\ arrived' = arrived + 1
  /\ esl' = [esl EXCEPT ![links] = [esl[links] EXCEPT !.events = WithRoom(@, arrived')]]
  /\ UNCHANGED <<supervisorVars, command, managed, pump, delivered, excused>>

ForwardEvent(n) ==
  /\ n \in forwarding /\ esl[n].events # <<>>
  /\ managed' = WithRoom(managed, Head(esl[n].events))
  /\ esl' = [esl EXCEPT ![n] = [esl[n] EXCEPT !.events = Tail(@)]]
  /\ UNCHANGED <<supervisorVars, command, pump, arrived, delivered, excused>>

\* Yielded to the router, or dropped as an event the product does not know.
YieldEvent ==
  /\ managed # <<>> /\ pump = Nobody
  /\ managed' = Tail(managed)
  /\ delivered' \in {Append(delivered, Head(managed)), delivered}
  /\ UNCHANGED <<supervisorVars, esl, command, pump, arrived, excused>>

\* _handle_play_event: no event is read before its uuid_broadcast has an answer.
PlayEvent(c) ==
  /\ managed # <<>> /\ pump = Nobody
  /\ managed' = Tail(managed)
  /\ Sends(c) /\ pump' = c
  /\ UNCHANGED <<supervisorVars, esl, arrived, delivered, excused>>

PlayEnds ==
  /\ pump # Nobody /\ command[pump].at \in {"replied", "failed"}
  /\ pump' = Nobody
  /\ UNCHANGED <<supervisorVars, esl, command, managed, arrived, delivered, excused>>

-----------------------------------------------------------------------------
CommandStep(c) == WriteCommand(c) \/ TakeReply(c) \/ CommandTimesOut(c)
SupervisorStep == NoticeDisconnect \/ ConnectOnce \/ ConnectFails \/ BackoffEnds
PumpStep == YieldEvent \/ PlayEnds

LinkNext ==
  \/ \E c \in Commands : SendCommand(c) \/ PlayEvent(c) \/ CommandStep(c)
  \/ \E n \in Links : ReplyArrives(n) \/ ForwardEvent(n)
  \/ PeerCloses \/ EventArrives \/ PumpStep
  \/ SupervisorStep \/ CloseLink

LinkSpec == LinkInit /\ [][LinkNext]_linkVars

\* The tasks of the process run, and every command has a timeout; FreeSWITCH owes nothing.
LinkFairness ==
  /\ \A c \in Commands : WF_linkVars(CommandStep(c))
  /\ WF_linkVars(SupervisorStep)
  /\ WF_linkVars(PumpStep)

FairLinkSpec == LinkSpec /\ LinkFairness

-----------------------------------------------------------------------------
(* Properties                                                              *)

\* esl_transport.py:294: no command is answered with the reply to another one, except
\* one that already waited for the lock when the command before it gave up: it does not
\* look again at a connection that was torn down meanwhile.
ReplyIsItsOwn ==
  \A c \in Commands :
    command[c].at = "replied" /\ command[c].answer # c => c \in excused

\* Across reconnections events are yielded in the order in which FreeSWITCH sent them,
\* however many are dropped.
EventsKeepOrder ==
  \A i, j \in DOMAIN delivered : i < j => delivered[i] < delivered[j]

\* esl_transport.py:305 of a connection torn down by a command that gave up: "it is torn
\* down here instead: `ManagedEslConnection` reconnects".
TornLinkIsReplaced ==
  \A n \in Links :
    links = n /\ esl[n].reader = "cancelled" ~> links > n \/ supervisor = "stopped"
=============================================================================
