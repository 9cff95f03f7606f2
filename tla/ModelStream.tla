----------------------------- MODULE ModelStream ------------------------------
(***************************************************************************)
(* What a language model's streamed responses become: the adapters          *)
(* OpenAiCompatibleLlmProvider and GeminiLlmProvider, the idle timeout of   *)
(* _bounded() around them, and the part of _turn() that consumes them.      *)
(* Conversation abstracts all of this to one step of the model.             *)
(*                                                                         *)
(* A response is a sequence of lines.  A tool call is its pieces: piece 0   *)
(* names it, the others are fragments of its arguments, whose concatenation *)
(* is JSON.  An OpenAI-compatible model sends the pieces of its calls one   *)
(* by one, Gemini sends a call in one line.                                 *)
(***************************************************************************)
EXTENDS Integers, Sequences

CONSTANTS
  MaxResponses,  \* bound: requests to the model
  MaxCalls,    \* bound: tool calls the model begins in one response
  Fragments,   \* fragments the arguments of a call come in
  MaxLosses,   \* bound: lines that arrive garbled
  IdleLimit    \* llm_idle_timeout_seconds, in units of time without a line

ASSUME ModelStreamAssumption ==
  /\ MaxResponses \in Nat /\ MaxCalls \in Nat /\ MaxLosses \in Nat
  /\ Fragments \in Nat \ {0} /\ IdleLimit \in Nat \ {0}

Calls == 1..MaxCalls
Pieces == 0..Fragments
Arguments == Pieces \ {0}

VARIABLES
  vendor,    \* which adapter the session was configured with
  at,        \* where _turn is
  reply,     \* requests so far
  sent,      \* [Calls -> pieces the model has sent in this response]
  pending,   \* [Calls -> pieces assembled], pending_calls
  text,      \* some text has been yielded
  idle,      \* time since the stream last yielded an item
  error,     \* how the last turn failed
  losses,
  lossy, clipped,  \* history: replies with a garbled line, that ended inside a call
  broken, left,    \* history: replies that failed, that an interrupt left
  made       \* history: the calls handed to the runtime

streamVars == <<vendor, at, reply, sent, pending, text, idle, error,
                losses, lossy, clipped, broken, left, made>>
response == <<sent, pending, text>>
fates == <<losses, lossy, clipped, broken, left>>

Errors == {"none", "auth", "rate_limit", "invalid_request", "provider_down", "transient"}
Statuses == {200, 401, 429, 422, 503, 302}

NoPieces == [n \in Calls |-> {}]

StreamTypeOK ==
  /\ vendor \in {"openai", "gemini"}
  /\ at \in {"asking", "streaming", "ended", "tool", "over"}
  /\ reply \in 0..MaxResponses
  /\ sent \in [Calls -> SUBSET Pieces] /\ pending \in [Calls -> SUBSET Pieces]
  /\ text \in BOOLEAN
  /\ idle \in 0..IdleLimit
  /\ error \in Errors
  /\ losses \in 0..MaxLosses
  /\ lossy \subseteq 1..MaxResponses /\ clipped \subseteq 1..MaxResponses
  /\ broken \subseteq 1..MaxResponses /\ left \subseteq 1..MaxResponses
  /\ made \subseteq [reply : 1..MaxResponses, call : Calls, named : BOOLEAN,
                     arguments : {"whole", "empty", "other"}]

StreamInit ==
  /\ vendor \in {"openai", "gemini"}
  /\ at = "over" /\ reply = 0
  /\ sent = NoPieces /\ pending = NoPieces /\ text = FALSE
  /\ idle = 0
  /\ error = "none" /\ losses = 0
  /\ lossy = {} /\ clipped = {} /\ broken = {} /\ left = {}
  /\ made = {}

-----------------------------------------------------------------------------
(* The request                                                             *)

\* A final transcript starts a turn.
CallerSpeaks ==
  /\ at = "over" /\ reply < MaxResponses
  /\ at' = "asking"
  /\ error' = "none"
  /\ UNCHANGED <<vendor, reply, response, idle, fates, made>>

StatusError(status) ==
  CASE status \in {401, 403} -> "auth"
    [] status = 429          -> "rate_limit"
    [] status \in {400, 422} -> "invalid_request"
    [] status >= 500         -> "provider_down"
    [] OTHER                 -> "transient"

\* An EngineException ends the turn, not the session.
Fails(r, code) == at' = "over" /\ error' = code /\ broken' = broken \cup {r}

Ask ==
  /\ at = "asking" /\ reply < MaxResponses
  /\ reply' = reply + 1
  /\ \E status \in Statuses :
       IF status = 200
         THEN at' = "streaming" /\ UNCHANGED <<error, broken>>
         ELSE Fails(reply', StatusError(status))
  /\ sent' = NoPieces /\ pending' = NoPieces /\ text' = FALSE
  /\ idle' = 0
  /\ UNCHANGED <<vendor, losses, lossy, clipped, left, made>>

-----------------------------------------------------------------------------
(* The lines of the response                                               *)

\* A line that is no JSON is dropped.
Garbled ==
  /\ losses < MaxLosses
  /\ losses' = losses + 1
  /\ lossy' = lossy \cup {reply}

Text ==
  /\ at = "streaming"
  /\ text' = TRUE
  /\ idle' = 0
  /\ UNCHANGED <<vendor, at, reply, sent, pending, error, fates, made>>

\* The pieces of call n the model may send next: it begins its calls one after the other.
NextPieces(n) ==
  CASE vendor = "gemini" -> IF sent[n] = {} THEN Pieces ELSE {}
    [] OTHER -> {p \in Pieces \ sent[n] : \A q \in Pieces : q < p => q \in sent[n]}
Begun(n) == \A m \in Calls : m < n => sent[m] # {}

\* Mutation: the name of a call is not kept.
Unnamed(n, pieces) == [pending EXCEPT ![n] = @ \cup (pieces \ {0})]
Assembled(n, pieces) == [pending EXCEPT ![n] = @ \cup pieces]

\* Nothing is yielded for a piece of a call.
CallLine(n) ==
  /\ at = "streaming" /\ Begun(n) /\ NextPieces(n) # {}
  /\ sent' = [sent EXCEPT ![n] = @ \cup NextPieces(n)]
  /\ \/ pending' = Assembled(n, NextPieces(n)) /\ UNCHANGED <<losses, lossy>>
     \/ UNCHANGED pending /\ Garbled
  /\ UNCHANGED <<vendor, at, reply, text, idle, error, clipped, broken, left, made>>

TimePasses ==
  /\ at = "streaming" /\ idle < IdleLimit
  /\ idle' = idle + 1
  /\ UNCHANGED <<vendor, at, reply, response, error, fates, made>>

\* _bounded: no item within the limit.
IdleTimeout ==
  /\ at = "streaming" /\ idle = IdleLimit
  /\ Fails(reply, "transient")
  /\ UNCHANGED <<vendor, reply, response, idle, losses, lossy, clipped, left, made>>

TransportFails ==
  /\ at = "streaming"
  /\ Fails(reply, "transient")
  /\ UNCHANGED <<vendor, reply, response, idle, losses, lossy, clipped, left, made>>

\* [DONE], or the end of the body: the reason the model finished is not looked at.
ResponseEnds ==
  /\ at = "streaming"
  /\ at' = "ended"
  /\ clipped' = IF \E n \in Calls : sent[n] \notin {{}, Pieces} THEN clipped \cup {reply} ELSE clipped
  /\ UNCHANGED <<vendor, reply, response, idle, error, losses, lossy, broken,
                 left, made>>

-----------------------------------------------------------------------------
(* What _turn makes of it                                                  *)

\* What json.loads makes of the fragments of call n: a proper prefix of an object is no
\* JSON; without a fragment from the middle it may be another object.
Parsed(n) ==
  LET got == pending[n] \cap Arguments
  IN CASE got = {}        -> {"empty"}
       [] got = Arguments -> {"whole"}
       [] OTHER           -> {"malformed"} \cup (IF {1, Fragments} \subseteq got
                                                THEN {"other"} ELSE {})

\* Calls come in the order of their index; those that cannot be parsed are dropped.
NoneBefore(n) == \A m \in Calls : m < n /\ pending[m] # {} => "malformed" \in Parsed(m)

\* The turn goes on with the first call, whatever else the response holds.
TakeCall(n) ==
  /\ at = "ended" /\ pending[n] # {} /\ NoneBefore(n)
  /\ \E parsed \in Parsed(n) \ {"malformed"} :
       made' = made \cup {[reply |-> reply, call |-> n, named |-> 0 \in pending[n],
                           arguments |-> parsed]}
  /\ at' = "tool"
  /\ UNCHANGED <<vendor, reply, response, idle, error, fates>>

ToolAnswers ==
  /\ at = "tool"
  /\ at' = "asking"
  /\ UNCHANGED <<vendor, reply, response, idle, error, fates, made>>

\* Mutation: a response with text is taken for an answer, whatever calls it holds.
NoCallOrText == text \/ \A n \in Calls : pending[n] = {} \/ "malformed" \in Parsed(n)
NoCall == \A n \in Calls : pending[n] = {} \/ "malformed" \in Parsed(n)

Answer ==
  /\ at = "ended" /\ NoCall
  /\ at' = "over"
  /\ UNCHANGED <<vendor, reply, response, idle, error, fates, made>>

\* Barge-in cancels the turn, also one whose response has not begun.
Interrupt ==
  /\ \/ /\ at = "asking" /\ reply < MaxResponses
        /\ reply' = reply + 1
        /\ sent' = NoPieces /\ pending' = NoPieces /\ text' = FALSE
     \/ at \in {"streaming", "tool"} /\ UNCHANGED <<reply, response>>
  /\ at' = "over"
  /\ left' = left \cup {reply'}
  /\ UNCHANGED <<vendor, idle, error, losses, lossy, clipped, broken, made>>

-----------------------------------------------------------------------------
StreamNext ==
  \/ CallerSpeaks \/ Ask
  \/ Text \/ TimePasses \/ IdleTimeout \/ TransportFails \/ ResponseEnds
  \/ \E n \in Calls : CallLine(n) \/ TakeCall(n)
  \/ ToolAnswers \/ Answer \/ Interrupt

StreamSpec == StreamInit /\ [][StreamNext]_streamVars

-----------------------------------------------------------------------------
(* Properties                                                              *)

\* _openai_compatible.py, stream_turn: fragments of several calls come interleaved, some
\* get lost, a limit may end the response inside a call.  A tool is called under its name
\* and with the very arguments the model sent, unless its reply had a garbled line or
\* ended inside a call, in which case it may be called without arguments.  A reply that
\* failed calls nothing, however many calls had arrived whole.
CallIsAsAsked ==
  \A c \in made : /\ \/ c.named /\ c.arguments = "whole"
                     \/ c.reply \in lossy \cup clipped
                  /\ c.reply \notin broken

\* A reply that asked for a tool leads to the call of the first tool it asked for, and
\* is never taken for an answer, whatever text came with it: unless it failed, was
\* interrupted, cut off or garbled.
AskedCallIsMade ==
  /\ reply \notin lossy \cup clipped \cup broken \cup left /\ at \in {"tool", "over"}
  /\ \E n \in Calls : sent[n] # {}
  => \E c \in made : c.reply = reply /\ c.call = 1
===============================================================================
