----------------------------- MODULE ProxyTurns -----------------------------
(***************************************************************************)
(* A chat exchange through the proxy: the upstream's stream forwarded frame by *)
(* frame, the detection of its end, the activity rows and the event that   *)
(* report it, and the background task that stores the exchange as          *)
(* conversation events.  Clients leave, the upstream breaks off or fails,  *)
(* appends fail, the process stops.                                        *)
(*                                                                         *)
(* A stream is some frames of text and the event `data: [DONE]`, which may *)
(* arrive in two frames.                                                   *)
(***************************************************************************)
EXTENDS Naturals

CONSTANTS
  Turn,
  MaxTexts    \* bound: frames of text of one stream

ASSUME ProxyAssumption == MaxTexts \in Nat

VARIABLES
  exchange,       \* [Turn -> the generator of the exchange]
  capture,    \* [Turn -> where its capture task is]
  said,       \* conversation_events: [Turn -> the roles stored, and the reply's frames]
  emitted     \* [Turn -> PROXY_CALL_COMPLETED events]

proxyVars == <<exchange, capture, said, emitted>>

\* frame: pulled and not fed yet; sent, fed: frames of text the client was given
\* and the parser consumed; endSent, endFed: parts of the last event, of 2.
NoTurn == [at |-> "idle", asks |-> FALSE, session |-> FALSE, good |-> FALSE, frame |-> "none",
           sent |-> 0, fed |-> 0, endSent |-> 0, endFed |-> 0, raised |-> FALSE, left |-> FALSE]

At_(t, where) == exchange[t].at = where
Proceed(t, where) == exchange' = [exchange EXCEPT ![t].at = where]

\* dispatch: the agent, its context and its key, none of which leaves state; the
\* request may have a user message with text, and a session id.
Dispatch(t, asks, session) ==
  /\ At_(t, "idle")
  /\ exchange' = [exchange EXCEPT ![t] = [NoTurn EXCEPT !.at = "dispatched", !.asks = asks,
                                                !.session = session]]
  /\ UNCHANGED <<capture, said, emitted>>

\* No such agent, no upstream, no key: the request fails before it streams.
Rejects(t) ==
  /\ At_(t, "dispatched") /\ Proceed(t, "ended")
  /\ UNCHANGED <<capture, said, emitted>>

\* The leading frame has the upstream's status and no bytes.
Connect(t, good) ==
  /\ At_(t, "dispatched")
  /\ exchange' = [exchange EXCEPT ![t].at = "pulling", ![t].good = good]
  /\ UNCHANGED <<capture, said, emitted>>

\* `data: [DONE]` and the blank line after it, in one frame or two.
Pull(t) ==
  /\ At_(t, "pulling")
  /\ \E frame \in {"text", "half", "whole"} :
       /\ frame = "text" => exchange[t].fed < MaxTexts /\ exchange[t].endFed = 0
       /\ frame = "whole" => exchange[t].endFed = 0
       /\ frame = "half" => exchange[t].endFed < 2
       /\ exchange' = [exchange EXCEPT
            ![t].at = "given", ![t].frame = frame,
            ![t].sent = @ + (IF frame = "text" THEN 1 ELSE 0),
            ![t].endSent = CASE frame = "text" -> @ [] frame = "half" -> @ + 1 [] OTHER -> 2]
  /\ UNCHANGED <<capture, said, emitted>>

\* After `yield frame.raw`, when the client asks for more, the frame is parsed.
Feed(t) ==
  /\ At_(t, "given")
  /\ exchange' = [exchange EXCEPT ![t].at = "pulling", ![t].frame = "none",
                          ![t].fed = exchange[t].sent, ![t].endFed = exchange[t].endSent]
  /\ UNCHANGED <<capture, said, emitted>>

UpstreamEnds(t) ==
  /\ At_(t, "pulling") /\ Proceed(t, "streamed")
  /\ UNCHANGED <<capture, said, emitted>>

\* An error frame and a `[DONE]` of the proxy's own, which are not parsed.
UpstreamRaises(t) ==
  /\ exchange[t].at \in {"dispatched", "pulling"}
  /\ exchange' = [exchange EXCEPT ![t].at = "streamed", ![t].raised = TRUE]
  /\ UNCHANGED <<capture, said, emitted>>

\* The line `data: [DONE]` alone (a mutant).
LineSeen(t) == exchange[t].endFed > 0

\* _SseCompletionDetector.completed
EventSeen(t) == exchange[t].endFed = 2

\* `ok`: no error, a 2xx status, a complete [DONE]; with a session id the
\* exchange is captured by a task nobody waits for.
Conclude(t) ==
  /\ At_(t, "streamed") /\ Proceed(t, "concluded")
  /\ capture' = [capture EXCEPT ![t] =
       IF ~exchange[t].raised /\ exchange[t].good /\ EventSeen(t) /\ exchange[t].session
         THEN "user" ELSE @]
  /\ UNCHANGED <<said, emitted>>

\* Once the activity row is written, or its error swallowed, the event is emitted.
Report(t) ==
  /\ At_(t, "concluded") /\ Proceed(t, "ended")
  /\ emitted' = [emitted EXCEPT ![t] = @ + 1]
  /\ UNCHANGED <<capture, said>>

\* A client that leaves cancels the generator at an await, or has it closed where
\* it yields: nothing after that point runs.
Leave(t) ==
  /\ exchange[t].at \in {"dispatched", "pulling", "given", "streamed", "concluded"}
  /\ exchange' = [exchange EXCEPT ![t].at = "ended", ![t].left = TRUE]
  /\ UNCHANGED <<capture, said, emitted>>

\* The events in the order of the list: the newest user message, then the reply.
Role(t) == capture[t]

\* append_event for each of them: no user text, or no reply, no event.
AppendTurn(t) ==
  /\ capture[t] \in {"user", "assistant"}
  /\ capture' = [capture EXCEPT ![t] = IF @ = "user" THEN "assistant" ELSE "over"]
  /\ said' = IF Role(t) = "user"
               THEN [said EXCEPT ![t].user = exchange[t].asks]
               ELSE [said EXCEPT ![t].reply = exchange[t].fed]
  /\ UNCHANGED <<exchange, emitted>>

\* An append raises: the task logs a warning and ends.
AppendFails(t) ==
  /\ capture[t] \in {"user", "assistant"}
  /\ capture' = [capture EXCEPT ![t] = "over"]
  /\ UNCHANGED <<exchange, said, emitted>>

ProxyStops ==
  /\ \E t \in Turn : exchange[t].at \notin {"idle", "ended"} \/ capture[t] \in {"user", "assistant"}
  /\ exchange' = [t \in Turn |-> IF exchange[t].at = "idle" THEN exchange[t]
                             ELSE [exchange[t] EXCEPT !.at = "ended", !.left = TRUE]]
  /\ capture' = [t \in Turn |-> IF capture[t] = "none" THEN "none" ELSE "over"]
  /\ UNCHANGED <<said, emitted>>

ProxyInit ==
  /\ exchange = [t \in Turn |-> NoTurn] /\ capture = [t \in Turn |-> "none"]
  /\ said = [t \in Turn |-> [user |-> FALSE, reply |-> 0]]
  /\ emitted = [t \in Turn |-> 0]

ProxyNext ==
  \/ \E t \in Turn :
       \/ \E asks, session \in BOOLEAN : Dispatch(t, asks, session)
       \/ Rejects(t) \/ \E good \in BOOLEAN : Connect(t, good)
       \/ Pull(t) \/ Feed(t) \/ UpstreamEnds(t) \/ UpstreamRaises(t)
       \/ Conclude(t) \/ Report(t) \/ Leave(t) \/ AppendTurn(t) \/ AppendFails(t)
  \/ ProxyStops

ProxySpec == ProxyInit /\ [][ProxyNext]_proxyVars

(***************************************************************************)
(* Properties.                                                             *)
(***************************************************************************)

\* A stored reply is a whole answer with a 2xx status, exactly as the client was
\* given it: an answer that broke off, failed or was not read to its end leaves
\* nothing in the conversation.
RepliesWhole ==
  \A t \in Turn : said[t].reply > 0 =>
     exchange[t].good /\ exchange[t].endSent = 2 /\ said[t].reply = exchange[t].sent /\ ~exchange[t].raised

\* A reply is never stored without the message it answers, though a message may
\* be stored whose reply was lost.
AnswersKeepQuestion ==
  \A t \in Turn : said[t].reply > 0 /\ exchange[t].asks => said[t].user

\* Every stream that ends is reported once, unless its client left or the process
\* stopped.
ReportedOnce ==
  \A t \in Turn :
     /\ emitted[t] <= 1
     /\ At_(t, "ended") /\ ~exchange[t].left /\ (exchange[t].fed > 0 \/ exchange[t].raised) => emitted[t] = 1

\* What the conversation store and the event bus may rely on.
TurnsHonest == RepliesWhole /\ AnswersKeepQuestion /\ ReportedOnce
=============================================================================
