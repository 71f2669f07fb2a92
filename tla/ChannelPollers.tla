--------------------------- MODULE ChannelPollers ---------------------------
(***************************************************************************)
(* The channel manager: one poller task per chat connection.  The          *)
(* connection endpoints start, restart and stop pollers as rows change; a  *)
(* poller that crashes releases its place; a periodic sweep stops those    *)
(* whose row is gone or disabled.  Starting is one step of the event loop, *)
(* but stopping first takes the poller off the manager's tables and only   *)
(* then waits for it to end, and a crash is recorded in the database       *)
(* before the tables are cleared, by connection and not by poller.         *)
(*                                                                         *)
(* The connections are those of the default workspace.  The sweep lists no *)
(* others, and would stop the poller of any other connection.              *)
(***************************************************************************)
EXTENDS Naturals, FiniteSets

CONSTANTS
  Channel,     \* connections of category "channel"
  Token,       \* bot tokens, as (connector_type, bot_token)
  Endpoint,    \* requests under way
  Sweeper,     \* the reconcile loop
  Poller,      \* bound: poller tasks alive at once
  NoOne,
  MaxRequests, \* bound: endpoint calls and sweeps
  MaxMishaps   \* bound: crashes, returns, failures, changes behind the API, restarts

ASSUME ChannelAssumption ==
  /\ NoOne \notin Channel \cup Token \cup Poller
  /\ Sweeper \notin Endpoint
  /\ MaxRequests \in Nat /\ MaxMishaps \in Nat

VARIABLES
  rows,     \* connections: [Channel -> "new", "on", "off" or "gone"]
  config,   \* connections.config: [Channel -> Token]
  running,  \* _running and _tasks, which change together: [Channel -> Poller]
  slots,    \* _active_tokens: [Token -> Channel]
  poller,   \* [Poller -> its step, connection and token]
  request,  \* [Endpoint and Sweeper -> step, connection, poller, token, ...]
  drift,    \* ghost: channels whose row and poller nobody has squared since
            \* they were changed behind the API, by two requests, or half way
  stale,    \* ghost: the same, for the configuration a poller runs with
  usurped,  \* ghost: channels with one poller on the tables and another whose
            \* crash is still to be recorded
  channelLeft

channelVars ==
  <<rows, config, running, slots, poller, request, drift, stale,
    usurped, channelLeft>>

Asleep == [at |-> "idle", conn |-> NoOne, victim |-> NoOne, token |-> NoOne,
           next |-> "idle", live |-> {}]
NoPoller == [at |-> "none", conn |-> NoOne, token |-> NoOne]

\* Being stopped by a request.
Awaited(p) == \E h \in DOMAIN request : request[h].victim = p
Handled(c) == \E h \in Endpoint : request[h].conn = c
Sweeping      == request[Sweeper].at # "idle"
Quiet(c)   == ~Handled(c) /\ ~Sweeping

Mishap == channelLeft.mishaps > 0 /\ channelLeft' = [channelLeft EXCEPT !.mishaps = @ - 1]
Arrival == channelLeft.requests > 0 /\ channelLeft' = [channelLeft EXCEPT !.requests = @ - 1]

\* What a step does to the request that takes it.
Turns(h, r) == request' = [request EXCEPT ![h] = r]

\* A request on a channel that another one, or the sweep, is busy with.
Meets(c) ==
  /\ drift' = IF Quiet(c) THEN drift ELSE drift \cup {c}
  /\ stale' = IF Quiet(c) THEN stale ELSE stale \cup {c}

-----------------------------------------------------------------------------
(* ChannelManager.start_channel, which has no await. *)

Free(c, t) == slots[t] \in {NoOne, c}

\* A channel already running is started again (a mutant).
OnlyTaken(c, t) == ~Free(c, t)

\* Already running, or the token is another channel's: a warning and no more.
Refused(c, t) == running[c] # NoOne \/ ~Free(c, t)

Launch(c, t) ==
  /\ ~Refused(c, t)
  /\ slots' = [slots EXCEPT ![t] = c]
  /\ \E p \in Poller :
       /\ poller[p] = NoPoller
       /\ poller' = [poller EXCEPT ![p] = [at |-> "polling", conn |-> c, token |-> t]]
       /\ running' = [running EXCEPT ![c] = p]
  /\ usurped' = IF \E p \in Poller : poller[p].conn = c /\ poller[p].at = "crashing"
                THEN usurped \cup {c} ELSE usurped

\* The constructor raises once the slot is taken; the endpoint only logs it.
LaunchFails(c, t) ==
  /\ ~Refused(c, t)
  /\ slots' = [slots EXCEPT ![t] = c]
  /\ UNCHANGED <<poller, running, usurped>>

Start(h) ==
  LET c == request[h].conn
      t == request[h].token
  IN  /\ request[h].at = "start"
      /\ \/ Refused(c, t) /\ UNCHANGED <<slots, poller, running, usurped, channelLeft>>
         \/ Launch(c, t) /\ UNCHANGED channelLeft
         \/ LaunchFails(c, t) /\ Mishap
      /\ Turns(h, Asleep)
      /\ UNCHANGED <<rows, config, drift, stale>>

-----------------------------------------------------------------------------
(* ChannelManager.stop_channel: off the tables first, then the wait. *)

SlotsWithout(c) == [t \in Token |-> IF slots[t] = c THEN NoOne ELSE slots[t]]

After(r) == IF r.next = "idle" THEN Asleep
            ELSE [r EXCEPT !.at = r.next, !.victim = NoOne]

Pop(h, r, c) ==
  /\ running' = [running EXCEPT ![c] = NoOne]
  /\ slots' = SlotsWithout(c)
  /\ Turns(h, IF running[c] = NoOne THEN After(r)
                ELSE [r EXCEPT !.at = "halt", !.victim = running[c]])

Stop(h) ==
  /\ request[h].at = "stop"
  /\ Pop(h, request[h], request[h].conn)
  /\ UNCHANGED <<rows, config, poller, drift, stale, usurped, channelLeft>>

\* The poller has ended, by itself or cancelled; one that was recording its
\* crash is cut short, and clears the tables all the same.
Halt(h) ==
  LET p == request[h].victim
      c == poller[p].conn
  IN  /\ request[h].at = "halt"
      /\ poller' = [poller EXCEPT ![p] = NoPoller]
      /\ Turns(h, After(request[h]))
      /\ IF poller[p].at = "crashing"
         THEN running' = [running EXCEPT ![c] = NoOne] /\ slots' = SlotsWithout(c)
         ELSE UNCHANGED <<running, slots>>
      /\ UNCHANGED <<rows, config, drift, stale, usurped, channelLeft>>

-----------------------------------------------------------------------------
(* The endpoints. *)

Create(h, c, t) ==
  /\ request[h] = Asleep /\ rows[c] = "new" /\ Arrival
  /\ rows' = [rows EXCEPT ![c] = "on"]
  /\ config' = [config EXCEPT ![c] = t]
  /\ Turns(h, [Asleep EXCEPT !.at = "start", !.conn = c, !.token = t])
  /\ Meets(c)
  /\ UNCHANGED <<running, slots, poller, usurped>>

\* enabled = false stops; anything else restarts a channel that is enabled.
Disable(h, c) ==
  /\ request[h] = Asleep /\ rows[c] \in {"on", "off"} /\ Arrival
  /\ rows' = [rows EXCEPT ![c] = "off"]
  /\ Turns(h, [Asleep EXCEPT !.at = "stop", !.conn = c])
  /\ Meets(c)
  /\ UNCHANGED <<config, running, slots, poller, usurped>>

\* A disabled row whose configuration alone is changed keeps its poller off; it
\* is not a request of its own here.
Reconfigure(h, c, t) ==
  /\ request[h] = Asleep /\ rows[c] \in {"on", "off"} /\ Arrival
  /\ rows' = [rows EXCEPT ![c] = "on"]
  /\ config' = [config EXCEPT ![c] = t]
  /\ Turns(h, [Asleep EXCEPT !.at = "read", !.conn = c])
  /\ Meets(c)
  /\ UNCHANGED <<running, slots, poller, usurped>>

\* get_connection_decrypted: no row, no restart.
Read(h) ==
  LET c == request[h].conn
  IN  /\ request[h].at = "read"
      /\ Turns(h, IF rows[c] = "gone" THEN Asleep
                    ELSE [request[h] EXCEPT !.at = "stop", !.next = "start", !.token = config[c]])
      /\ UNCHANGED <<rows, config, running, slots, poller, drift, stale, usurped, channelLeft>>

Delete(h, c) ==
  /\ request[h] = Asleep /\ rows[c] \in {"on", "off"} /\ Arrival
  /\ Turns(h, [Asleep EXCEPT !.at = "stop", !.conn = c, !.next = "erase"])
  /\ Meets(c)
  /\ UNCHANGED <<rows, config, running, slots, poller, usurped>>

Erase(h) ==
  /\ request[h].at = "erase"
  /\ rows' = [rows EXCEPT ![request[h].conn] = "gone"]
  /\ Turns(h, Asleep)
  /\ UNCHANGED <<config, running, slots, poller, drift, stale, usurped, channelLeft>>

\* The database fails the request after its first statement.
Abort(h) ==
  /\ request[h].at \in {"read", "erase"} /\ Mishap
  /\ drift' = drift \cup {request[h].conn}
  /\ stale' = stale \cup {request[h].conn}
  /\ Turns(h, Asleep)
  /\ UNCHANGED <<rows, config, running, slots, poller, usurped>>

-----------------------------------------------------------------------------
(* Pollers. *)

Crash(p) ==
  /\ poller[p].at = "polling" /\ Mishap
  /\ poller' = [poller EXCEPT ![p].at = "crashing"]
  /\ usurped' = IF running[poller[p].conn] \in {p, NoOne} THEN usurped
                ELSE usurped \cup {poller[p].conn}
  /\ UNCHANGED <<rows, config, running, slots, request, drift, stale>>

\* start() comes back although nobody stopped it: the task ends, and its place
\* on the tables stays taken.
Return(p) ==
  /\ poller[p].at = "polling" /\ Mishap
  /\ poller' = [poller EXCEPT ![p].at = "returned"]
  /\ UNCHANGED <<rows, config, running, slots, request, drift, stale, usurped>>

\* _handle_channel_crash: whether or not the status was written.
RecordCrash(p) ==
  LET c == poller[p].conn
  IN  /\ poller[p].at = "crashing"
      /\ running' = [running EXCEPT ![c] = NoOne]
      /\ slots' = SlotsWithout(c)
      /\ poller' = [poller EXCEPT ![p] = IF Awaited(p) THEN [@ EXCEPT !.at = "returned"]
                                         ELSE NoPoller]
      /\ UNCHANGED <<rows, config, request, drift, stale, usurped, channelLeft>>

-----------------------------------------------------------------------------
(* reconcile_once, and what it is there for. *)

\* A row deleted or disabled by a script.
BehindTheApi(c, s) ==
  /\ rows[c] \in {"on", "off"} /\ s \in {"off", "gone"} /\ Mishap
  /\ rows' = [rows EXCEPT ![c] = s]
  /\ drift' = drift \cup {c}
  /\ stale' = IF Quiet(c) THEN stale ELSE stale \cup {c}
  /\ UNCHANGED <<config, running, slots, poller, request, usurped>>

\* Disabled rows taken for live ones (a mutant).
Present == {c \in Channel : rows[c] \in {"on", "off"}}

On == {c \in Channel : rows[c] = "on"}

SweepLists ==
  /\ request[Sweeper] = Asleep /\ Arrival
  /\ \E c \in Channel : running[c] # NoOne
  /\ Turns(Sweeper, [Asleep EXCEPT !.at = "look", !.live = On])
  /\ drift' = {c \in drift : Handled(c)}
  /\ UNCHANGED <<rows, config, running, slots, poller, stale, usurped>>

\* The rows were read before, the table is read now.
SweepStops ==
  LET r == request[Sweeper]
      orphans == {c \in Channel : running[c] # NoOne} \ r.live
  IN  /\ r.at = "look"
      /\ \/ /\ orphans = {} /\ Turns(Sweeper, Asleep)
            /\ UNCHANGED <<running, slots>>
         \/ \E c \in orphans : Pop(Sweeper, [r EXCEPT !.next = "look"], c)
      /\ UNCHANGED <<rows, config, poller, drift, stale, usurped, channelLeft>>

\* The process restarts: start_channels_from_db starts the enabled rows, the
\* first of each token.
Reboot ==
  /\ Mishap
  /\ \E first \in SUBSET On :
       \E run \in [first -> Poller] :
         /\ \A c \in On : \E d \in first : config[d] = config[c]
         /\ \A c, d \in first : c # d => config[c] # config[d] /\ run[c] # run[d]
         /\ running' = [c \in Channel |-> IF c \in first THEN run[c] ELSE NoOne]
         /\ poller' = [p \in Poller |->
              IF \E c \in first : run[c] = p
              THEN LET c == CHOOSE d \in first : run[d] = p
                   IN  [at |-> "polling", conn |-> c, token |-> config[c]]
              ELSE NoPoller]
         /\ slots' = [t \in Token |->
              IF \E c \in first : config[c] = t
              THEN CHOOSE c \in first : config[c] = t ELSE NoOne]
  /\ request' = [h \in DOMAIN request |-> Asleep]
  /\ drift' = {} /\ stale' = {} /\ usurped' = {}
  /\ UNCHANGED <<rows, config>>

-----------------------------------------------------------------------------
ChannelInitWith(requests, mishaps) ==
  /\ rows = [c \in Channel |-> "new"]
  /\ config = [c \in Channel |-> NoOne]
  /\ running = [c \in Channel |-> NoOne]
  /\ slots = [t \in Token |-> NoOne]
  /\ poller = [p \in Poller |-> NoPoller]
  /\ request = [h \in Endpoint \cup {Sweeper} |-> Asleep]
  /\ drift = {} /\ stale = {} /\ usurped = {}
  /\ channelLeft = [requests |-> requests, mishaps |-> mishaps]

ChannelInit == ChannelInitWith(MaxRequests, MaxMishaps)

EndpointStep(h) ==
  \/ \E c \in Channel, t \in Token : Create(h, c, t) \/ Reconfigure(h, c, t)
  \/ \E c \in Channel : Disable(h, c) \/ Delete(h, c)
  \/ Start(h) \/ Stop(h) \/ Read(h) \/ Erase(h) \/ Abort(h)

ChannelNext ==
  \/ \E h \in Endpoint : EndpointStep(h)
  \/ \E h \in Endpoint \cup {Sweeper} : Halt(h)
  \/ \E p \in Poller : Crash(p) \/ Return(p) \/ RecordCrash(p)
  \/ \E c \in Channel, s \in {"off", "gone"} : BehindTheApi(c, s)
  \/ SweepLists \/ SweepStops \/ Reboot

ChannelSpec == ChannelInit /\ [][ChannelNext]_channelVars

(***************************************************************************)
(* Properties.                                                             *)
(***************************************************************************)

\* Two pollers on the tables never poll with the same bot token, and the token
\* of each is booked for its connection.
TokensApart ==
  \A c \in Channel : running[c] # NoOne =>
     /\ poller[running[c]].conn = c
     /\ slots[poller[running[c]].token] = c
     /\ \A d \in Channel \ {c} : running[d] # NoOne =>
          poller[running[d]].token # poller[running[c]].token

\* A poller that polls can be stopped: it is on the tables under its connection,
\* or a request is stopping it.  The exception is a connection started again
\* before the crash of its last poller was recorded: the tables are cleared by
\* connection, so the new poller falls off them and runs on.
PollersReachable ==
  \A p \in Poller : poller[p].at = "polling" =>
     running[poller[p].conn] = p \/ Awaited(p) \/ poller[p].conn \in usurped

\* No two pollers of one token that the manager knows of, and none it does not
\* know of.
PollersAccounted == TokensApart /\ PollersReachable

\* Between requests, a connection with a poller has an enabled row and polls with
\* the row's token.  A change behind the API, two requests on the same
\* connection or one that failed half way can leave it otherwise; the next sweep
\* then squares the poller with the row, but does not compare the tokens.
RowsObeyed ==
  \A c \in Channel : Quiet(c) /\ running[c] # NoOne =>
     /\ c \notin drift => rows[c] = "on"
     /\ c \notin stale => poller[running[c]].token = config[c]

\* The pollers, the manager's tables and the rows of the connections agree.
ChannelsSound == PollersAccounted /\ RowsObeyed
=============================================================================
