------------------------------- MODULE HotDesk -------------------------------
(***************************************************************************)
(* Clients connecting to one wrsrvd and moving between terminals: the      *)
(* network thread (network.rs, server_loop and serve_client) and the       *)
(* compositor thread (backend/headless.rs, drain_network_events), joined   *)
(* by a FIFO channel, on top of the session registry.                      *)
(*                                                                         *)
(* The network thread serves one connection at a time; a newcomer preempts *)
(* the one being served.  It tells the compositor of a connection and      *)
(* waits, up to a timeout, for the decision; the compositor answers when   *)
(* its loop gets to the message, which may be after the connection has     *)
(* been given up.  The sessions are kept in memory here (the NullStore):   *)
(* SessionRegistry covers persistence and restarts.                        *)
(***************************************************************************)
EXTENDS SessionRegistry

CONSTANTS
  Conns,       \* client connections; each connects once
  NoConn,      \* no connection
  Clustered,   \* whether peers are configured, so clients may be redirected
  MaxInput     \* bound: input messages in the channel at a time

ASSUME HotDeskAssumption ==
  NoConn \notin Conns \cup Tokens /\ Clustered \in BOOLEAN /\ MaxInput \in Nat

VARIABLES
  token_of,         \* token in each connection's ClientHello (NoConn: not here yet)
  waiting,          \* connections routed to the server loop (client_rx)
  pc,               \* where the server loop is: idle, starting, binding, relaying
  cur,              \* the connection being served
  hello,            \* session id in the ServerHello sent to cur (0: none)
  channel,          \* NetToCompositor messages, oldest first
  reply,            \* the ConnectDecision sent back for each connection
  active_session,   \* CalloopData.active_session (0: None)
  client_connected, \* CalloopData.client_connected
  client_addr,      \* CalloopData.connected_client_addr
  keys_down         \* connection whose key presses the keyboard still holds

netVars  == <<waiting, pc, cur, hello>>
compVars == <<active_session, client_connected, client_addr, keys_down>>
allVars  == <<vars, token_of, netVars, channel, reply, compVars>>

Connected(c) == [msg |-> "connected", conn |-> c]
Input(c)     == [msg |-> "input", conn |-> c]
Disconnected == [msg |-> "disconnected", conn |-> NoConn]

Undecided   == [decision |-> "none"]
Bind(id)    == [decision |-> "bind", id |-> id]
Redirected  == [decision |-> "redirect"]

(***************************************************************************)
(* The network thread.                                                     *)
(***************************************************************************)

\* A client of a compatible version is classified and routed to the server
\* loop.  A hello without a token gets a random one from the compositor,
\* which is a token no other connection ever presents.
Arrive(c, t) ==
  /\ token_of[c] = NoConn
  /\ token_of' = [token_of EXCEPT ![c] = t]
  /\ waiting' = Append(waiting, c)
  /\ UNCHANGED <<vars, pc, cur, hello, channel, reply, compVars>>

\* The idle loop takes the next client.  Its serve_client future exists but
\* has not been polled: nothing has been sent to the compositor.
TakeClient ==
  /\ pc = "idle" /\ waiting # <<>>
  /\ pc' = "starting" /\ cur' = Head(waiting) /\ waiting' = Tail(waiting)
  /\ UNCHANGED <<vars, token_of, hello, channel, reply, compVars>>

\* First poll of serve_client: announce the client and wait for the decision.
Announce ==
  /\ pc = "starting"
  /\ pc' = "binding"
  /\ channel' = Append(channel, Connected(cur))
  /\ UNCHANGED <<vars, token_of, waiting, cur, hello, reply, compVars>>

\* Mutant: one reply channel for all connections, so a late decision for an
\* earlier one is taken for this one's.
GreetAny ==
  /\ pc = "binding"
  /\ \E c \in Conns : reply[c].decision = "bind" /\ hello' = reply[c].id
  /\ pc' = "relaying"
  /\ UNCHANGED <<vars, token_of, waiting, cur, channel, reply, compVars>>

\* The decision arrived: a binding.  ServerHello carries its session id.
Greet ==
  /\ pc = "binding" /\ reply[cur].decision = "bind"
  /\ pc' = "relaying" /\ hello' = reply[cur].id
  /\ UNCHANGED <<vars, token_of, waiting, cur, channel, reply, compVars>>

\* Mutant: the compositor is told of the end only if the client was greeted.
EndSilently ==
  /\ pc \in {"binding", "relaying"}
  /\ pc' = "idle" /\ cur' = NoConn /\ hello' = 0
  /\ channel' = IF pc = "relaying" THEN Append(channel, Disconnected) ELSE channel
  /\ UNCHANGED <<vars, token_of, waiting, reply, compVars>>

\* serve_client returns: redirect sent, decision timed out, ServerHello not
\* written, stream error or clean end.  The compositor is told in every case.
ServeEnds ==
  /\ pc \in {"binding", "relaying"}
  /\ pc' = "idle" /\ cur' = NoConn /\ hello' = 0
  /\ channel' = Append(channel, Disconnected)
  /\ UNCHANGED <<vars, token_of, waiting, reply, compVars>>

\* A newcomer preempts the client being served, even one whose serve_client
\* has not been polled yet (select! polls its branches in random order).
Preempt ==
  /\ pc # "idle" /\ waiting # <<>>
  /\ channel' = Append(channel, Disconnected)
  /\ pc' = "starting" /\ cur' = Head(waiting) /\ waiting' = Tail(waiting) /\ hello' = 0
  /\ UNCHANGED <<vars, token_of, reply, compVars>>

\* The relay loop forwards a key press of the client.
RelayInput ==
  /\ pc = "relaying"
  /\ Cardinality({ k \in DOMAIN channel : channel[k].msg = "input" }) < MaxInput
  /\ channel' = Append(channel, Input(cur))
  /\ UNCHANGED <<vars, token_of, netVars, reply, compVars>>

(***************************************************************************)
(* The compositor thread: one message of drain_network_events per step.    *)
(***************************************************************************)
Receive(msg) == channel # <<>> /\ Head(channel).msg = msg /\ channel' = Tail(channel)

\* The registry part of binding: resume, rebind as it is, or create.
Resolve(t) ==
  IF ~ is_resumable(t) THEN CreateSession(t)
  ELSE IF sessions[token_index[t]].state = "suspended" THEN Resume(t)
  ELSE UNCHANGED vars

HandleConnected ==
  /\ Receive("connected")
  /\ LET c == Head(channel).conn
         t == token_of[c]
     IN /\ Resolve(t)
        /\ active_session' = token_index'[t]
        /\ client_addr' = c
        /\ reply' = [reply EXCEPT ![c] = Bind(token_index'[t])]
  /\ client_connected' = TRUE
  /\ UNCHANGED <<token_of, netVars, keys_down>>

\* A token with no session here: a peer claims it.  The client is
\* sent there and no local session state is touched.
HandleRedirect ==
  /\ Clustered
  /\ Receive("connected")
  /\ token_of[Head(channel).conn] \notin DOMAIN token_index
  /\ reply' = [reply EXCEPT ![Head(channel).conn] = Redirected]
  /\ UNCHANGED <<vars, token_of, netVars, compVars>>

\* Mutant: held keys are not released.
DisconnectHoldingKeys ==
  /\ Receive("disconnected")
  /\ IF active_session \in DOMAIN sessions /\ sessions[active_session].state = "active"
     THEN Suspend(active_session) ELSE UNCHANGED vars
  /\ active_session' = 0 /\ client_connected' = FALSE /\ client_addr' = NoConn
  /\ UNCHANGED <<token_of, netVars, reply, keys_down>>

\* Mutant: the session is unbound and not suspended.
DisconnectUnsuspended ==
  /\ Receive("disconnected")
  /\ keys_down' = NoConn
  /\ active_session' = 0 /\ client_connected' = FALSE /\ client_addr' = NoConn
  /\ UNCHANGED <<vars, token_of, netVars, reply>>

HandleDisconnected ==
  /\ Receive("disconnected")
  /\ keys_down' = NoConn
  /\ IF active_session \in DOMAIN sessions /\ sessions[active_session].state = "active"
     THEN Suspend(active_session) ELSE UNCHANGED vars
  /\ active_session' = 0 /\ client_connected' = FALSE /\ client_addr' = NoConn
  /\ UNCHANGED <<token_of, netVars, reply>>

HandleInput ==
  /\ Receive("input")
  /\ keys_down' = Head(channel).conn
  /\ UNCHANGED <<vars, token_of, netVars, reply, active_session, client_connected, client_addr>>

Housekeeping ==
  /\ Tick \/ CleanupExpired
  /\ UNCHANGED <<token_of, netVars, channel, reply, compVars>>

-----------------------------------------------------------------------------
NobodyYet ==
  /\ token_of = [c \in Conns |-> NoConn]
  /\ waiting = <<>> /\ pc = "idle" /\ cur = NoConn /\ hello = 0
  /\ channel = <<>> /\ reply = [c \in Conns |-> Undecided]
  /\ active_session = 0 /\ client_connected = FALSE
  /\ client_addr = NoConn /\ keys_down = NoConn

HotDeskInit == Init /\ store = "null" /\ NobodyYet

Network == TakeClient \/ Announce \/ Greet \/ ServeEnds \/ Preempt \/ RelayInput

Compositor == HandleConnected \/ HandleRedirect \/ HandleDisconnected \/ HandleInput

HotDeskNext ==
  \/ \E c \in Conns, t \in Tokens : Arrive(c, t)
  \/ Network
  \/ Compositor
  \/ Housekeeping

HotDeskSpec == HotDeskInit /\ [][HotDeskNext]_allVars

\* The compositor's loop drains its channel on every turn.  Nothing is assumed
\* of clients, nor of the network thread.
HotDeskFairSpec == HotDeskSpec /\ WF_allVars(Compositor)

-----------------------------------------------------------------------------
\* The session of a token as one who hot-desks sees it.
DeskSession(t) ==
  IF t \notin DOMAIN token_index THEN "none"
  ELSE IF sessions[token_index[t]].state = "active" THEN "here" ELSE "away"

Abstract == INSTANCE Desk WITH
  Clients <- Conns, Nobody <- NoConn,
  at <- client_addr, keys <- keys_down, session <- [t \in Tokens |-> DeskSession(t)]

\* The two threads with their channel, preemptions, timeouts and late decisions
\* implement one desk that is used by one client at a time.
OneDesk == Abstract!DeskSpec

Active == { id \in DOMAIN sessions : sessions[id].state = "active" }

\* Type invariant of the two threads' own state.
HotDeskTypeOK ==
  /\ TypeOK
  /\ token_of \in [Conns -> Tokens \cup {NoConn}]
  /\ waiting \in Seq(Conns)
  /\ pc \in {"idle", "starting", "binding", "relaying"}
  /\ cur \in Conns \cup {NoConn}
  /\ (pc = "idle") <=> (cur = NoConn)
  /\ hello \in Nat
  /\ channel \in Seq([msg : {"connected", "input"}, conn : Conns] \cup {Disconnected})
  /\ reply \in [Conns -> {Undecided, Redirected} \cup [decision : {"bind"}, id : Nat \ {0}]]
  /\ active_session \in Nat
  /\ client_connected \in BOOLEAN
  /\ client_addr \in Conns \cup {NoConn}
  /\ keys_down \in Conns \cup {NoConn}

\* Every Active session is the one bound to the connected client.  An Active
\* session left behind by a preemption or a late decision would never expire
\* (only Suspended sessions do) and would count as load for ever.  When nobody
\* is served any more, the last thing the compositor was told is to let go.
ActiveIsBound ==
  /\ Active \subseteq {active_session}
  /\ active_session # 0 => active_session \in Active
  /\ client_connected <=> active_session # 0
  /\ pc = "idle" /\ Active # {} => channel # <<>> /\ channel[Len(channel)] = Disconnected

\* While a client is being relayed, the compositor is bound to that client and
\* to the session of the token it presented, the one its ServerHello named.
RelayedIsBound ==
  pc = "relaying" =>
    /\ client_addr = cur /\ active_session = hello
    /\ hello \in DOMAIN sessions
    /\ sessions[hello].token = token_of[cur]

\* Once every connection is over, the last session does get suspended, so that
\* its timeout runs: no decision answered late leaves it Active.
AbandonedIsSuspended ==
  (pc = "idle" /\ waiting = <<>> /\ \A c \in Conns : token_of[c] # NoConn)
    ~> (Active = {})
=============================================================================
