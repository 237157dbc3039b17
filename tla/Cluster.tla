------------------------------- MODULE Cluster -------------------------------
(***************************************************************************)
(* Several wrsrvd servers and the clients that look for their session on   *)
(* them.  The module follows ONE session token: where it has a session,    *)
(* which servers tell their peers so, and how wrclient gets to it          *)
(* (main.rs, connect_following_redirects and the reconnect loop; the       *)
(* server's part is backend/headless.rs and network.rs).                   *)
(*                                                                         *)
(* A server answers a peer's lookup from a published token set, not from   *)
(* its registry, and remembers for a while where a peer said a token       *)
(* lives: both may be stale.  Load balancing is left out: a server binds   *)
(* one client at a time and asks for its load only when none is bound, so  *)
(* its load is 0 and never above the threshold.                            *)
(***************************************************************************)
EXTENDS Integers, Sequences, FiniteSets

CONSTANTS
  Servers, NoServer,
  Clients, NoClient,   \* clients that all present the token
  OldClients,          \* those whose protocol version no server supports
  Candidates,          \* a client's list of servers, in the order it tries them
  MaxRedirects,        \* MAX_REDIRECTS
  MaxFaults,           \* bound: probes lost and connections given up unanswered
  MaxCrashes,          \* bound: server crashes
  MaxInbox             \* bound: messages a server leaves unread while clients dial

ASSUME ClusterAssumption ==
  /\ NoServer \notin Servers /\ NoClient \notin Clients
  /\ OldClients \subseteq Clients
  /\ Candidates \in Seq(Servers) /\ Candidates # <<>>
  /\ MaxRedirects \in Nat /\ MaxFaults \in Nat /\ MaxCrashes \in Nat /\ MaxInbox \in Nat

VARIABLES
  session,     \* state of the token's session on each server, or "none"
  published,   \* whether a server's published token set holds the token
  remote,      \* the peer a server remembers as the token's home
  inbox,       \* NetToCompositor messages of each server
  denied,      \* peers that a server's lookup under way has asked in vain
  serving,     \* client whose connection each network thread holds
  up,          \* whether a server runs
  phase,       \* where each client is
  at,          \* server a client talks to, or is about to
  cand, hop,   \* candidate being tried, redirects followed from it
  first,       \* first_attempt: the client has never been connected
  answer,      \* the decision under way to a client
  faults, crashes,
  unlisted     \* servers that give peers an id no cluster configuration lists

serverVars  == <<session, published, remote, inbox, denied, serving, up>>
clientVars  == <<phase, at, cand, hop, first, answer>>
runVars     == <<serverVars, clientVars, faults, crashes>>   \* what moves
clusterVars == <<runVars, unlisted>>

Connected(c) == [msg |-> "connected", client |-> c]
Disconnected == [msg |-> "disconnected"]

Unanswered  == [decision |-> "none"]
Bound       == [decision |-> "bind"]
Redirect(s) == [decision |-> "redirect", server |-> s]

peers(s) == Servers \ {s}

(***************************************************************************)
(* Client bookkeeping.  Each operator gives the next values of a client's  *)
(* variables; c is the only client that moves.                             *)
(***************************************************************************)

\* Go on with candidate i, from the start of its redirect chain.
TryCandidate(c, i) ==
  /\ phase' = [phase EXCEPT ![c] = "dialing"]
  /\ at' = [at EXCEPT ![c] = Candidates[i]]
  /\ cand' = [cand EXCEPT ![c] = i] /\ hop' = [hop EXCEPT ![c] = 0]
  /\ answer' = [answer EXCEPT ![c] = Unanswered]
  /\ UNCHANGED first

\* The candidates are used up: fatal on the very first attempt, otherwise the
\* caller backs off and starts over.
Exhausted(c) ==
  /\ phase' = [phase EXCEPT ![c] = IF first[c] THEN "stopped" ELSE "backoff"]
  /\ answer' = [answer EXCEPT ![c] = Unanswered]
  /\ UNCHANGED <<at, cand, hop, first>>

\* A transport error, or a redirect that is not followed.
NextCandidate(c) == IF cand[c] < Len(Candidates) THEN TryCandidate(c, cand[c] + 1)
                                                 ELSE Exhausted(c)

\* An established session breaks: sleep, then the whole list again.
SessionLost(c) ==
  /\ phase' = [phase EXCEPT ![c] = "backoff"]
  /\ answer' = [answer EXCEPT ![c] = Unanswered]
  /\ UNCHANGED <<at, cand, hop, first>>

\* The connection s holds is the one its client is using.
Holds(s, c) == serving[s] = c /\ at[c] = s /\ phase[c] \in {"awaiting", "connected"}

\* What the end of the connection that s holds means to its client.
LoseClientOf(s) ==
  IF serving[s] \in Clients /\ Holds(s, serving[s])
  THEN IF phase[serving[s]] = "connected" THEN SessionLost(serving[s])
                                          ELSE NextCandidate(serving[s])
  ELSE UNCHANGED clientVars

(***************************************************************************)
(* Clients.                                                                *)
(***************************************************************************)
Start(c) ==
  /\ phase[c] = "idle"
  /\ TryCandidate(c, 1)
  /\ UNCHANGED <<serverVars, faults, crashes>>

\* The sleep between two rounds is over.
Backoff(c) ==
  /\ phase[c] = "backoff"
  /\ TryCandidate(c, 1)
  /\ UNCHANGED <<serverVars, faults, crashes>>

\* Nobody listens: a transport error.
DialFails(c) ==
  /\ phase[c] = "dialing" /\ ~ up[at[c]]
  /\ NextCandidate(c)
  /\ UNCHANGED <<serverVars, faults, crashes>>

\* The classifier refuses the version before routing the client anywhere; the
\* typed rejection is fatal to the client.
Reject(c) ==
  /\ phase[c] = "dialing" /\ up[at[c]] /\ c \in OldClients
  /\ phase' = [phase EXCEPT ![c] = "stopped"]
  /\ UNCHANGED <<serverVars, at, cand, hop, first, answer, faults, crashes>>

\* The hello reaches the server loop, which drops the client it was serving.
\* (A client that is dropped cannot move in the same step as the dialler, so
\* it learns of it by Dropped below.)
Dial(c) ==
  /\ phase[c] = "dialing" /\ up[at[c]] /\ c \notin OldClients
  /\ LET s == at[c]
     IN /\ Len(inbox[s]) < MaxInbox
        /\ inbox' = [inbox EXCEPT ![s] =
             @ \o IF serving[s] = NoClient THEN <<Connected(c)>>
                                           ELSE <<Disconnected, Connected(c)>>]
        /\ serving' = [serving EXCEPT ![s] = c]
  /\ phase' = [phase EXCEPT ![c] = "awaiting"]
  /\ UNCHANGED <<session, published, remote, denied, up, at, cand, hop, first, answer, faults, crashes>>

\* A client finds its connection closed: preempted, or lost on its own side
\* while the server still believes in it.
Dropped(c) ==
  /\ \/ phase[c] = "connected" /\ SessionLost(c)
     \/ phase[c] = "awaiting" /\ ~ Holds(at[c], c) /\ NextCandidate(c)
  /\ UNCHANGED <<serverVars, faults, crashes>>

(***************************************************************************)
(* Servers.                                                                *)
(***************************************************************************)
Publish(s) == published' = [published EXCEPT ![s] = session'[s] # "none"]

\* The message being handled stays at the head until its handler is through.
Waiting(s, msg) == up[s] /\ inbox[s] # <<>> /\ Head(inbox[s]).msg = msg
Receive(s, msg) == Waiting(s, msg) /\ inbox' = [inbox EXCEPT ![s] = Tail(@)]

\* The decision goes to the connection it was made for, if that still waits.
Reply(s, decision) ==
  LET c == Head(inbox[s]).client
  IN answer' = [answer EXCEPT ![c] =
       IF Holds(s, c) /\ Disconnected \notin { Tail(inbox[s])[i] : i \in DOMAIN Tail(inbox[s]) }
       THEN decision ELSE @]

\* Mutant: the session is not published.
BindUnpublished(s) ==
  /\ session' = [session EXCEPT ![s] = "active"]
  /\ UNCHANGED published
  /\ Reply(s, Bound)

\* The session is handed to the client, and this server's peers are told so.
Bind(s) ==
  /\ session' = [session EXCEPT ![s] = "active"]
  /\ Publish(s)
  /\ Reply(s, Bound)

\* There is a session here: the client gets it.
Resume(s) == Bind(s) /\ UNCHANGED remote

\* Mutant: the home that was looked up stays remembered.
CreateRemembering(s, home) == Bind(s) /\ remote' = [remote EXCEPT ![s] = home]

\* create_session: the token is no longer anybody else's, whatever home the
\* lookup named.
Create(s, home) == Bind(s) /\ remote' = [remote EXCEPT ![s] = NoServer]

\* The home is remembered and the client sent there.
SendHome(s, home) ==
  /\ remote' = [remote EXCEPT ![s] = home]
  /\ Reply(s, Redirect(home))
  /\ UNCHANGED <<session, published>>

\* What a peer answers: the network thread looks the token up in the published
\* set, also while the peer's own loop is busy.
Hosts(p) == up[p] /\ published[p]

\* The home that the lookups come to: the one remembered, or a peer that hosts
\* the token and answers discover_remote_home in time, or none when all were
\* asked.  The loop waits for the answers, one after the other.
Locates(s, home) ==
  \/ remote[s] # NoServer /\ home = remote[s]
  \/ remote[s] = NoServer /\ home \in peers(s) \ denied[s] /\ Hosts(home)
  \/ remote[s] = NoServer /\ home = NoServer /\ denied[s] = peers(s)

\* One that has nothing, or whose answer does not come in time, is passed over.
\* Meanwhile everybody else goes on.
PassOver(s) ==
  /\ Waiting(s, "connected") /\ session[s] = "none" /\ remote[s] = NoServer
  /\ \E p \in peers(s) \ denied[s] :
       /\ denied' = [denied EXCEPT ![s] = @ \cup {p}]
       /\ \/ ~ Hosts(p) /\ UNCHANGED faults
          \/ Hosts(p) /\ faults < MaxFaults /\ faults' = faults + 1
  /\ UNCHANGED <<session, published, remote, inbox, serving, up, clientVars, crashes>>

\* The lookups in their order: own registry, remembered home, peers.  A home
\* whose address is not configured is of no use: the session is created here.
Decide(s) ==
  /\ Receive(s, "connected")
  /\ denied' = [denied EXCEPT ![s] = {}]
  /\ \/ session[s] # "none" /\ Resume(s)
     \/ /\ session[s] = "none"
        /\ \E home \in Servers \cup {NoServer} :
             /\ Locates(s, home)
             /\ \/ home \in Servers \ unlisted /\ SendHome(s, home)
                \/ home \notin Servers \ unlisted /\ Create(s, home)
  /\ UNCHANGED <<serving, up, phase, at, cand, hop, first, faults, crashes>>

HandleConnected(s) == PassOver(s) \/ Decide(s)

\* Mutant: only a session in use is published.
DisconnectUnpublishes(s) ==
  /\ Receive(s, "disconnected")
  /\ session' = [session EXCEPT ![s] = IF @ = "active" THEN "suspended" ELSE @]
  /\ published' = [published EXCEPT ![s] = FALSE]
  /\ UNCHANGED <<remote, denied, serving, up, clientVars, faults, crashes>>

HandleDisconnected(s) ==
  /\ Receive(s, "disconnected")
  /\ session' = [session EXCEPT ![s] = IF @ = "active" THEN "suspended" ELSE @]
  /\ Publish(s)
  /\ UNCHANGED <<remote, denied, serving, up, clientVars, faults, crashes>>

\* The network thread passes a decision on: ServerHello.
Greet(s) ==
  /\ LET c == serving[s]
     IN /\ c # NoClient /\ Holds(s, c) /\ phase[c] = "awaiting" /\ answer[c] = Bound
        /\ phase' = [phase EXCEPT ![c] = "connected"]
        /\ first' = [first EXCEPT ![c] = FALSE]
        /\ answer' = [answer EXCEPT ![c] = Unanswered]
  /\ UNCHANGED <<serverVars, at, cand, hop, faults, crashes>>

\* SessionRedirect is sent and the connection ends.  The client follows it up
\* to the limit, and only to servers of its own list.
FollowRedirect(s) ==
  /\ LET c == serving[s]
     IN /\ c # NoClient /\ Holds(s, c) /\ answer[c].decision = "redirect"
        /\ IF hop[c] < MaxRedirects /\ \E i \in DOMAIN Candidates : Candidates[i] = answer[c].server
           THEN /\ at' = [at EXCEPT ![c] = answer[c].server]
                /\ hop' = [hop EXCEPT ![c] = @ + 1]
                /\ phase' = [phase EXCEPT ![c] = "dialing"]
                /\ answer' = [answer EXCEPT ![c] = Unanswered]
                /\ UNCHANGED <<cand, first>>
           ELSE NextCandidate(c)
  /\ serving' = [serving EXCEPT ![s] = NoClient]
  /\ inbox' = [inbox EXCEPT ![s] = Append(@, Disconnected)]
  /\ UNCHANGED <<session, published, remote, denied, up, faults, crashes>>

\* The connection ends unanswered: the decision took too long.
GiveUp(s) ==
  /\ serving[s] # NoClient /\ Holds(s, serving[s]) /\ phase[serving[s]] = "awaiting"
  /\ faults < MaxFaults
  /\ faults' = faults + 1
  /\ NextCandidate(serving[s])
  /\ serving' = [serving EXCEPT ![s] = NoClient]
  /\ inbox' = [inbox EXCEPT ![s] = Append(@, Disconnected)]
  /\ UNCHANGED <<session, published, remote, denied, up, crashes>>

\* The connection ends, or the server notices at last that it has.
ServeEnds(s) ==
  /\ serving[s] # NoClient
  /\ ~ (Holds(s, serving[s]) /\ phase[serving[s]] = "awaiting")
  /\ LoseClientOf(s)
  /\ serving' = [serving EXCEPT ![s] = NoClient]
  /\ inbox' = [inbox EXCEPT ![s] = Append(@, Disconnected)]
  /\ UNCHANGED <<session, published, remote, denied, up, faults, crashes>>

\* The sweep destroys an expired session.  The token set is not published.
Sweep(s) ==
  /\ up[s] /\ session[s] = "suspended"
  /\ session' = [session EXCEPT ![s] = "none"]
  /\ UNCHANGED <<published, remote, inbox, denied, serving, up, clientVars, faults, crashes>>

\* Mutant: what a peer said once is believed for ever.
RemembersForever(s) == FALSE /\ UNCHANGED clusterVars

\* REMOTE_SESSION_TTL: a remembered home is forgotten.
ForgetRemote(s) ==
  /\ remote[s] # NoServer
  /\ remote' = [remote EXCEPT ![s] = NoServer]
  /\ UNCHANGED <<session, published, inbox, denied, serving, up, clientVars, faults, crashes>>

\* A server dies.  Its session comes back suspended if it was in the database.
Crash(s) ==
  /\ up[s] /\ crashes < MaxCrashes
  /\ crashes' = crashes + 1
  /\ up' = [up EXCEPT ![s] = FALSE]
  /\ \E back \in {"none", IF session[s] = "none" THEN "none" ELSE "suspended"} :
       session' = [session EXCEPT ![s] = back]
  /\ published' = [published EXCEPT ![s] = FALSE]
  /\ remote' = [remote EXCEPT ![s] = NoServer]
  /\ inbox' = [inbox EXCEPT ![s] = <<>>] /\ denied' = [denied EXCEPT ![s] = {}]
  /\ LoseClientOf(s)
  /\ serving' = [serving EXCEPT ![s] = NoClient]
  /\ UNCHANGED faults

\* It starts again and restores; nothing is published before a client comes.
Restart(s) ==
  /\ ~ up[s]
  /\ up' = [up EXCEPT ![s] = TRUE]
  /\ UNCHANGED <<session, published, remote, inbox, denied, serving, clientVars, faults, crashes>>

-----------------------------------------------------------------------------
\* The token's session, if there is one, was left on some server.
ClusterInit ==
  /\ \E home \in Servers \cup {NoServer} :
       /\ session = [s \in Servers |-> IF s = home THEN "suspended" ELSE "none"]
       /\ published = [s \in Servers |-> s = home]
  /\ remote = [s \in Servers |-> NoServer]
  /\ inbox = [s \in Servers |-> <<>>] /\ denied = [s \in Servers |-> {}]
  /\ serving = [s \in Servers |-> NoClient]
  /\ up = [s \in Servers |-> TRUE]
  /\ phase = [c \in Clients |-> "idle"] /\ at = [c \in Clients |-> Candidates[1]]
  /\ cand = [c \in Clients |-> 1] /\ hop = [c \in Clients |-> 0]
  /\ first = [c \in Clients |-> TRUE] /\ answer = [c \in Clients |-> Unanswered]
  /\ faults = 0 /\ crashes = 0
  /\ unlisted \in SUBSET Servers

ClusterNext ==
  /\ \/ \E c \in Clients : \/ Start(c) \/ Backoff(c) \/ DialFails(c)
                           \/ Reject(c) \/ Dial(c) \/ Dropped(c)
     \/ \E s \in Servers : \/ HandleConnected(s) \/ HandleDisconnected(s)
                           \/ Greet(s) \/ FollowRedirect(s) \/ GiveUp(s) \/ ServeEnds(s)
                           \/ Sweep(s) \/ ForgetRemote(s) \/ Crash(s) \/ Restart(s)
  /\ UNCHANGED unlisted

ClusterSpec == ClusterInit /\ [][ClusterNext]_clusterVars

\* Clients keep trying, servers keep running and are started again, what is
\* remembered expires.  Nothing has to fail, expire or hang up.
ClusterFairSpec ==
  /\ ClusterSpec
  /\ \A c \in Clients : WF_runVars(Backoff(c) \/ Dial(c) \/ DialFails(c))
  /\ \A s \in Servers : /\ WF_runVars(HandleConnected(s) \/ HandleDisconnected(s))
                        /\ WF_runVars(Greet(s) \/ FollowRedirect(s))
                        /\ WF_runVars(ForgetRemote(s)) /\ WF_runVars(Restart(s))

-----------------------------------------------------------------------------
Homes == { s \in Servers : session[s] # "none" }

\* All that have come with the token so far are one client.
OneClient ==
  \A c, d \in Clients \ OldClients : (phase[c] # "idle" /\ phase[d] # "idle") => c = d

\* Every server can be reached by the id it gives.
Listed == unlisted = {}

\* A single client never ends up with sessions on two servers, however it is
\* redirected and whatever expires meanwhile, as long as every server is listed
\* under its id, every probe is answered, every connection is decided in time
\* and no server crashed: the answers that a lookup collects one after the
\* other are still true when it ends, and each server that would create a
\* session finds the one there is.
SingleHome == (Listed /\ faults = 0 /\ crashes = 0 /\ OneClient) => Cardinality(Homes) <= 1

\* The server a client is connected to has the session active and says so to
\* its peers, so that whoever comes with the token elsewhere is sent here.
ConnectedIsFindable ==
  \A s \in Servers : \A c \in Clients :
    (Holds(s, c) /\ phase[c] = "connected") => session[s] = "active" /\ published[s]

\* A server that has the session remembers no other home for it, also when it
\* knew of one and created the session itself because it could not send the
\* client there: once the session expires here, the next client is not sent
\* after a home that some peer had before the session was created.
HomeIsHere == \A s \in Servers : session[s] # "none" => remote[s] = NoServer

\* A client that had a session and lost the connection gets connected again,
\* whatever stale homes the servers believe in: two servers that send it to
\* each other do not do so for ever.
Reconnects ==
  \A c \in Clients : (phase[c] = "backoff") ~> (phase[c] = "connected")

(***************************************************************************)
(* What the repository says and the code does not do: TLC refutes each of  *)
(* these (README, Deviations).                                             *)
(***************************************************************************)

\* discover_remote_home lets a server "redirect to the session's home server
\* instead of creating a duplicate", also when that server was restarted.
RestartKeepsHome == (Listed /\ faults = 0 /\ OneClient) => Cardinality(Homes) <= 1

\* The same with two clients of the token that come to two servers at once:
\* each server is told by the other that it has nothing, before either creates
\* the session.
LookupExcludesDuplicate == (Listed /\ faults = 0 /\ crashes = 0) => Cardinality(Homes) <= 1

\* publish_cluster_state is "called whenever session state changes": a server
\* with nothing left to handle publishes what it has.
PublishedIsCurrent ==
  \A s \in Servers : (up[s] /\ inbox[s] = <<>>) => (published[s] <=> session[s] # "none")
=============================================================================
