---------------------------- MODULE ClusterProofs ----------------------------
(***************************************************************************)
(* What TLAPS proves of Cluster, for any number of servers and clients and *)
(* any candidate list: without crashes and lost probes, and with every     *)
(* server listed, the token of one client has one home; a server that has  *)
(* the session remembers no other home; and the server a client is         *)
(* connected to is the one its peers are told of.                          *)
(***************************************************************************)
EXTENDS Cluster, FiniteSetTheorems, TLAPS

Message  == [msg : {"connected"}, client : Clients] \cup {Disconnected}
Decision == {Unanswered, Bound} \cup [decision : {"redirect"}, server : Servers]
Phase    == {"idle", "dialing", "awaiting", "connected", "backoff", "stopped"}

ServerTypes ==
  /\ session \in [Servers -> {"none", "active", "suspended"}]
  /\ published \in [Servers -> BOOLEAN]
  /\ remote \in [Servers -> Servers \cup {NoServer}]
  /\ inbox \in [Servers -> Seq(Message)]
  /\ denied \in [Servers -> SUBSET Servers]
  /\ serving \in [Servers -> Clients \cup {NoClient}]
  /\ up \in [Servers -> BOOLEAN]
  /\ faults \in Nat /\ crashes \in Nat
  /\ unlisted \in SUBSET Servers

ClientTypes ==
  /\ phase \in [Clients -> Phase]
  /\ at \in [Clients -> Servers]
  /\ cand \in [Clients -> 1..Len(Candidates)]
  /\ hop \in [Clients -> Nat]
  /\ first \in [Clients -> BOOLEAN]
  /\ answer \in [Clients -> Decision]

-----------------------------------------------------------------------------
(***************************************************************************)
(* The inductive invariants.                                               *)
(***************************************************************************)

\* Until a server crashes, a session is known to the peers: a probe that
\* everybody answers finds it.
Advertised == crashes = 0 => \A s \in Servers : up[s] /\ (session[s] # "none" => published[s])

\* Every server is listed under its id, nothing has failed, and one client has
\* come with the token.
Smooth == Listed /\ faults = 0 /\ crashes = 0 /\ OneClient

OneHome == Smooth => \A s, t \in Servers : (session[s] # "none" /\ session[t] # "none") => s = t

\* Message i of the server is a client that asks to be let in.
Asks(s, i) == i \in 1..Len(inbox[s]) /\ inbox[s][i].msg = "connected"

\* The connection stands, and the client on it has no answer.
Unsettled(s, c) ==
  c \notin OldClients /\ Holds(s, c) /\ phase[c] = "awaiting" /\ answer[c] = Unanswered

\* A client that asks is still there, and asks once.
Expected ==
  Smooth => \A s \in Servers : \A i \in 1..Len(inbox[s]) :
    Asks(s, i) => /\ Unsettled(s, inbox[s][i].client)
                  /\ \A j \in 1..Len(inbox[s]) : Asks(s, j) => j = i

\* What the peers answered to a lookup under way is still true: the client is
\* waiting for the lookup to end, so it creates no session elsewhere.
Denied ==
  Smooth => \A s \in Servers : denied[s] # {} =>
    Asks(s, 1) /\ s \notin denied[s] /\ \A p \in denied[s] : session[p] = "none"

\* A client that dials has no decision from an earlier connection left.
Undecided == \A c \in Clients : phase[c] = "dialing" => answer[c] = Unanswered

\* The end of a connection is on its way to the server loop.
Ending(s) == \E i \in 1..Len(inbox[s]) : inbox[s][i] = Disconnected

\* A client that is told it is bound, or was told, is bound, and will be as
\* long as its connection lasts: nothing that the loop has yet to handle
\* suspends its session.
BoundStays ==
  \A s \in Servers, c \in Clients :
    (Holds(s, c) /\ (phase[c] = "connected" \/ answer[c] = Bound)) =>
      session[s] = "active" /\ published[s] /\ ~ Ending(s)

ClusterInv == /\ ServerTypes /\ ClientTypes
              /\ HomeIsHere /\ Advertised /\ Undecided /\ BoundStays
              /\ OneHome /\ Expected /\ Denied

-----------------------------------------------------------------------------
(***************************************************************************)
(* Clients.                                                                *)
(***************************************************************************)

\* Client c leaves the connection it had, or is about to have, and no other
\* client moves.
Leaves(c) ==
  /\ ClientTypes' /\ Undecided'
  /\ phase'[c] \notin {"idle", "awaiting", "connected"}
  /\ \A d \in Clients \ {c} : phase'[d] = phase[d] /\ at'[d] = at[d] /\ answer'[d] = answer[d]

\* main.rs: the next candidate, the start of the list and the end of a session
\* all leave the connection behind, and the decision made on it.
LEMMA BookkeepingLeaves ==
  ASSUME ClusterAssumption, ClientTypes, Undecided, NEW c \in Clients,
         TryCandidate(c, 1) \/ NextCandidate(c) \/ SessionLost(c)
  PROVE  Leaves(c)
<1>1. ASSUME NEW i \in 1..Len(Candidates), TryCandidate(c, i) PROVE Leaves(c)
  <2>1. Candidates[i] \in Servers BY <1>1 DEF ClusterAssumption
  <2>2. ClientTypes'
    BY <1>1, <2>1 DEF ClientTypes, TryCandidate, Phase, Decision
  <2>3. QED BY <1>1, <2>2 DEF Leaves, Undecided, TryCandidate, ClientTypes
<1>2. ASSUME Exhausted(c) \/ SessionLost(c) PROVE Leaves(c)
  <2>1. /\ phase' = [phase EXCEPT ![c] = phase'[c]] /\ phase'[c] \in {"stopped", "backoff"}
        /\ answer' = [answer EXCEPT ![c] = Unanswered]
        /\ UNCHANGED <<at, cand, hop, first>>
    BY <1>2 DEF ClientTypes, Exhausted, SessionLost
  <2>2. ClientTypes' BY <2>1 DEF ClientTypes, Phase, Decision
  <2>3. QED BY <2>1, <2>2 DEF Leaves, ClientTypes, Undecided
<1>3. Len(Candidates) \in Nat /\ 1 \in 1..Len(Candidates) BY DEF ClusterAssumption
<1>4. cand[c] < Len(Candidates) => cand[c] + 1 \in 1..Len(Candidates)
  BY <1>3 DEF ClientTypes
<1>5. QED BY <1>1, <1>2, <1>3, <1>4 DEF NextCandidate

\* A connection of which both ends are unchanged is held as before.
LEMMA LeavingKeepsOthers ==
  ASSUME ClientTypes, NEW c \in Clients, Leaves(c),
         NEW s \in Servers, NEW d \in Clients, serving'[s] = serving[s], Holds(s, d)'
  PROVE  d # c /\ Holds(s, d) /\ phase'[d] = phase[d] /\ answer'[d] = answer[d]
BY DEF Holds, Leaves

\* The end of a connection moves its client, if that is still there.
LEMMA EndLeaves ==
  ASSUME ClusterAssumption, ServerTypes, ClientTypes, Undecided, NEW s \in Servers, LoseClientOf(s)
  PROVE  \/ UNCHANGED clientVars
         \/ serving[s] \in Clients /\ Holds(s, serving[s]) /\ Leaves(serving[s])
BY BookkeepingLeaves DEF LoseClientOf

-----------------------------------------------------------------------------
(***************************************************************************)
(* Lookups while nothing fails.                                            *)
(***************************************************************************)

\* Nothing that failed, and no client that came, is undone.
LEMMA SmoothBefore ==
  ASSUME ClusterInv, Smooth', UNCHANGED unlisted,
         faults' \in {faults, faults + 1}, crashes' \in {crashes, crashes + 1},
         \A c \in Clients : phase'[c] = "idle" => phase[c] = "idle"
  PROVE  Smooth /\ faults' = faults /\ crashes' = crashes
<1>1. faults \in Nat /\ crashes \in Nat BY DEF ClusterInv, ServerTypes
<1>2. faults' = 0 /\ crashes' = 0 BY DEF Smooth
<1>3. faults = 0 /\ crashes = 0 BY <1>1, <1>2
<1>4. OneClient BY DEF Smooth, Listed, OneClient
<1>5. QED BY <1>2, <1>3, <1>4 DEF Smooth, Listed

\* A client that asks was let in by the classifier.
LEMMA AskingClient ==
  ASSUME ClusterInv, NEW s \in Servers, NEW i, Asks(s, i)
  PROVE  inbox[s][i] \in Message /\ inbox[s][i].client \in Clients
<1>1. inbox[s][i] \in Message BY DEF Asks, ClusterInv, ServerTypes
<1>2. inbox[s][i] # Disconnected BY DEF Asks, Disconnected
<1>3. QED BY <1>1, <1>2 DEF Message

\* It is one client, so it asks one server, once.
LEMMA OneAsks ==
  ASSUME ClusterInv, Smooth,
         NEW s \in Servers, NEW i, Asks(s, i), NEW t \in Servers, NEW j, Asks(t, j)
  PROVE  s = t /\ i = j
<1> DEFINE c == inbox[s][i].client
           d == inbox[t][j].client
<1>1. c \in Clients /\ c \notin OldClients /\ Holds(s, c) /\ phase[c] = "awaiting"
  BY AskingClient DEF ClusterInv, Expected, Unsettled, Asks
<1>2. d \in Clients /\ d \notin OldClients /\ Holds(t, d) /\ phase[d] = "awaiting"
  BY AskingClient DEF ClusterInv, Expected, Unsettled, Asks
<1>3. c = d
  <2> HIDE DEF c, d
  <2>1. QED BY <1>1, <1>2 DEF Smooth, Listed, OneClient
<1>4. s = t BY <1>1, <1>2, <1>3 DEF Holds
<1>5. QED BY <1>4 DEF ClusterInv, Expected, Asks

\* What a step keeps that neither answers nor moves the clients that ask.
LEMMA LookupsKept ==
  ASSUME ClusterInv, Smooth' => Smooth, UNCHANGED <<inbox, denied>>,
         \A s \in Servers : session[s] = "none" => session'[s] = "none",
         Smooth => \A s \in Servers : \A i \in 1..Len(inbox[s]) :
           Asks(s, i) => /\ Holds(s, inbox[s][i].client)'
                         /\ phase'[inbox[s][i].client] = phase[inbox[s][i].client]
                         /\ answer'[inbox[s][i].client] = answer[inbox[s][i].client]
  PROVE  Expected' /\ Denied'
<1>1. \A s, i : Asks(s, i)' <=> Asks(s, i) BY DEF Asks
<1>2. ASSUME Smooth' PROVE Expected'
  <2>1. Smooth BY <1>2
  <2>2. ASSUME NEW s \in Servers, NEW i \in 1..Len(inbox[s]), Asks(s, i)
        PROVE  /\ Unsettled(s, inbox[s][i].client)'
               /\ \A j \in 1..Len(inbox[s]) : Asks(s, j) => j = i
    BY <2>1, <2>2 DEF ClusterInv, Expected, Unsettled, Unanswered
  <2>3. QED BY <1>1, <2>2 DEF Expected
<1>3. ASSUME Smooth' PROVE Denied'
  BY <1>1, <1>3 DEF ClusterInv, Denied, ServerTypes
<1>4. QED BY <1>2, <1>3 DEF Expected, Denied

-----------------------------------------------------------------------------
(***************************************************************************)
(* The steps that clients take.                                            *)
(***************************************************************************)
LEMMA ClientLeavesStep ==
  ASSUME ClusterAssumption, ClusterInv, UNCHANGED unlisted, NEW c \in Clients, Leaves(c),
         ~ (phase[c] = "awaiting" /\ Holds(at[c], c)),
         UNCHANGED <<serverVars, faults, crashes>>
  PROVE  ClusterInv'
<1>1. ServerTypes' BY DEF ClusterInv, ServerTypes, serverVars
<1>2. ClientTypes' /\ Undecided' BY DEF Leaves
<1>3. HomeIsHere' BY DEF ClusterInv, HomeIsHere, serverVars
<1>4. Advertised' BY DEF ClusterInv, Advertised, serverVars
<1>5. OneHome' /\ Expected' /\ Denied'
  <2>1. \A d \in Clients : phase'[d] = "idle" => phase[d] = "idle" BY DEF Leaves
  <2>2. Smooth' => Smooth BY <2>1, SmoothBefore
  <2>3. ASSUME Smooth, NEW s \in Servers, NEW i \in 1..Len(inbox[s]), Asks(s, i)
        PROVE  LET d == inbox[s][i].client
               IN  Holds(s, d)' /\ phase'[d] = phase[d] /\ answer'[d] = answer[d]
    <3> DEFINE d == inbox[s][i].client
    <3>1. d \in Clients /\ Holds(s, d) /\ phase[d] = "awaiting"
      BY <2>3, AskingClient DEF ClusterInv, Expected, Unsettled
    <3>2. d # c BY <3>1 DEF Holds
    <3>3. QED BY <3>1, <3>2 DEF Leaves, Holds, serverVars
  <2>4. OneHome' BY <2>2 DEF ClusterInv, OneHome, serverVars
  <2>5. Expected' /\ Denied' BY <2>2, <2>3, LookupsKept DEF serverVars
  <2>6. QED BY <2>4, <2>5
<1>6. BoundStays'
  <2> SUFFICES ASSUME NEW s \in Servers, NEW d \in Clients, Holds(s, d)',
                      phase'[d] = "connected" \/ answer'[d] = Bound
               PROVE  session'[s] = "active" /\ published'[s] /\ ~ Ending(s)'
    BY DEF BoundStays, Bound
  <2>1. Holds(s, d) /\ phase'[d] = phase[d] /\ answer'[d] = answer[d]
    BY LeavingKeepsOthers DEF ClusterInv, serverVars
  <2>2. QED BY <2>1 DEF ClusterInv, BoundStays, Ending, serverVars
<1>7. QED BY <1>1, <1>2, <1>3, <1>4, <1>5, <1>6 DEF ClusterInv

LEMMA RejectStep ==
  ASSUME ClusterInv, UNCHANGED unlisted, NEW c \in Clients, Reject(c)
  PROVE  ClusterInv'
<1>1. ServerTypes' BY DEF ClusterInv, ServerTypes, serverVars, Reject
<1>2. ClientTypes' BY DEF ClusterInv, ClientTypes, Reject, Phase
<1>3. HomeIsHere' BY DEF ClusterInv, HomeIsHere, serverVars, Reject
<1>4. Advertised' BY DEF ClusterInv, Advertised, serverVars, Reject
<1>5. OneHome' /\ Expected' /\ Denied'
  <2>1. phase' = [phase EXCEPT ![c] = "stopped"] /\ phase[c] = "dialing"
    BY DEF Reject
  <2>2. UNCHANGED <<serverVars, at, answer, faults, crashes>> BY DEF Reject
  <2>3. \A d \in Clients : phase'[d] = "idle" => phase[d] = "idle"
    BY <2>1 DEF ClusterInv, ClientTypes
  <2>4. Smooth' => Smooth BY <2>2, <2>3, SmoothBefore
  <2>5. ASSUME Smooth, NEW s \in Servers, NEW i \in 1..Len(inbox[s]), Asks(s, i)
        PROVE  LET d == inbox[s][i].client
               IN  Holds(s, d)' /\ phase'[d] = phase[d] /\ answer'[d] = answer[d]
    <3> DEFINE d == inbox[s][i].client
    <3>1. d \in Clients /\ Holds(s, d) /\ phase[d] = "awaiting"
      BY <2>5, AskingClient DEF ClusterInv, Expected, Unsettled
    <3>2. phase'[d] = phase[d] BY <2>1, <3>1 DEF ClusterInv, ClientTypes
    <3>3. QED BY <2>2, <3>1, <3>2 DEF Holds, serverVars
  <2>6. OneHome' BY <2>2, <2>4 DEF ClusterInv, OneHome, serverVars
  <2>7. Expected' /\ Denied' BY <2>2, <2>4, <2>5, LookupsKept DEF serverVars
  <2>8. QED BY <2>6, <2>7
<1>6. Undecided' BY DEF ClusterInv, Undecided, ClientTypes, Reject
<1>7. BoundStays'
  <2>1. \A d \in Clients \ {c} : phase'[d] = phase[d]
    BY DEF ClusterInv, ClientTypes, Reject
  <2>2. phase'[c] = "stopped"
    BY DEF ClusterInv, ClientTypes, Reject
  <2>3. UNCHANGED <<session, published, inbox, serving, at, answer>>
    BY DEF serverVars, Reject
  <2>4. \A t \in Servers, d \in Clients :
          Holds(t, d)' => d # c /\ Holds(t, d) /\ phase'[d] = phase[d]
    BY <2>1, <2>2, <2>3 DEF Holds
  <2>5. \A t \in Servers : Ending(t)' = Ending(t) BY <2>3 DEF Ending
  <2>6. QED BY <2>3, <2>4, <2>5 DEF ClusterInv, BoundStays
<1>8. QED BY <1>1, <1>2, <1>3, <1>4, <1>5, <1>6, <1>7 DEF ClusterInv

\* A client that dials takes the place of the one that was served, and starts
\* without a decision: nothing is promised to it yet.
LEMMA DialStep ==
  ASSUME ClusterAssumption, ClusterInv, UNCHANGED unlisted, NEW c \in Clients, Dial(c)
  PROVE  ClusterInv'
<1> DEFINE s == at[c]
<1>0. s \in Servers /\ phase[c] = "dialing" BY DEF ClusterInv, ClientTypes, Dial
<1>1. ServerTypes'
  <2>1. <<Connected(c)>> \in Seq(Message) /\ <<Disconnected, Connected(c)>> \in Seq(Message)
    BY DEF Message, Connected, Disconnected
  <2>2. inbox' \in [Servers -> Seq(Message)]
    BY <1>0, <2>1 DEF ClusterInv, ServerTypes, Dial
  <2>3. serving' \in [Servers -> Clients \cup {NoClient}]
    BY <1>0 DEF ClusterInv, ServerTypes, Dial
  <2>4. QED BY <2>2, <2>3 DEF ClusterInv, ServerTypes, Dial
<1>2. ClientTypes' BY DEF ClusterInv, ClientTypes, Dial, Phase
<1>3. HomeIsHere' BY DEF ClusterInv, HomeIsHere, Dial
<1>4. Advertised' BY DEF ClusterInv, Advertised, Dial
<1>5. OneHome' /\ Expected' /\ Denied'
  <2>1. phase' = [phase EXCEPT ![c] = "awaiting"] /\ phase'[c] = "awaiting"
        /\ UNCHANGED <<session, denied, at, answer, faults, crashes>>
    BY DEF ClusterInv, ClientTypes, Dial
  <2>2. \A d \in Clients : phase'[d] = "idle" => phase[d] = "idle"
    BY <2>1 DEF ClusterInv, ClientTypes
  <2>3. Smooth' => Smooth BY <2>1, <2>2, SmoothBefore
  <2>4. OneHome' BY <2>1, <2>3 DEF ClusterInv, OneHome
  <2>5. ASSUME Smooth, NEW t \in Servers, NEW i PROVE ~ Asks(t, i)
    <3> SUFFICES ASSUME Asks(t, i) PROVE FALSE OBVIOUS
    <3> DEFINE d == inbox[t][i].client
    <3>1. d \in Clients /\ d \notin OldClients /\ phase[d] = "awaiting"
      BY <2>5, AskingClient DEF ClusterInv, Expected, Unsettled, Asks
    <3>2. c \notin OldClients BY DEF Dial
    <3> HIDE DEF d
    <3>3. QED BY <1>0, <2>5, <3>1, <3>2 DEF Smooth, Listed, OneClient
  <2>6. \A t \in Servers : t # s => inbox'[t] = inbox[t]
    BY <1>0 DEF ClusterInv, ServerTypes, Dial
  <2>7. inbox'[s] = inbox[s] \o <<Connected(c)>>
        \/ inbox'[s] = inbox[s] \o <<Disconnected, Connected(c)>>
    BY <1>0 DEF ClusterInv, ServerTypes, Dial
  <2>8. ASSUME Smooth, NEW t \in Servers, NEW i, Asks(t, i)'
        PROVE  t = s /\ i = Len(inbox'[s]) /\ inbox'[s][i].client = c
    <3>1. t = s BY <2>5, <2>6, <2>8 DEF Asks
    <3>2. inbox[s] \in Seq(Message) BY <1>0 DEF ClusterInv, ServerTypes
    <3>3. i \in 1..Len(inbox'[s]) /\ inbox'[s][i].msg = "connected" BY <2>8, <3>1 DEF Asks
    <3>4. i \notin 1..Len(inbox[s])
      <4>1. ASSUME i \in 1..Len(inbox[s]) PROVE FALSE
        <5>1. inbox'[s][i] = inbox[s][i] BY <2>7, <3>2, <4>1
        <5>2. QED BY <1>0, <2>5, <2>8, <3>3, <4>1, <5>1 DEF Asks
      <4>2. QED BY <4>1
    <3>5. CASE inbox'[s] = inbox[s] \o <<Connected(c)>> BY <3>1, <3>2, <3>3, <3>4, <3>5 DEF Connected
    <3>6. CASE inbox'[s] = inbox[s] \o <<Disconnected, Connected(c)>>
      <4>1. Len(inbox'[s]) = Len(inbox[s]) + 2
        BY <3>2, <3>6
      <4>2. /\ inbox'[s][Len(inbox[s]) + 1] = Disconnected
            /\ inbox'[s][Len(inbox[s]) + 2] = Connected(c)
        BY <3>2, <3>6
      <4>3. i # Len(inbox[s]) + 1 BY <3>3, <4>2 DEF Disconnected
      <4>4. i = Len(inbox[s]) + 2
        <5>1. Len(inbox[s]) \in Nat BY <3>2
        <5>2. i \in 1..Len(inbox[s]) + 2 BY <3>3, <4>1
        <5> HIDE DEF s
        <5>3. QED BY <3>4, <4>3, <5>1, <5>2
      <4>5. QED BY <3>1, <4>1, <4>2, <4>4 DEF Connected
    <3>7. QED BY <2>7, <3>5, <3>6
  <2>9. Expected'
    <3> SUFFICES ASSUME Smooth', NEW t \in Servers, NEW i \in 1..Len(inbox'[t]), Asks(t, i)'
                 PROVE  /\ Unsettled(t, inbox[t][i].client)'
                        /\ \A j \in 1..Len(inbox'[t]) : Asks(t, j)' => j = i
      BY DEF Expected
    <3>1. t = s /\ inbox'[t][i].client = c BY <2>3, <2>8
    <3>2. serving'[s] = c /\ at'[c] = s BY <1>0, <2>1 DEF ClusterInv, ServerTypes, Dial
    <3>3. answer'[c] = Unanswered BY <1>0, <2>1 DEF ClusterInv, Undecided
    <3>4. c \notin OldClients BY DEF Dial
    <3>5. Unsettled(t, inbox[t][i].client)'
      BY <2>1, <3>1, <3>2, <3>3, <3>4 DEF Unsettled, Holds, Unanswered
    <3>6. QED BY <2>3, <2>8, <3>1, <3>5
  <2>10. Denied'
    <3>1. ASSUME Smooth, NEW t \in Servers PROVE denied[t] = {}
      BY <2>5, <3>1 DEF ClusterInv, Denied
    <3>2. QED BY <2>1, <2>3, <3>1 DEF Denied
  <2>11. QED BY <2>4, <2>9, <2>10
<1>6. Undecided' BY DEF ClusterInv, Undecided, ClientTypes, Dial
<1>7. BoundStays'
  <2> SUFFICES ASSUME NEW t \in Servers, NEW d \in Clients, Holds(t, d)',
                      phase'[d] = "connected" \/ answer'[d] = Bound
               PROVE  session'[t] = "active" /\ published'[t] /\ ~ Ending(t)'
    BY DEF BoundStays, Bound
  <2>1. d # c
    <3>1. answer'[c] = Unanswered /\ phase'[c] = "awaiting"
      BY <1>0 DEF ClusterInv, Undecided, ClientTypes, Dial
    <3>2. QED BY <3>1 DEF Unanswered, Bound
  <2>2. t # s
    BY <1>0, <2>1 DEF Holds, ClusterInv, ServerTypes, Dial
  <2>3. Holds(t, d) /\ phase'[d] = phase[d] /\ answer'[d] = answer[d]
    <3>1. serving'[t] = serving[t] BY <1>0, <2>2 DEF ClusterInv, ServerTypes, Dial
    <3>2. /\ phase' = [phase EXCEPT ![c] = "awaiting"]
          /\ UNCHANGED <<at, answer>>
      BY DEF Dial
    <3>3. phase'[d] = phase[d] BY <2>1, <3>2 DEF ClusterInv, ClientTypes
    <3>4. QED BY <3>1, <3>2, <3>3 DEF Holds
  <2>4. inbox'[t] = inbox[t]
    BY <1>0, <2>2 DEF ClusterInv, ServerTypes, Dial
  <2>5. session' = session /\ published' = published BY DEF Dial
  <2>6. Ending(t)' = Ending(t) BY <2>4 DEF Ending
  <2>7. QED BY <2>3, <2>5, <2>6 DEF ClusterInv, BoundStays
<1>8. QED BY <1>1, <1>2, <1>3, <1>4, <1>5, <1>6, <1>7 DEF ClusterInv

-----------------------------------------------------------------------------
(***************************************************************************)
(* The end of a connection: FollowRedirect, GiveUp, ServeEnds.             *)
(***************************************************************************)

\* The server notes that nobody is served and leaves itself a Disconnected;
\* the client, if it is still on this connection, has left it.
LEMMA EndStep ==
  ASSUME ClusterAssumption, ClusterInv, UNCHANGED unlisted, NEW s \in Servers,
         \/ UNCHANGED clientVars
         \/ serving[s] \in Clients /\ Holds(s, serving[s]) /\ Leaves(serving[s]),
         serving' = [serving EXCEPT ![s] = NoClient],
         inbox' = [inbox EXCEPT ![s] = Append(@, Disconnected)],
         UNCHANGED <<session, published, remote, denied, up, crashes>>,
         \/ faults' = faults + 1
         \/ /\ faults' = faults
            /\ ~ /\ Holds(s, serving[s]) /\ phase[serving[s]] = "awaiting"
                 /\ answer[serving[s]] = Unanswered
  PROVE  ClusterInv'
<1>1. ServerTypes'
  <2>1. inbox' \in [Servers -> Seq(Message)]
    BY DEF ClusterInv, ServerTypes, Message
  <2>2. QED BY <2>1 DEF ClusterInv, ServerTypes
<1>2. ClientTypes' /\ Undecided'
  <2>1. CASE UNCHANGED clientVars
    BY <2>1 DEF ClusterInv, clientVars, ClientTypes, Undecided
  <2>2. CASE Leaves(serving[s]) BY <2>2 DEF Leaves
  <2>3. QED BY <2>1, <2>2
<1>3. HomeIsHere' BY DEF ClusterInv, HomeIsHere
<1>4. Advertised' BY DEF ClusterInv, Advertised
<1>5. OneHome' /\ Expected' /\ Denied'
  <2>1. \A d \in Clients : phase'[d] = "idle" => phase[d] = "idle" BY DEF clientVars, Leaves
  <2>2. Smooth' => Smooth /\ faults' = faults BY <2>1, SmoothBefore
  <2>3. OneHome' BY <2>2 DEF ClusterInv, OneHome
  <2>4. ASSUME Smooth', NEW i PROVE ~ Asks(s, i)
    <3> SUFFICES ASSUME Asks(s, i) PROVE FALSE OBVIOUS
    <3>1. /\ Holds(s, inbox[s][i].client) /\ phase[inbox[s][i].client] = "awaiting"
          /\ answer[inbox[s][i].client] = Unanswered
      BY <2>2, <2>4 DEF ClusterInv, Expected, Unsettled, Asks
    <3>2. serving[s] = inbox[s][i].client BY <3>1 DEF Holds
    <3>3. faults \in Nat BY DEF ClusterInv, ServerTypes
    <3>4. QED BY <2>2, <2>4, <3>1, <3>2, <3>3
  <2>5. inbox[s] \in Seq(Message) /\ inbox'[s] = Append(inbox[s], Disconnected)
        /\ \A t \in Servers : t # s => inbox'[t] = inbox[t] /\ serving'[t] = serving[t]
    BY DEF ClusterInv, ServerTypes
  <2>6. ASSUME Smooth', NEW t \in Servers, NEW i, Asks(t, i)' PROVE t # s /\ Asks(t, i)
    <3>1. CASE t = s
      <4>1. i \in 1..Len(inbox[s]) + 1 /\ inbox'[s][i].msg = "connected"
        BY <2>5, <2>6, <3>1 DEF Asks
      <4>2. i # Len(inbox[s]) + 1 BY <2>5, <4>1 DEF Disconnected
      <4>3. Asks(s, i) BY <2>5, <4>1, <4>2 DEF Asks
      <4>4. QED BY <2>4, <2>6, <4>3
    <3>2. CASE t # s BY <2>5, <2>6, <3>2 DEF Asks
    <3>3. QED BY <3>1, <3>2
  <2>7. Expected'
    <3> SUFFICES ASSUME Smooth', NEW t \in Servers, NEW i \in 1..Len(inbox'[t]), Asks(t, i)'
                 PROVE  /\ Unsettled(t, inbox[t][i].client)'
                        /\ \A j \in 1..Len(inbox'[t]) : Asks(t, j)' => j = i
      BY DEF Expected
    <3>1. Smooth /\ t # s /\ Asks(t, i) BY <2>2, <2>6
    <3>2. inbox'[t] = inbox[t] /\ serving'[t] = serving[t] BY <2>5, <3>1
    <3> DEFINE d == inbox[t][i].client
    <3>3. d \in Clients /\ Unsettled(t, d)
      BY <3>1, AskingClient DEF ClusterInv, Expected, Unsettled, Asks
    <3>4. phase'[d] = phase[d] /\ at'[d] = at[d] /\ answer'[d] = answer[d]
      <4>1. CASE UNCHANGED clientVars BY <4>1 DEF clientVars
      <4>2. CASE Holds(s, serving[s]) /\ Leaves(serving[s])
        <5>1. d # serving[s] BY <3>1, <3>3, <4>2 DEF Holds, Unsettled
        <5>2. QED BY <3>3, <4>2, <5>1 DEF Leaves
      <4>3. QED BY <4>1, <4>2
    <3>5. Unsettled(t, inbox[t][i].client)'
      BY <3>2, <3>3, <3>4 DEF Unsettled, Holds, Unanswered
    <3>6. \A j \in 1..Len(inbox'[t]) : Asks(t, j)' => j = i BY <2>6, <3>1, OneAsks
    <3>7. QED BY <3>5, <3>6
  <2>8. Denied'
    <3> SUFFICES ASSUME Smooth', NEW t \in Servers, denied[t] # {}
                 PROVE  /\ Asks(t, 1)' /\ t \notin denied[t]
                        /\ \A p \in denied[t] : session[p] = "none"
      BY DEF Denied
    <3>1. /\ Asks(t, 1) /\ t \notin denied[t]
          /\ \A p \in denied[t] : session[p] = "none"
      BY <2>2 DEF ClusterInv, Denied
    <3>2. t # s BY <2>4, <3>1
    <3>3. QED BY <2>5, <3>1, <3>2 DEF Asks
  <2>9. QED BY <2>3, <2>7, <2>8
<1>6. BoundStays'
  <2> SUFFICES ASSUME NEW t \in Servers, NEW d \in Clients, Holds(t, d)',
                      phase'[d] = "connected" \/ answer'[d] = Bound
               PROVE  session'[t] = "active" /\ published'[t] /\ ~ Ending(t)'
    BY DEF BoundStays, Bound
  <2>1. t # s BY DEF Holds, ClusterInv, ServerTypes, ClusterAssumption
  <2>2. serving'[t] = serving[t] /\ inbox'[t] = inbox[t]
    BY <2>1 DEF ClusterInv, ServerTypes
  <2>3. Holds(t, d) /\ phase'[d] = phase[d] /\ answer'[d] = answer[d]
    <3>1. CASE UNCHANGED clientVars BY <2>2, <3>1 DEF clientVars, Holds
    <3>2. CASE serving[s] \in Clients /\ Leaves(serving[s])
      BY <2>2, <3>2, LeavingKeepsOthers DEF ClusterInv
    <3>3. QED BY <3>1, <3>2
  <2>4. QED BY <2>2, <2>3 DEF ClusterInv, BoundStays, Ending
<1>7. QED BY <1>1, <1>2, <1>3, <1>4, <1>5, <1>6 DEF ClusterInv

LEMMA FollowRedirectStep ==
  ASSUME ClusterAssumption, ClusterInv, UNCHANGED unlisted, NEW s \in Servers, FollowRedirect(s)
  PROVE  ClusterInv'
<1> DEFINE c == serving[s]
<1>1. c \in Clients BY DEF FollowRedirect, ClusterInv, ServerTypes
<1>2. Leaves(c)
  <2>1. CASE NextCandidate(c) BY <1>1, <2>1, BookkeepingLeaves DEF ClusterInv
  <2>2. CASE /\ \E i \in DOMAIN Candidates : Candidates[i] = answer[c].server
             /\ at' = [at EXCEPT ![c] = answer[c].server]
             /\ hop' = [hop EXCEPT ![c] = @ + 1]
             /\ phase' = [phase EXCEPT ![c] = "dialing"]
             /\ answer' = [answer EXCEPT ![c] = Unanswered]
             /\ UNCHANGED <<cand, first>>
    <3>1. answer[c].server \in Servers BY <2>2 DEF ClusterAssumption
    <3>2. ClientTypes'
      BY <1>1, <2>2, <3>1 DEF ClusterInv, ClientTypes, Phase, Decision
    <3>3. QED BY <1>1, <2>2, <3>2 DEF ClusterInv, ClientTypes, Undecided, Leaves
  <2>3. QED BY <2>1, <2>2 DEF FollowRedirect
<1>3. Holds(s, c) /\ answer[c] # Unanswered BY DEF FollowRedirect, Unanswered
<1>4. QED BY <1>1, <1>2, <1>3, EndStep DEF FollowRedirect

LEMMA GiveUpStep ==
  ASSUME ClusterAssumption, ClusterInv, UNCHANGED unlisted, NEW s \in Servers, GiveUp(s)
  PROVE  ClusterInv'
<1>1. serving[s] \in Clients BY DEF GiveUp, ClusterInv, ServerTypes
<1>2. Leaves(serving[s])
  BY <1>1, BookkeepingLeaves DEF GiveUp, ClusterInv
<1>3. QED BY <1>1, <1>2, EndStep DEF GiveUp

LEMMA ServeEndsStep ==
  ASSUME ClusterAssumption, ClusterInv, UNCHANGED unlisted, NEW s \in Servers, ServeEnds(s)
  PROVE  ClusterInv'
<1>1. \/ UNCHANGED clientVars
      \/ serving[s] \in Clients /\ Holds(s, serving[s]) /\ Leaves(serving[s])
  BY EndLeaves DEF ServeEnds, ClusterInv
<1>2. QED BY <1>1, EndStep DEF ServeEnds

-----------------------------------------------------------------------------
(***************************************************************************)
(* The server loop: what a decision changes.                               *)
(***************************************************************************)

\* The loop answers the client at the head of its inbox, or nobody.
LEMMA ReplyAnswers ==
  ASSUME ClusterInv, UNCHANGED unlisted, NEW s \in Servers, Receive(s, "connected"),
         NEW decision \in Decision, Reply(s, decision),
         denied' = [denied EXCEPT ![s] = {}],
         UNCHANGED <<serving, up, phase, at, cand, hop, first, faults, crashes>>
  PROVE  /\ ClientTypes' /\ Undecided'
         /\ denied' \in [Servers -> SUBSET Servers]
         /\ (Smooth' => Smooth) /\ Expected' /\ Denied'
         /\ inbox' \in [Servers -> Seq(Message)]
         /\ \A t \in Servers : Ending(t)' => Ending(t)
         /\ \A t \in Servers, c \in Clients :
              /\ Holds(t, c)' <=> Holds(t, c)
              /\ Holds(t, c) => \/ answer'[c] = answer[c]
                                \/ t = s /\ answer'[c] = decision /\ ~ Ending(s)'
<1>1. /\ inbox[s] \in Seq(Message) /\ inbox[s] # <<>>
      /\ Head(inbox[s]) \in Message /\ Tail(inbox[s]) \in Seq(Message)
      /\ inbox' = [inbox EXCEPT ![s] = Tail(inbox[s])]
  BY DEF ClusterInv, ServerTypes, Receive, Waiting
<1>2. Head(inbox[s]).client \in Clients
  BY <1>1 DEF Receive, Waiting, Message, Disconnected
<1>3. inbox' \in [Servers -> Seq(Message)] /\ inbox'[s] = Tail(inbox[s])
  BY <1>1 DEF ClusterInv, ServerTypes
<1> DEFINE c0 == Head(inbox[s]).client
           tail == { Tail(inbox[s])[i] : i \in DOMAIN Tail(inbox[s]) }
<1>4. answer' = [answer EXCEPT ![c0] =
                   IF Holds(s, c0) /\ Disconnected \notin tail THEN decision ELSE answer[c0]]
  BY <1>2 DEF Reply, ClusterInv, ClientTypes
<1>5. Disconnected \notin tail => ~ Ending(s)'
  <2>1. DOMAIN Tail(inbox[s]) = 1..Len(Tail(inbox[s])) BY <1>1
  <2>2. QED BY <1>3, <2>1 DEF Ending
<1> HIDE DEF c0, tail
<1>6. ClientTypes'
  <2>1. answer' \in [Clients -> Decision]
    BY <1>2, <1>4 DEF ClusterInv, ClientTypes
  <2>2. QED BY <2>1 DEF ClusterInv, ClientTypes
<1>7. Undecided'
  <2>1. Holds(s, c0) => phase[c0] # "dialing" BY DEF Holds
  <2>2. QED BY <1>2, <1>4, <2>1 DEF ClusterInv, Undecided, ClientTypes
<1>8. ASSUME NEW t \in Servers, Ending(t)' PROVE Ending(t)
  <2>1. CASE t = s
    <3>1. PICK i \in 1..Len(Tail(inbox[s])) : Tail(inbox[s])[i] = Disconnected
      BY <1>3, <1>8, <2>1 DEF Ending
    <3>2. i + 1 \in 1..Len(inbox[s]) /\ inbox[s][i + 1] = Disconnected
      BY <1>1, <3>1
    <3>3. QED BY <2>1, <3>2 DEF Ending
  <2>2. CASE t # s
    BY <1>1, <1>8, <2>2 DEF Ending, ClusterInv, ServerTypes
  <2>3. QED BY <2>1, <2>2
<1>9. ASSUME NEW t \in Servers, NEW c \in Clients
      PROVE  /\ Holds(t, c)' <=> Holds(t, c)
             /\ Holds(t, c) => \/ answer'[c] = answer[c]
                               \/ t = s /\ answer'[c] = decision /\ ~ Ending(s)'
  <2>1. Holds(t, c)' <=> Holds(t, c) BY DEF Holds
  <2>2. ASSUME Holds(t, c), answer'[c] # answer[c]
        PROVE  t = s /\ answer'[c] = decision /\ ~ Ending(s)'
    <3>1. c = c0 /\ Holds(s, c0) /\ Disconnected \notin tail /\ answer'[c] = decision
      BY <1>2, <1>4, <2>2 DEF ClusterInv, ClientTypes
    <3>2. QED BY <1>5, <2>2, <3>1 DEF Holds
  <2>3. QED BY <2>1, <2>2
<1>10. Smooth' => Smooth BY DEF Smooth, Listed, OneClient
<1>11. ASSUME Smooth, NEW t \in Servers, NEW i, Asks(t, i) PROVE t = s /\ i = 1
  <2>1. Asks(s, 1) BY <1>1 DEF Asks, Receive, Waiting
  <2>2. QED BY <1>11, <2>1, OneAsks
<1>12. ASSUME Smooth', NEW t \in Servers, NEW i, Asks(t, i)' PROVE FALSE
  <2>1. CASE t = s
    <3>1. i \in 1..Len(Tail(inbox[s])) /\ Tail(inbox[s])[i].msg = "connected"
      BY <1>3, <1>12, <2>1 DEF Asks
    <3>2. i + 1 \in 1..Len(inbox[s]) /\ inbox[s][i + 1].msg = "connected" BY <1>1, <3>1
    <3>3. i + 1 = 1 BY <1>10, <1>11, <1>12, <3>2 DEF Asks
    <3>4. QED BY <3>1, <3>3
  <2>2. CASE t # s
    <3>1. Asks(t, i) BY <1>1, <1>12, <2>2 DEF Asks, ClusterInv, ServerTypes
    <3>2. QED BY <1>10, <1>11, <1>12, <2>2, <3>1
  <2>3. QED BY <2>1, <2>2
<1>13. Expected' BY <1>12 DEF Expected
<1>14. denied' \in [Servers -> SUBSET Servers] BY DEF ClusterInv, ServerTypes
<1>15. Denied'
  <2>1. ASSUME Smooth', NEW t \in Servers PROVE denied'[t] = {}
    <3>1. t # s => denied[t] = {} BY <1>10, <1>11, <2>1 DEF ClusterInv, Denied
    <3>2. QED BY <3>1 DEF ClusterInv, ServerTypes
  <2>2. QED BY <2>1 DEF Denied
<1>16. QED BY <1>3, <1>6, <1>7, <1>8, <1>9, <1>10, <1>13, <1>14, <1>15

\* A client is sent away: the server's own session is not touched.
LEMMA RedirectKeeps ==
  ASSUME ClusterInv, UNCHANGED unlisted, NEW s \in Servers, NEW p \in Servers,
         Receive(s, "connected"), Reply(s, Redirect(p)),
         session[s] = "none",
         denied' = [denied EXCEPT ![s] = {}],
         UNCHANGED <<session, published, serving, up, phase, at, cand, hop, first, faults, crashes>>,
         remote' = remote \/ remote' = [remote EXCEPT ![s] = p]
  PROVE  ClusterInv'
<1>1. Redirect(p) \in Decision /\ Redirect(p) # Bound
  BY DEF Redirect, Decision, Bound
<1>2. /\ ClientTypes' /\ Undecided'
      /\ inbox' \in [Servers -> Seq(Message)]
      /\ denied' \in [Servers -> SUBSET Servers]
      /\ (Smooth' => Smooth) /\ Expected' /\ Denied'
      /\ \A t \in Servers : Ending(t)' => Ending(t)
      /\ \A t \in Servers, c \in Clients :
              /\ Holds(t, c)' <=> Holds(t, c)
              /\ Holds(t, c) => (answer'[c] = answer[c] \/ answer'[c] = Redirect(p))
  BY <1>1, ReplyAnswers
<1>3. ServerTypes'
  <2>1. remote' \in [Servers -> Servers \cup {NoServer}] BY DEF ClusterInv, ServerTypes
  <2>2. QED BY <1>2, <2>1 DEF ClusterInv, ServerTypes
<1>4. HomeIsHere'
  <2>1. \A t \in Servers : t # s => remote'[t] = remote[t] BY DEF ClusterInv, ServerTypes
  <2>2. QED BY <2>1 DEF ClusterInv, HomeIsHere
<1>5. Advertised' BY DEF ClusterInv, Advertised
<1>6. OneHome' BY <1>2 DEF ClusterInv, OneHome
<1>7. BoundStays'
  <2> SUFFICES ASSUME NEW t \in Servers, NEW d \in Clients, Holds(t, d)',
                      phase'[d] = "connected" \/ answer'[d] = Bound
               PROVE  session'[t] = "active" /\ published'[t] /\ ~ Ending(t)'
    BY DEF BoundStays, Bound
  <2>1. Holds(t, d) /\ phase[d] = phase'[d] /\ (answer'[d] = Bound => answer[d] = Bound)
    BY <1>1, <1>2
  <2>2. QED BY <1>2, <2>1 DEF ClusterInv, BoundStays
<1>8. QED BY <1>2, <1>3, <1>4, <1>5, <1>6, <1>7 DEF ClusterInv

\* A client is bound here.  When the session is new and nothing failed, no
\* other server has one.
LEMMA BindKeeps ==
  ASSUME ClusterInv, UNCHANGED unlisted, NEW s \in Servers,
         Receive(s, "connected"), Bind(s),
         remote' = [remote EXCEPT ![s] = NoServer],
         denied' = [denied EXCEPT ![s] = {}],
         UNCHANGED <<serving, up, phase, at, cand, hop, first, faults, crashes>>,
         (Smooth /\ session[s] = "none") => \A t \in Servers : session[t] = "none"
  PROVE  ClusterInv'
<1>1. Bound \in Decision BY DEF Decision
<1>2. /\ ClientTypes' /\ Undecided'
      /\ inbox' \in [Servers -> Seq(Message)]
      /\ denied' \in [Servers -> SUBSET Servers]
      /\ (Smooth' => Smooth) /\ Expected' /\ Denied'
      /\ \A t \in Servers : Ending(t)' => Ending(t)
      /\ \A t \in Servers, c \in Clients :
              /\ Holds(t, c)' <=> Holds(t, c)
              /\ Holds(t, c) => \/ answer'[c] = answer[c]
                                \/ t = s /\ answer'[c] = Bound /\ ~ Ending(s)'
  BY <1>1, ReplyAnswers DEF Bind
<1>3. /\ session' = [session EXCEPT ![s] = "active"] /\ session'[s] = "active"
      /\ published' = [published EXCEPT ![s] = TRUE] /\ published'[s] = TRUE
  BY DEF Bind, Publish, ClusterInv, ServerTypes
<1>4. ServerTypes' BY <1>2, <1>3 DEF ClusterInv, ServerTypes
<1>5. HomeIsHere' BY <1>3 DEF ClusterInv, HomeIsHere, ServerTypes
<1>6. Advertised' BY <1>3 DEF ClusterInv, Advertised, ServerTypes
<1>7. OneHome'
  <2> SUFFICES ASSUME Smooth', NEW t \in Servers, NEW u \in Servers,
                      session'[t] # "none", session'[u] # "none"
               PROVE  t = u
    BY DEF OneHome
  <2>1. Smooth BY <1>2
  <2>2. QED BY <1>3, <2>1 DEF ClusterInv, OneHome, ServerTypes
<1>8. BoundStays'
  <2> SUFFICES ASSUME NEW t \in Servers, NEW d \in Clients, Holds(t, d)',
                      phase'[d] = "connected" \/ answer'[d] = Bound
               PROVE  session'[t] = "active" /\ published'[t] /\ ~ Ending(t)'
    BY DEF BoundStays, Bound
  <2>1. Holds(t, d) /\ phase[d] = phase'[d] BY <1>2
  <2>2. CASE answer'[d] = answer[d]
    BY <1>2, <1>3, <2>1, <2>2 DEF ClusterInv, BoundStays, ServerTypes
  <2>3. CASE answer'[d] # answer[d]
    BY <1>2, <1>3, <2>1, <2>3
  <2>4. QED BY <2>2, <2>3
<1>9. QED BY <1>2, <1>4, <1>5, <1>6, <1>7, <1>8 DEF ClusterInv

\* discover_remote_home: a peer that says it does not have the session does
\* not have it.
LEMMA PassOverStep ==
  ASSUME ClusterInv, UNCHANGED unlisted, NEW s \in Servers, PassOver(s)
  PROVE  ClusterInv'
<1>1. PICK p \in peers(s) \ denied[s] :
        /\ denied' = [denied EXCEPT ![s] = @ \cup {p}]
        /\ (~ Hosts(p) /\ UNCHANGED faults) \/ faults' = faults + 1
  BY DEF PassOver
<1>2. Waiting(s, "connected") /\ p \in Servers /\ p # s
      /\ UNCHANGED <<session, published, remote, inbox, serving, up, clientVars, crashes>>
  BY DEF PassOver, peers
<1>3. ServerTypes' BY <1>1, <1>2 DEF ClusterInv, ServerTypes
<1>4. ClientTypes' /\ Undecided' BY <1>2 DEF ClusterInv, ClientTypes, Undecided, clientVars
<1>5. HomeIsHere' /\ Advertised' BY <1>2 DEF ClusterInv, HomeIsHere, Advertised
<1>6. BoundStays' BY <1>2 DEF ClusterInv, BoundStays, Holds, Ending, Bound, clientVars
<1>7. Smooth' => Smooth /\ ~ Hosts(p)
  <2>1. faults' \in {faults, faults + 1} BY <1>1
  <2>2. Smooth' => Smooth /\ faults' = faults BY <1>2, <2>1, SmoothBefore DEF clientVars
  <2>3. QED BY <1>1, <2>2 DEF ClusterInv, ServerTypes
<1>8. OneHome' BY <1>2, <1>7 DEF ClusterInv, OneHome
<1>9. Expected'
  BY <1>2, <1>7 DEF ClusterInv, Expected, Asks, Unsettled, Holds, Unanswered, clientVars
<1>10. Denied'
  <2> SUFFICES ASSUME Smooth', NEW t \in Servers, denied'[t] # {}
               PROVE  /\ Asks(t, 1)' /\ t \notin denied'[t]
                      /\ \A q \in denied'[t] : session'[q] = "none"
    BY DEF Denied
  <2>1. CASE t = s
    <3>1. session[p] = "none"
      BY <1>2, <1>7 DEF Hosts, ClusterInv, Advertised, Smooth
    <3>2. s \notin denied[s] /\ \A q \in denied[s] : session[q] = "none"
      BY <1>7 DEF ClusterInv, Denied
    <3>3. denied'[s] = denied[s] \cup {p} BY <1>1 DEF ClusterInv, ServerTypes
    <3>4. Asks(s, 1)
      <4>1. inbox[s] \in Seq(Message) BY DEF ClusterInv, ServerTypes
      <4>2. QED BY <1>2, <4>1 DEF Waiting, Asks
    <3>5. QED BY <1>2, <2>1, <3>1, <3>2, <3>3, <3>4 DEF Asks
  <2>2. CASE t # s
    <3>1. denied'[t] = denied[t] BY <1>1, <2>2 DEF ClusterInv, ServerTypes
    <3>2. QED BY <1>2, <1>7, <3>1 DEF ClusterInv, Denied, Asks
  <2>3. QED BY <2>1, <2>2
<1>11. QED BY <1>3, <1>4, <1>5, <1>6, <1>8, <1>9, <1>10 DEF ClusterInv

\* Own registry, remembered home, peers: when every server is listed, a session
\* is created here only when every peer has been asked in vain.
LEMMA DecideStep ==
  ASSUME ClusterInv, UNCHANGED unlisted, NEW s \in Servers, Decide(s)
  PROVE  ClusterInv'
<1>1. /\ Receive(s, "connected") /\ denied' = [denied EXCEPT ![s] = {}]
      /\ UNCHANGED <<serving, up, phase, at, cand, hop, first, faults, crashes>>
  BY DEF Decide
<1>2. CASE session[s] # "none" /\ Resume(s)
  <2>1. remote[s] = NoServer BY <1>2 DEF ClusterInv, HomeIsHere
  <2>2. remote' = [remote EXCEPT ![s] = NoServer]
    BY <1>2, <2>1 DEF Resume, ClusterInv, ServerTypes
  <2>3. QED BY <1>1, <1>2, <2>2, BindKeeps DEF Resume
<1>3. ASSUME NEW home \in Servers, session[s] = "none", SendHome(s, home)
      PROVE  ClusterInv'
  BY <1>1, <1>3, RedirectKeeps DEF SendHome
<1>4. ASSUME NEW home \in Servers \cup {NoServer}, session[s] = "none", Locates(s, home),
             home \notin Servers \ unlisted, Create(s, home)
      PROVE  ClusterInv'
  <2>1. ASSUME Smooth, NEW t \in Servers PROVE session[t] = "none"
    <3>1. home \notin Servers BY <1>4, <2>1 DEF Smooth, Listed
    <3>2. denied[s] = peers(s)
      BY <1>4, <3>1 DEF Locates, peers, ClusterInv, ServerTypes
    <3>3. CASE t = s BY <1>4, <3>3
    <3>4. CASE t # s
      <4>1. t \in denied[s] BY <3>2, <3>4 DEF peers
      <4>2. QED BY <2>1, <4>1 DEF ClusterInv, Denied
    <3>5. QED BY <3>3, <3>4
  <2>2. QED BY <1>1, <1>4, <2>1, BindKeeps DEF Create
<1>5. QED BY <1>2, <1>3, <1>4 DEF Decide

-----------------------------------------------------------------------------
(***************************************************************************)
(* The server's other steps.                                               *)
(***************************************************************************)

\* A Disconnected that is handled was on its way: the client it is about, or
\* the next one, was promised nothing yet.
LEMMA HandleDisconnectedStep ==
  ASSUME ClusterInv, UNCHANGED unlisted, NEW s \in Servers, HandleDisconnected(s)
  PROVE  ClusterInv'
<1>1. /\ inbox[s] \in Seq(Message) /\ inbox[s] # <<>>
      /\ inbox' = [inbox EXCEPT ![s] = Tail(inbox[s])]
      /\ Head(inbox[s]) \in Message /\ Head(inbox[s]).msg = "disconnected"
      /\ Tail(inbox[s]) \in Seq(Message)
  BY DEF HandleDisconnected, Receive, Waiting, ClusterInv, ServerTypes
<1>2. Ending(s)
  <2>1. inbox[s][1] = Disconnected /\ 1 \in 1..Len(inbox[s])
    BY <1>1 DEF Message, Disconnected
  <2>2. QED BY <2>1 DEF Ending
<1>3. /\ session' = [session EXCEPT ![s] = IF session[s] = "active" THEN "suspended" ELSE session[s]]
      /\ published' = [published EXCEPT ![s] = session'[s] # "none"]
  BY DEF HandleDisconnected, Publish, ClusterInv, ServerTypes
<1>4. ServerTypes'
  <2>1. inbox' \in [Servers -> Seq(Message)] BY <1>1 DEF ClusterInv, ServerTypes
  <2>2. QED BY <1>3, <2>1 DEF HandleDisconnected, ClusterInv, ServerTypes
<1>5. ClientTypes' /\ Undecided'
  BY DEF HandleDisconnected, clientVars, ClusterInv, ClientTypes, Undecided
<1>6. \A t \in Servers : (session'[t] # "none" <=> session[t] # "none")
  BY <1>3 DEF ClusterInv, ServerTypes
<1>7. HomeIsHere' BY <1>6 DEF HandleDisconnected, ClusterInv, HomeIsHere
<1>8. Advertised' BY <1>3, <1>6 DEF HandleDisconnected, ClusterInv, Advertised, ServerTypes
<1>9. OneHome' /\ Expected' /\ Denied'
  <2>1. UNCHANGED <<denied, serving, phase, at, answer, faults, crashes>>
    BY DEF HandleDisconnected, clientVars
  <2>2. Smooth' => Smooth BY <2>1 DEF Smooth, Listed, OneClient
  <2>3. OneHome' BY <1>6, <2>2 DEF ClusterInv, OneHome
  <2>4. inbox'[s] = Tail(inbox[s]) /\ \A t \in Servers : t # s => inbox'[t] = inbox[t]
    BY <1>1 DEF ClusterInv, ServerTypes
  <2>5. ASSUME Smooth, NEW t \in Servers, NEW i, Asks(t, i)'
        PROVE  \E k \in 1..Len(inbox[t]) :
                 /\ Asks(t, k) /\ inbox'[t][i] = inbox[t][k] /\ k = IF t = s THEN i + 1 ELSE i
    <3>1. CASE t = s
      <4>1. i \in 1..Len(Tail(inbox[s])) /\ inbox'[s][i] = Tail(inbox[s])[i]
            /\ Tail(inbox[s])[i].msg = "connected"
        BY <2>4, <2>5, <3>1 DEF Asks
      <4>2. i + 1 \in 1..Len(inbox[s]) /\ Tail(inbox[s])[i] = inbox[s][i + 1]
        BY <1>1, <4>1
      <4>3. QED BY <3>1, <4>1, <4>2 DEF Asks
    <3>2. CASE t # s BY <2>4, <2>5, <3>2 DEF Asks
    <3>3. QED BY <3>1, <3>2
  <2>6. Expected'
    <3> SUFFICES ASSUME Smooth', NEW t \in Servers, NEW i \in 1..Len(inbox'[t]), Asks(t, i)'
                 PROVE  /\ Unsettled(t, inbox[t][i].client)'
                        /\ \A j \in 1..Len(inbox'[t]) : Asks(t, j)' => j = i
      BY DEF Expected
    <3>1. PICK k \in 1..Len(inbox[t]) :
            /\ Asks(t, k) /\ inbox'[t][i] = inbox[t][k] /\ k = IF t = s THEN i + 1 ELSE i
      BY <2>2, <2>5
    <3>2. Unsettled(t, inbox[t][k].client)
      BY <2>2, <3>1 DEF ClusterInv, Expected
    <3>3. Unsettled(t, inbox[t][i].client)'
      BY <2>1, <3>1, <3>2 DEF Unsettled, Holds, Unanswered
    <3>4. ASSUME NEW j \in 1..Len(inbox'[t]), Asks(t, j)' PROVE j = i
      <4>1. PICK l \in 1..Len(inbox[t]) : Asks(t, l) /\ l = IF t = s THEN j + 1 ELSE j
        BY <2>2, <2>5, <3>4
      <4>2. l = k BY <2>2, <3>1, <4>1, OneAsks
      <4>3. i \in Int /\ j \in Int BY <3>1, <4>1
      <4>4. QED BY <3>1, <4>1, <4>2, <4>3
    <3>5. QED BY <3>3, <3>4
  <2>7. Denied'
    <3> SUFFICES ASSUME Smooth', NEW t \in Servers, denied[t] # {}
                 PROVE  /\ Asks(t, 1)' /\ t \notin denied[t]
                        /\ \A p \in denied[t] : session'[p] = "none"
      BY <2>1 DEF Denied
    <3>1. /\ Asks(t, 1) /\ t \notin denied[t]
          /\ \A p \in denied[t] : session[p] = "none"
      BY <2>2 DEF ClusterInv, Denied
    <3>2. t # s BY <1>1, <3>1 DEF Asks
    <3>3. denied[t] \subseteq Servers BY DEF ClusterInv, ServerTypes
    <3>4. QED BY <1>6, <2>4, <3>1, <3>2, <3>3 DEF Asks
  <2>8. QED BY <2>3, <2>6, <2>7
<1>10. BoundStays'
  <2> SUFFICES ASSUME NEW t \in Servers, NEW d \in Clients, Holds(t, d)',
                      phase'[d] = "connected" \/ answer'[d] = Bound
               PROVE  session'[t] = "active" /\ published'[t] /\ ~ Ending(t)'
    BY DEF BoundStays, Bound
  <2>1. /\ Holds(t, d) /\ phase'[d] = phase[d] /\ answer'[d] = answer[d]
    BY DEF HandleDisconnected, clientVars, Holds
  <2>2. session[t] = "active" /\ published[t] /\ ~ Ending(t)
    BY <2>1 DEF ClusterInv, BoundStays
  <2>3. t # s BY <1>2, <2>2
  <2>4. inbox'[t] = inbox[t] BY <1>1, <2>3 DEF ClusterInv, ServerTypes
  <2>5. session'[t] = session[t] /\ published'[t] = published[t]
    BY <1>3, <2>3 DEF ClusterInv, ServerTypes
  <2>6. QED BY <2>2, <2>4, <2>5 DEF Ending
<1>11. QED BY <1>4, <1>5, <1>7, <1>8, <1>9, <1>10 DEF ClusterInv

\* ServerHello goes out on a connection that still stands, after the decision
\* was made for it: that is when BoundStays begins to be about a connection.
LEMMA GreetStep ==
  ASSUME ClusterInv, UNCHANGED unlisted, NEW s \in Servers, Greet(s)
  PROVE  ClusterInv'
<1> DEFINE c == serving[s]
<1>1. c \in Clients /\ Holds(s, c) /\ answer[c] = Bound
  BY DEF Greet, ClusterInv, ServerTypes
<1>2. /\ phase' = [phase EXCEPT ![c] = "connected"]
      /\ first' = [first EXCEPT ![c] = FALSE]
      /\ answer' = [answer EXCEPT ![c] = Unanswered]
      /\ UNCHANGED <<serverVars, at, cand, hop, faults, crashes>>
  BY DEF Greet
<1>3. ServerTypes' BY <1>2 DEF ClusterInv, ServerTypes, serverVars
<1>4. ClientTypes' BY <1>1, <1>2 DEF ClusterInv, ClientTypes, Phase, Decision
<1>5. HomeIsHere' /\ Advertised' /\ OneHome' /\ Expected' /\ Denied'
  <2>1. HomeIsHere' /\ Advertised' BY <1>2 DEF ClusterInv, HomeIsHere, Advertised, serverVars
  <2>2. \A d \in Clients : phase'[d] = "idle" => phase[d] = "idle"
    BY <1>1, <1>2 DEF ClusterInv, ClientTypes
  <2>3. Smooth' => Smooth BY <1>2, <2>2, SmoothBefore
  <2>4. OneHome' BY <1>2, <2>3 DEF ClusterInv, OneHome, serverVars
  <2>5. ASSUME Smooth, NEW t \in Servers, NEW i \in 1..Len(inbox[t]), Asks(t, i)
        PROVE  LET d == inbox[t][i].client
               IN  Holds(t, d)' /\ phase'[d] = phase[d] /\ answer'[d] = answer[d]
    <3> DEFINE d == inbox[t][i].client
    <3>1. d \in Clients /\ Holds(t, d) /\ answer[d] = Unanswered
      BY <2>5, AskingClient DEF ClusterInv, Expected, Unsettled
    <3>2. d # c BY <1>1, <3>1 DEF Unanswered, Bound
    <3>3. phase'[d] = phase[d] /\ answer'[d] = answer[d]
      BY <1>1, <1>2, <3>1, <3>2 DEF ClusterInv, ClientTypes
    <3>4. QED BY <1>2, <3>1, <3>3 DEF Holds, serverVars
  <2>6. Expected' /\ Denied' BY <1>2, <2>3, <2>5, LookupsKept DEF serverVars
  <2>7. QED BY <2>1, <2>4, <2>6
<1>6. Undecided' BY <1>1, <1>2 DEF ClusterInv, ClientTypes, Undecided
<1>7. BoundStays'
  <2> SUFFICES ASSUME NEW t \in Servers, NEW d \in Clients, Holds(t, d)',
                      phase'[d] = "connected" \/ answer'[d] = Bound
               PROVE  session'[t] = "active" /\ published'[t] /\ ~ Ending(t)'
    BY DEF BoundStays, Bound
  <2>1. CASE d = c
    <3>1. Holds(t, d) BY <1>1, <1>2, <2>1 DEF Holds, serverVars
    <3>2. QED BY <1>1, <1>2, <2>1, <3>1 DEF ClusterInv, BoundStays, Ending, serverVars
  <2>2. CASE d # c
    <3>1. Holds(t, d) /\ phase'[d] = phase[d] /\ answer'[d] = answer[d]
      BY <1>1, <1>2, <2>2 DEF Holds, serverVars, ClusterInv, ClientTypes
    <3>2. QED BY <1>2, <3>1 DEF ClusterInv, BoundStays, Ending, serverVars
  <2>3. QED BY <2>1, <2>2
<1>8. QED BY <1>3, <1>4, <1>5, <1>6, <1>7 DEF ClusterInv

\* Only a suspended session expires, so none that a client is bound to.
LEMMA SweepStep ==
  ASSUME ClusterInv, UNCHANGED unlisted, NEW s \in Servers, Sweep(s)
  PROVE  ClusterInv'
<1>1. /\ session[s] = "suspended" /\ session' = [session EXCEPT ![s] = "none"]
      /\ UNCHANGED <<published, remote, inbox, denied, serving, up, clientVars, faults, crashes>>
  BY DEF Sweep
<1>2. ServerTypes' BY <1>1 DEF ClusterInv, ServerTypes
<1>3. ClientTypes' /\ Undecided' BY <1>1 DEF ClusterInv, ClientTypes, Undecided, clientVars
<1>4. HomeIsHere' /\ Advertised' /\ OneHome' /\ Expected' /\ Denied'
  <2>1. Smooth' => Smooth BY <1>1 DEF Smooth, Listed, OneClient, clientVars
  <2>2. HomeIsHere' /\ Advertised' /\ OneHome'
    BY <1>1, <2>1 DEF ClusterInv, HomeIsHere, Advertised, OneHome, ServerTypes
  <2>3. \A t \in Servers : session[t] = "none" => session'[t] = "none"
    BY <1>1 DEF ClusterInv, ServerTypes
  <2>4. ASSUME Smooth, NEW t \in Servers, NEW i \in 1..Len(inbox[t]), Asks(t, i)
        PROVE  LET d == inbox[t][i].client
               IN  Holds(t, d)' /\ phase'[d] = phase[d] /\ answer'[d] = answer[d]
    BY <1>1, <2>4 DEF ClusterInv, Expected, Unsettled, Holds, clientVars
  <2>5. Expected' /\ Denied' BY <1>1, <2>1, <2>3, <2>4, LookupsKept
  <2>6. QED BY <2>2, <2>5
<1>5. BoundStays'
  BY <1>1 DEF ClusterInv, BoundStays, Holds, Ending, Bound, ServerTypes, clientVars
<1>6. QED BY <1>2, <1>3, <1>4, <1>5 DEF ClusterInv

LEMMA ForgetRemoteStep ==
  ASSUME ClusterInv, UNCHANGED unlisted, NEW s \in Servers, ForgetRemote(s)
  PROVE  ClusterInv'
<1>1. /\ remote' = [remote EXCEPT ![s] = NoServer]
      /\ UNCHANGED <<session, published, inbox, denied, serving, up, clientVars, faults, crashes>>
  BY DEF ForgetRemote
<1>2. ServerTypes' BY <1>1 DEF ClusterInv, ServerTypes
<1>3. ClientTypes' /\ Undecided' BY <1>1 DEF ClusterInv, ClientTypes, Undecided, clientVars
<1>4. HomeIsHere' /\ Advertised' /\ OneHome' /\ Expected' /\ Denied'
  <2>1. Smooth' => Smooth BY <1>1 DEF Smooth, Listed, OneClient, clientVars
  <2>2. HomeIsHere' /\ Advertised' /\ OneHome'
    BY <1>1, <2>1 DEF ClusterInv, HomeIsHere, Advertised, OneHome, ServerTypes
  <2>3. \A t \in Servers : session[t] = "none" => session'[t] = "none"
    BY <1>1 DEF ClusterInv, ServerTypes
  <2>4. ASSUME Smooth, NEW t \in Servers, NEW i \in 1..Len(inbox[t]), Asks(t, i)
        PROVE  LET d == inbox[t][i].client
               IN  Holds(t, d)' /\ phase'[d] = phase[d] /\ answer'[d] = answer[d]
    BY <1>1, <2>4 DEF ClusterInv, Expected, Unsettled, Holds, clientVars
  <2>5. Expected' /\ Denied' BY <1>1, <2>1, <2>3, <2>4, LookupsKept
  <2>6. QED BY <2>2, <2>5
<1>5. BoundStays'
  BY <1>1 DEF ClusterInv, BoundStays, Holds, Ending, Bound, clientVars
<1>6. QED BY <1>2, <1>3, <1>4, <1>5 DEF ClusterInv

LEMMA RestartStep ==
  ASSUME ClusterInv, UNCHANGED unlisted, NEW s \in Servers, Restart(s)
  PROVE  ClusterInv'
<1>1. /\ up' = [up EXCEPT ![s] = TRUE]
      /\ UNCHANGED <<session, published, remote, inbox, denied, serving, clientVars, faults, crashes>>
  BY DEF Restart
<1>2. ServerTypes' BY <1>1 DEF ClusterInv, ServerTypes
<1>3. ClientTypes' /\ Undecided' BY <1>1 DEF ClusterInv, ClientTypes, Undecided, clientVars
<1>4. HomeIsHere' /\ Advertised' /\ OneHome' /\ Expected' /\ Denied'
  <2>1. Smooth' => Smooth BY <1>1 DEF Smooth, Listed, OneClient, clientVars
  <2>2. HomeIsHere' /\ Advertised' /\ OneHome'
    BY <1>1, <2>1 DEF ClusterInv, HomeIsHere, Advertised, OneHome, ServerTypes
  <2>3. \A t \in Servers : session[t] = "none" => session'[t] = "none"
    BY <1>1 DEF ClusterInv, ServerTypes
  <2>4. ASSUME Smooth, NEW t \in Servers, NEW i \in 1..Len(inbox[t]), Asks(t, i)
        PROVE  LET d == inbox[t][i].client
               IN  Holds(t, d)' /\ phase'[d] = phase[d] /\ answer'[d] = answer[d]
    BY <1>1, <2>4 DEF ClusterInv, Expected, Unsettled, Holds, clientVars
  <2>5. Expected' /\ Denied' BY <1>1, <2>1, <2>3, <2>4, LookupsKept
  <2>6. QED BY <2>2, <2>5
<1>5. BoundStays'
  BY <1>1 DEF ClusterInv, BoundStays, Holds, Ending, Bound, clientVars
<1>6. QED BY <1>2, <1>3, <1>4, <1>5 DEF ClusterInv

\* A crash takes the inbox and the connection with it; the session that the
\* database gives back is one the server had.
LEMMA CrashStep ==
  ASSUME ClusterAssumption, ClusterInv, UNCHANGED unlisted, NEW s \in Servers, Crash(s)
  PROVE  ClusterInv'
<1>1. PICK back \in {"none", IF session[s] = "none" THEN "none" ELSE "suspended"} :
        session' = [session EXCEPT ![s] = back]
  BY DEF Crash
<1>2. /\ crashes' = crashes + 1 /\ crashes' # 0 /\ faults' = faults
      /\ up' = [up EXCEPT ![s] = FALSE]
      /\ published' = [published EXCEPT ![s] = FALSE]
      /\ remote' = [remote EXCEPT ![s] = NoServer]
      /\ inbox' = [inbox EXCEPT ![s] = <<>>] /\ denied' = [denied EXCEPT ![s] = {}]
      /\ serving' = [serving EXCEPT ![s] = NoClient]
  BY DEF Crash, ClusterInv, ServerTypes
<1>3. UNCHANGED clientVars \/ (serving[s] \in Clients /\ Leaves(serving[s]))
  BY EndLeaves DEF Crash, ClusterInv
<1>4. ServerTypes'
  <2>1. <<>> \in Seq(Message) OBVIOUS
  <2>2. QED BY <1>1, <1>2, <2>1 DEF ClusterInv, ServerTypes
<1>5. ClientTypes' /\ Undecided'
  <2>1. CASE UNCHANGED clientVars
    BY <2>1 DEF ClusterInv, clientVars, ClientTypes, Undecided
  <2>2. CASE Leaves(serving[s]) BY <2>2 DEF Leaves
  <2>3. QED BY <1>3, <2>1, <2>2
<1>6. HomeIsHere' BY <1>1, <1>2 DEF ClusterInv, HomeIsHere, ServerTypes
<1>7. Advertised' /\ OneHome' /\ Expected' /\ Denied'
  BY <1>2 DEF Advertised, OneHome, Expected, Denied, Smooth
<1>8. BoundStays'
  <2> SUFFICES ASSUME NEW t \in Servers, NEW d \in Clients, Holds(t, d)',
                      phase'[d] = "connected" \/ answer'[d] = Bound
               PROVE  session'[t] = "active" /\ published'[t] /\ ~ Ending(t)'
    BY DEF BoundStays, Bound
  <2>1. t # s BY <1>2 DEF Holds, ClusterInv, ServerTypes, ClusterAssumption
  <2>2. /\ serving'[t] = serving[t] /\ inbox'[t] = inbox[t]
        /\ session'[t] = session[t] /\ published'[t] = published[t]
    BY <1>1, <1>2, <2>1 DEF ClusterInv, ServerTypes
  <2>3. Holds(t, d) /\ phase'[d] = phase[d] /\ answer'[d] = answer[d]
    <3>1. CASE UNCHANGED clientVars BY <2>2, <3>1 DEF clientVars, Holds
    <3>2. CASE serving[s] \in Clients /\ Leaves(serving[s])
      BY <2>2, <3>2, LeavingKeepsOthers DEF ClusterInv
    <3>3. QED BY <1>3, <3>1, <3>2
  <2>4. QED BY <2>2, <2>3 DEF ClusterInv, BoundStays, Ending
<1>9. QED BY <1>4, <1>5, <1>6, <1>7, <1>8 DEF ClusterInv

-----------------------------------------------------------------------------
(***************************************************************************)
(* The theorems.                                                           *)
(***************************************************************************)
LEMMA ClusterInitially ==
  ASSUME ClusterAssumption, ClusterInit
  PROVE  ClusterInv
<1>1. PICK home \in Servers \cup {NoServer} :
        /\ session = [s \in Servers |-> IF s = home THEN "suspended" ELSE "none"]
        /\ published = [s \in Servers |-> s = home]
  BY DEF ClusterInit
<1>2. ServerTypes
  <2>1. <<>> \in Seq(Message) OBVIOUS
  <2>2. QED BY <1>1, <2>1 DEF ClusterInit, ServerTypes
<1>3. ClientTypes
  <2>1. Len(Candidates) \in Nat \ {0} /\ Candidates[1] \in Servers BY DEF ClusterAssumption
  <2>2. QED BY <2>1 DEF ClusterInit, ClientTypes, Phase, Decision
<1>4. HomeIsHere /\ Advertised /\ OneHome
  BY <1>1 DEF ClusterInit, HomeIsHere, Advertised, OneHome
<1>5. Expected /\ Denied BY DEF ClusterInit, Expected, Denied
<1>6. Undecided /\ BoundStays
  BY DEF ClusterInit, Undecided, BoundStays, Holds
<1>7. QED BY <1>2, <1>3, <1>4, <1>5, <1>6 DEF ClusterInv

LEMMA ClusterStep ==
  ASSUME ClusterAssumption, ClusterInv, [ClusterNext]_clusterVars
  PROVE  ClusterInv'
<1>1. ASSUME UNCHANGED unlisted,
             NEW c \in Clients, Start(c) \/ Backoff(c) \/ DialFails(c) \/ Dropped(c)
      PROVE  ClusterInv'
  <2>1. Leaves(c)
    BY <1>1, BookkeepingLeaves DEF ClusterInv, Start, Backoff, DialFails, Dropped
  <2>2. ~ (phase[c] = "awaiting" /\ Holds(at[c], c))
    BY <1>1 DEF Start, Backoff, DialFails, Dropped
  <2>3. QED BY <1>1, <2>1, <2>2, ClientLeavesStep DEF Start, Backoff, DialFails, Dropped
<1>2. ASSUME UNCHANGED unlisted, NEW c \in Clients, Reject(c) \/ Dial(c) PROVE ClusterInv'
  BY <1>2, RejectStep, DialStep
<1>3. ASSUME UNCHANGED unlisted, NEW s \in Servers,
             \/ HandleConnected(s) \/ HandleDisconnected(s)
             \/ Greet(s) \/ FollowRedirect(s) \/ GiveUp(s) \/ ServeEnds(s)
             \/ Sweep(s) \/ ForgetRemote(s) \/ Crash(s) \/ Restart(s)
      PROVE  ClusterInv'
  BY <1>3, PassOverStep, DecideStep, HandleDisconnectedStep, GreetStep, FollowRedirectStep, GiveUpStep,
     ServeEndsStep, SweepStep, ForgetRemoteStep, CrashStep, RestartStep DEF HandleConnected
<1>4. CASE UNCHANGED clusterVars
  BY <1>4 DEF clusterVars, runVars, serverVars, clientVars, ClusterInv, ServerTypes, ClientTypes, HomeIsHere,
              Advertised, OneHome, Undecided, BoundStays, Holds, Ending, Bound, Expected, Denied,
              Asks, Unsettled, Smooth, Listed, OneClient, Unanswered
<1>5. QED BY <1>1, <1>2, <1>3, <1>4 DEF ClusterNext

\* The inductive invariant holds of every behaviour.
THEOREM ClusterInvariant == ClusterSpec => []ClusterInv
<1>1. ClusterInit => ClusterInv BY ClusterInitially, ClusterAssumption
<1>2. ClusterInv /\ [ClusterNext]_clusterVars => ClusterInv'
  BY ClusterStep, ClusterAssumption
<1>3. QED BY <1>1, <1>2, PTL DEF ClusterSpec

\* discover_remote_home and the published token sets: a server that creates a
\* session for the only client of the token first finds the one there is,
\* however the client was redirected and whatever expired, for any number of
\* servers, each lookup taking as many steps as there are peers.
THEOREM SessionHasOneHome == ClusterSpec => []SingleHome
<1>1. ClusterInv => SingleHome
  <2> SUFFICES ASSUME ClusterInv, Smooth
               PROVE  Cardinality(Homes) <= 1
    BY DEF SingleHome, Smooth
  <2>1. CASE Homes = {} BY <2>1, FS_EmptySet
  <2>2. CASE Homes # {}
    <3>1. PICK s \in Servers : session[s] # "none" BY <2>2 DEF Homes
    <3>2. Homes = {s} BY <3>1 DEF Homes, ClusterInv, OneHome
    <3>3. Cardinality({s}) = 1 BY FS_Singleton
    <3>4. QED BY <3>2, <3>3
  <2>3. QED BY <2>1, <2>2
<1>2. QED BY <1>1, ClusterInvariant, PTL

\* network.rs and headless.rs: a client is told it is bound only by the loop
\* iteration that bound and published its session, and nothing the loop still
\* has to handle takes the session away while the connection stands.
THEOREM ConnectedSessionIsFindable == ClusterSpec => []ConnectedIsFindable
<1>1. ClusterInv => ConnectedIsFindable BY DEF ClusterInv, BoundStays, ConnectedIsFindable
<1>2. QED BY <1>1, ClusterInvariant, PTL

\* remote_sessions: a home is remembered only where there is no session, and
\* create_session forgets the one that was looked up.
THEOREM NoOtherHomeRemembered == ClusterSpec => []HomeIsHere
<1>1. ClusterInv => HomeIsHere BY DEF ClusterInv
<1>2. QED BY <1>1, ClusterInvariant, PTL
=============================================================================
