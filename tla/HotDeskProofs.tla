--------------------------- MODULE HotDeskProofs ---------------------------
(***************************************************************************)
(* What TLAPS proves of HotDesk, for any number of connections and tokens: *)
(* its type invariant, that the compositor and the network thread agree on *)
(* whose session is bound, and that the two together implement Desk.       *)
(***************************************************************************)
EXTENDS HotDesk, SessionRegistryProofs

Message == [msg : {"connected", "input"}, conn : Conns] \cup {Disconnected}

Decision == {Undecided, Redirected} \cup [decision : {"bind"}, id : Nat \ {0}]

(***************************************************************************)
(* The inductive invariant.                                                *)
(***************************************************************************)

\* The compositor has not been told of the connection, nor has it decided.
Unannounced(c) ==
  reply[c] = Undecided /\ \A k \in 1..Len(channel) : channel[k] # Connected(c)

\* The compositor knows nothing of connections that are to come or wait.
NewcomersUnknown ==
  /\ \A c \in Conns : token_of[c] = NoConn =>
       Unannounced(c) /\ c # cur /\ \A i \in 1..Len(waiting) : waiting[i] # c
  /\ \A i \in 1..Len(waiting) :
       /\ token_of[waiting[i]] \in Tokens /\ Unannounced(waiting[i]) /\ waiting[i] # cur
       /\ \A j \in 1..Len(waiting) : waiting[j] = waiting[i] => j = i

\* A connection is announced once, and decided after that.
AnnouncedOnce ==
  \A k \in 1..Len(channel) : channel[k].msg = "connected" =>
    /\ reply[channel[k].conn] = Undecided /\ token_of[channel[k].conn] \in Tokens
    /\ \A j \in 1..Len(channel) : channel[j] = channel[k] => j = k

\* A connection is announced to a compositor that has, or will have by then,
\* let go of the one before.
Alternates ==
  \A k \in 1..Len(channel) : channel[k].msg = "connected" =>
    IF k = 1 THEN active_session = 0 ELSE channel[k - 1] = Disconnected

\* Inputs are ahead of everything else and come from the bound connection.
InputsAreBound ==
  \A k \in 1..Len(channel) : channel[k].msg = "input" =>
    client_addr # NoConn /\ \A j \in 1..k : channel[j] = Input(client_addr)

\* What the network thread knows of the compositor at each of its positions.
ServedIsKnown ==
  /\ cur # NoConn => token_of[cur] \in Tokens
  /\ pc \in {"idle", "starting"} =>
       IF channel = <<>> THEN active_session = 0 ELSE channel[Len(channel)] = Disconnected
  /\ pc = "starting" => Unannounced(cur)
  /\ pc = "binding" =>
       IF reply[cur] = Undecided THEN channel # <<>> /\ channel[Len(channel)] = Connected(cur)
       ELSE /\ channel = <<>>
            /\ reply[cur].decision = "bind" => client_addr = cur /\ active_session = reply[cur].id
  /\ pc = "relaying" =>
       /\ client_addr = cur /\ active_session = hello
       /\ \A k \in 1..Len(channel) : channel[k] = Input(cur)

\* At most one session is Active, and it is the one of the connected client.
OneActive ==
  /\ Active \subseteq {active_session}
  /\ active_session # 0 => active_session \in Active
  /\ client_connected <=> active_session # 0

\* What the compositor has bound.
BoundIsKnown ==
  /\ OneActive
  /\ client_addr = NoConn <=> active_session = 0
  /\ client_addr = NoConn => keys_down = NoConn
  /\ client_addr # NoConn => /\ token_of[client_addr] \in Tokens
                             /\ sessions[active_session].token = token_of[client_addr]

HotDeskInv ==
  /\ HotDeskTypeOK /\ IInv /\ failures = 0
  /\ NewcomersUnknown /\ AnnouncedOnce /\ Alternates /\ InputsAreBound
  /\ ServedIsKnown /\ BoundIsKnown

-----------------------------------------------------------------------------
(***************************************************************************)
(* The channel.                                                            *)
(***************************************************************************)

\* Sending to the compositor: what was in the channel stays where it is.
LEMMA Sent ==
  ASSUME channel \in Seq(Message), NEW m \in Message, channel' = Append(channel, m)
  PROVE  /\ channel' \in Seq(Message) /\ channel' # <<>>
         /\ Len(channel) \in Nat /\ Len(channel') = Len(channel) + 1
         /\ \A k \in 1..Len(channel) : channel'[k] = channel[k]
         /\ channel'[Len(channel) + 1] = m
         /\ \A k \in 1..Len(channel') : k \in 1..Len(channel) \/ k = Len(channel) + 1
  BY AppendProperties, LenProperties

\* Receiving: everything moves up by one.
LEMMA Received ==
  ASSUME channel \in Seq(Message), NEW msg, Receive(msg)
  PROVE  /\ channel' \in Seq(Message)
         /\ Len(channel) \in Nat \ {0} /\ Len(channel') = Len(channel) - 1
         /\ \A k \in 1..Len(channel') : channel'[k] = channel[k + 1]
         /\ Head(channel) = channel[1] /\ channel[1] \in Message /\ channel[1].msg = msg
         /\ channel' = <<>> <=> Len(channel) = 1
  <1>1. channel # <<>> /\ channel' = Tail(channel) /\ Head(channel).msg = msg
    BY DEF Receive
  <1>2. Len(channel) \in Nat \ {0} /\ channel[1] \in Message /\ Head(channel) = channel[1]
    BY <1>1, EmptySeq, LenProperties
  <1>3. channel' \in Seq(Message) /\ Len(channel') = Len(channel) - 1
        /\ \A k \in 1..Len(channel') : channel'[k] = channel[k + 1]
    BY <1>1, HeadTailProperties
  <1>4. channel' = <<>> <=> Len(channel') = 0
    BY <1>3, EmptySeq
  <1> QED
    BY <1>1, <1>2, <1>3, <1>4

\* Messages are told apart by their kind and their connection.
LEMMA MessageFacts ==
  /\ \A c : /\ Connected(c).msg = "connected" /\ Connected(c).conn = c
            /\ Input(c).msg = "input" /\ Input(c).conn = c
  /\ Disconnected.msg = "disconnected"
  /\ Disconnected \in Message
  /\ \A c \in Conns : Connected(c) \in Message /\ Input(c) \in Message
  /\ \A m \in Message : /\ m.msg = "connected" => m.conn \in Conns /\ m = Connected(m.conn)
                        /\ m.msg = "input" => m.conn \in Conns /\ m = Input(m.conn)
                        /\ m.msg = "disconnected" => m = Disconnected
                        /\ m.msg \in {"connected", "input", "disconnected"}
  BY DEF Connected, Input, Disconnected, Message

\* Decisions are told apart, too.
LEMMA DecisionFacts ==
  /\ \A id : Bind(id).decision = "bind" /\ Bind(id).id = id /\ Bind(id) # Undecided
  /\ Redirected # Undecided /\ Redirected.decision = "redirect" /\ Undecided.decision = "none"
  /\ \A id \in Nat \ {0} : Bind(id) \in Decision
  /\ \A d \in Decision : d.decision = "bind" => d.id \in Nat \ {0}
  BY DEF Bind, Redirected, Undecided, Decision

-----------------------------------------------------------------------------
(***************************************************************************)
(* What the compositor's calls do to the registry.                         *)
(***************************************************************************)

\* What the index and the ids are good for, as no database operation fails.
LEMMA RegistryFacts ==
  ASSUME HotDeskInv
  PROVE  /\ TypeOK /\ IInv /\ failures = 0
         /\ \A id \in DOMAIN sessions :
              /\ sessions[id].state \in {"active", "suspended"}
              /\ sessions[id].token \in Tokens
              /\ sessions[id].token \in DOMAIN token_index
              /\ token_index[sessions[id].token] = id
              /\ id \in Nat \ {0} /\ id # next_id
         /\ \A t \in DOMAIN token_index :
              /\ t \in Tokens /\ token_index[t] \in DOMAIN sessions
              /\ sessions[token_index[t]].token = t
         /\ next_id \in Nat \ {0}
  <1>1. TypeOK /\ TokenIndexExact /\ NextIdFresh /\ failures = 0 /\ IInv
    BY DEF HotDeskInv, IInv
  <1>2. \A id \in DOMAIN sessions : sessions[id] \in Session /\ Live(sessions[id]) /\ id \in Nat \ {0}
    BY <1>1 DEF TypeOK, IsMap
  <1> QED
    BY <1>1, <1>2 DEF TokenIndexExact, NextIdFresh, TypeOK, Live, Session

\* Binding a token when nothing is bound makes its session the active one and
\* touches no other.
LEMMA ResolveBinds ==
  ASSUME HotDeskInv, active_session = 0, NEW t \in Tokens, Resolve(t)
  PROVE  /\ Next /\ failures' = failures
         /\ t \in DOMAIN token_index' /\ token_index'[t] \in Nat \ {0}
         /\ Active' = {token_index'[t]}
         /\ sessions'[token_index'[t]].token = t
         /\ DeskSession(t)' = "here"
         /\ \A u \in Tokens \ {t} : DeskSession(u)' = DeskSession(u)
  <1>1. /\ \A id \in DOMAIN sessions : sessions[id].state = "suspended"
        /\ Active = {}
    BY RegistryFacts DEF HotDeskInv, BoundIsKnown, OneActive, Active
  <1>2. CASE ~ is_resumable(t)
    <2>1. /\ CreateSession(t)
          /\ sessions' = Put(sessions, next_id, Transitioned(NewSession(t), "active"))
          /\ token_index' = Put(token_index, t, next_id)
          /\ failures' = failures
      BY <1>2 DEF Resolve, CreateSession
    <2>2. /\ DOMAIN sessions' = DOMAIN sessions \cup {next_id}
          /\ sessions'[next_id].state = "active" /\ sessions'[next_id].token = t
          /\ \A id \in DOMAIN sessions : sessions'[id] = sessions[id]
      BY <2>1, RegistryFacts DEF Put, Transitioned, NewSession
    <2>3. /\ DOMAIN token_index' = DOMAIN token_index \cup {t}
          /\ token_index'[t] = next_id
          /\ \A u \in Tokens \ {t} : u \in DOMAIN token_index => token_index'[u] = token_index[u]
      BY <2>1 DEF Put
    <2>4. Active' = {next_id}
      BY <1>1, <2>2 DEF Active
    <2>5. \A u \in Tokens \ {t} : DeskSession(u)' = DeskSession(u)
      BY <2>2, <2>3, RegistryFacts DEF DeskSession
    <2> QED
      BY <2>1, <2>2, <2>3, <2>4, <2>5, RegistryFacts DEF DeskSession, Next
  <1>3. CASE is_resumable(t)
    <2> DEFINE id == token_index[t]
               s  == Transitioned(sessions[id], "active")
    <2>1. t \in DOMAIN token_index /\ id \in DOMAIN sessions
      BY <1>3 DEF is_resumable
    <2>2. /\ Resume(t) /\ sessions' = Put(sessions, id, s)
          /\ token_index' = token_index /\ failures' = failures
      BY <1>1, <1>3, <2>1 DEF Resolve, Resume, MoveTo
    <2>3. s.state = "active" /\ s.token = t
      <3>1. sessions[id] \in Session /\ sessions[id].token = t
        BY <2>1, RegistryFacts DEF TypeOK, IsMap
      <3> QED
        BY <3>1 DEF Transitioned, Session
    <2>4. /\ DOMAIN sessions' = DOMAIN sessions /\ sessions'[id] = s
          /\ \A i \in DOMAIN sessions \ {id} : sessions'[i] = sessions[i]
      BY <2>1, <2>2 DEF Put
    <2>5. Active' = {id}
      BY <1>1, <2>1, <2>3, <2>4 DEF Active
    <2>6. \A u \in Tokens \ {t} : DeskSession(u)' = DeskSession(u)
      BY <2>1, <2>2, <2>4, RegistryFacts DEF DeskSession
    <2> QED
      BY <2>1, <2>2, <2>3, <2>4, <2>5, <2>6, RegistryFacts DEF DeskSession, Next
  <1> QED
    BY <1>2, <1>3

\* Letting go of what is bound suspends it and touches no other session; with
\* nothing bound the registry is left alone.
LEMMA DisconnectSuspends ==
  ASSUME HotDeskInv, HandleDisconnected
  PROVE  /\ [Next]_vars /\ failures' = failures
         /\ Active' = {}
         /\ \A u \in Tokens :
              DeskSession(u)' = IF DeskSession(u) = "here" THEN "away" ELSE DeskSession(u)
  <1>1. CASE active_session = 0
    <2>1. Active = {} /\ UNCHANGED vars
      BY <1>1, RegistryFacts DEF HotDeskInv, BoundIsKnown, OneActive, Active, HandleDisconnected
    <2> QED
      BY <2>1, RegistryFacts DEF Active, DeskSession, vars
  <1>2. CASE active_session # 0
    <2> DEFINE id == active_session
               s  == Transitioned(sessions[id], "suspended")
    <2>1. /\ Active = {id} /\ id \in DOMAIN sessions /\ sessions[id].state = "active"
          /\ sessions[id] \in Session
      BY <1>2, RegistryFacts DEF HotDeskInv, BoundIsKnown, OneActive, Active, TypeOK, IsMap
    <2>2. /\ Suspend(id) /\ sessions' = Put(sessions, id, s)
          /\ token_index' = token_index /\ failures' = failures
      BY <2>1 DEF HandleDisconnected, Suspend, MoveTo
    <2>3. s.state = "suspended"
      BY <2>1 DEF Transitioned, Session
    <2>4. /\ DOMAIN sessions' = DOMAIN sessions /\ sessions'[id] = s
          /\ \A i \in DOMAIN sessions \ {id} : sessions'[i] = sessions[i]
      BY <2>1, <2>2 DEF Put
    <2>5. Active' = {}
      BY <2>1, <2>3, <2>4 DEF Active
    <2>6. ASSUME NEW u \in Tokens
          PROVE  DeskSession(u)' = IF DeskSession(u) = "here" THEN "away" ELSE DeskSession(u)
      BY <2>1, <2>2, <2>3, <2>4, RegistryFacts DEF DeskSession, Active
    <2> QED
      BY <2>1, <2>2, <2>5, <2>6 DEF Next
  <1> QED
    BY <1>1, <1>2

\* The clock and the sweep leave what is bound alone; the sweep takes sessions
\* nobody is at.
LEMMA HousekeepingSpares ==
  ASSUME HotDeskInv, Tick \/ CleanupExpired
  PROVE  /\ Next /\ failures' = failures
         /\ Active' = Active
         /\ \A id \in Active : sessions'[id].token = sessions[id].token
         /\ \A u \in Tokens :
              \/ DeskSession(u)' = DeskSession(u)
              \/ DeskSession(u) = "away" /\ DeskSession(u)' = "none"
  <1>1. CASE Tick
    <2>1. /\ DOMAIN sessions' = DOMAIN sessions /\ token_index' = token_index
          /\ failures' = failures
          /\ \A id \in DOMAIN sessions : sessions[id] \in Session
      BY <1>1, RegistryFacts DEF Tick, TypeOK, IsMap
    <2>2. \A id \in DOMAIN sessions : /\ sessions'[id].state = sessions[id].state
                                      /\ sessions'[id].token = sessions[id].token
      BY <1>1, <2>1 DEF Tick, Session
    <2> QED
      BY <1>1, <2>1, <2>2, RegistryFacts DEF Active, DeskSession, Next
  <1>2. CASE CleanupExpired
    <2>1. /\ DOMAIN sessions' = DOMAIN sessions \ Expired
          /\ \A id \in DOMAIN sessions' : sessions'[id] = sessions[id]
          /\ failures' = failures
      BY <1>2 DEF CleanupExpired, Without
    <2>2. /\ DOMAIN token_index' = DOMAIN token_index \ { sessions[id].token : id \in Expired }
          /\ \A t \in DOMAIN token_index' : token_index'[t] = token_index[t]
      BY <1>2 DEF CleanupExpired, Unindexed, Without
    <2>3. \A id \in Expired : id \in DOMAIN sessions /\ sessions[id].state = "suspended"
      BY DEF Expired, is_suspend_expired
    <2>4. Active' = Active
      BY <2>1, <2>3 DEF Active
    <2>5. ASSUME NEW u \in Tokens, u \in DOMAIN token_index, u \in DOMAIN token_index'
          PROVE  DeskSession(u)' = DeskSession(u)
      <3>1. token_index[u] \in DOMAIN sessions /\ token_index[u] \notin Expired
        BY <2>2, <2>5, RegistryFacts
      <3> QED
        BY <2>1, <2>2, <2>5, <3>1 DEF DeskSession
    <2>6. ASSUME NEW u \in Tokens, u \in DOMAIN token_index, u \notin DOMAIN token_index'
          PROVE  DeskSession(u) = "away" /\ DeskSession(u)' = "none"
      <3>1. PICK id \in Expired : sessions[id].token = u
        BY <2>2, <2>6
      <3>2. token_index[u] = id /\ sessions[id].state = "suspended"
        BY <2>3, <3>1, RegistryFacts
      <3> QED
        BY <2>6, <3>2 DEF DeskSession
    <2>7. ASSUME NEW u \in Tokens, u \notin DOMAIN token_index
          PROVE  DeskSession(u)' = DeskSession(u)
      BY <2>2, <2>7 DEF DeskSession
    <2> QED
      BY <1>2, <2>1, <2>4, <2>5, <2>6, <2>7 DEF Active, Next
  <1> QED
    BY <1>1, <1>2

\* Every step of the two threads is a step of the registry or leaves it alone,
\* so what SessionRegistryProofs shows holds here.
LEMMA RegistryStep ==
  ASSUME HotDeskInv, [HotDeskNext]_allVars
  PROVE  IInv' /\ failures' = 0
  <1>1. [Next]_vars /\ failures' = failures
    <2>1. CASE HandleConnected
      <3> DEFINE t == token_of[Head(channel).conn]
      <3>1. Receive("connected") /\ Resolve(t)
        BY <2>1 DEF HandleConnected
      <3>2. channel[1] = Head(channel) /\ channel[1].msg = "connected" /\ 1 \in 1..Len(channel)
        BY <3>1, Received DEF HotDeskInv, HotDeskTypeOK, Message
      <3>3. t \in Tokens /\ active_session = 0
        BY <3>2 DEF HotDeskInv, AnnouncedOnce, Alternates
      <3> QED
        BY <3>1, <3>3, ResolveBinds
    <2>2. CASE HandleDisconnected
      BY <2>2, DisconnectSuspends
    <2>3. CASE Housekeeping
      BY <2>3, HousekeepingSpares DEF Housekeeping
    <2>4. CASE UNCHANGED vars
      BY <2>4 DEF vars
    <2> QED
      BY <2>1, <2>2, <2>3, <2>4
      DEF HotDeskNext, Network, Compositor, Arrive, TakeClient, Announce, Greet, ServeEnds, Preempt,
          RelayInput, HandleRedirect, HandleInput, allVars
  <1> QED
    BY <1>1, StepIInv DEF HotDeskInv

-----------------------------------------------------------------------------
(***************************************************************************)
(* The steps.                                                              *)
(***************************************************************************)

\* The type invariant of the two threads' own state, with Message and Decision
\* named.
LEMMA ThreadTypes ==
  HotDeskTypeOK <=>
    /\ TypeOK
    /\ token_of \in [Conns -> Tokens \cup {NoConn}]
    /\ waiting \in Seq(Conns)
    /\ pc \in {"idle", "starting", "binding", "relaying"}
    /\ cur \in Conns \cup {NoConn}
    /\ (pc = "idle") <=> (cur = NoConn)
    /\ hello \in Nat
    /\ channel \in Seq(Message)
    /\ reply \in [Conns -> Decision]
    /\ active_session \in Nat
    /\ client_connected \in BOOLEAN
    /\ client_addr \in Conns \cup {NoConn}
    /\ keys_down \in Conns \cup {NoConn}
  BY DEF HotDeskTypeOK, Message, Decision

\* A message stays or leaves; no connection is announced that was not.
LEMMA StillUnannounced ==
  ASSUME channel \in Seq(Message), NEW msg, Receive(msg), NEW c, Unannounced(c),
         reply'[c] = reply[c]
  PROVE  Unannounced(c)'
  BY Received DEF Unannounced

\* Telling the compositor that a connection is over disturbs nothing that is
\* in the channel.
LEMMA EndTold ==
  ASSUME HotDeskInv, channel' = Append(channel, Disconnected),
         UNCHANGED <<vars, token_of, reply, compVars>>
  PROVE  /\ channel' \in Seq(Message) /\ channel' # <<>> /\ channel'[Len(channel')] = Disconnected
         /\ \A c : Unannounced(c) => Unannounced(c)'
         /\ AnnouncedOnce' /\ Alternates' /\ InputsAreBound' /\ BoundIsKnown'
  <1>1. channel \in Seq(Message)
    BY ThreadTypes DEF HotDeskInv
  <1>2. /\ channel' \in Seq(Message) /\ channel' # <<>>
        /\ Len(channel) \in Nat /\ Len(channel') = Len(channel) + 1
        /\ \A k \in 1..Len(channel) : channel'[k] = channel[k]
        /\ channel'[Len(channel) + 1] = Disconnected
        /\ \A k \in 1..Len(channel') : channel'[k].msg # "disconnected" => k \in 1..Len(channel)
    BY <1>1, Sent, MessageFacts
  <1>3. ASSUME NEW c, Unannounced(c) PROVE Unannounced(c)'
    BY <1>2, <1>3, MessageFacts DEF Unannounced
  <1>4. AnnouncedOnce'
    BY <1>2, MessageFacts DEF HotDeskInv, AnnouncedOnce
  <1>5. Alternates'
    BY <1>2, MessageFacts DEF HotDeskInv, Alternates, compVars
  <1>6. ASSUME NEW k \in 1..Len(channel'), channel'[k].msg = "input"
        PROVE  client_addr # NoConn /\ \A j \in 1..k : channel'[j] = Input(client_addr)
    <2>1. k \in 1..Len(channel) /\ channel[k].msg = "input"
      BY <1>2, <1>6, MessageFacts
    <2>2. client_addr # NoConn /\ \A j \in 1..k : channel[j] = Input(client_addr)
      BY <2>1 DEF HotDeskInv, InputsAreBound
    <2>3. \A j \in 1..k : j \in 1..Len(channel)
      BY <1>2, <2>1
    <2> QED
      BY <1>2, <2>2, <2>3
  <1>7. InputsAreBound'
    BY <1>6 DEF InputsAreBound, compVars, Input
  <1>8. BoundIsKnown'
    BY DEF HotDeskInv, BoundIsKnown, OneActive, Active, compVars, vars
  <1> QED
    BY <1>2, <1>3, <1>4, <1>5, <1>7, <1>8

\* A client arrives: it is known to the network thread alone.
LEMMA ArriveInv ==
  ASSUME HotDeskInv, NEW c \in Conns, NEW t \in Tokens, Arrive(c, t), IInv', failures' = 0
  PROVE  HotDeskInv'
  <1>1. /\ token_of[c] = NoConn /\ token_of' = [token_of EXCEPT ![c] = t]
        /\ waiting' = Append(waiting, c)
        /\ UNCHANGED <<vars, pc, cur, hello, channel, reply, compVars>>
    BY DEF Arrive
  <1>2. /\ HotDeskTypeOK /\ waiting \in Seq(Conns) /\ token_of \in [Conns -> Tokens \cup {NoConn}]
        /\ channel \in Seq(Message) /\ cur \in Conns \cup {NoConn}
        /\ client_addr \in Conns \cup {NoConn}
    BY ThreadTypes DEF HotDeskInv
  <1>3. /\ waiting' \in Seq(Conns) /\ Len(waiting) \in Nat /\ Len(waiting') = Len(waiting) + 1
        /\ \A i \in 1..Len(waiting) : waiting'[i] = waiting[i]
        /\ waiting'[Len(waiting) + 1] = c
    BY <1>1, <1>2, AppendProperties, LenProperties
  <1>4. /\ Unannounced(c) /\ c # cur /\ \A i \in 1..Len(waiting) : waiting[i] # c
        /\ \A d \in Conns : Unannounced(d)' <=> Unannounced(d)
    BY <1>1 DEF HotDeskInv, NewcomersUnknown, Unannounced
  <1>5. /\ \A d \in Conns : token_of[d] \in Tokens => d # c /\ token_of'[d] = token_of[d]
        /\ token_of'[c] = t /\ \A d \in Conns \ {c} : token_of'[d] = token_of[d]
        /\ token_of' \in [Conns -> Tokens \cup {NoConn}]
    BY <1>1, <1>2, HotDeskAssumption
  <1>6. HotDeskTypeOK'
    BY <1>1, <1>2, <1>3, <1>5 DEF HotDeskTypeOK, compVars, vars, TypeOK, IInv
  <1>7. NewcomersUnknown'
    <2>1. ASSUME NEW d \in Conns, token_of'[d] = NoConn
          PROVE  (Unannounced(d) /\ d # cur /\ \A i \in 1..Len(waiting) : waiting[i] # d)'
      <3>1. d # c /\ token_of[d] = NoConn
        BY <1>5, <2>1, HotDeskAssumption
      <3> QED
        BY <1>1, <1>3, <1>4, <3>1 DEF HotDeskInv, NewcomersUnknown
    <2>2. ASSUME NEW i \in 1..Len(waiting')
          PROVE  (/\ token_of[waiting[i]] \in Tokens
                  /\ Unannounced(waiting[i]) /\ waiting[i] # cur
                  /\ \A j \in 1..Len(waiting) : waiting[j] = waiting[i] => j = i)'
      <3>1. CASE i = Len(waiting) + 1
        BY <1>1, <1>3, <1>4, <1>5, <3>1 DEF Unannounced
      <3>2. CASE i \in 1..Len(waiting)
        <4>1. waiting[i] \in Conns /\ waiting[i] # c
          BY <1>2, <1>4, <3>2, ElementOfSeq
        <4>2. /\ token_of[waiting[i]] \in Tokens /\ Unannounced(waiting[i]) /\ waiting[i] # cur
              /\ \A j \in 1..Len(waiting) : waiting[j] = waiting[i] => j = i
          BY <3>2 DEF HotDeskInv, NewcomersUnknown
        <4>3. \A j \in 1..Len(waiting') : waiting'[j] = waiting'[i] => j = i
          BY <1>3, <3>2, <4>1, <4>2
        <4> QED
          BY <1>1, <1>3, <1>5, <3>2, <4>1, <4>2, <4>3 DEF Unannounced
      <3> QED
        BY <1>3, <3>1, <3>2
    <2> QED
      BY <2>1, <2>2 DEF NewcomersUnknown
  <1>8. AnnouncedOnce'
    <2>1. ASSUME NEW k \in 1..Len(channel), channel[k].msg = "connected"
          PROVE  token_of'[channel[k].conn] \in Tokens
      <3>1. channel[k].conn \in Conns
        BY <1>2, <2>1, ElementOfSeq, MessageFacts
      <3> QED
        BY <1>5, <2>1, <3>1 DEF HotDeskInv, AnnouncedOnce
    <2> QED
      BY <1>1, <2>1 DEF HotDeskInv, AnnouncedOnce
  <1>9. Alternates' /\ InputsAreBound'
    BY <1>1 DEF HotDeskInv, Alternates, InputsAreBound, compVars
  <1>10. ServedIsKnown'
    BY <1>1, <1>2, <1>4, <1>5, HotDeskAssumption DEF HotDeskInv, ServedIsKnown, compVars, Unannounced
  <1>11. BoundIsKnown'
    BY <1>1, <1>2, <1>5 DEF HotDeskInv, BoundIsKnown, OneActive, Active, compVars, vars
  <1> QED
    BY <1>6, <1>7, <1>8, <1>9, <1>10, <1>11 DEF HotDeskInv

\* The server loop takes the next client, from idle or over another's head.
LEMMA TakeInv ==
  ASSUME HotDeskInv, TakeClient \/ Preempt, IInv', failures' = 0
  PROVE  HotDeskInv'
  <1>1. /\ waiting # <<>> /\ pc' = "starting" /\ cur' = Head(waiting) /\ waiting' = Tail(waiting)
        /\ UNCHANGED <<vars, token_of, reply, compVars>>
        /\ hello' \in {hello, 0}
        /\ \/ channel' = Append(channel, Disconnected)
           \/ channel' = channel /\ pc = "idle"
    BY DEF TakeClient, Preempt
  <1>2. /\ HotDeskTypeOK /\ waiting \in Seq(Conns) /\ channel \in Seq(Message)
    BY ThreadTypes DEF HotDeskInv
  <1>3. /\ Len(waiting) \in Nat \ {0} /\ Len(waiting') = Len(waiting) - 1
        /\ waiting' \in Seq(Conns) /\ cur' = waiting[1] /\ cur' \in Conns
        /\ \A i \in 1..Len(waiting') : waiting'[i] = waiting[i + 1]
    BY <1>1, <1>2, HeadTailProperties, EmptySeq, LenProperties
  <1>4. /\ channel' \in Seq(Message)
        /\ \A c : Unannounced(c) => Unannounced(c)'
        /\ AnnouncedOnce' /\ Alternates' /\ InputsAreBound' /\ BoundIsKnown'
        /\ IF channel' = <<>> THEN active_session' = 0 ELSE channel'[Len(channel')] = Disconnected
    <2>1. CASE channel' = Append(channel, Disconnected)
      BY <1>1, <2>1, EndTold
    <2>2. CASE channel' = channel /\ pc = "idle"
      BY <1>1, <1>2, <2>2
      DEF HotDeskInv, Unannounced, AnnouncedOnce, Alternates, InputsAreBound, BoundIsKnown,
          OneActive, Active, ServedIsKnown, compVars, vars
    <2> QED
      BY <1>1, <2>1, <2>2
  <1>5. HotDeskTypeOK'
    BY <1>1, <1>2, <1>3, <1>4, HotDeskAssumption
    DEF HotDeskTypeOK, compVars, vars, TypeOK, IInv, Message
  <1>6. NewcomersUnknown'
    <2>1. ASSUME NEW d \in Conns, token_of'[d] = NoConn
          PROVE  (Unannounced(d) /\ d # cur /\ \A i \in 1..Len(waiting) : waiting[i] # d)'
      BY <1>1, <1>3, <1>4, <2>1 DEF HotDeskInv, NewcomersUnknown
    <2>2. ASSUME NEW i \in 1..Len(waiting')
          PROVE  (/\ token_of[waiting[i]] \in Tokens
                  /\ Unannounced(waiting[i]) /\ waiting[i] # cur
                  /\ \A j \in 1..Len(waiting) : waiting[j] = waiting[i] => j = i)'
      <3>1. i + 1 \in 1..Len(waiting) /\ 1 \in 1..Len(waiting) /\ waiting[i + 1] \in Conns
        BY <1>2, <1>3, ElementOfSeq
      <3>2. /\ token_of[waiting[i + 1]] \in Tokens /\ Unannounced(waiting[i + 1])
            /\ \A j \in 1..Len(waiting) : waiting[j] = waiting[i + 1] => j = i + 1
        BY <3>1 DEF HotDeskInv, NewcomersUnknown
      <3>3. \A j \in 1..Len(waiting') : j + 1 \in 1..Len(waiting)
        BY <1>3
      <3> QED
        BY <1>1, <1>3, <1>4, <3>1, <3>2, <3>3 DEF Unannounced
    <2> QED
      BY <2>1, <2>2 DEF NewcomersUnknown
  <1>7. ServedIsKnown'
    <2>1. (token_of[cur] \in Tokens /\ Unannounced(cur))'
      BY <1>1, <1>3, <1>4 DEF HotDeskInv, NewcomersUnknown, Unannounced
    <2> QED
      BY <1>1, <1>4, <2>1 DEF ServedIsKnown
  <1> QED
    BY <1>4, <1>5, <1>6, <1>7 DEF HotDeskInv

\* serve_client returns.
LEMMA EndInv ==
  ASSUME HotDeskInv, ServeEnds, IInv', failures' = 0
  PROVE  HotDeskInv'
  <1>1. /\ pc' = "idle" /\ cur' = NoConn /\ hello' = 0
        /\ channel' = Append(channel, Disconnected)
        /\ UNCHANGED <<vars, token_of, waiting, reply, compVars>>
    BY DEF ServeEnds
  <1>2. /\ HotDeskTypeOK /\ waiting \in Seq(Conns)
    BY ThreadTypes DEF HotDeskInv
  <1>3. /\ channel' \in Seq(Message) /\ channel' # <<>> /\ channel'[Len(channel')] = Disconnected
        /\ \A c : Unannounced(c) => Unannounced(c)'
        /\ AnnouncedOnce' /\ Alternates' /\ InputsAreBound' /\ BoundIsKnown'
    BY <1>1, EndTold
  <1>4. HotDeskTypeOK'
    BY <1>1, <1>2, <1>3 DEF HotDeskTypeOK, compVars, vars, TypeOK, IInv, Message
  <1>5. NewcomersUnknown'
    <2>1. \A i \in 1..Len(waiting) : waiting[i] \in Conns
      BY <1>2, ElementOfSeq
    <2> QED
      BY <1>1, <1>3, <2>1, HotDeskAssumption DEF HotDeskInv, NewcomersUnknown, Unannounced
  <1>6. ServedIsKnown'
    BY <1>1, <1>3 DEF ServedIsKnown
  <1> QED
    BY <1>3, <1>4, <1>5, <1>6 DEF HotDeskInv

\* A message behind all others does not disturb the inputs ahead of it.
LEMMA InputsAhead ==
  ASSUME HotDeskInv, NEW m \in Message, channel' = Append(channel, m), m.msg # "input",
         UNCHANGED compVars
  PROVE  InputsAreBound'
  <1>1. /\ Len(channel) \in Nat /\ Len(channel') = Len(channel) + 1
        /\ \A k \in 1..Len(channel) : channel'[k] = channel[k]
        /\ channel'[Len(channel) + 1] = m
    BY ThreadTypes, Sent DEF HotDeskInv
  <1>2. ASSUME NEW k \in 1..Len(channel'), channel'[k].msg = "input"
        PROVE  client_addr # NoConn /\ \A j \in 1..k : channel'[j] = Input(client_addr)
    <2>1. k \in 1..Len(channel) /\ channel[k].msg = "input"
      BY <1>1, <1>2
    <2>2. client_addr # NoConn /\ \A j \in 1..k : channel[j] = Input(client_addr)
      BY <2>1 DEF HotDeskInv, InputsAreBound
    <2>3. \A j \in 1..k : j \in 1..Len(channel)
      BY <1>1, <2>1
    <2> QED
      BY <1>1, <2>2, <2>3
  <1> QED
    BY <1>2 DEF InputsAreBound, compVars, Input

\* The first poll of serve_client announces the client behind a Disconnected,
\* or to a compositor that has nothing bound.
LEMMA AnnounceInv ==
  ASSUME HotDeskInv, Announce, IInv', failures' = 0
  PROVE  HotDeskInv'
  <1>1. /\ pc = "starting" /\ pc' = "binding" /\ channel' = Append(channel, Connected(cur))
        /\ UNCHANGED <<vars, token_of, waiting, cur, hello, reply, compVars>>
    BY DEF Announce
  <1>2. /\ HotDeskTypeOK /\ waiting \in Seq(Conns) /\ channel \in Seq(Message) /\ cur \in Conns
    BY <1>1, ThreadTypes DEF HotDeskInv
  <1>3. /\ channel' \in Seq(Message) /\ channel' # <<>>
        /\ Len(channel) \in Nat /\ Len(channel') = Len(channel) + 1
        /\ \A k \in 1..Len(channel) : channel'[k] = channel[k]
        /\ channel'[Len(channel) + 1] = Connected(cur)
        /\ \A k \in 1..Len(channel') : k \in 1..Len(channel) \/ k = Len(channel) + 1
    BY <1>1, <1>2, Sent, MessageFacts
  <1>4. /\ Unannounced(cur) /\ token_of[cur] \in Tokens
        /\ IF channel = <<>> THEN active_session = 0 ELSE channel[Len(channel)] = Disconnected
    BY <1>1, <1>2, HotDeskAssumption DEF HotDeskInv, ServedIsKnown
  <1>5. ASSUME NEW c, c # cur, Unannounced(c) PROVE Unannounced(c)'
    BY <1>1, <1>3, <1>5, MessageFacts DEF Unannounced
  <1>6. HotDeskTypeOK'
    BY <1>1, <1>2, <1>3 DEF HotDeskTypeOK, compVars, vars, TypeOK, IInv, Message
  <1>7. NewcomersUnknown'
    BY <1>1, <1>5 DEF HotDeskInv, NewcomersUnknown, Unannounced
  <1>8. AnnouncedOnce'
    <2>1. ASSUME NEW k \in 1..Len(channel), channel[k].msg = "connected"
          PROVE  /\ reply[channel[k].conn] = Undecided /\ token_of[channel[k].conn] \in Tokens
                 /\ channel[k] # Connected(cur)
                 /\ \A j \in 1..Len(channel) : channel[j] = channel[k] => j = k
      BY <1>4, <2>1 DEF HotDeskInv, AnnouncedOnce, Unannounced
    <2> QED
      BY <1>1, <1>3, <1>4, <2>1, MessageFacts DEF AnnouncedOnce, Unannounced
  <1>9. Alternates'
    <2>1. channel = <<>> <=> Len(channel) = 0
      BY <1>2, EmptySeq
    <2>2. ASSUME NEW k \in 1..Len(channel'), channel'[k].msg = "connected"
          PROVE  IF k = 1 THEN active_session = 0 ELSE channel'[k - 1] = Disconnected
      <3>1. CASE k = Len(channel) + 1
        BY <1>3, <1>4, <2>1, <3>1
      <3>2. CASE k \in 1..Len(channel)
        <4>1. k - 1 \in 1..Len(channel) \/ k = 1
          BY <1>3, <3>2
        <4> QED
          BY <1>3, <2>2, <3>2, <4>1 DEF HotDeskInv, Alternates
      <3> QED
        BY <1>3, <3>1, <3>2
    <2> QED
      BY <1>1, <2>2 DEF Alternates, compVars, Disconnected
  <1>10. InputsAreBound'
    BY <1>1, <1>2, InputsAhead, MessageFacts
  <1>11. ServedIsKnown'
    BY <1>1, <1>3, <1>4 DEF ServedIsKnown, Unannounced, Connected, Undecided
  <1>12. BoundIsKnown'
    BY <1>1 DEF HotDeskInv, BoundIsKnown, OneActive, Active, compVars, vars
  <1> QED
    BY <1>6, <1>7, <1>8, <1>9, <1>10, <1>11, <1>12 DEF HotDeskInv

\* The binding decided for the connection is passed on to it.
LEMMA GreetInv ==
  ASSUME HotDeskInv, Greet, IInv', failures' = 0
  PROVE  HotDeskInv'
  <1>1. /\ pc = "binding" /\ reply[cur].decision = "bind" /\ pc' = "relaying" /\ hello' = reply[cur].id
        /\ UNCHANGED <<vars, token_of, waiting, cur, channel, reply, compVars>>
    BY DEF Greet
  <1>2. HotDeskTypeOK /\ cur \in Conns /\ reply[cur] \in Decision /\ reply[cur] # Undecided
    BY <1>1, ThreadTypes, DecisionFacts DEF HotDeskInv
  <1>3. hello' \in Nat
    BY <1>1, <1>2, DecisionFacts
  <1>4. HotDeskTypeOK'
    BY <1>1, <1>2, <1>3 DEF HotDeskTypeOK, compVars, vars, TypeOK, IInv, Message
  <1>5. NewcomersUnknown' /\ AnnouncedOnce' /\ Alternates' /\ InputsAreBound' /\ BoundIsKnown'
    BY <1>1 DEF HotDeskInv, NewcomersUnknown, AnnouncedOnce, Alternates, InputsAreBound, Unannounced,
                BoundIsKnown, OneActive, Active, compVars, vars
  <1>6. ServedIsKnown'
    <2>1. channel = <<>> /\ client_addr = cur /\ active_session = reply[cur].id /\ token_of[cur] \in Tokens
      BY <1>1, <1>2, HotDeskAssumption DEF HotDeskInv, ServedIsKnown
    <2>2. Len(channel) = 0
      BY <2>1
    <2> QED
      BY <1>1, <2>1, <2>2 DEF ServedIsKnown, compVars
  <1> QED
    BY <1>4, <1>5, <1>6 DEF HotDeskInv

\* A relayed input goes behind other inputs of the same, bound, connection.
LEMMA RelayInv ==
  ASSUME HotDeskInv, RelayInput, IInv', failures' = 0
  PROVE  HotDeskInv'
  <1>1. /\ pc = "relaying" /\ channel' = Append(channel, Input(cur))
        /\ UNCHANGED <<vars, token_of, waiting, pc, cur, hello, reply, compVars>>
    BY DEF RelayInput, netVars
  <1>2. /\ HotDeskTypeOK /\ channel \in Seq(Message) /\ cur \in Conns
    BY <1>1, ThreadTypes DEF HotDeskInv
  <1>3. /\ channel' \in Seq(Message) /\ channel' # <<>>
        /\ Len(channel) \in Nat /\ Len(channel') = Len(channel) + 1
        /\ \A k \in 1..Len(channel) : channel'[k] = channel[k]
        /\ channel'[Len(channel) + 1] = Input(cur)
        /\ \A k \in 1..Len(channel') : k \in 1..Len(channel) \/ k = Len(channel) + 1
    BY <1>1, <1>2, Sent, MessageFacts
  <1>4. /\ token_of[cur] \in Tokens /\ client_addr = cur /\ active_session = hello
        /\ \A k \in 1..Len(channel') : channel'[k] = Input(cur)
    BY <1>1, <1>2, <1>3, HotDeskAssumption DEF HotDeskInv, ServedIsKnown
  <1>5. ASSUME NEW c, Unannounced(c) PROVE Unannounced(c)'
    BY <1>1, <1>4, <1>5, MessageFacts DEF Unannounced
  <1>6. HotDeskTypeOK'
    BY <1>1, <1>2, <1>3 DEF HotDeskTypeOK, compVars, vars, TypeOK, IInv, Message
  <1>7. NewcomersUnknown'
    BY <1>1, <1>5 DEF HotDeskInv, NewcomersUnknown, Unannounced
  <1>8. AnnouncedOnce' /\ Alternates'
    BY <1>4, MessageFacts DEF AnnouncedOnce, Alternates
  <1>9. InputsAreBound'
    <2>1. ASSUME NEW k \in 1..Len(channel')
          PROVE  \A j \in 1..k : channel'[j] = Input(cur)
      BY <1>3, <1>4
    <2> QED
      BY <1>1, <1>2, <1>4, <2>1, HotDeskAssumption DEF InputsAreBound, compVars, Input
  <1>10. ServedIsKnown'
    BY <1>1, <1>4 DEF ServedIsKnown, compVars, Input
  <1>11. BoundIsKnown'
    BY <1>1 DEF HotDeskInv, BoundIsKnown, OneActive, Active, compVars, vars
  <1> QED
    BY <1>6, <1>7, <1>8, <1>9, <1>10, <1>11 DEF HotDeskInv

\* Taking a Connected and deciding it: the compositor had nothing bound, and no
\* other announcement of the connection is left.
LEMMA Decided ==
  ASSUME HotDeskInv, Receive("connected"), NEW d \in Decision \ {Undecided},
         reply' = [reply EXCEPT ![Head(channel).conn] = d], UNCHANGED <<token_of, netVars>>
  PROVE  /\ Head(channel).conn \in Conns /\ token_of[Head(channel).conn] \in Tokens
         /\ active_session = 0 /\ client_addr = NoConn
         /\ channel' \in Seq(Message) /\ reply' \in [Conns -> Decision]
         /\ reply'[Head(channel).conn] = d
         /\ NewcomersUnknown' /\ AnnouncedOnce' /\ Alternates' /\ InputsAreBound'
         /\ pc # "relaying"
         /\ pc \in {"idle", "starting"} => channel' # <<>> /\ channel'[Len(channel')] = Disconnected
         /\ pc = "starting" => Unannounced(cur)'
         /\ pc = "binding" =>
              IF reply'[cur] = Undecided
              THEN channel' # <<>> /\ channel'[Len(channel')] = Connected(cur)
              ELSE channel' = <<>> /\ cur = Head(channel).conn
         /\ cur # NoConn => token_of[cur] \in Tokens
  <1> DEFINE c == Head(channel).conn
  <1>1. /\ channel \in Seq(Message) /\ reply \in [Conns -> Decision] /\ waiting \in Seq(Conns)
        /\ cur \in Conns \cup {NoConn}
        /\ (pc = "idle") <=> (cur = NoConn)
    BY ThreadTypes DEF HotDeskInv
  <1>2. /\ channel' \in Seq(Message)
        /\ Len(channel) \in Nat \ {0} /\ Len(channel') = Len(channel) - 1
        /\ \A k \in 1..Len(channel') : channel'[k] = channel[k + 1] /\ k + 1 \in 1..Len(channel)
        /\ Head(channel) = channel[1] /\ channel[1] = Connected(c) /\ c \in Conns
        /\ channel' = <<>> <=> Len(channel) = 1
        /\ channel # <<>> /\ 1 \in 1..Len(channel) /\ Len(channel) \in 1..Len(channel)
        /\ Len(channel') # 0 => Len(channel') \in 1..Len(channel')
    <2>1. channel # <<>>
      BY DEF Receive
    <2> QED
      BY <1>1, <2>1, Received, MessageFacts
  <1>3. /\ reply' \in [Conns -> Decision] /\ reply'[c] = d
        /\ \A e \in Conns \ {c} : reply'[e] = reply[e]
    BY <1>1, <1>2
  <1>4. /\ channel[1].msg = "connected" /\ channel[1].conn = c
        /\ channel[1] # Disconnected /\ \A e : channel[1] # Input(e)
    BY <1>2, MessageFacts
  <1>5. /\ token_of[c] \in Tokens /\ active_session = 0
        /\ \A j \in 1..Len(channel) : channel[j] = Connected(c) => j = 1
    BY <1>2, <1>4 DEF HotDeskInv, AnnouncedOnce, Alternates
  <1>6. client_addr = NoConn
    BY <1>5 DEF HotDeskInv, BoundIsKnown
  <1>7. \A e \in Conns : Unannounced(e) => e # c /\ Unannounced(e)'
    <2>1. ASSUME NEW e \in Conns, Unannounced(e) PROVE e # c
      BY <1>2, <2>1 DEF Unannounced
    <2> QED
      BY <1>1, <1>3, <2>1, StillUnannounced
  <1>8. NewcomersUnknown'
    <2>1. \A i \in 1..Len(waiting) : waiting[i] \in Conns
      BY <1>1, ElementOfSeq
    <2>2. UNCHANGED <<waiting, cur>>
      BY DEF netVars
    <2> QED
      BY <1>7, <2>1, <2>2 DEF HotDeskInv, NewcomersUnknown, Unannounced
  <1>9. AnnouncedOnce'
    <2>1. ASSUME NEW k \in 1..Len(channel'), channel'[k].msg = "connected"
          PROVE  /\ reply'[channel'[k].conn] = Undecided /\ token_of[channel'[k].conn] \in Tokens
                 /\ \A j \in 1..Len(channel') : channel'[j] = channel'[k] => j = k
      <3>1. channel'[k] = channel[k + 1] /\ k + 1 \in 1..Len(channel) /\ channel[k + 1] \in Message
        BY <1>1, <1>2, ElementOfSeq
      <3>2. /\ reply[channel[k + 1].conn] = Undecided /\ token_of[channel[k + 1].conn] \in Tokens
            /\ \A j \in 1..Len(channel) : channel[j] = channel[k + 1] => j = k + 1
        BY <2>1, <3>1 DEF HotDeskInv, AnnouncedOnce
      <3>3. channel[k + 1].conn \in Conns /\ channel[k + 1] = Connected(channel[k + 1].conn)
        BY <2>1, <3>1, MessageFacts
      <3>4. channel[k + 1].conn # c
        BY <1>5, <3>1, <3>3
      <3>5. \A j \in 1..Len(channel') : channel'[j] = channel'[k] => j = k
        BY <1>2, <3>1, <3>2
      <3> QED
        BY <1>3, <3>1, <3>2, <3>3, <3>4, <3>5
    <2> QED
      BY <2>1 DEF AnnouncedOnce, Undecided
  <1>10. Alternates'
    <2>1. ASSUME NEW k \in 1..Len(channel'), channel'[k].msg = "connected"
          PROVE  k # 1 /\ channel'[k - 1] = Disconnected
      <3>1. channel[k + 1].msg = "connected" /\ k + 1 \in 1..Len(channel) /\ k + 1 # 1
        BY <1>2, <2>1
      <3>2. channel[(k + 1) - 1] = Disconnected
        BY <3>1 DEF HotDeskInv, Alternates
      <3>3. channel[k] = Disconnected /\ k # 1
        BY <1>4, <3>2
      <3>4. k - 1 \in 1..Len(channel') /\ (k - 1) + 1 = k
        BY <1>2, <3>3
      <3> QED
        BY <1>2, <3>3, <3>4
    <2> QED
      BY <2>1 DEF Alternates, Disconnected
  <1>11. InputsAreBound'
    BY <1>2, <1>6 DEF HotDeskInv, InputsAreBound
  <1>12. pc # "relaying"
    BY <1>2, <1>4 DEF HotDeskInv, ServedIsKnown
  <1>13. channel' # <<>> => channel'[Len(channel')] = channel[Len(channel)]
    <2>1. channel' # <<>> => Len(channel') \in 1..Len(channel') /\ Len(channel') + 1 = Len(channel)
      BY <1>2
    <2> QED
      BY <1>2, <2>1
  <1>14. pc \in {"idle", "starting"} => channel' # <<>> /\ channel'[Len(channel')] = Disconnected
    <2>1. pc \in {"idle", "starting"} => channel[Len(channel)] = Disconnected
      BY <1>2 DEF HotDeskInv, ServedIsKnown
    <2> QED
      BY <1>2, <1>4, <1>13, <2>1
  <1>15. pc = "starting" => Unannounced(cur)'
    <2>1. pc = "starting" => cur \in Conns /\ Unannounced(cur)
      BY <1>1 DEF HotDeskInv, ServedIsKnown
    <2>2. cur' = cur
      BY DEF netVars
    <2> QED
      BY <1>7, <2>1, <2>2 DEF Unannounced
  <1>16. ASSUME pc = "binding"
         PROVE  IF reply'[cur] = Undecided
                THEN channel' # <<>> /\ channel'[Len(channel')] = Connected(cur)
                ELSE channel' = <<>> /\ cur = c
    <2>1. cur \in Conns /\ reply[cur] = Undecided /\ channel[Len(channel)] = Connected(cur)
      BY <1>1, <1>2, <1>16 DEF HotDeskInv, ServedIsKnown
    <2>2. CASE cur = c
      BY <1>2, <1>3, <1>5, <2>1, <2>2
    <2>3. CASE cur # c
      <3>1. Len(channel) # 1
        BY <1>2, <2>1, <2>3, MessageFacts
      <3> QED
        BY <1>2, <1>3, <1>13, <2>1, <2>3, <3>1
    <2> QED
      BY <2>2, <2>3
  <1>17. cur # NoConn => token_of[cur] \in Tokens
    BY DEF HotDeskInv, ServedIsKnown
  <1> QED
    BY <1>2, <1>3, <1>5, <1>6, <1>8, <1>9, <1>10, <1>11, <1>12, <1>14, <1>15, <1>16, <1>17

\* The compositor binds the client and answers it.
LEMMA ConnectedInv ==
  ASSUME HotDeskInv, HandleConnected, IInv', failures' = 0
  PROVE  HotDeskInv'
  <1> DEFINE c  == Head(channel).conn
             t  == token_of[c]
             id == token_index'[t]
  <1>1. /\ Receive("connected") /\ Resolve(t)
        /\ active_session' = id /\ client_addr' = c /\ client_connected' = TRUE
        /\ reply' = [reply EXCEPT ![c] = Bind(id)]
        /\ UNCHANGED <<token_of, netVars, keys_down>>
    BY DEF HandleConnected
  <1>2. t \in Tokens /\ active_session = 0
    <2>1. channel \in Seq(Message)
      BY ThreadTypes DEF HotDeskInv
    <2>2. channel[1] = Head(channel) /\ channel[1].msg = "connected" /\ 1 \in 1..Len(channel)
      BY <1>1, <2>1, Received
    <2> QED
      BY <2>2 DEF HotDeskInv, AnnouncedOnce, Alternates
  <1>3. /\ id \in Nat \ {0} /\ Active' = {id} /\ sessions'[id].token = t
    BY <1>1, <1>2, ResolveBinds
  <1>4. /\ Bind(id) \in Decision \ {Undecided} /\ Bind(id).decision = "bind" /\ Bind(id).id = id
    BY <1>3, DecisionFacts
  <1>5. /\ c \in Conns /\ client_addr = NoConn
        /\ channel' \in Seq(Message) /\ reply' \in [Conns -> Decision]
        /\ reply'[c] = Bind(id)
        /\ NewcomersUnknown' /\ AnnouncedOnce' /\ Alternates' /\ InputsAreBound'
        /\ pc # "relaying"
        /\ pc \in {"idle", "starting"} => channel' # <<>> /\ channel'[Len(channel')] = Disconnected
        /\ pc = "starting" => Unannounced(cur)'
        /\ pc = "binding" =>
             IF reply'[cur] = Undecided
             THEN channel' # <<>> /\ channel'[Len(channel')] = Connected(cur)
             ELSE channel' = <<>> /\ cur = c
        /\ cur # NoConn => token_of[cur] \in Tokens
    BY <1>1, <1>4, Decided
  <1>6. HotDeskTypeOK'
    <2>1. HotDeskTypeOK
      BY DEF HotDeskInv
    <2> QED
      BY <1>1, <1>3, <1>5, <2>1 DEF HotDeskTypeOK, netVars, IInv, Message, Decision
  <1>7. ServedIsKnown'
    <2>1. UNCHANGED <<token_of, pc, cur>>
      BY <1>1 DEF netVars
    <2> QED
      BY <1>1, <1>4, <1>5, <2>1 DEF ServedIsKnown, Connected, Disconnected, Undecided
  <1>8. BoundIsKnown'
    <2>1. c # NoConn /\ id # 0
      BY <1>3, <1>5, HotDeskAssumption
    <2> QED
      BY <1>1, <1>2, <1>3, <2>1 DEF BoundIsKnown, OneActive
  <1> QED
    BY <1>5, <1>6, <1>7, <1>8 DEF HotDeskInv

\* The compositor sends the client to a peer.
LEMMA RedirectInv ==
  ASSUME HotDeskInv, HandleRedirect, IInv', failures' = 0
  PROVE  HotDeskInv'
  <1>1. /\ Receive("connected") /\ reply' = [reply EXCEPT ![Head(channel).conn] = Redirected]
        /\ UNCHANGED <<vars, token_of, netVars, compVars>>
    BY DEF HandleRedirect
  <1>2. Redirected \in Decision \ {Undecided} /\ Redirected.decision # "bind"
    BY DecisionFacts DEF Decision
  <1>3. /\ channel' \in Seq(Message) /\ reply' \in [Conns -> Decision]
        /\ reply'[Head(channel).conn] = Redirected
        /\ NewcomersUnknown' /\ AnnouncedOnce' /\ Alternates' /\ InputsAreBound'
        /\ pc # "relaying"
        /\ pc \in {"idle", "starting"} => channel' # <<>> /\ channel'[Len(channel')] = Disconnected
        /\ pc = "starting" => Unannounced(cur)'
        /\ pc = "binding" =>
             IF reply'[cur] = Undecided
             THEN channel' # <<>> /\ channel'[Len(channel')] = Connected(cur)
             ELSE channel' = <<>> /\ cur = Head(channel).conn
        /\ cur # NoConn => token_of[cur] \in Tokens
    BY <1>1, <1>2, Decided
  <1>4. HotDeskTypeOK'
    <2>1. HotDeskTypeOK
      BY DEF HotDeskInv
    <2> QED
      BY <1>1, <1>3, <2>1 DEF HotDeskTypeOK, netVars, compVars, IInv, Message, Decision
  <1>5. ServedIsKnown'
    <2>1. UNCHANGED <<token_of, pc, cur>>
      BY <1>1 DEF netVars
    <2> QED
      BY <1>1, <1>2, <1>3, <2>1 DEF ServedIsKnown, Connected, Disconnected, Undecided
  <1>6. BoundIsKnown'
    BY <1>1 DEF HotDeskInv, BoundIsKnown, OneActive, Active, compVars, vars
  <1> QED
    BY <1>3, <1>4, <1>5, <1>6 DEF HotDeskInv

\* Taking any other message: what is left in the channel keeps its order.
LEMMA Taken ==
  ASSUME HotDeskInv, NEW msg \in {"input", "disconnected"}, Receive(msg),
         UNCHANGED <<token_of, netVars, reply>>,
         msg = "disconnected" => active_session' = 0
  PROVE  /\ channel' \in Seq(Message)
         /\ NewcomersUnknown' /\ AnnouncedOnce' /\ Alternates'
         /\ pc \in {"idle", "starting"} =>
              IF channel' = <<>> THEN active_session' = 0 ELSE channel'[Len(channel')] = Disconnected
         /\ pc = "starting" => Unannounced(cur)'
         /\ pc = "binding" =>
              /\ reply[cur] = Undecided
              /\ channel' # <<>> /\ channel'[Len(channel')] = Connected(cur)
         /\ pc = "relaying" => \A k \in 1..Len(channel') : channel'[k] = Input(cur)
  <1>1. /\ channel \in Seq(Message) /\ waiting \in Seq(Conns)
        /\ UNCHANGED <<waiting, pc, cur>>
    BY ThreadTypes DEF HotDeskInv, netVars
  <1>2. /\ channel' \in Seq(Message)
        /\ Len(channel) \in Nat \ {0} /\ Len(channel') = Len(channel) - 1
        /\ \A k \in 1..Len(channel') : channel'[k] = channel[k + 1] /\ k + 1 \in 1..Len(channel)
        /\ channel' = <<>> <=> Len(channel) = 1
        /\ channel # <<>> /\ 1 \in 1..Len(channel) /\ Len(channel) \in 1..Len(channel)
        /\ channel[1].msg = msg /\ channel[1].msg # "connected"
        /\ msg # "disconnected" => channel[1] # Disconnected
        /\ \A c : channel[1] # Connected(c)
    <2>1. channel # <<>>
      BY DEF Receive
    <2> QED
      BY <1>1, <2>1, Received, MessageFacts
  <1>3. \A c \in Conns : Unannounced(c) => Unannounced(c)'
    BY <1>1, StillUnannounced
  <1>4. NewcomersUnknown'
    <2>1. \A i \in 1..Len(waiting) : waiting[i] \in Conns
      BY <1>1, ElementOfSeq
    <2> QED
      BY <1>1, <1>3, <2>1 DEF HotDeskInv, NewcomersUnknown, Unannounced
  <1>5. AnnouncedOnce'
    <2>1. ASSUME NEW k \in 1..Len(channel'), channel'[k].msg = "connected"
          PROVE  /\ reply[channel'[k].conn] = Undecided /\ token_of[channel'[k].conn] \in Tokens
                 /\ \A j \in 1..Len(channel') : channel'[j] = channel'[k] => j = k
      <3>1. /\ reply[channel[k + 1].conn] = Undecided /\ token_of[channel[k + 1].conn] \in Tokens
            /\ \A j \in 1..Len(channel) : channel[j] = channel[k + 1] => j = k + 1
        BY <1>2, <2>1 DEF HotDeskInv, AnnouncedOnce
      <3>2. \A j \in 1..Len(channel') : channel'[j] = channel'[k] => j = k
        BY <1>2, <3>1
      <3> QED
        BY <1>2, <3>1, <3>2
    <2> QED
      BY <2>1 DEF AnnouncedOnce, Undecided
  <1>6. Alternates'
    <2>1. ASSUME NEW k \in 1..Len(channel'), channel'[k].msg = "connected"
          PROVE  IF k = 1 THEN active_session' = 0 ELSE channel'[k - 1] = Disconnected
      <3>1. channel[k + 1].msg = "connected" /\ k + 1 \in 1..Len(channel) /\ k + 1 # 1
        BY <1>2, <2>1
      <3>2. channel[(k + 1) - 1] = Disconnected
        BY <3>1 DEF HotDeskInv, Alternates
      <3>3. CASE k = 1
        BY <1>2, <3>2, <3>3
      <3>4. CASE k # 1
        <4>1. k - 1 \in 1..Len(channel') /\ (k - 1) + 1 = k /\ (k + 1) - 1 = k
          BY <1>2, <3>4
        <4> QED
          BY <1>2, <3>2, <3>4, <4>1
      <3> QED
        BY <3>3, <3>4
    <2> QED
      BY <2>1 DEF Alternates, Disconnected
  <1>7. channel' # <<>> => channel'[Len(channel')] = channel[Len(channel)]
    <2>1. channel' # <<>> => Len(channel') \in 1..Len(channel') /\ Len(channel') + 1 = Len(channel)
      BY <1>2
    <2> QED
      BY <1>2, <2>1
  <1>8. ASSUME pc \in {"idle", "starting"}
        PROVE  IF channel' = <<>> THEN active_session' = 0 ELSE channel'[Len(channel')] = Disconnected
    <2>1. channel[Len(channel)] = Disconnected
      BY <1>2, <1>8 DEF HotDeskInv, ServedIsKnown
    <2> QED
      BY <1>2, <1>7, <2>1
  <1>9. pc = "starting" => Unannounced(cur)'
    <2>1. pc = "starting" => cur \in Conns /\ Unannounced(cur)
      BY ThreadTypes DEF HotDeskInv, ServedIsKnown
    <2> QED
      BY <1>1, <1>3, <2>1 DEF Unannounced
  <1>10. ASSUME pc = "binding"
         PROVE  /\ reply[cur] = Undecided
                /\ channel' # <<>> /\ channel'[Len(channel')] = Connected(cur)
    <2>1. reply[cur] = Undecided /\ channel[Len(channel)] = Connected(cur)
      BY <1>2, <1>10 DEF HotDeskInv, ServedIsKnown
    <2> QED
      BY <1>2, <1>7, <2>1
  <1>11. pc = "relaying" => \A k \in 1..Len(channel') : channel'[k] = Input(cur)
    BY <1>2 DEF HotDeskInv, ServedIsKnown
  <1> QED
    BY <1>2, <1>4, <1>5, <1>6, <1>8, <1>9, <1>10, <1>11

\* The compositor lets go of the client.
LEMMA DisconnectedInv ==
  ASSUME HotDeskInv, HandleDisconnected, IInv', failures' = 0
  PROVE  HotDeskInv'
  <1>1. /\ Receive("disconnected") /\ keys_down' = NoConn /\ active_session' = 0
        /\ client_connected' = FALSE /\ client_addr' = NoConn
        /\ UNCHANGED <<token_of, netVars, reply>>
    BY DEF HandleDisconnected
  <1>2. /\ channel \in Seq(Message) /\ HotDeskTypeOK /\ cur' = cur /\ pc' = pc
    BY <1>1, ThreadTypes DEF HotDeskInv, netVars
  <1>3. /\ channel' \in Seq(Message)
        /\ NewcomersUnknown' /\ AnnouncedOnce' /\ Alternates'
        /\ pc \in {"idle", "starting"} =>
             IF channel' = <<>> THEN active_session' = 0 ELSE channel'[Len(channel')] = Disconnected
        /\ pc = "starting" => Unannounced(cur)'
        /\ pc = "binding" =>
             /\ reply[cur] = Undecided
             /\ channel' # <<>> /\ channel'[Len(channel')] = Connected(cur)
    BY <1>1, Taken
  <1>4. /\ Len(channel) \in Nat \ {0} /\ Len(channel') = Len(channel) - 1
        /\ \A k \in 1..Len(channel') : channel'[k] = channel[k + 1]
        /\ channel[1].msg = "disconnected" /\ \A c : channel[1] # Input(c)
    BY <1>1, <1>2, Received, MessageFacts
  <1>5. HotDeskTypeOK'
    BY <1>1, <1>2, <1>3 DEF HotDeskTypeOK, netVars, IInv, Message
  <1>6. InputsAreBound'
    <2>1. ASSUME NEW k \in 1..Len(channel') PROVE channel'[k].msg # "input"
      <3>1. k + 1 \in 1..Len(channel) /\ 1 \in 1..(k + 1)
        BY <1>4
      <3>2. channel[k + 1].msg # "input"
        BY <1>4, <3>1 DEF HotDeskInv, InputsAreBound
      <3> QED
        BY <1>4, <3>2
    <2> QED
      BY <2>1 DEF InputsAreBound
  <1>7. ServedIsKnown'
    <2>1. pc # "relaying"
      <3>1. 1 \in 1..Len(channel)
        BY <1>4
      <3> QED
        BY <1>4, <3>1 DEF HotDeskInv, ServedIsKnown
    <2>2. cur # NoConn => token_of[cur] \in Tokens
      BY DEF HotDeskInv, ServedIsKnown
    <2> QED
      BY <1>1, <1>2, <1>3, <2>1, <2>2 DEF ServedIsKnown, Connected, Disconnected, Undecided
  <1>8. BoundIsKnown'
    <2>1. Active' = {}
      BY DisconnectSuspends
    <2> QED
      BY <1>1, <2>1 DEF BoundIsKnown, OneActive
  <1> QED
    BY <1>3, <1>5, <1>6, <1>7, <1>8 DEF HotDeskInv

\* An input comes from the client that is bound.
LEMMA InputFromBound ==
  ASSUME HotDeskInv, HandleInput
  PROVE  client_addr # NoConn /\ keys_down' = client_addr
  <1>1. Receive("input") /\ keys_down' = Head(channel).conn
    BY DEF HandleInput
  <1>2. channel[1] = Head(channel) /\ channel[1].msg = "input" /\ 1 \in 1..Len(channel) /\ 1 \in 1..1
    BY <1>1, Received, ThreadTypes DEF HotDeskInv
  <1>3. client_addr # NoConn /\ channel[1] = Input(client_addr)
    BY <1>2 DEF HotDeskInv, InputsAreBound
  <1> QED
    BY <1>1, <1>2, <1>3, MessageFacts

\* The compositor takes an input.
LEMMA InputInv ==
  ASSUME HotDeskInv, HandleInput, IInv', failures' = 0
  PROVE  HotDeskInv'
  <1>1. /\ Receive("input")
        /\ UNCHANGED <<vars, token_of, netVars, reply, active_session, client_connected, client_addr>>
    BY DEF HandleInput
  <1>2. /\ channel \in Seq(Message) /\ HotDeskTypeOK /\ UNCHANGED <<cur, pc, hello>>
        /\ client_addr # NoConn /\ keys_down' = client_addr /\ client_addr \in Conns
    BY <1>1, InputFromBound, ThreadTypes DEF HotDeskInv, netVars
  <1>3. /\ channel' \in Seq(Message)
        /\ NewcomersUnknown' /\ AnnouncedOnce' /\ Alternates'
        /\ pc \in {"idle", "starting"} =>
             IF channel' = <<>> THEN active_session' = 0 ELSE channel'[Len(channel')] = Disconnected
        /\ pc = "starting" => Unannounced(cur)'
        /\ pc = "binding" =>
             /\ reply[cur] = Undecided
             /\ channel' # <<>> /\ channel'[Len(channel')] = Connected(cur)
        /\ pc = "relaying" => \A k \in 1..Len(channel') : channel'[k] = Input(cur)
    BY <1>1, Taken
  <1>4. /\ Len(channel) \in Nat \ {0} /\ Len(channel') = Len(channel) - 1
        /\ \A k \in 1..Len(channel') : channel'[k] = channel[k + 1]
    BY <1>1, <1>2, Received
  <1>5. HotDeskTypeOK'
    BY <1>1, <1>2, <1>3 DEF HotDeskTypeOK, netVars, IInv, Message
  <1>6. InputsAreBound'
    <2>1. ASSUME NEW k \in 1..Len(channel'), channel'[k].msg = "input"
          PROVE  \A j \in 1..k : channel'[j] = Input(client_addr)
      <3>1. k + 1 \in 1..Len(channel) /\ channel[k + 1].msg = "input"
        BY <1>4, <2>1
      <3>2. \A j \in 1..(k + 1) : channel[j] = Input(client_addr)
        BY <3>1 DEF HotDeskInv, InputsAreBound
      <3>3. \A j \in 1..k : j \in 1..Len(channel') /\ j + 1 \in 1..(k + 1)
        BY <1>4
      <3> QED
        BY <1>4, <3>2, <3>3
    <2> QED
      BY <1>1, <1>2, <2>1 DEF InputsAreBound, Input
  <1>7. ServedIsKnown'
    <2>1. /\ cur # NoConn => token_of[cur] \in Tokens
          /\ pc = "relaying" => client_addr = cur /\ active_session = hello
      BY DEF HotDeskInv, ServedIsKnown
    <2> QED
      BY <1>1, <1>2, <1>3, <2>1 DEF ServedIsKnown, Connected, Input, Disconnected, Undecided
  <1>8. BoundIsKnown'
    BY <1>1, <1>2 DEF HotDeskInv, BoundIsKnown, OneActive, Active, vars
  <1> QED
    BY <1>3, <1>5, <1>6, <1>7, <1>8 DEF HotDeskInv

\* The clock and the sweep do not concern the two threads.
LEMMA HousekeepingInv ==
  ASSUME HotDeskInv, Housekeeping, IInv', failures' = 0
  PROVE  HotDeskInv'
  <1>1. /\ Tick \/ CleanupExpired
        /\ UNCHANGED <<token_of, netVars, channel, reply, compVars>>
    BY DEF Housekeeping
  <1>2. Active' = Active /\ \A id \in Active : sessions'[id].token = sessions[id].token
    BY <1>1, HousekeepingSpares
  <1>3. HotDeskTypeOK'
    BY <1>1 DEF HotDeskInv, HotDeskTypeOK, netVars, compVars, IInv
  <1>4. NewcomersUnknown' /\ AnnouncedOnce' /\ Alternates' /\ InputsAreBound' /\ ServedIsKnown'
    BY <1>1 DEF HotDeskInv, NewcomersUnknown, AnnouncedOnce, Alternates, InputsAreBound, Unannounced,
                ServedIsKnown, compVars, netVars
  <1>5. BoundIsKnown'
    BY <1>1, <1>2 DEF HotDeskInv, BoundIsKnown, OneActive, compVars
  <1> QED
    BY <1>3, <1>4, <1>5 DEF HotDeskInv

-----------------------------------------------------------------------------
(***************************************************************************)
(* The theorems.                                                           *)
(***************************************************************************)

\* Every step of either thread keeps the invariant.
LEMMA HotDeskStep ==
  ASSUME HotDeskInv, [HotDeskNext]_allVars
  PROVE  HotDeskInv'
  <1>1. IInv' /\ failures' = 0
    BY RegistryStep
  <1>2. CASE \E c \in Conns, t \in Tokens : Arrive(c, t)
    BY <1>1, <1>2, ArriveInv
  <1>3. CASE Network
    BY <1>1, <1>3, TakeInv, AnnounceInv, GreetInv, EndInv, RelayInv DEF Network
  <1>4. CASE Compositor
    BY <1>1, <1>4, ConnectedInv, RedirectInv, DisconnectedInv, InputInv DEF Compositor
  <1>5. CASE Housekeeping
    BY <1>1, <1>5, HousekeepingInv
  <1>6. CASE UNCHANGED allVars
    <2>1. UNCHANGED <<vars, token_of, netVars, channel, reply, compVars>>
      BY <1>6 DEF allVars
    <2>2. HotDeskTypeOK'
      BY <1>1, <2>1 DEF HotDeskInv, HotDeskTypeOK, netVars, compVars, IInv
    <2>3. NewcomersUnknown' /\ AnnouncedOnce' /\ Alternates' /\ InputsAreBound' /\ ServedIsKnown'
      BY <2>1 DEF HotDeskInv, NewcomersUnknown, AnnouncedOnce, Alternates, InputsAreBound, Unannounced,
                  ServedIsKnown, compVars, netVars
    <2>4. BoundIsKnown'
      BY <2>1 DEF HotDeskInv, BoundIsKnown, OneActive, Active, compVars, vars
    <2> QED
      BY <1>1, <2>2, <2>3, <2>4 DEF HotDeskInv
  <1> QED
    BY <1>2, <1>3, <1>4, <1>5, <1>6 DEF HotDeskNext

\* A server without clients, whose registry is empty.
LEMMA HotDeskStart ==
  ASSUME HotDeskInit
  PROVE  HotDeskInv
  <1>1. IInv /\ failures = 0 /\ DOMAIN sessions = {}
    BY InitIInv DEF HotDeskInit, Init
  <1>2. NobodyYet /\ Len(waiting) = 0 /\ Len(channel) = 0
    BY DEF HotDeskInit, NobodyYet
  <1>3. HotDeskTypeOK
    <2>1. reply \in [Conns -> Decision] /\ token_of \in [Conns -> Tokens \cup {NoConn}]
      BY <1>2 DEF NobodyYet, Decision
    <2>2. waiting \in Seq(Conns) /\ channel \in Seq(Message)
      BY <1>2, EmptySeq DEF NobodyYet
    <2>3. /\ pc = "idle" /\ cur = NoConn /\ hello = 0 /\ active_session = 0
          /\ client_connected = FALSE /\ client_addr = NoConn /\ keys_down = NoConn
      BY <1>2 DEF NobodyYet
    <2> QED
      BY <1>1, <2>1, <2>2, <2>3, ThreadTypes DEF IInv
  <1>4. NewcomersUnknown /\ AnnouncedOnce /\ Alternates /\ InputsAreBound /\ ServedIsKnown
    BY <1>2, HotDeskAssumption
    DEF NobodyYet, NewcomersUnknown, AnnouncedOnce, Alternates, InputsAreBound, ServedIsKnown, Unannounced
  <1>5. BoundIsKnown
    BY <1>1, <1>2 DEF NobodyYet, BoundIsKnown, OneActive, Active
  <1> QED
    BY <1>1, <1>3, <1>4, <1>5 DEF HotDeskInv

\* The invariant that relates the positions of the two threads, the messages
\* between them and the registry holds whatever the interleaving.
THEOREM HotDeskInvariant == HotDeskSpec => []HotDeskInv
  <1>1. HotDeskInit => HotDeskInv
    BY HotDeskStart
  <1>2. HotDeskInv /\ [HotDeskNext]_allVars => HotDeskInv'
    BY HotDeskStep
  <1> QED
    BY <1>1, <1>2, PTL DEF HotDeskSpec

\* The two threads' variables keep their types (CalloopData of headless.rs, the
\* locals of server_loop, the channel between them).
THEOREM HotDeskTypes == HotDeskSpec => []HotDeskTypeOK
  <1>1. HotDeskInv => HotDeskTypeOK
    BY DEF HotDeskInv
  <1> QED
    BY <1>1, HotDeskInvariant, PTL

\* No preemption, timeout or late decision leaves a session Active that is not
\* the bound client's (the Disconnected handling of drain_network_events), and
\* once nobody is served a Disconnected is on its way to the last one.
THEOREM NoActiveSessionLeft == HotDeskSpec => []ActiveIsBound
  <1>1. HotDeskInv => ActiveIsBound
    <2> SUFFICES ASSUME HotDeskInv PROVE ActiveIsBound
      OBVIOUS
    <2>1. OneActive
      BY DEF HotDeskInv, BoundIsKnown
    <2>2. ASSUME pc = "idle", Active # {} PROVE channel # <<>> /\ channel[Len(channel)] = Disconnected
      <3>1. active_session # 0
        BY <2>1, <2>2, RegistryFacts DEF OneActive, Active
      <3> QED
        BY <2>2, <3>1 DEF HotDeskInv, ServedIsKnown
    <2> QED
      BY <2>1, <2>2 DEF OneActive, ActiveIsBound
  <1> QED
    BY <1>1, HotDeskInvariant, PTL

\* A client that serve_client relays is the one the compositor is bound to, and
\* its ServerHello named the session of its own token.
THEOREM RelayedClientIsBound == HotDeskSpec => []RelayedIsBound
  <1>1. HotDeskInv => RelayedIsBound
    <2> SUFFICES ASSUME HotDeskInv, pc = "relaying"
                 PROVE  /\ client_addr = cur /\ active_session = hello
                        /\ hello \in DOMAIN sessions
                        /\ sessions[hello].token = token_of[cur]
      BY DEF RelayedIsBound
    <2>1. client_addr = cur /\ active_session = hello
      BY DEF HotDeskInv, ServedIsKnown
    <2>2. cur # NoConn
      BY ThreadTypes DEF HotDeskInv
    <2> QED
      BY <2>1, <2>2 DEF HotDeskInv, BoundIsKnown, OneActive, Active
  <1> QED
    BY <1>1, HotDeskInvariant, PTL

-----------------------------------------------------------------------------
(***************************************************************************)
(* The refinement of Desk.                                                 *)
(***************************************************************************)

\* What the desk shows of the sessions.
Shown == [t \in Tokens |-> DeskSession(t)]

\* With no client and no session the desk is free.
LEMMA DeskStarts ==
  ASSUME HotDeskInit
  PROVE  Abstract!DeskInit
  BY DEF HotDeskInit, Init, NobodyYet, DeskSession, Abstract!DeskInit

\* Every step is a step at the desk, or is not seen there.
LEMMA DeskSteps ==
  ASSUME HotDeskInv, [HotDeskNext]_allVars
  PROVE  [Abstract!DeskNext]_(Abstract!deskVars)
  <1>1. CASE HandleConnected
    <2> DEFINE c == Head(channel).conn
               t == token_of[c]
    <2>1. Receive("connected") /\ Resolve(t) /\ client_addr' = c /\ keys_down' = keys_down
      BY <1>1 DEF HandleConnected
    <2>2. channel[1] = Head(channel) /\ channel[1].msg = "connected" /\ 1 \in 1..Len(channel)
          /\ channel[1] \in Message
      BY <2>1, Received, ThreadTypes DEF HotDeskInv
    <2>3. c \in Conns /\ t \in Tokens /\ active_session = 0
      BY <2>2, MessageFacts DEF HotDeskInv, AnnouncedOnce, Alternates
    <2>4. client_addr = NoConn
      BY <2>3 DEF HotDeskInv, BoundIsKnown
    <2>5. Shown' = [Shown EXCEPT ![t] = "here"]
      BY <2>1, <2>3, ResolveBinds DEF Shown
    <2>6. Abstract!Sit(c, t)
      BY <2>1, <2>4, <2>5 DEF Abstract!Sit, Shown
    <2> QED
      BY <2>3, <2>6 DEF Abstract!DeskNext
  <1>2. CASE HandleDisconnected
    <2>1. client_addr' = NoConn /\ keys_down' = NoConn
      BY <1>2 DEF HandleDisconnected
    <2>2. Shown' = [t \in Tokens |-> IF Shown[t] = "here" THEN "away" ELSE Shown[t]]
      BY <1>2, DisconnectSuspends DEF Shown
    <2>3. CASE client_addr # NoConn
      BY <2>1, <2>2, <2>3 DEF Abstract!DeskNext, Abstract!Leave, Shown
    <2>4. CASE client_addr = NoConn
      <3>1. active_session = 0 /\ keys_down = NoConn
        BY <2>4 DEF HotDeskInv, BoundIsKnown
      <3>2. UNCHANGED vars
        BY <1>2, <3>1, RegistryFacts DEF HandleDisconnected
      <3>3. Shown' = Shown
        BY <3>2 DEF Shown, DeskSession, vars
      <3> QED
        BY <2>1, <2>4, <3>1, <3>3 DEF Abstract!deskVars, Shown
    <2> QED
      BY <2>3, <2>4
  <1>3. CASE HandleInput
    <2>1. client_addr # NoConn /\ keys_down' = client_addr /\ client_addr' = client_addr
      BY <1>3, InputFromBound DEF HandleInput
    <2>2. Shown' = Shown
      BY <1>3 DEF HandleInput, Shown, DeskSession, vars
    <2> QED
      BY <2>1, <2>2 DEF Abstract!DeskNext, Abstract!Type, Shown
  <1>4. CASE Housekeeping
    <2> DEFINE gone == { t \in Tokens : DeskSession(t) = "away" /\ DeskSession(t)' = "none" }
    <2>1. client_addr' = client_addr /\ keys_down' = keys_down
      BY <1>4 DEF Housekeeping, compVars
    <2>2. \A u \in Tokens : \/ DeskSession(u)' = DeskSession(u)
                            \/ DeskSession(u) = "away" /\ DeskSession(u)' = "none"
      BY <1>4, HousekeepingSpares DEF Housekeeping
    <2>3. /\ gone \in SUBSET { t \in Tokens : Shown[t] = "away" }
          /\ Shown' = [t \in Tokens |-> IF t \in gone THEN "none" ELSE Shown[t]]
      BY <2>2 DEF Shown
    <2> QED
      BY <2>1, <2>3 DEF Abstract!DeskNext, Abstract!Expire, Shown
  <1>5. CASE UNCHANGED <<vars, client_addr, keys_down>>
    <2>1. Shown' = Shown
      BY <1>5 DEF Shown, DeskSession, vars
    <2> QED
      BY <1>5, <2>1 DEF Abstract!deskVars, Shown
  <1> QED
    BY <1>1, <1>2, <1>3, <1>4, <1>5
    DEF HotDeskNext, Network, Compositor, Arrive, TakeClient, Announce, Greet, ServeEnds, Preempt,
        RelayInput, HandleRedirect, allVars, compVars

\* The network thread, the compositor thread and the channel between them
\* implement one desk: a client is bound only when nobody is, only the bound
\* client types, and only sessions nobody is at expire.
THEOREM OneDeskImplemented == HotDeskSpec => OneDesk
  <1>1. HotDeskInit => Abstract!DeskInit
    BY DeskStarts
  <1>2. HotDeskInv /\ [HotDeskNext]_allVars => [Abstract!DeskNext]_(Abstract!deskVars)
    BY DeskSteps
  <1> QED
    BY <1>1, <1>2, HotDeskInvariant, PTL DEF HotDeskSpec, OneDesk, Abstract!DeskSpec
=============================================================================
